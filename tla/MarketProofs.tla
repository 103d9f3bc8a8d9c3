---------------------------- MODULE MarketProofs ----------------------------
(***************************************************************************)
(* Proofs about Market, for any number of providers, administrators and    *)
(* buyers, any price lists, settings and adapters.                         *)
(*                                                                         *)
(* At most one provider is on, but for edits under way, and no order loses *)
(* its provider but one that raced the deletion.  The second rests on what *)
(* the requests know: whatever row a request is about to rent from, insert *)
(* or reopen on was there when the request read it (HeldWasThere), and the *)
(* orders counted before a deletion are told from those that came later    *)
(* (Joined).                                                               *)
(*                                                                         *)
(* The reseller bills no more than the buyer pays, and what is shown is    *)
(* what is bought: both rest on how the pure half is built.  The lemmas on *)
(* Catalog and Resellers say that a tier is a row of the list marked up    *)
(* (TierIsRow), that a row is one the reseller has (PricesAreListed), and  *)
(* that the cap a rental is told is the tier's price to within half a step *)
(* (RentalIsCapped), or for smscode to within the headroom of its second   *)
(* call (CodeRentIsCapped).  Covered carries what a buyer was shown, asked *)
(* for and agreed to from one step of its request to the next.             *)
(***************************************************************************)
EXTENDS Market, FiniteSetTheorems, WellFoundedInduction, TLAPS

(* What the two invariants need of the types: the rows and the requests of *)
(* administrators are functions, and orders a sequence.                    *)
RowType == row \in [Provider -> {"none", "off", "on", "deleted"}]
AdminType == admin \in [Admin -> AdminTask]
BuyerType == DOMAIN buyer = Buyer
OrderType == \E S : order \in Seq(S)
Types == RowType /\ AdminType /\ BuyerType /\ OrderType

(* What a buyer rents from, and every order is bought from, is a provider; *)
(* what it reopens is an order of the provider it looked up.               *)
Reopens(r) ==
  r.step \in {"settings", "fetch", "keep", "price", "reopen"} /\ r.ask.goal = "reopen"
Dealing(r) ==
  /\ r.step \in {"rent", "create"} => r.chain \subseteq Provider
  /\ r.step = "create" => r.provider \in r.chain
  /\ r.step = "insert" => r.provider \in Provider
  /\ r.step = "adapter" => r.order \in DOMAIN order
  /\ r.step = "reopen" => r.ask.goal = "reopen"
  /\ Reopens(r) => r.ask.order \in DOMAIN order /\ r.ask.provider = order[r.ask.order].provider
Sellers ==
  /\ \A b \in Buyer : Dealing(buyer[b])
  /\ \A i \in DOMAIN order : order[i].provider \in Provider /\ "raced" \in DOMAIN order[i]

(* A request holds no deleted row but one that was deleted in its hands.   *)
HeldWasThere ==
  \A b \in Buyer : \A p \in Held(buyer[b]) : row[p] = "deleted" => <<b, p>> \in torn

(* An order that waits raced the deletion, if its row is deleted or about  *)
(* to be: whoever deletes it has counted the orders that did not.          *)
Joined(o) ==
  /\ row[o.provider] = "deleted" => o.raced
  /\ \A a \in Admin : AdminAt(a, "delete") /\ admin[a].provider = o.provider => o.raced
Waiters == \A i \in DOMAIN order : order[i].status = "waiting" => Joined(order[i])

Inv == Types /\ Sellers /\ HeldWasThere /\ AtMostOneEnabled /\ Waiters

-----------------------------------------------------------------------------
(* The initial states.                                                     *)
LEMMA InitInv == Init => Inv
<1> SUFFICES ASSUME Init PROVE Inv
  OBVIOUS
<1>1. Types
  BY DEF Init, Types, RowType, AdminType, BuyerType, OrderType, Idle, AdminTask
<1>2. Sellers
  BY DEF Init, Sellers, Dealing, Reopens, Idle
<1>3. HeldWasThere
  BY DEF Init, HeldWasThere, Held, Idle
<1>4. AtMostOneEnabled /\ Waiters
  BY DEF Init, AtMostOneEnabled, Waiters, On
<1> QED
  BY <1>1, <1>2, <1>3, <1>4 DEF Inv

(* No buyer moves and no row is deleted; whoever starts to delete a row    *)
(* has counted its orders.                                                 *)
LEMMA Undisturbed ==
  ASSUME Inv, buyer' = buyer, order' = order, torn' = torn,
         \A p \in Provider : row'[p] = "deleted" => row[p] = "deleted",
         \A a \in Admin : AdminAt(a, "delete")' =>
           \/ AdminAt(a, "delete") /\ admin'[a].provider = admin[a].provider
           \/ Waiting(admin'[a].provider) = {}
  PROVE  Sellers' /\ HeldWasThere' /\ Waiters'
<1>1. Sellers'
  BY DEF Inv, Sellers, Dealing, Reopens
<1>2. HeldWasThere'
  <2> SUFFICES ASSUME NEW b \in Buyer, NEW p \in Held(buyer[b]), row'[p] = "deleted"
               PROVE  <<b, p>> \in torn
    BY DEF HeldWasThere, Held
  <2>1. p \in Provider
    BY DEF Held
  <2> QED
    BY <2>1 DEF Inv, HeldWasThere
<1>3. Waiters'
  <2> SUFFICES ASSUME NEW i \in DOMAIN order, order[i].status = "waiting"
               PROVE  Joined(order[i])'
    BY DEF Waiters
  <2>1. order[i].provider \in Provider /\ Joined(order[i])
    BY DEF Inv, Sellers, Waiters
  <2>2. \A a \in Admin : admin'[a].provider = order[i].provider => Waiting(admin'[a].provider) # {}
    BY DEF Waiting
  <2> QED
    BY <2>1, <2>2 DEF Joined, AdminAt
<1> QED
  BY <1>1, <1>2, <1>3

(* A request of an administrator that starts, or goes on without having    *)
(* touched the rows.                                                       *)
LEMMA AdminMoves ==
  ASSUME Inv, NEW a \in Admin, NEW r \in AdminTask,
         row' = row, order' = order, buyer' = buyer, torn' = torn, AdminDoes(a, r), cut' = cut,
         AdminAt(a, "disable") => FALSE,
         r.step = "delete" => Waiting(r.provider) = {}
  PROVE  Inv'
<1>1. Types'
  BY DEF Inv, Types, RowType, AdminType, BuyerType, OrderType, AdminDoes
<1>2. AtMostOneEnabled'
  BY DEF Inv, Types, AdminType, AtMostOneEnabled, On, AdminAt, AdminDoes
<1>3. \A d \in Admin : AdminAt(d, "delete")' =>
        \/ AdminAt(d, "delete") /\ admin'[d].provider = admin[d].provider
        \/ Waiting(admin'[d].provider) = {}
  BY DEF Inv, Types, AdminType, AdminAt, AdminDoes
<1>4. Sellers' /\ HeldWasThere' /\ Waiters'
  BY <1>3, Undisturbed
<1> QED
  BY <1>1, <1>2, <1>4 DEF Inv

(* One row is turned on, and the request that did so has yet to turn the   *)
(* others off; or one that nobody deletes is turned off.                   *)
LEMMA RowIsSaved ==
  ASSUME Inv, NEW a \in Admin, NEW p \in Provider, NEW s \in {"on", "off"}, NEW r \in AdminTask,
         row' = [row EXCEPT ![p] = s], row[p] # "deleted", AdminDoes(a, r),
         s = "on" => r.step = "disable" /\ r.provider = p,
         ~AdminAt(a, "disable"), r.step # "delete",
         order' = order, buyer' = buyer, torn' = torn, cut' = cut
  PROVE  Inv'
<1>1. Types'
  BY DEF Inv, Types, RowType, AdminType, BuyerType, OrderType, AdminDoes
<1>2. AtMostOneEnabled'
  BY DEF Inv, Types, RowType, AdminType, AtMostOneEnabled, On, AdminAt, AdminDoes
<1>3. \A d \in Admin : AdminAt(d, "delete")' =>
        AdminAt(d, "delete") /\ admin'[d].provider = admin[d].provider
  BY DEF Inv, Types, AdminType, AdminAt, AdminDoes
<1>4. \A q \in Provider : row'[q] = "deleted" => row[q] = "deleted"
  BY DEF Inv, Types, RowType
<1>5. Sellers' /\ HeldWasThere' /\ Waiters'
  BY <1>3, <1>4, Undisturbed
<1> QED
  BY <1>1, <1>2, <1>5 DEF Inv

(* A buyer moves and changes no order: it holds on to rows it has read, or *)
(* reads rows that are there.                                              *)
LEMMA BuyerMoves ==
  ASSUME Inv, NEW b \in Buyer, NEW r, BuyerDoes(b, r), Dealing(r),
         order' = order, UNCHANGED <<row, admin, cut>>,
         \/ torn' = torn /\ Held(r) \subseteq Held(buyer[b])
         \/ torn' = {t \in torn : t[1] # b} /\ \A p \in Held(r) : row[p] # "deleted"
  PROVE  Inv'
<1>1. /\ BuyerType' /\ buyer'[b] = r
      /\ \A d \in Buyer : d # b => buyer'[d] = buyer[d]
  BY DEF Inv, Types, BuyerType, BuyerDoes
<1>2. Types' /\ AtMostOneEnabled' /\ Waiters'
  BY <1>1 DEF Inv, Types, RowType, AdminType, OrderType, AtMostOneEnabled, Waiters, Joined, On,
              AdminAt
<1>3. Sellers'
  BY <1>1 DEF Inv, Sellers, Dealing, Reopens
<1>4. HeldWasThere'
  <2> SUFFICES ASSUME NEW d \in Buyer, NEW p \in Held(buyer'[d]), row[p] = "deleted"
               PROVE  <<d, p>> \in torn'
    BY DEF HeldWasThere, Held
  <2>1. CASE d = b
    BY <2>1, <1>1 DEF Inv, HeldWasThere
  <2>2. CASE d # b
    <3>1. <<d, p>> \in torn
      BY <2>2, <1>1 DEF Inv, HeldWasThere
    <3> QED
      BY <3>1, <2>2
  <2> QED
    BY <2>1, <2>2
<1> QED
  BY <1>2, <1>3, <1>4 DEF Inv

(* Orders are made or changed by requests that then hold no row: those     *)
(* that come to wait are Joined, the others stay as they were.             *)
LEMMA OrdersMove ==
  ASSUME Inv, UNCHANGED <<row, admin, cut, torn>>, BuyerType', OrderType',
         \A d \in Buyer : buyer'[d] = buyer[d] \/ (Held(buyer'[d]) = {} /\ Dealing(buyer[d])'),
         DOMAIN order \subseteq DOMAIN order',
         \A i \in DOMAIN order : order'[i].provider = order[i].provider,
         \A i \in DOMAIN order' : order'[i].provider \in Provider /\ "raced" \in DOMAIN order'[i],
         \A i \in DOMAIN order' : order'[i].status = "waiting" =>
           \/ i \in DOMAIN order /\ order[i].status = "waiting" /\ order'[i].raced = order[i].raced
           \/ Joined(order'[i])
  PROVE  Inv'
<1>1. Types' /\ AtMostOneEnabled'
  BY DEF Inv, Types, RowType, AdminType, AtMostOneEnabled, On, AdminAt
<1>2. \A d \in Buyer : Dealing(buyer[d])'
  <2> TAKE d \in Buyer
  <2>1. CASE buyer'[d] = buyer[d]
    BY <2>1 DEF Inv, Sellers, Dealing, Reopens
  <2> QED
    BY <2>1
<1>3. Sellers'
  BY <1>2 DEF Sellers
<1>4. HeldWasThere'
  BY DEF Inv, HeldWasThere, Held
<1>5. Waiters'
  <2> SUFFICES ASSUME NEW i \in DOMAIN order', order'[i].status = "waiting"
               PROVE  Joined(order'[i])
    BY DEF Waiters, Joined, AdminAt
  <2>1. CASE i \in DOMAIN order /\ order[i].status = "waiting" /\ order'[i].raced = order[i].raced
    BY <2>1 DEF Inv, Waiters, Joined
  <2> QED
    BY <2>1
<1> QED
  BY <1>1, <1>3, <1>4, <1>5 DEF Inv

(* An administrator starts something.                                      *)
LEMMA AdminStartsInv ==
  ASSUME Inv, NEW a \in Admin, AdminStarts(a)
  PROVE  Inv'
<1>1. CASE \E p \in Provider, on \in BOOLEAN : CreateProvider(a, p, on)
  <2>1. PICK p \in Provider, on \in BOOLEAN : CreateProvider(a, p, on)
    BY <1>1
  <2> DEFINE r == IF on THEN [step |-> "disable", provider |-> p] ELSE Idle
             s == IF on THEN "on" ELSE "off"
  <2>2. r \in AdminTask /\ s \in {"on", "off"} /\ r.step # "delete"
        /\ (s = "on" => r.step = "disable" /\ r.provider = p)
    BY DEF AdminTask, Idle
  <2>3. /\ row' = [row EXCEPT ![p] = s] /\ row[p] # "deleted" /\ AdminDoes(a, r)
        /\ ~AdminAt(a, "disable") /\ order' = order /\ buyer' = buyer /\ torn' = torn /\ cut' = cut
    BY <2>1 DEF CreateProvider, AdminAt, Idle
  <2> HIDE DEF r, s
  <2> QED
    BY <2>2, <2>3, RowIsSaved
<1>2. CASE \E p \in Provider, want \in {"on", "off", "same"} : UpdateProvider(a, p, want)
  <2>1. PICK p \in Provider, want \in {"on", "off", "same"} : UpdateProvider(a, p, want)
    BY <1>2
  <2> DEFINE r == [step |-> "save", provider |-> p, read |-> row[p],
                   want |-> IF want = "same" THEN row[p] ELSE want]
  <2>2. r \in AdminTask /\ r.step # "delete"
    BY <2>1 DEF AdminTask, UpdateProvider
  <2>3. /\ row' = row /\ order' = order /\ buyer' = buyer /\ torn' = torn /\ cut' = cut
        /\ AdminDoes(a, r) /\ ~AdminAt(a, "disable")
    BY <2>1 DEF UpdateProvider, AdminAt, Idle
  <2> HIDE DEF r
  <2> QED
    BY <2>2, <2>3, AdminMoves
<1>3. CASE \E p \in Provider : DeleteProvider(a, p)
  <2>1. PICK p \in Provider : DeleteProvider(a, p)
    BY <1>3
  <2> DEFINE r == [step |-> "delete", provider |-> p]
  <2>2. r \in AdminTask /\ r.provider = p
    BY DEF AdminTask
  <2>3. /\ row' = row /\ order' = order /\ buyer' = buyer /\ torn' = torn /\ cut' = cut
        /\ AdminDoes(a, r) /\ ~AdminAt(a, "disable") /\ Waiting(p) = {}
    BY <2>1 DEF DeleteProvider, AdminAt, Idle
  <2> HIDE DEF r
  <2> QED
    BY <2>2, <2>3, AdminMoves
<1>4. CASE \E s \in Setting \ {setting} : UpdateSettings(a, s)
  <2> DEFINE r == [step |-> "reset"]
  <2>1. r \in AdminTask /\ r.step # "delete"
    BY DEF AdminTask
  <2>2. /\ row' = row /\ order' = order /\ buyer' = buyer /\ torn' = torn /\ cut' = cut
        /\ AdminDoes(a, r) /\ ~AdminAt(a, "disable")
    BY <1>4 DEF UpdateSettings, AdminAt, Idle
  <2> HIDE DEF r
  <2> QED
    BY <2>1, <2>2, AdminMoves
<1> QED
  BY <1>1, <1>2, <1>3, <1>4 DEF AdminStarts

(* The save of a row: nothing is changed, or the row is turned on or off.  *)
LEMMA SaveProviderInv ==
  ASSUME Inv, NEW a \in Admin, SaveProvider(a)
  PROVE  Inv'
<1> DEFINE p == admin[a].provider
           saved == row[p] # "deleted"
           r == IF saved /\ admin[a].want = "on" THEN [step |-> "disable", provider |-> p] ELSE Idle
<1>1. p \in Provider /\ admin[a].want \in {"on", "off"}
  BY DEF SaveProvider, AdminAt, Inv, Types, AdminType, AdminTask
<1>2. r \in AdminTask /\ r.step # "delete"
  BY <1>1 DEF AdminTask, Idle
<1>3. /\ order' = order /\ buyer' = buyer /\ torn' = torn /\ cut' = cut /\ AdminDoes(a, r)
      /\ ~AdminAt(a, "disable")
  BY DEF SaveProvider, AdminAt
<1>4. CASE saved /\ admin[a].want # admin[a].read
  <2>1. row' = [row EXCEPT ![p] = admin[a].want]
    BY <1>4 DEF SaveProvider
  <2>2. admin[a].want = "on" => r.step = "disable" /\ r.provider = p
    BY <1>4
  <2>3. row[p] # "deleted"
    BY <1>4
  <2> HIDE DEF p, r, saved
  <2> QED
    BY <1>1, <1>2, <1>3, <2>1, <2>2, <2>3, RowIsSaved
<1>5. CASE ~(saved /\ admin[a].want # admin[a].read)
  <2>1. row' = row
    BY <1>5, <1>1 DEF SaveProvider, Inv, Types, RowType
  <2> HIDE DEF p, r, saved
  <2> QED
    BY <1>2, <1>3, <2>1, AdminMoves
<1> QED
  BY <1>4, <1>5

(* The others are turned off: then one is on at most.                      *)
LEMMA DisableOthersInv ==
  ASSUME Inv, NEW a \in Admin, DisableOthers(a)
  PROVE  Inv'
<1>1. Types'
  <2>1. RowType'
    BY DEF DisableOthers, Inv, Types, RowType
  <2>2. AdminType'
    BY DEF DisableOthers, AdminDoes, Inv, Types, AdminType, AdminTask, Idle
  <2> QED
    BY <2>1, <2>2 DEF DisableOthers, Inv, Types, BuyerType, OrderType
<1>2. AtMostOneEnabled'
  BY DEF DisableOthers, AtMostOneEnabled, On
<1>3. \A d \in Admin : AdminAt(d, "delete")' =>
        AdminAt(d, "delete") /\ admin'[d].provider = admin[d].provider
  BY DEF DisableOthers, AdminDoes, Inv, Types, AdminType, AdminAt, Idle
<1>4. \A q \in Provider : row'[q] = "deleted" => row[q] = "deleted"
  BY DEF DisableOthers
<1>5. buyer' = buyer /\ order' = order /\ torn' = torn
  BY DEF DisableOthers
<1>6. Sellers' /\ HeldWasThere' /\ Waiters'
  BY <1>3, <1>4, <1>5, Undisturbed
<1> QED
  BY <1>1, <1>2, <1>6 DEF Inv

(* A row is deleted: of its orders only those wait that raced, and who has *)
(* it in its hands is noted.                                               *)
LEMMA DeleteRowInv ==
  ASSUME Inv, NEW a \in Admin, DeleteRow(a)
  PROVE  Inv'
<1> DEFINE p == admin[a].provider
<1>1. /\ p \in Provider /\ AdminAt(a, "delete")
      /\ row' = [row EXCEPT ![p] = "deleted"]
      /\ torn' = torn \cup {<<b, p>> : b \in {d \in Buyer : p \in Held(buyer[d])}}
      /\ AdminDoes(a, Idle) /\ UNCHANGED <<buyer, order, cut>>
  BY DEF DeleteRow, AdminAt, Inv, Types, AdminType, AdminTask
<1> HIDE DEF p
<1>2. Types'
  <2>1. RowType'
    BY <1>1 DEF Inv, Types, RowType
  <2>2. AdminType'
    BY <1>1 DEF AdminDoes, Inv, Types, AdminType, AdminTask, Idle
  <2> QED
    BY <1>1, <2>1, <2>2 DEF Inv, Types, BuyerType, OrderType
<1>3. AtMostOneEnabled'
  BY <1>1 DEF AdminDoes, Inv, Types, RowType, AdminType, AtMostOneEnabled, On, AdminAt, Idle
<1>4. Sellers'
  BY <1>1 DEF Inv, Sellers, Dealing, Reopens
<1>5. HeldWasThere'
  <2> SUFFICES ASSUME NEW b \in Buyer, NEW q \in Held(buyer[b]), row'[q] = "deleted"
               PROVE  <<b, q>> \in torn'
    BY <1>1 DEF HeldWasThere, Held
  <2>1. CASE q = p
    BY <1>1, <2>1
  <2>2. CASE q # p
    <3>1. row[q] = "deleted"
      BY <1>1, <2>2 DEF Held, Inv, Types, RowType
    <3> QED
      BY <1>1, <3>1 DEF Inv, HeldWasThere
  <2> QED
    BY <2>1, <2>2
<1>6. Waiters'
  <2> SUFFICES ASSUME NEW i \in DOMAIN order, order[i].status = "waiting"
               PROVE  Joined(order[i])'
    BY <1>1 DEF Waiters
  <2>1. Joined(order[i])
    BY DEF Inv, Waiters
  <2>2. row'[order[i].provider] = "deleted" => order[i].raced
    BY <1>1, <2>1 DEF Joined, Inv, Types, RowType, p
  <2>3. \A d \in Admin : AdminAt(d, "delete")' =>
          AdminAt(d, "delete") /\ admin'[d].provider = admin[d].provider
    BY <1>1 DEF AdminDoes, Inv, Types, AdminType, AdminAt, Idle
  <2> QED
    BY <1>1, <2>1, <2>2, <2>3 DEF Joined
<1> QED
  BY <1>2, <1>3, <1>4, <1>5, <1>6 DEF Inv

(* A request that dies is excused from what it owed.                       *)
LEMMA DieInv ==
  ASSUME Inv, NEW a \in Admin, Die(a)
  PROVE  Inv'
<1>1. Types'
  BY DEF Die, AdminDoes, Inv, Types, RowType, AdminType, BuyerType, OrderType, AdminTask, Idle
<1>2. AtMostOneEnabled'
  BY DEF Die, AtMostOneEnabled
<1>3. \A d \in Admin : AdminAt(d, "delete")' =>
        AdminAt(d, "delete") /\ admin'[d].provider = admin[d].provider
  BY DEF Die, AdminDoes, Inv, Types, AdminType, AdminAt, Idle
<1>4. row' = row /\ buyer' = buyer /\ order' = order /\ torn' = torn
  BY DEF Die
<1>5. Sellers' /\ HeldWasThere' /\ Waiters'
  BY <1>3, <1>4, Undisturbed
<1> QED
  BY <1>1, <1>2, <1>5 DEF Inv

(* An administrator's request goes on.                                     *)
LEMMA AdminGoesOnInv ==
  ASSUME Inv, NEW a \in Admin, AdminGoesOn(a), setting \in Setting
  PROVE  Inv'
<1>1. CASE ResetCache(a)
  <2> DEFINE r == [step |-> "fetch"]
  <2>1. r \in AdminTask /\ r.step # "delete"
    BY DEF AdminTask
  <2>2. /\ row' = row /\ order' = order /\ buyer' = buyer /\ torn' = torn /\ cut' = cut
        /\ AdminDoes(a, r) /\ ~AdminAt(a, "disable")
    BY <1>1 DEF ResetCache, AdminAt
  <2> HIDE DEF r
  <2> QED
    BY <2>1, <2>2, AdminMoves
<1>2. CASE AdminFetch(a)
  <2> DEFINE r == [step |-> "keep", read |-> setting]
  <2>1. r \in AdminTask /\ r.step # "delete"
    BY DEF AdminTask
  <2>2. /\ row' = row /\ order' = order /\ buyer' = buyer /\ torn' = torn /\ cut' = cut
        /\ AdminDoes(a, r) /\ ~AdminAt(a, "disable")
    BY <1>2 DEF AdminFetch, AdminAt
  <2> HIDE DEF r
  <2> QED
    BY <2>1, <2>2, AdminMoves
<1>3. CASE AdminKeep(a)
  <2>1. Idle \in AdminTask /\ Idle.step # "delete"
    BY DEF AdminTask, Idle
  <2>2. /\ row' = row /\ order' = order /\ buyer' = buyer /\ torn' = torn /\ cut' = cut
        /\ AdminDoes(a, Idle) /\ ~AdminAt(a, "disable")
    BY <1>3 DEF AdminKeep, AdminAt
  <2> QED
    BY <2>1, <2>2, AdminMoves
<1> QED
  BY <1>1, <1>2, <1>3, SaveProviderInv, DisableOthersInv, DeleteRowInv DEF AdminGoesOn

-----------------------------------------------------------------------------
(* What buyers do.                                                         *)

(* A request that starts, or that goes on about a price.                   *)
LEMMA StartsInv ==
  ASSUME Inv, NEW b \in Buyer, NEW c, OpenQuote(b, c) \/ BuyUnseen(b, c)
  PROVE  Inv'
<1>1. PICK r : /\ BuyerDoes(b, r) /\ r.step = "settings" /\ r.ask.goal \in {"quote", "order"}
  BY DEF OpenQuote, BuyUnseen, Orders
<1>2. Dealing(r) /\ Held(r) = {}
  BY <1>1 DEF Dealing, Reopens, Held
<1>3. order' = order /\ UNCHANGED <<row, admin, cut, torn>>
  BY DEF OpenQuote, BuyUnseen, Reads
<1> QED
  BY <1>1, <1>2, <1>3, BuyerMoves

LEMMA BuysInv ==
  ASSUME Inv, NEW b \in Buyer, Buy(b) \/ BuyByApi(b)
  PROVE  Inv'
<1>1. PICK r : /\ BuyerDoes(b, r) /\ r.step = "settings" /\ r.ask.goal = "order"
  <2>1. CASE Buy(b)
    BY <2>1 DEF Buy, Orders
  <2>2. CASE BuyByApi(b)
    BY <2>2 DEF BuyByApi, Orders
  <2> QED
    BY <2>1, <2>2
<1>2. Dealing(r) /\ Held(r) = {}
  BY <1>1 DEF Dealing, Reopens, Held
<1>3. order' = order /\ UNCHANGED <<row, admin, cut, torn>>
  BY DEF Buy, BuyByApi, Reads
<1> QED
  BY <1>1, <1>2, <1>3, BuyerMoves

(* A request that goes on for what it asked.                               *)
LEMMA SameAskInv ==
  ASSUME Inv, NEW b \in Buyer,
         Hit(b) \/ Miss(b) \/ Fetch(b) \/ FetchFails(b) \/ Keep(b) \/ PriceReopening(b)
  PROVE  Inv'
<1>1. PICK r : /\ BuyerDoes(b, r) /\ r.ask = buyer[b].ask
               /\ r.step \in {"fetch", "keep", "price", "reopen"}
               /\ r.step = "reopen" => r.ask.goal = "reopen"
  <2>1. CASE Hit(b) \/ FetchFails(b) \/ Keep(b)
    BY <2>1 DEF Hit, FetchFails, Keep, Priced
  <2>2. CASE Miss(b) \/ Fetch(b) \/ PriceReopening(b)
    BY <2>2 DEF Miss, Fetch, PriceReopening, Pricing
  <2> QED
    BY <2>1, <2>2
<1>2. buyer[b].step \in {"settings", "fetch", "keep", "price"}
  BY DEF Hit, Miss, Fetch, FetchFails, Keep, PriceReopening, Pricing, BuyerAt
<1>3. Dealing(buyer[b])
  BY DEF Inv, Sellers
<1>4. Dealing(r) /\ Held(r) \subseteq Held(buyer[b])
  BY <1>1, <1>2, <1>3 DEF Dealing, Reopens, Held
<1>5. order' = order /\ UNCHANGED <<row, admin, cut, torn>>
  BY DEF Hit, Miss, Fetch, FetchFails, Keep, PriceReopening, Reads
<1> QED
  BY <1>1, <1>4, <1>5, BuyerMoves

(* A request that has no row in its hands.                                 *)
LEMMA EmptyHandedInv ==
  ASSUME Inv, NEW b \in Buyer, ShowQuote(b) \/ ShowProduct(b) \/ PriceOrder(b) \/ Refuse(b)
  PROVE  Inv'
<1>1. PICK r : BuyerDoes(b, r) /\ r.step \in {"page", "chain", "idle"}
  <2>1. CASE ShowQuote(b)
    BY <2>1 DEF ShowQuote, Shows
  <2>2. CASE ShowProduct(b)
    BY <2>2 DEF ShowProduct, Shows
  <2>3. CASE PriceOrder(b)
    BY <2>3 DEF PriceOrder
  <2>4. CASE Refuse(b)
    BY <2>4 DEF Refuse, Idle
  <2> QED
    BY <2>1, <2>2, <2>3, <2>4
<1>2. Dealing(r) /\ Held(r) = {}
  BY <1>1 DEF Dealing, Reopens, Held
<1>3. order' = order /\ UNCHANGED <<row, admin, cut, torn>>
  BY DEF ShowQuote, ShowProduct, PriceOrder, Refuse, Reads
<1> QED
  BY <1>1, <1>2, <1>3, BuyerMoves

(* The chain is of rows that are on, the adapter of a row that is there.   *)
LEMMA ReadsRowsInv ==
  ASSUME Inv, NEW b \in Buyer, ResolveChain(b) \/ FindAdapter(b)
  PROVE  Inv'
<1>1. \A p \in On : p \in Provider /\ row[p] # "deleted"
  BY DEF On
<1>2. \E r : BuyerDoes(b, r) /\ Dealing(r) /\ \A p \in Held(r) : row[p] # "deleted"
  <2>1. CASE ResolveChain(b)
    <3>1. PICK r : BuyerDoes(b, r) /\ (r.step = "idle" \/ (r.step = "rent" /\ r.chain = On))
      BY <2>1 DEF ResolveChain, Idle
    <3>2. Dealing(r) /\ \A p \in Held(r) : row[p] # "deleted"
      BY <1>1, <3>1 DEF Dealing, Reopens, Held
    <3> QED
      BY <3>1, <3>2
  <2>2. CASE FindAdapter(b)
    <3>1. buyer[b].order \in DOMAIN order
      BY <2>2 DEF FindAdapter, BuyerAt, Inv, Sellers, Dealing
    <3>2. PICK r : /\ BuyerDoes(b, r) /\ r.step = "settings" /\ r.ask.goal = "reopen"
                   /\ r.ask.order = buyer[b].order
                   /\ r.ask.provider = order[r.ask.order].provider
                   /\ row[r.ask.provider] # "deleted"
      BY <2>2 DEF FindAdapter
    <3>3. Dealing(r) /\ \A p \in Held(r) : row[p] # "deleted"
      BY <3>1, <3>2 DEF Dealing, Reopens, Held
    <3> QED
      BY <3>2, <3>3
  <2> QED
    BY <2>1, <2>2
<1>3. order' = order /\ UNCHANGED <<row, admin, cut>> /\ torn' = {t \in torn : t[1] # b}
  BY DEF ResolveChain, FindAdapter, ReadsRows
<1> QED
  BY <1>2, <1>3, BuyerMoves

(* A rental, tried with one member of the chain after the other.           *)
LEMMA RentsInv ==
  ASSUME Inv, NEW b \in Buyer, Rent(b) \/ ChooseProduct(b) \/ OrderProduct(b) \/ RentFails(b)
  PROVE  Inv'
<1>1. Dealing(buyer[b]) /\ buyer[b].step \in {"rent", "create"}
  BY DEF Inv, Sellers, Rent, ChooseProduct, OrderProduct, RentFails, BuyerAt
<1>2. buyer[b].chain \subseteq Provider /\ Held(buyer[b]) = buyer[b].chain
  BY <1>1 DEF Dealing, Held
<1>3. PICK r : /\ BuyerDoes(b, r)
               /\ \/ r.step = "idle"
                  \/ r.step = "rent" /\ r.chain \subseteq buyer[b].chain
                  \/ r.step = "create" /\ r.chain = buyer[b].chain /\ r.provider \in r.chain
                  \/ r.step = "insert" /\ r.provider \in buyer[b].chain
  <2>1. CASE Rent(b)
    BY <2>1 DEF Rent, Rented
  <2>2. CASE ChooseProduct(b)
    BY <2>2 DEF ChooseProduct
  <2>3. CASE OrderProduct(b)
    BY <1>1, <2>3 DEF OrderProduct, Rented, BuyerAt, Dealing
  <2>4. CASE RentFails(b)
    BY <2>4 DEF RentFails, Idle
  <2> QED
    BY <2>1, <2>2, <2>3, <2>4
<1>4. Dealing(r) /\ Held(r) \subseteq Held(buyer[b])
  BY <1>2, <1>3 DEF Dealing, Reopens, Held
<1>5. order' = order /\ UNCHANGED <<row, admin, cut, torn>>
  BY DEF Rent, ChooseProduct, OrderProduct, RentFails, Reads
<1> QED
  BY <1>3, <1>4, <1>5, BuyerMoves

(* An order is made: it raced the deletion if there is one.                *)
LEMMA InsertOrderInv ==
  ASSUME Inv, NEW b \in Buyer, InsertOrder(b)
  PROVE  Inv'
<1> DEFINE o == [provider |-> buyer[b].provider, country |-> buyer[b].sale.country,
       status |-> "waiting", reopening |-> FALSE, price |-> buyer[b].sale.price,
       billed |-> buyer[b].billed, raced |-> Races(b, buyer[b].provider)]
           n == Len(order)
<1>1. order' = Append(order, o)
  BY DEF InsertOrder
<1>2. PICK S : order \in Seq(S)
  BY DEF Inv, Types, OrderType
<1>3. order \in Seq(S \cup {o})
  BY <1>2
<1>4. /\ order' \in Seq(S \cup {o}) /\ n \in Nat /\ DOMAIN order = 1..n /\ DOMAIN order' = 1..(n + 1)
      /\ \A i \in 1..n : order'[i] = order[i]
      /\ order'[n + 1] = o
  <2> HIDE DEF o
  <2> QED
    BY <1>1, <1>3
<1>5. /\ UNCHANGED <<row, admin, cut, torn>> /\ buyer' = [buyer EXCEPT ![b] = Idle]
      /\ buyer[b].step = "insert"
  BY DEF InsertOrder, Reads, BuyerDoes, BuyerAt
<1>6. buyer[b].provider \in Provider /\ buyer[b].provider \in Held(buyer[b])
  BY <1>5 DEF Inv, Sellers, Dealing, Held
<1>7. Joined(o)
  BY <1>6 DEF Joined, Races, Inv, HeldWasThere
<1> HIDE DEF o
<1>8. \A i \in 1..(n + 1) : i = n + 1 \/ i \in 1..n
  BY <1>4
<1>9. o.provider \in Provider /\ "raced" \in DOMAIN o
  BY <1>6 DEF o
<1>10. \A d \in Buyer : buyer'[d] = buyer[d] \/ (Held(buyer'[d]) = {} /\ Dealing(buyer[d])')
  BY <1>5 DEF Inv, Types, BuyerType, Held, Dealing, Reopens, Idle
<1>11. BuyerType' /\ OrderType'
  BY <1>4, <1>5 DEF Inv, Types, BuyerType, OrderType
<1>12. \A i \in DOMAIN order' : order'[i].provider \in Provider /\ "raced" \in DOMAIN order'[i]
  BY <1>4, <1>8, <1>9 DEF Inv, Sellers
<1>13. \A i \in DOMAIN order' : order'[i].status = "waiting" =>
         \/ i \in DOMAIN order /\ order[i].status = "waiting" /\ order'[i].raced = order[i].raced
         \/ Joined(order'[i])
  BY <1>4, <1>7, <1>8
<1>14. DOMAIN order \subseteq DOMAIN order'
       /\ \A i \in DOMAIN order : order'[i].provider = order[i].provider
  BY <1>4
<1> QED
  BY <1>5, <1>10, <1>11, <1>12, <1>13, <1>14, OrdersMove

(* One order is changed, and stays its provider's.                         *)
LEMMA OneOrderMoves ==
  ASSUME Inv, NEW i \in DOMAIN order, NEW o, order' = [order EXCEPT ![i] = o],
         o.provider = order[i].provider, DOMAIN o = DOMAIN order[i],
         o.status = "waiting" =>
           (order[i].status = "waiting" /\ o.raced = order[i].raced) \/ Joined(o),
         UNCHANGED <<row, admin, cut, torn>>,
         \/ buyer' = buyer
         \/ \E b \in Buyer : \E r :
              /\ BuyerDoes(b, r) /\ r.step \in {"idle", "adapter"}
              /\ r.step = "adapter" => r.order = i
  PROVE  Inv'
<1>1. PICK S : order \in Seq(S)
  BY DEF Inv, Types, OrderType
<1>2. order' \in Seq(S \cup {o}) /\ DOMAIN order' = DOMAIN order /\ order'[i] = o
      /\ \A j \in DOMAIN order : j # i => order'[j] = order[j]
  BY <1>1
<1>3. \A d \in Buyer : buyer'[d] = buyer[d] \/ (Held(buyer'[d]) = {} /\ Dealing(buyer[d])')
  <2> TAKE d \in Buyer
  <2>1. CASE buyer'[d] # buyer[d]
    <3>1. buyer'[d].step \in {"idle", "adapter"} /\ (buyer'[d].step = "adapter" => buyer'[d].order = i)
      BY <2>1 DEF BuyerDoes, Inv, Types, BuyerType
    <3> QED
      BY <1>2, <3>1 DEF Held, Dealing, Reopens
  <2> QED
    BY <2>1
<1>4. BuyerType' /\ OrderType'
  BY <1>2 DEF Inv, Types, BuyerType, OrderType, BuyerDoes
<1>5. \A j \in DOMAIN order : order'[j].provider = order[j].provider /\ order'[j].provider \in Provider
                           /\ "raced" \in DOMAIN order'[j]
  BY <1>2 DEF Inv, Sellers
<1>6. \A j \in DOMAIN order' : order'[j].status = "waiting" =>
        \/ j \in DOMAIN order /\ order[j].status = "waiting" /\ order'[j].raced = order[j].raced
        \/ Joined(order'[j])
  BY <1>2
<1> QED
  BY <1>2, <1>3, <1>4, <1>5, <1>6, OrdersMove

(* A reactivation begins, ends well or badly; an order closes.             *)
LEMMA ReactivateInv ==
  ASSUME Inv, NEW b \in Buyer, NEW i \in DOMAIN order, Reactivate(b, i)
  PROVE  Inv'
<1> DEFINE o == [order[i] EXCEPT !.reopening = TRUE]
           r == [step |-> "adapter", order |-> i]
<1>1. order' = [order EXCEPT ![i] = o] /\ BuyerDoes(b, r) /\ UNCHANGED <<row, admin, cut, torn>>
      /\ order[i].status = "completed"
  BY DEF Reactivate, Reads
<1>2. /\ o.provider = order[i].provider /\ o.status = order[i].status /\ DOMAIN o = DOMAIN order[i]
      /\ r.step = "adapter" /\ r.order = i
  OBVIOUS
<1> HIDE DEF o, r
<1> QED
  BY <1>1, <1>2, OneOrderMoves

LEMMA RefuseReopeningInv ==
  ASSUME Inv, NEW b \in Buyer, RefuseReopening(b)
  PROVE  Inv'
<1>1. Dealing(buyer[b])
  BY DEF Inv, Sellers
<1>2. PICK i \in DOMAIN order : order' = [order EXCEPT ![i].reopening = FALSE]
  BY <1>1 DEF RefuseReopening, BuyerAt, Pricing, Dealing, Reopens
<1> DEFINE o == [order[i] EXCEPT !.reopening = FALSE]
<1>3. order' = [order EXCEPT ![i] = o] /\ BuyerDoes(b, Idle) /\ UNCHANGED <<row, admin, cut, torn>>
  BY <1>2 DEF RefuseReopening, Reads
<1>4. /\ o.provider = order[i].provider /\ o.status = order[i].status /\ o.raced = order[i].raced
      /\ DOMAIN o = DOMAIN order[i]
  OBVIOUS
<1>5. Idle.step = "idle"
  BY DEF Idle
<1> HIDE DEF o
<1> QED
  BY <1>3, <1>4, <1>5, OneOrderMoves

LEMMA ReopenInv ==
  ASSUME Inv, NEW b \in Buyer, Reopen(b)
  PROVE  Inv'
<1> DEFINE i == buyer[b].ask.order
           p == buyer[b].ask.provider
           o == [order[i] EXCEPT !.status = "waiting", !.reopening = FALSE, !.raced = Races(b, p)]
<1>1. Dealing(buyer[b]) /\ buyer[b].step = "reopen"
  BY DEF Inv, Sellers, Reopen, BuyerAt
<1>2. i \in DOMAIN order /\ p = order[i].provider /\ buyer[b].ask.goal = "reopen"
  BY <1>1 DEF Dealing, Reopens
<1>3. p \in Provider /\ p \in Held(buyer[b])
  BY <1>1, <1>2 DEF Inv, Sellers, Held
<1>4. order' = [order EXCEPT ![i] = o] /\ BuyerDoes(b, Idle) /\ UNCHANGED <<row, admin, cut, torn>>
  BY DEF Reopen, Reads
<1>5. Races(b, p) => o.raced
  BY <1>2 DEF Inv, Sellers
<1>6. row[p] = "deleted" => Races(b, p)
  BY <1>3 DEF Races, Inv, HeldWasThere
<1>7. \A a \in Admin : AdminAt(a, "delete") /\ admin[a].provider = p => Races(b, p)
  BY DEF Races
<1>8. o.provider = order[i].provider /\ o.provider = p /\ DOMAIN o = DOMAIN order[i]
  BY <1>2
<1>9. Idle.step = "idle"
  BY DEF Idle
<1> HIDE DEF o, p, i
<1>10. Joined(o)
  BY <1>5, <1>6, <1>7, <1>8 DEF Joined
<1> QED
  BY <1>2, <1>4, <1>8, <1>9, <1>10, OneOrderMoves

LEMMA CloseOrderInv ==
  ASSUME Inv, NEW i \in DOMAIN order, NEW s, CloseOrder(i, s)
  PROVE  Inv'
<1> DEFINE o == [order[i] EXCEPT !.status = s]
<1>1. /\ order' = [order EXCEPT ![i] = o] /\ buyer' = buyer /\ UNCHANGED <<row, admin, cut, torn>>
      /\ s # "waiting"
  BY DEF CloseOrder
<1>2. o.provider = order[i].provider /\ DOMAIN o = DOMAIN order[i]
  OBVIOUS
<1>3. o.status = "waiting" => o.raced = order[i].raced /\ order[i].status = "waiting"
  BY DEF CloseOrder
<1> HIDE DEF o
<1> QED
  BY <1>1, <1>2, <1>3, OneOrderMoves

LEMMA BuyerInv ==
  ASSUME Inv, NEW b \in Buyer, BuyerStarts(b) \/ BuyerGoesOn(b)
  PROVE  Inv'
<1>1. CASE BuyerStarts(b)
  BY <1>1, StartsInv, ReactivateInv DEF BuyerStarts
<1>2. CASE BuyerPrices(b)
  BY <1>2, BuysInv, SameAskInv, EmptyHandedInv DEF BuyerPrices
<1>3. CASE BuyerRents(b)
  BY <1>3, ReadsRowsInv, RentsInv, InsertOrderInv DEF BuyerRents
<1>4. CASE BuyerReopens(b)
  BY <1>4, ReadsRowsInv, SameAskInv, RefuseReopeningInv, ReopenInv DEF BuyerReopens
<1> QED
  BY <1>1, <1>2, <1>3, <1>4 DEF BuyerGoesOn

(* The settings document holds a setting.                                  *)
THEOREM SettingIsTyped == Spec => [](setting \in Setting)
<1>1. Init => setting \in Setting
  BY SettingAssumption DEF Init
<1>2. setting \in Setting /\ [Next]_vars => (setting \in Setting)'
  <2> SUFFICES ASSUME setting \in Setting, [Next]_vars PROVE setting' \in Setting
    OBVIOUS
  <2>1. CASE \E b \in Buyer : BuyerStarts(b) \/ BuyerGoesOn(b)
    <3>1. setting' = setting
      BY <2>1 DEF BuyerStarts, BuyerGoesOn, BuyerPrices, BuyerRents, BuyerReopens, OpenQuote, Buy,
         BuyByApi, BuyUnseen, Reactivate, FindAdapter, Hit, Miss, Fetch, FetchFails, Keep, ShowQuote,
         ShowProduct, PriceOrder, PriceReopening, Refuse, RefuseReopening, ResolveChain, Rent,
         ChooseProduct, OrderProduct, RentFails, InsertOrder, Reopen, Reads, ReadsRows
    <3> QED
      BY <3>1
  <2>2. CASE ~\E b \in Buyer : BuyerStarts(b) \/ BuyerGoesOn(b)
    BY <2>2 DEF Next, vars, AdminStarts, AdminGoesOn, CreateProvider, UpdateProvider, SaveProvider,
         DisableOthers, DeleteProvider, DeleteRow, UpdateSettings, ResetCache, AdminFetch,
         AdminKeep, Die, Expire, Reprice, CloseOrder
  <2> QED
    BY <2>1, <2>2
<1> QED
  BY <1>1, <1>2, PTL DEF Spec

LEMMA NextInv == Inv /\ setting \in Setting /\ [Next]_vars => Inv'
<1> SUFFICES ASSUME Inv, setting \in Setting, [Next]_vars PROVE Inv'
  OBVIOUS
<1>1. CASE \E a \in Admin : AdminStarts(a) \/ AdminGoesOn(a) \/ Die(a)
  BY <1>1, AdminStartsInv, AdminGoesOnInv, DieInv
<1>2. CASE \E b \in Buyer : BuyerStarts(b) \/ BuyerGoesOn(b)
  BY <1>2, BuyerInv
<1>3. CASE \E i \in DOMAIN order : CloseOrder(i, "completed") \/ CloseOrder(i, "closed")
  BY <1>3, CloseOrderInv
<1>4. CASE (\E p \in Provider, l \in Listing : Reprice(p, l)) \/ Expire \/ UNCHANGED vars
  <2>1. UNCHANGED <<row, admin, buyer, order, torn, cut>>
    BY <1>4 DEF Reprice, Expire, vars
  <2>2. Sellers' /\ HeldWasThere' /\ Waiters'
    BY <2>1, Undisturbed DEF AdminAt
  <2> QED
    BY <2>1, <2>2 DEF Inv, Types, RowType, AdminType, BuyerType, OrderType, AtMostOneEnabled,
                      On, AdminAt
<1> QED
  BY <1>1, <1>2, <1>3, <1>4 DEF Next

(* The invariant that the two theorems after it rest on.                   *)
THEOREM InvHolds == Spec => []Inv
  BY InitInv, NextInv, SettingIsTyped, PTL DEF Spec

(* providers.service.ts disableOthers: in every reachable state, two       *)
(* providers are on only while an edit that turned one of them on is still *)
(* to turn off the others, or after it died.                               *)
THEOREM AtMostOneEnabledHolds == Spec => []AtMostOneEnabled
<1>1. Inv => AtMostOneEnabled
  BY DEF Inv
<1> QED
  BY InvHolds, <1>1, PTL

(* providers.service.ts deleteProvider: an order that waits loses its      *)
(* provider only if it was inserted or reopened across the deletion, by a  *)
(* request that had read the row before, after the orders were counted.    *)
THEOREM WaitingHasProviderHolds == Spec => []WaitingHasProvider
<1>1. Inv => WaitingHasProvider
  BY DEF Inv, Waiters, Joined, WaitingHasProvider
<1> QED
  BY InvHolds, <1>1, PTL

-----------------------------------------------------------------------------
(* How the shop's pure half is built, for every price list.                *)

(* Rows are numbered from a finite set, and well typed.                    *)
RowsOK(rows) ==
  /\ \E m \in Nat : DOMAIN rows \subseteq 1 .. m
  /\ \A i \in DOMAIN rows : rows[i] \in PriceRow

LEMMA KeptIsFinite ==
  ASSUME NEW rows, RowsOK(rows)
  PROVE  /\ Kept(rows) \subseteq DOMAIN rows /\ Kept(rows) \subseteq Nat
         /\ \A i \in Kept(rows) : rows[i].raw \in Nat
         /\ IsFiniteSet(Kept(rows)) /\ Cardinality(Kept(rows)) \in Nat
<1>1. PICK m \in Nat : DOMAIN rows \subseteq 1 .. m
  BY DEF RowsOK
<1>2. Kept(rows) \subseteq DOMAIN rows
  BY DEF Kept
<1>3. IsFiniteSet(1 .. m)
  BY FS_Interval
<1>4. IsFiniteSet(Kept(rows))
  BY <1>1, <1>2, <1>3, FS_Subset
<1>5. \A i \in Kept(rows) : rows[i].raw \in Nat
  BY <1>2 DEF RowsOK, PriceRow
<1> QED
  BY <1>1, <1>2, <1>4, <1>5, FS_CardinalityType

(* Ranking the rows that are kept by price reaches each of them once: the  *)
(* n-th tier is one of the rows.                                           *)
LEMMA NthRowIsKept ==
  ASSUME NEW rows, RowsOK(rows), NEW n \in 1 .. Cardinality(Kept(rows))
  PROVE  NthRow(rows, n) \in Kept(rows)
<1> DEFINE K == Kept(rows)
           below(i) == {j \in K : Before(rows, j, i)}
           rank == [i \in K |-> Cardinality(below(i)) + 1]
           N == Cardinality(K)
<1>1. /\ K \subseteq Nat /\ \A i \in K : rows[i].raw \in Nat
      /\ IsFiniteSet(K) /\ N \in Nat
  BY KeptIsFinite
<1>2. \A i, j \in K : \/ i = j
                      \/ Before(rows, i, j) /\ ~Before(rows, j, i)
                      \/ Before(rows, j, i) /\ ~Before(rows, i, j)
  BY <1>1 DEF Before
<1>3. \A i, j, k \in K : Before(rows, k, j) /\ Before(rows, j, i) => Before(rows, k, i)
  BY <1>1 DEF Before
<1>4. \A i \in K : ~Before(rows, i, i)
  BY <1>1 DEF Before
<1> HIDE DEF K, N
<1>5. \A i \in K : IsFiniteSet(below(i)) /\ Cardinality(below(i)) \in Nat
                   /\ Cardinality(below(i)) < N
  <2> TAKE i \in K
  <2>1. below(i) \in SUBSET K /\ i \notin below(i)
    BY <1>4
  <2>2. below(i) # K
    BY <2>1
  <2> HIDE DEF below
  <2>3. IsFiniteSet(below(i)) /\ Cardinality(below(i)) <= N /\ Cardinality(below(i)) # N
    BY <1>1, <2>1, <2>2, FS_Subset DEF N
  <2> QED
    BY <1>1, <2>3, FS_CardinalityType
<1>6. \A i, j \in K : Before(rows, j, i) => Cardinality(below(j)) < Cardinality(below(i))
  <2> TAKE i, j \in K
  <2> HAVE Before(rows, j, i)
  <2>1. below(j) \in SUBSET below(i)
    BY <1>3
  <2>2. j \in below(i) /\ j \notin below(j)
    BY <1>4
  <2> HIDE DEF below
  <2>3. Cardinality(below(j)) <= Cardinality(below(i)) /\ Cardinality(below(j)) # Cardinality(below(i))
    BY <1>5, <2>1, <2>2, FS_Subset
  <2> QED
    BY <1>5, <2>3
<1>7. rank \in [K -> 1 .. N]
  <2> HIDE DEF below
  <2> QED
    BY <1>1, <1>5
<1>8. \A i, j \in K : rank[i] = rank[j] => i = j
  <2> HIDE DEF below
  <2> QED
    BY <1>2, <1>5, <1>6
<1>9. rank \in Surjection(K, 1 .. N)
  <2>1. IsFiniteSet(1 .. N) /\ Cardinality(1 .. N) = N
    BY <1>1, FS_Interval
  <2> HIDE DEF rank
  <2>2. rank \in Injection(K, 1 .. N)
    BY <1>7, <1>8 DEF Injection, IsInjective
  <2> QED
    BY <2>1, <2>2, FS_Injection DEF N
<1>10. \E i \in K : rank[i] = n
  BY <1>9 DEF Surjection, N, K
<1>11. \E i \in K : Cardinality(below(i)) = n - 1
  <2> HIDE DEF below
  <2> QED
    BY <1>5, <1>10 DEF K
<1> QED
  BY <1>11 DEF NthRow, K

(* A tier is a row of the list, marked up.                                 *)
LEMMA TierIsRow ==
  ASSUME NEW rows, RowsOK(rows), NEW s, NEW n \in DOMAIN ToTiers(rows, s)
  PROVE  \E i \in DOMAIN rows : rows[i].raw > 0 /\ ToTiers(rows, s)[n] = Tier(rows[i], s)
<1>1. n \in 1 .. Cardinality(Kept(rows))
  BY DEF ToTiers
<1>2. NthRow(rows, n) \in Kept(rows)
  BY <1>1, NthRowIsKept
<1>3. ToTiers(rows, s)[n] = Tier(rows[NthRow(rows, n)], s)
  BY <1>1 DEF ToTiers
<1> QED
  BY <1>2, <1>3 DEF Kept

(* sellPriceMicro: a markup is never a discount.                           *)
LEMMA MarkedUp ==
  ASSUME NEW raw \in Nat, NEW s \in Setting
  PROVE  SellPrice(raw, s) \in Nat /\ raw <= SellPrice(raw, s)
<1> DEFINE x == raw * s.percent
<1>1. s.percent \in Nat /\ s.flat \in Nat
  BY SettingAssumption
<1>2. x \in Nat
  BY <1>1
<1>3. raw * (100 + s.percent) = 100 * raw + x
  BY <1>1
<1> HIDE DEF x
<1>4. (100 * raw + x + 50) \div 100 \in Nat /\ (100 * raw + x + 50) \div 100 >= raw
  BY <1>2
<1> QED
  BY <1>1, <1>3, <1>4 DEF SellPrice

(* toFixed(4): a cap is passed on to within half a step.                   *)
LEMMA CapIsRounded ==
  ASSUME NEW cap \in Nat
  PROVE  PriceCap(cap) \in Nat /\ PriceCap(cap) <= cap + PriceStep \div 2
BY DEF PriceCap, PriceStep

(* The rows of one country in a reseller's list.                           *)
LEMMA CountryRows ==
  ASSUME NEW l \in Seq(PriceRow), NEW c
  PROVE  /\ RowsOK(InCountry(l, c))
         /\ DOMAIN InCountry(l, c) \subseteq Nat
         /\ \A r \in ToSet(InCountry(l, c)) : r \in PriceRow
<1>1. /\ DOMAIN InCountry(l, c) \subseteq DOMAIN l
      /\ \A i \in DOMAIN InCountry(l, c) : InCountry(l, c)[i] = l[i]
  BY DEF InCountry, RestrictValues, Restrict
<1>2. DOMAIN l = 1 .. Len(l) /\ Len(l) \in Nat /\ \A i \in DOMAIN l : l[i] \in PriceRow
  OBVIOUS
<1> QED
  BY <1>1, <1>2 DEF RowsOK, ToSet

(* Where an adapter looks a country up.                                    *)
Routed(kind, c) == IF kind \in {"hero_sms", "sms_bower"} THEN ChangeRoute(c) ELSE c
Source(kind, l, c) == InCountry(l, Routed(kind, c))

(* What an adapter lists: rows of the list of that country, at their       *)
(* prices, their stock as it is there or not given.                        *)
ListedFrom(rows, source) ==
  /\ DOMAIN rows \subseteq DOMAIN source
  /\ \A i \in DOMAIN rows :
       /\ rows[i] \in PriceRow
       /\ rows[i].raw = source[i].raw
       /\ rows[i].stock \in {source[i].stock, Unknown}

LEMMA UntaggedIsListed ==
  ASSUME NEW rows, NEW source, ListedFrom(rows, source)
  PROVE  ListedFrom(Untagged(rows), source)
<1>1. \A r \in PriceRow : /\ [r EXCEPT !.operator = AnyOperator] \in PriceRow
                          /\ [r EXCEPT !.operator = AnyOperator].raw = r.raw
                          /\ [r EXCEPT !.operator = AnyOperator].stock = r.stock
  BY DEF PriceRow
<1>2. /\ DOMAIN Untagged(rows) = DOMAIN rows
      /\ \A i \in DOMAIN rows : Untagged(rows)[i] = [rows[i] EXCEPT !.operator = AnyOperator]
  BY DEF Untagged
<1> QED
  BY <1>1, <1>2, ZenonT(60) DEF ListedFrom

LEMMA SingleIsListed ==
  ASSUME NEW rows, NEW source, ListedFrom(rows, source)
  PROVE  ListedFrom(Single(rows), source)
<1> DEFINE first == Restrict(rows, {i \in DOMAIN rows : \A j \in DOMAIN rows : i <= j})
<1>1. ListedFrom(first, source)
  BY DEF ListedFrom, Restrict
<1> QED
  BY <1>1, UntaggedIsListed DEF Single

LEMMA PricesAreListed ==
  ASSUME NEW kind \in Kinds, NEW l \in Seq(PriceRow), NEW c, NEW brief \in BOOLEAN
  PROVE  ListedFrom(ListPrices(kind, l, c, brief), Source(kind, l, c))
<1> DEFINE source == Source(kind, l, c)
<1>1. \A d : ListedFrom(InCountry(l, d), InCountry(l, d))
  BY CountryRows DEF ListedFrom, RowsOK
<1>2. ListedFrom(source, source)
  BY <1>1 DEF Source
<1>3. ListedFrom(Single(source), source) /\ ListedFrom(Untagged(source), source)
  BY <1>2, SingleIsListed, UntaggedIsListed
<1>4. CASE kind = "hero_sms"
  BY <1>3, <1>4 DEF ListPrices, HeroPrices, Source, Routed
<1>5. CASE kind = "sms_bower"
  BY <1>2, <1>3, <1>5 DEF ListPrices, BowerPrices, Source, Routed
<1>6. CASE kind = "tiger_sms"
  BY <1>2, <1>3, <1>6 DEF ListPrices, TigerPrices, Source, Routed
<1>7. CASE kind = "sms_pool"
  <2> DEFINE rows == Untagged(source)
  <2>1. ListPrices(kind, l, c, brief) =
          [i \in DOMAIN rows |-> IF brief THEN [rows[i] EXCEPT !.stock = Unknown] ELSE rows[i]]
    BY <1>7 DEF ListPrices, PoolPrices, Source, Routed
  <2> HIDE DEF rows
  <2>2. \A i \in DOMAIN rows : rows[i] \in PriceRow
    BY <1>3 DEF rows, ListedFrom
  <2>3. \A i \in DOMAIN rows : /\ [rows[i] EXCEPT !.stock = Unknown] \in PriceRow
                               /\ [rows[i] EXCEPT !.stock = Unknown].raw = rows[i].raw
                               /\ [rows[i] EXCEPT !.stock = Unknown].stock = Unknown
    BY <2>2 DEF PriceRow
  <2>4. ListedFrom(rows, source)
    BY <1>3 DEF rows
  <2> HIDE DEF source
  <2> QED
    BY <2>1, <2>3, <2>4 DEF ListedFrom, source
<1>8. CASE kind = "sms_code"
  BY <1>2, <1>8 DEF ListPrices, CodePrices, Source, Routed
<1>9. CASE kind = "custom_http"
  BY <1>9 DEF ListPrices, CustomPrices, ListedFrom
<1> QED
  BY <1>4, <1>5, <1>6, <1>7, <1>8, <1>9 DEF Kinds, ActivateKind

LEMMA ListedRowsOK ==
  ASSUME NEW kind \in Kinds, NEW l \in Seq(PriceRow), NEW c, NEW brief \in BOOLEAN
  PROVE  RowsOK(ListPrices(kind, l, c, brief))
BY PricesAreListed, CountryRows DEF ListedFrom, RowsOK, Source


(* smscode may bill more for a dearer choice.                              *)
LEMMA CodeMaxGrows ==
  ASSUME NEW x \in Nat, NEW y \in Nat, x <= y
  PROVE  CodeMax(x) \in Nat /\ CodeMax(y) \in Nat /\ CodeMax(x) <= CodeMax(y)
<1>1. /\ (102 * x + 15000) \div 10000 \in Nat /\ (102 * y + 15000) \div 10000 \in Nat
      /\ (102 * x + 15000) \div 10000 <= (102 * y + 15000) \div 10000
  OBVIOUS
<1> QED
  BY <1>1 DEF CodeMax, PriceStep

LEMMA AffordableIsCapped ==
  ASSUME NEW l \in Seq(PriceRow), NEW c, NEW most, NEW r \in Affordable(l, c, most)
  PROVE  r.raw \in Nat /\ r.raw <= most
<1>1. r \in ToSet(InCountry(l, c)) /\ r.raw <= most
  BY DEF Affordable
<1>2. r \in PriceRow
  BY <1>1, CountryRows
<1> QED
  BY <1>1, <1>2 DEF PriceRow

LEMMA RentalIsCapped ==
  ASSUME NEW kind \in Kinds \ {"custom_http", "sms_code"}, NEW l \in Seq(PriceRow), NEW c,
         NEW cap \in Nat, NEW r \in Rentals(kind, l, c, cap)
  PROVE  r.raw \in Nat /\ r.raw <= cap + PriceStep \div 2
<1>1. r \in Affordable(l, Routed(kind, c), PriceCap(cap))
  BY DEF Kinds, ActivateKind, Rentals, HeroRent, BowerRent, TigerRent, PoolRent, Routed
<1>2. r.raw \in Nat /\ r.raw <= PriceCap(cap)
  BY <1>1, AffordableIsCapped
<1>3. PriceCap(cap) \in Nat /\ PriceCap(cap) <= cap + PriceStep \div 2
  BY CapIsRounded
<1>4. PriceStep \div 2 = 50
  BY DEF PriceStep
<1> QED
  BY <1>2, <1>3, <1>4

LEMMA CodeRentIsCapped ==
  ASSUME NEW l \in Seq(PriceRow), NEW c, NEW amount \in Nat, NEW price \in Nat, amount <= price,
         NEW r \in CodeRent(l, c, amount)
  PROVE  r.raw <= CodeMax(price)
<1>1. r.raw \in Nat /\ r.raw <= CodeMax(amount)
  BY AffordableIsCapped DEF CodeRent
<1>2. CodeMax(amount) \in Nat /\ CodeMax(price) \in Nat /\ CodeMax(amount) <= CodeMax(price)
  BY CodeMaxGrows
<1> QED
  BY <1>1, <1>2

LEMMA CodeChoiceIsCapped ==
  ASSUME NEW l \in Seq(PriceRow), NEW c, NEW cap, NEW r \in CodeChoice(l, c, cap)
  PROVE  r.raw \in Nat /\ r.raw <= cap
<1>1. r \in ToSet(FirstPage(InCountry(l, c))) /\ r.raw <= cap
  BY DEF CodeChoice
<1>2. /\ DOMAIN FirstPage(InCountry(l, c)) \subseteq DOMAIN InCountry(l, c)
      /\ \A i \in DOMAIN FirstPage(InCountry(l, c)) :
           FirstPage(InCountry(l, c))[i] = InCountry(l, c)[i]
  BY DEF FirstPage, Restrict
<1>3. r \in ToSet(InCountry(l, c))
  BY <1>1, <1>2 DEF ToSet
<1>4. r \in PriceRow
  BY <1>3, CountryRows
<1> QED
  BY <1>1, <1>4 DEF PriceRow

(* The tier an order is given is one of those the buyer could see.         *)
LEMMA ResolvedIsTier ==
  ASSUME NEW tiers, NEW index, NEW t \in Resolve(tiers, index, AnyOperator)
  PROVE  InStock(t) /\ \E n \in DOMAIN tiers : t = tiers[n]
<1>1. OfOperator(tiers, AnyOperator) = tiers
  BY DEF OfOperator
<1>2. \A u \in FirstInStock(tiers) : \E n \in DOMAIN tiers : u = tiers[n]
  BY DEF FirstInStock
<1> QED
  BY <1>1, <1>2 DEF Resolve

LEMMA ResolvedPrice ==
  ASSUME NEW p \in Provider, list \in [Provider -> Listing], NEW c, NEW s \in Setting,
         NEW brief \in BOOLEAN, NEW index,
         NEW t \in Resolve(TiersOf(p, c, s, brief), index, AnyOperator)
  PROVE  t.raw \in Nat /\ t.price \in Nat /\ t.raw <= t.price
<1> DEFINE rows == ListPrices(Kind[p], list[p], c, brief)
<1>1. Kind[p] \in Kinds /\ list[p] \in Seq(PriceRow)
  BY KindAssumption, ListingAssumption
<1>2. RowsOK(rows)
  BY <1>1, ListedRowsOK
<1>3. PICK n \in DOMAIN ToTiers(rows, s) : t = ToTiers(rows, s)[n]
  BY ResolvedIsTier DEF TiersOf
<1> HIDE DEF rows
<1>4. PICK i \in DOMAIN rows : t = Tier(rows[i], s)
  BY <1>2, <1>3, TierIsRow
<1>5. rows[i].raw \in Nat
  BY <1>2 DEF RowsOK, PriceRow
<1> QED
  BY <1>4, <1>5, MarkedUp DEF Tier

LEMMA LeastExists ==
  ASSUME NEW T, T \subseteq Nat, T # {}
  PROVE  \E x \in T : \A y \in T : x <= y
<1> DEFINE R == OpToRel(<, Nat)
<1>1. PICK x \in T : \A y \in T : <<y, x>> \notin R
  <2> HIDE DEF R
  <2> QED
    BY NatLessThanWellFounded, WFMin DEF R
<1>2. \A y \in T : ~(y < x)
  <2> TAKE y \in T
  <2>1. <<y, x>> \notin R
    BY <1>1
  <2>2. x \in Nat /\ y \in Nat
    OBVIOUS
  <2> QED
    BY <2>1, <2>2 DEF OpToRel
<1> QED
  BY <1>2

LEMMA CheapestExists ==
  ASSUME NEW S, S # {}, \A r \in S : r.raw \in Nat
  PROVE  \E r \in S : \A q \in S : r.raw <= q.raw
<1> DEFINE T == {r.raw : r \in S}
<1>1. T \subseteq Nat /\ T # {}
  OBVIOUS
<1>2. PICK x \in T : \A y \in T : x <= y
  <2> HIDE DEF T
  <2> QED
    BY <1>1, LeastExists
<1> QED
  BY <1>2

(* An offer's id names its tier.                                           *)
LEMMA IdNamesTier ==
  ASSUME NEW c, NEW i \in Nat
  PROVE  ParseOfferId(BuildOfferId(c, i)).tier = i
<1>1. Len(<<c>>) = 1 /\ Len(<<c, i>>) = 2 /\ <<c, i>>[2] = i
  OBVIOUS
<1>2. CASE i > 0
  BY <1>1, <1>2 DEF ParseOfferId, BuildOfferId
<1>3. CASE i = 0
  BY <1>1, <1>3 DEF ParseOfferId, BuildOfferId
<1> QED
  BY <1>2, <1>3

LEMMA TiersAreNumbered ==
  ASSUME NEW p \in Provider, list \in [Provider -> Listing], NEW c, NEW s, NEW brief \in BOOLEAN
  PROVE  \E m \in Nat : DOMAIN TiersOf(p, c, s, brief) = 1 .. m
<1> DEFINE rows == ListPrices(Kind[p], list[p], c, brief)
<1>1. Kind[p] \in Kinds /\ list[p] \in Seq(PriceRow)
  BY KindAssumption, ListingAssumption
<1>2. RowsOK(rows)
  BY <1>1, ListedRowsOK
<1> HIDE DEF rows
<1>3. Cardinality(Kept(rows)) \in Nat
  BY <1>2, KeptIsFinite
<1> QED
  BY <1>3 DEF TiersOf, ToTiers, rows

(* The first in stock is there if anything is.                             *)
LEMMA FirstExists ==
  ASSUME NEW s, NEW m \in Nat, DOMAIN s = 1 .. m, NEW k \in DOMAIN s, InStock(s[k])
  PROVE  \E n \in DOMAIN s : /\ InStock(s[n])
                            /\ \A i \in DOMAIN s : InStock(s[i]) => n <= i
<1> DEFINE T == {j \in DOMAIN s : InStock(s[j])}
<1>1. T \subseteq Nat /\ T # {}
  OBVIOUS
<1>2. PICK n \in T : \A i \in T : n <= i
  <2> HIDE DEF T
  <2> QED
    BY <1>1, LeastExists
<1> QED
  BY <1>2

LEMMA FirstIsFound ==
  ASSUME NEW s, NEW m \in Nat, DOMAIN s = 1 .. m, NEW n \in DOMAIN s, InStock(s[n]),
         \A i \in DOMAIN s : InStock(s[i]) => n <= i
  PROVE  FirstInStock(s) = {s[n]}
<1> DEFINE stocked == {i \in DOMAIN s : InStock(s[i])}
<1>1. {j \in stocked : \A k \in stocked : j <= k} = {n}
  OBVIOUS
<1>2. FirstInStock(s) = {s[i] : i \in {j \in stocked : \A k \in stocked : j <= k}}
  BY DEF FirstInStock
<1> HIDE DEF stocked
<1> QED
  BY <1>1, <1>2

LEMMA FlattenOne ==
  ASSUME NEW S, NEW s \in Seq(S)
  PROVE  FlattenSeq(<<s>>) = s
<1> DEFINE body(f) == [i \in 1 .. Len(<<s>>) |->
                         IF i = 1 THEN <<s>>[i] ELSE f[i - 1] \o <<s>>[i]]
           flatten == CHOOSE f : f = body(f)
<1>1. Len(<<s>>) = 1
  OBVIOUS
<1>2. [i \in 1 .. 1 |-> s] = body([i \in 1 .. 1 |-> s])
  BY <1>1
<1>3. flatten = body(flatten)
  BY <1>2
<1>4. flatten[1] = s
  BY <1>1, <1>3
<1> QED
  BY <1>1, <1>4 DEF FlattenSeq

(* listCatalogProducts: the products of one country are its tiers.         *)
LEMMA ProductsAreTiers ==
  ASSUME NEW tiers, NEW m \in Nat, DOMAIN tiers = 1 .. m, NEW c, NEW limit \in Nat,
         NEW o \in ToSet(Products(<<[country |-> c, tiers |-> tiers]>>, limit))
  PROVE  \E n \in DOMAIN tiers :
           /\ o.id = BuildOfferId(c, n - 1) /\ o.price = tiers[n].price
           /\ o.stock = IF tiers[n].stock = Unknown THEN 0 ELSE tiers[n].stock
<1> DEFINE lists == <<[country |-> c, tiers |-> tiers]>>
           product(country, ts, i) ==
             [id |-> BuildOfferId(country, i - 1), country |-> country,
              operator |-> ts[i].operator, price |-> ts[i].price,
              stock |-> IF ts[i].stock = Unknown THEN 0 ELSE ts[i].stock]
           each == [l \in DOMAIN lists |->
                      [i \in DOMAIN lists[l].tiers |->
                         product(lists[l].country, lists[l].tiers, i)]]
           these == [n \in 1 .. m |-> product(c, tiers, n)]
           all == FlattenSeq(each)
<1>1. each = <<these>>
  <2>1. DOMAIN lists = 1 .. 1 /\ lists[1].country = c /\ lists[1].tiers = tiers
    OBVIOUS
  <2> HIDE DEF lists, product
  <2>2. DOMAIN each = 1 .. 1
    BY <2>1
  <2>3. each[1] = these
    BY <2>1
  <2>4. each = [l \in 1 .. 1 |-> each[l]]
    BY <2>1
  <2> HIDE DEF each, these
  <2> QED
    BY <2>2, <2>3, <2>4
<1>2. these \in Seq({these[n] : n \in 1 .. m}) /\ Len(these) = m /\ DOMAIN these = 1 .. m
  <2> HIDE DEF product
  <2> QED
    BY SMTT(60)
<1>3. all = these
  <2> HIDE DEF these, each
  <2> QED
    BY <1>1, <1>2, FlattenOne
<1>4. Products(lists, limit) = SubSeq(all, 1, Min({limit, Len(all)}))
  BY DEF Products
<1>5. Min({limit, m}) \in 0 .. m
  BY DEF Min
<1>6. \E n \in 1 .. m : o = these[n]
  <2> HIDE DEF these, all
  <2>1. o \in ToSet(SubSeq(these, 1, Min({limit, m})))
    BY <1>2, <1>3, <1>4
  <2> DEFINE k == Min({limit, m})
  <2> HIDE DEF k
  <2>2. k \in 0 .. m
    BY <1>5 DEF k
  <2>3. DOMAIN SubSeq(these, 1, k) = 1 .. k /\ \A i \in 1 .. k : SubSeq(these, 1, k)[i] = these[i]
    BY <1>2, <2>2
  <2> QED
    BY <2>1, <2>2, <2>3 DEF ToSet, k
<1> QED
  BY <1>6

-----------------------------------------------------------------------------
(* What a buyer is shown, asks for and agrees to.                          *)

(* An order for that tier is found, at that price.                         *)
FoundIn(tiers, index, price) ==
  \E t \in Resolve(tiers, index, AnyOperator) : t.price = price

OnPage(quote) ==
  /\ quote.price \in Nat
  /\ FoundIn(quote.tiers, ParseOfferId(quote.id).tier, quote.price)
  /\ quote.best => FoundIn(quote.tiers, Unknown, quote.price)
Asked(ask) ==
  \A quote \in ToSet(ask.seen) :
    /\ quote.price \in Nat
    /\ FoundIn(quote.tiers, ask.tier, quote.price)
    /\ ask.cap \in {None, <<quote.price>>}
    /\ quote.page => ask.cap = <<quote.price>>
Agreed(sale) ==
  /\ sale.raw \in Nat /\ sale.price \in Nat /\ sale.raw <= sale.price
  /\ \A quote \in ToSet(sale.seen) : quote.page => sale.price <= quote.price

(* From the price on, a buyer pays at least the cap its number is rented   *)
(* with; before that, its price is made with one of the settings, and what *)
(* it asks for is what it was shown.                                       *)
Covered(r) ==
  /\ r.step = "page" => OnPage(r.quote)
  /\ r.step \in {"settings", "fetch", "keep", "price"} /\ r.ask.goal = "order" => Asked(r.ask)
  /\ r.step \in {"keep", "price"} => r.setting \in Setting
  /\ r.step \in {"chain", "rent", "create", "insert"} => Agreed(r.sale)
  /\ r.step = "create" => /\ r.amount \in Nat /\ r.amount <= r.sale.price
                          /\ Kind[r.provider] = "sms_code"
  /\ r.step = "insert" /\ Kind[r.provider] # "custom_http" =>
       r.billed <= Dearest(Kind[r.provider], r.sale.price)

Priceable == list \in [Provider -> Listing] /\ setting \in Setting
             /\ cache \in {None} \cup {<<s>> : s \in Setting}

Costs == Priceable /\ BuyerType /\ OrderType /\ (\A b \in Buyer : Covered(buyer[b]))
         /\ NotBelowCost

LEMMA SeenIsOne ==
  ASSUME NEW quote, NEW page
  PROVE  /\ ToSet(None) = {}
         /\ \A q \in ToSet(Seen(quote, page)) :
              q.price = quote.price /\ q.tiers = quote.tiers /\ q.page = page
<1>1. DOMAIN None = {} /\ DOMAIN Seen(quote, page) = {1}
  BY DEF None, Seen
<1>2. Seen(quote, page)[1] = [price |-> quote.price, tiers |-> quote.tiers, page |-> page]
  BY DEF Seen
<1> QED
  BY <1>1, <1>2 DEF ToSet

LEMMA CoveredKept ==
  ASSUME Costs, NEW b \in Buyer, NEW r, Covered(r), BuyerDoes(b, r), order' = order,
         list' = list, setting' = setting, cache' = cache \/ \E s \in Setting : cache' = <<s>>
  PROVE  Costs'
<1>1. Priceable'
  BY DEF Costs, Priceable
<1>2. BuyerType' /\ OrderType' /\ NotBelowCost'
  BY DEF Costs, BuyerType, OrderType, NotBelowCost, BuyerDoes
<1>3. \A d \in Buyer : Covered(buyer'[d])
  BY DEF Costs, BuyerDoes, BuyerType
<1> QED
  BY <1>1, <1>2, <1>3 DEF Costs, Covered

(* What is in stock and named by its tier is found at the tier's price.    *)
LEMMA NamedIsFound ==
  ASSUME NEW tiers, NEW m \in Nat, DOMAIN tiers = 1 .. m, NEW n \in 1 .. m, InStock(tiers[n])
  PROVE  FoundIn(tiers, n - 1, tiers[n].price)
<1>1. n - 1 # Unknown /\ (n - 1) + 1 = n
  BY DEF Unknown
<1>2. tiers[n] \in Resolve(tiers, n - 1, AnyOperator)
  BY <1>1 DEF Resolve, OfOperator
<1> QED
  BY <1>2 DEF FoundIn

(* getQuote: an offer in stock is found by its id, and the best offer also *)
(* without.                                                                *)
LEMMA OfferIsFound ==
  ASSUME NEW tiers, NEW m \in Nat, DOMAIN tiers = 1 .. m, NEW c,
         NEW o \in ToSet(Quote(c, tiers, AnyOperator).offers), InStock(o)
  PROVE  /\ \E n \in DOMAIN tiers : o.price = tiers[n].price
         /\ FoundIn(tiers, ParseOfferId(o.id).tier, o.price)
         /\ o \in Quote(c, tiers, AnyOperator).best => FoundIn(tiers, Unknown, o.price)
<1> DEFINE offers == Offers(c, tiers)
<1>1. /\ DOMAIN offers = 1 .. m
      /\ \A n \in 1 .. m : /\ offers[n].id = BuildOfferId(c, n - 1)
                           /\ offers[n].price = tiers[n].price
                           /\ offers[n].stock = tiers[n].stock
  BY DEF Offers
<1>2. Quote(c, tiers, AnyOperator).offers = offers
      /\ Quote(c, tiers, AnyOperator).best = FirstInStock(offers)
  BY DEF Quote, ListOffers, OfOperator
<1>3. \A n \in 1 .. m : ParseOfferId(BuildOfferId(c, n - 1)).tier = n - 1
  BY IdNamesTier
<1> HIDE DEF offers
<1>4. PICK n \in 1 .. m : o = offers[n]
  BY <1>1, <1>2 DEF ToSet
<1>5. InStock(tiers[n]) /\ o.price = tiers[n].price
  BY <1>1, <1>4 DEF InStock
<1>6. ParseOfferId(o.id).tier = n - 1
  BY <1>1, <1>3, <1>4
<1>7. FoundIn(tiers, ParseOfferId(o.id).tier, o.price)
  BY <1>5, <1>6, NamedIsFound
<1>8. ASSUME o \in FirstInStock(offers)
      PROVE  FoundIn(tiers, Unknown, o.price)
  <2>1. PICK k \in DOMAIN offers : /\ InStock(offers[k])
                                   /\ \A i \in DOMAIN offers : InStock(offers[i]) => k <= i
    <3>1. n \in DOMAIN offers /\ InStock(offers[n]) /\ DOMAIN offers = 1 .. m
      BY <1>1, <1>4
    <3> QED
      BY <3>1, FirstExists
  <2>2. FirstInStock(offers) = {offers[k]}
    BY <1>1, <2>1, FirstIsFound
  <2>3. /\ InStock(tiers[k]) /\ k \in 1 .. m /\ o.price = tiers[k].price
        /\ \A i \in DOMAIN tiers : InStock(tiers[i]) => k <= i
    BY <1>1, <1>8, <2>1, <2>2 DEF InStock
  <2>4. FirstInStock(tiers) = {tiers[k]}
    BY <2>3, FirstIsFound
  <2>5. tiers[k] \in Resolve(tiers, Unknown, AnyOperator)
    BY <2>3, <2>4 DEF Resolve, OfOperator
  <2> QED
    BY <2>3, <2>5 DEF FoundIn
<1> QED
  BY <1>2, <1>5, <1>7, <1>8

(* listCatalogProducts: a product in stock is found by its id.             *)
LEMMA ProductIsFound ==
  ASSUME NEW tiers, NEW m \in Nat, DOMAIN tiers = 1 .. m, NEW c,
         NEW o \in ToSet(Products(<<[country |-> c, tiers |-> tiers]>>, 200)), InStock(o)
  PROVE  /\ \E n \in DOMAIN tiers : o.price = tiers[n].price
         /\ FoundIn(tiers, ParseOfferId(o.id).tier, o.price)
<1>1. PICK n \in DOMAIN tiers :
        /\ o.id = BuildOfferId(c, n - 1) /\ o.price = tiers[n].price
        /\ o.stock = IF tiers[n].stock = Unknown THEN 0 ELSE tiers[n].stock
  BY ProductsAreTiers
<1>2. InStock(tiers[n])
  BY <1>1 DEF InStock, Unknown
<1>3. ParseOfferId(BuildOfferId(c, n - 1)).tier = n - 1
  BY IdNamesTier
<1> QED
  BY <1>1, <1>2, <1>3, NamedIsFound

(* Every tier has a price.                                                 *)
LEMMA TierPrice ==
  ASSUME NEW p \in Provider, list \in [Provider -> Listing], NEW c, NEW s \in Setting,
         NEW brief \in BOOLEAN, NEW n \in DOMAIN TiersOf(p, c, s, brief)
  PROVE  TiersOf(p, c, s, brief)[n].price \in Nat
<1> DEFINE rows == ListPrices(Kind[p], list[p], c, brief)
<1>1. Kind[p] \in Kinds /\ list[p] \in Seq(PriceRow)
  BY KindAssumption, ListingAssumption
<1>2. RowsOK(rows)
  BY <1>1, ListedRowsOK
<1>3. n \in DOMAIN ToTiers(rows, s) /\ TiersOf(p, c, s, brief) = ToTiers(rows, s)
  BY DEF TiersOf
<1> HIDE DEF rows
<1>4. PICK i \in DOMAIN rows : ToTiers(rows, s)[n] = Tier(rows[i], s)
  BY <1>2, <1>3, TierIsRow
<1>5. rows[i].raw \in Nat
  BY <1>2 DEF RowsOK, PriceRow
<1> QED
  BY <1>3, <1>4, <1>5, MarkedUp DEF Tier

LEMMA ShownIsFound ==
  ASSUME Costs, NEW b \in Buyer, ShowQuote(b) \/ ShowProduct(b)
  PROVE  \E r : Covered(r) /\ BuyerDoes(b, r)
<1> DEFINE c == buyer[b].ask.country
           s == buyer[b].setting
<1>1. /\ \A p \in On : p \in Provider
      /\ s \in Setting /\ list \in [Provider -> Listing]
  BY DEF On, ShowQuote, ShowProduct, Pricing, BuyerAt, Costs, Covered, Priceable
<1>2. CASE ShowQuote(b)
  <2>1. PICK p \in On, brief \in BOOLEAN :
          \E o \in ToSet(Quote(c, TiersOf(p, c, s, brief), AnyOperator).offers) :
            Shows(b, o, o \in Quote(c, TiersOf(p, c, s, brief), AnyOperator).best,
                  TiersOf(p, c, s, brief))
    BY <1>2 DEF ShowQuote, TiersFor
  <2> DEFINE tiers == TiersOf(p, c, s, brief)
             best == Quote(c, tiers, AnyOperator).best
  <2>2. PICK o \in ToSet(Quote(c, tiers, AnyOperator).offers) : Shows(b, o, o \in best, tiers)
    BY <2>1
  <2>3. PICK m \in Nat : DOMAIN tiers = 1 .. m
    BY <1>1, TiersAreNumbered
  <2>4. InStock(o)
    BY <2>2 DEF Shows
  <2>5. \A n \in DOMAIN tiers : tiers[n].price \in Nat
    BY <1>1, TierPrice
  <2> HIDE DEF tiers
  <2>6. /\ o.price \in Nat
        /\ FoundIn(tiers, ParseOfferId(o.id).tier, o.price)
        /\ o \in best => FoundIn(tiers, Unknown, o.price)
    <3>1. /\ \E n \in DOMAIN tiers : o.price = tiers[n].price
          /\ FoundIn(tiers, ParseOfferId(o.id).tier, o.price)
          /\ o \in Quote(c, tiers, AnyOperator).best => FoundIn(tiers, Unknown, o.price)
      <4> HIDE DEF c, best
      <4> QED
        BY <2>3, <2>4, OfferIsFound
    <3> QED
      BY <2>5, <3>1
  <2> DEFINE q == [id |-> o.id, price |-> o.price, best |-> o \in best, tiers |-> tiers]
  <2>7. q.id = o.id /\ q.price = o.price /\ q.tiers = tiers /\ (q.best => o \in best)
    BY Zenon
  <2>8. BuyerDoes(b, [step |-> "page", quote |-> q])
    BY <2>2 DEF Shows
  <2> HIDE DEF q, best
  <2>9. OnPage(q)
    BY <2>6, <2>7 DEF OnPage
  <2>10. Covered([step |-> "page", quote |-> q])
    BY <2>9 DEF Covered
  <2> QED
    BY <2>8, <2>10
<1>3. CASE ShowProduct(b)
  <2>1. PICK p \in On, brief \in BOOLEAN :
          \E o \in ToSet(Products(<<[country |-> c, tiers |-> TiersOf(p, c, s, brief)]>>, 200)) :
            Shows(b, o, FALSE, TiersOf(p, c, s, brief))
    BY <1>3 DEF ShowProduct, TiersFor
  <2> DEFINE tiers == TiersOf(p, c, s, brief)
  <2>2. PICK o \in ToSet(Products(<<[country |-> c, tiers |-> tiers]>>, 200)) :
          Shows(b, o, FALSE, tiers)
    BY <2>1
  <2>3. PICK m \in Nat : DOMAIN tiers = 1 .. m
    BY <1>1, TiersAreNumbered
  <2>4. InStock(o)
    BY <2>2 DEF Shows
  <2>5. \A n \in DOMAIN tiers : tiers[n].price \in Nat
    BY <1>1, TierPrice
  <2> HIDE DEF tiers
  <2>6. o.price \in Nat /\ FoundIn(tiers, ParseOfferId(o.id).tier, o.price)
    BY <2>3, <2>4, <2>5, ProductIsFound
  <2> DEFINE q == [id |-> o.id, price |-> o.price, best |-> FALSE, tiers |-> tiers]
  <2>7. OnPage(q)
    BY <2>6 DEF OnPage
  <2>8. BuyerDoes(b, [step |-> "page", quote |-> q])
    BY <2>2 DEF Shows
  <2> HIDE DEF q
  <2>9. Covered([step |-> "page", quote |-> q])
    BY <2>7 DEF Covered
  <2> QED
    BY <2>8, <2>9
<1> QED
  BY <1>2, <1>3

(* An order asks for what it was shown, and no more than was shown.        *)
LEMMA OrdersAsked ==
  ASSUME Costs, NEW b \in Buyer, Buy(b) \/ BuyByApi(b)
  PROVE  \E r : Covered(r) /\ BuyerDoes(b, r)
<1> DEFINE quote == buyer[b].quote
<1>1. OnPage(quote)
  BY DEF Buy, BuyByApi, BuyerAt, Costs, Covered
<1> HIDE DEF quote
<1>2. CASE Buy(b)
  <2> DEFINE ask == [goal |-> "order", country |-> ParseOfferId(quote.id).country,
                     tier |-> ParseOfferId(quote.id).tier, cap |-> <<quote.price>>,
                     seen |-> Seen(quote, TRUE)]
  <2>1. BuyerDoes(b, [step |-> "settings", ask |-> ask])
    BY <1>2 DEF Buy, Orders, quote
  <2>2. Asked(ask)
    <3> SUFFICES ASSUME NEW q \in ToSet(Seen(quote, TRUE))
                 PROVE  /\ q.price \in Nat /\ FoundIn(q.tiers, ParseOfferId(quote.id).tier, q.price)
                        /\ <<quote.price>> = <<q.price>>
      BY DEF Asked
    <3>1. q.price = quote.price /\ q.tiers = quote.tiers
      BY SeenIsOne
    <3> QED
      BY <1>1, <3>1 DEF OnPage
  <2> HIDE DEF ask
  <2>3. Covered([step |-> "settings", ask |-> ask])
    BY <2>2 DEF Covered
  <2> QED
    BY <2>1, <2>3
<1>3. CASE BuyByApi(b)
  <2>1. PICK tier \in {ParseOfferId(quote.id).tier} \cup (IF quote.best THEN {Unknown} ELSE {}) :
          Orders(b, ParseOfferId(quote.id).country, tier, None, Seen(quote, FALSE))
    BY <1>3 DEF BuyByApi, quote
  <2> DEFINE ask == [goal |-> "order", country |-> ParseOfferId(quote.id).country,
                     tier |-> tier, cap |-> None, seen |-> Seen(quote, FALSE)]
  <2>2. BuyerDoes(b, [step |-> "settings", ask |-> ask])
    BY <2>1 DEF Orders
  <2>3. quote.price \in Nat /\ FoundIn(quote.tiers, tier, quote.price)
    BY <1>1, <2>1 DEF OnPage
  <2>4. Asked(ask)
    <3> SUFFICES ASSUME NEW q \in ToSet(Seen(quote, FALSE))
                 PROVE  q.price \in Nat /\ FoundIn(q.tiers, tier, q.price) /\ q.page = FALSE
      BY DEF Asked
    <3> QED
      BY <2>3, SeenIsOne
  <2> HIDE DEF ask
  <2>5. Covered([step |-> "settings", ask |-> ask])
    BY <2>4 DEF Covered
  <2> QED
    BY <2>2, <2>5
<1> QED
  BY <1>2, <1>3

LEMMA OrdersUnseen ==
  ASSUME NEW b \in Buyer, NEW c, Orders(b, c, Unknown, None, None)
  PROVE  \E r : Covered(r) /\ BuyerDoes(b, r)
<1> DEFINE ask == [goal |-> "order", country |-> c, tier |-> Unknown, cap |-> None, seen |-> None]
<1>1. BuyerDoes(b, [step |-> "settings", ask |-> ask])
  BY DEF Orders
<1>2. ToSet(None) = {}
  BY SeenIsOne
<1>3. Asked(ask)
  BY <1>2 DEF Asked
<1> HIDE DEF ask
<1>4. Covered([step |-> "settings", ask |-> ask])
  BY <1>3 DEF Covered
<1> QED
  BY <1>1, <1>4

(* createOrder agrees to a price that is marked up, and under the cap.     *)
LEMMA PricesAgreed ==
  ASSUME Costs, NEW b \in Buyer, PriceOrder(b)
  PROVE  \E r : Covered(r) /\ BuyerDoes(b, r)
<1> DEFINE ask == buyer[b].ask
           s == buyer[b].setting
<1>1. PICK p \in On, brief \in BOOLEAN :
        \E t \in Resolve(TiersOf(p, ask.country, s, brief), ask.tier, AnyOperator) :
          /\ WithinCap(t, ask.cap)
          /\ BuyerDoes(b, [step |-> "chain", sale |->
               [country |-> ask.country, price |-> t.price, raw |-> t.raw, seen |-> ask.seen]])
  BY DEF PriceOrder, TiersFor
<1>2. PICK t \in Resolve(TiersOf(p, ask.country, s, brief), ask.tier, AnyOperator) :
        /\ WithinCap(t, ask.cap)
        /\ BuyerDoes(b, [step |-> "chain", sale |->
             [country |-> ask.country, price |-> t.price, raw |-> t.raw, seen |-> ask.seen]])
  BY <1>1
<1>3. s \in Setting /\ Asked(ask)
  BY DEF PriceOrder, Pricing, BuyerAt, Costs, Covered
<1>4. p \in Provider /\ list \in [Provider -> Listing]
  BY DEF On, Costs, Priceable
<1>5. t.raw \in Nat /\ t.price \in Nat /\ t.raw <= t.price
  BY <1>2, <1>3, <1>4, ResolvedPrice
<1> DEFINE sale == [country |-> ask.country, price |-> t.price, raw |-> t.raw, seen |-> ask.seen]
<1>6. \A quote \in ToSet(ask.seen) : quote.page => t.price <= quote.price
  <2> SUFFICES ASSUME NEW quote \in ToSet(ask.seen), quote.page
               PROVE  t.price <= quote.price
    OBVIOUS
  <2>1. ask.cap = <<quote.price>>
    BY <1>3 DEF Asked
  <2>2. quote.price \in ToSet(<<quote.price>>)
    BY DEF ToSet
  <2> QED
    BY <1>2, <2>1, <2>2 DEF WithinCap
<1>7. Agreed(sale)
  BY <1>5, <1>6 DEF Agreed
<1> HIDE DEF sale
<1>8. Covered([step |-> "chain", sale |-> sale])
  BY <1>7 DEF Covered
<1> QED
  BY <1>2, <1>8 DEF sale

(* The reseller is told a cap that the agreed price covers.                *)
LEMMA RentsCovered ==
  ASSUME Costs, Inv, NEW b \in Buyer,
         Rent(b) \/ ChooseProduct(b) \/ OrderProduct(b) \/ RentFails(b)
  PROVE  \E r : Covered(r) /\ BuyerDoes(b, r)
<1> DEFINE sale == buyer[b].sale
           chain == buyer[b].chain
<1>1. buyer[b].step \in {"rent", "create"}
  BY DEF Rent, ChooseProduct, OrderProduct, RentFails, BuyerAt
<1>2. Agreed(sale)
  BY <1>1 DEF Costs, Covered
<1>3. chain \subseteq Provider /\ (buyer[b].step = "create" => buyer[b].provider \in chain)
  BY <1>1 DEF Inv, Sellers, Dealing
<1>4. \A p \in Provider : Kind[p] \in Kinds /\ list[p] \in Seq(PriceRow)
  BY KindAssumption, ListingAssumption DEF Costs, Priceable
<1>5. PriceStep \div 2 = 50
  BY DEF PriceStep
<1> HIDE DEF sale, chain
<1>6. CASE Rent(b)
  <2>1. PICK p \in chain : /\ Kind[p] # "sms_code"
                           /\ \E r \in Rentals(Kind[p], list[p], sale.country, sale.raw) :
                                Rented(b, p, r.raw)
    BY <1>6 DEF Rent, sale, chain
  <2>2. PICK r \in Rentals(Kind[p], list[p], sale.country, sale.raw) : Rented(b, p, r.raw)
    BY <2>1
  <2>3. Kind[p] # "custom_http" => r.raw <= sale.price + PriceStep \div 2
    <3> SUFFICES ASSUME Kind[p] # "custom_http" PROVE r.raw <= sale.price + PriceStep \div 2
      OBVIOUS
    <3>1. sale.raw \in Nat /\ sale.price \in Nat /\ sale.raw <= sale.price
      BY <1>2 DEF Agreed
    <3>2. Kind[p] \in Kinds \ {"custom_http", "sms_code"} /\ list[p] \in Seq(PriceRow)
      BY <1>3, <1>4, <2>1
    <3>3. r.raw \in Nat /\ r.raw <= sale.raw + PriceStep \div 2
      BY <2>2, <3>1, <3>2, RentalIsCapped
    <3> QED
      BY <1>5, <3>1, <3>3
  <2>4. Covered([step |-> "insert", sale |-> sale, provider |-> p, billed |-> r.raw])
    BY <1>2, <2>1, <2>3 DEF Covered, Dearest
  <2> QED
    BY <2>2, <2>4 DEF Rented, sale
<1>7. CASE ChooseProduct(b)
  <2>1. PICK p \in chain :
          /\ Kind[p] = "sms_code"
          /\ \E r \in CodeChoice(list[p], sale.country, sale.raw) :
               BuyerDoes(b, [step |-> "create", sale |-> sale, chain |-> chain,
                             provider |-> p, amount |-> r.raw])
    BY <1>7 DEF ChooseProduct, sale, chain
  <2>2. PICK r \in CodeChoice(list[p], sale.country, sale.raw) :
          BuyerDoes(b, [step |-> "create", sale |-> sale, chain |-> chain,
                        provider |-> p, amount |-> r.raw])
    BY <2>1
  <2>3. list[p] \in Seq(PriceRow)
    BY <1>3, <1>4
  <2>4. r.raw \in Nat /\ r.raw <= sale.raw
    BY <2>2, <2>3, CodeChoiceIsCapped
  <2>5. r.raw <= sale.price
    BY <1>2, <2>4 DEF Agreed
  <2>6. Covered([step |-> "create", sale |-> sale, chain |-> chain, provider |-> p,
                 amount |-> r.raw])
    BY <1>2, <2>1, <2>4, <2>5 DEF Covered
  <2> QED
    BY <2>2, <2>6
<1>8. CASE OrderProduct(b)
  <2> DEFINE p == buyer[b].provider
             amount == buyer[b].amount
  <2>1. buyer[b].step = "create"
    BY <1>8 DEF OrderProduct, BuyerAt
  <2>2. /\ amount \in Nat /\ amount <= sale.price /\ Kind[p] = "sms_code"
        /\ list[p] \in Seq(PriceRow) /\ sale.price \in Nat
    BY <1>2, <1>3, <1>4, <2>1 DEF Costs, Covered, sale, Agreed
  <2>3. PICK r \in CodeRent(list[p], sale.country, amount) : Rented(b, p, r.raw)
    BY <1>8 DEF OrderProduct, sale
  <2> HIDE DEF p, amount
  <2>4. r.raw <= CodeMax(sale.price)
    BY <2>2, <2>3, CodeRentIsCapped
  <2>5. Covered([step |-> "insert", sale |-> sale, provider |-> p, billed |-> r.raw])
    BY <1>2, <2>2, <2>4 DEF Covered, Dearest
  <2> QED
    BY <2>3, <2>5 DEF Rented, sale
<1>9. CASE RentFails(b)
  <2>1. \/ BuyerDoes(b, Idle)
        \/ \E c : BuyerDoes(b, [step |-> "rent", sale |-> sale, chain |-> c])
    BY <1>9 DEF RentFails, sale
  <2>2. Covered(Idle) /\ \A c : Covered([step |-> "rent", sale |-> sale, chain |-> c])
    BY <1>2 DEF Covered, Idle
  <2> QED
    BY <2>1, <2>2
<1> QED
  BY <1>6, <1>7, <1>8, <1>9

(* The settings a price is made with, and the other steps that change no   *)
(* order.                                                                  *)
LEMMA SettingsCovered ==
  ASSUME Costs, NEW b \in Buyer,
         Hit(b) \/ Miss(b) \/ Fetch(b) \/ FetchFails(b) \/ Keep(b) \/ PriceReopening(b)
  PROVE  \E r : Covered(r) /\ BuyerDoes(b, r)
<1> DEFINE ask == buyer[b].ask
<1>1. ask.goal = "order" => Asked(ask)
  BY DEF Hit, Miss, Fetch, FetchFails, Keep, PriceReopening, Pricing, BuyerAt, Costs, Covered
<1> HIDE DEF ask
<1>2. /\ \A s \in Setting : Covered([step |-> "price", ask |-> ask, setting |-> s])
      /\ \A s \in Setting : Covered([step |-> "keep", ask |-> ask, setting |-> s])
      /\ Covered([step |-> "fetch", ask |-> ask])
      /\ Covered([step |-> "reopen", ask |-> ask])
  BY <1>1 DEF Covered
<1>3. setting \in Setting /\ Default \in Setting
  BY SettingAssumption DEF Costs, Priceable
<1>4. CASE Hit(b)
  <2>1. cache[1] \in Setting
    BY <1>4 DEF Hit, Costs, Priceable, None
  <2> QED
    BY <1>2, <1>4, <2>1 DEF Hit, Priced, ask
<1>5. CASE Keep(b)
  <2>1. buyer[b].setting \in Setting
    BY <1>5 DEF Keep, BuyerAt, Costs, Covered
  <2> QED
    BY <1>2, <1>5, <2>1 DEF Keep, Priced, ask
<1>6. CASE Miss(b)
  BY <1>2, <1>6 DEF Miss, ask
<1>7. CASE Fetch(b)
  BY <1>2, <1>3, <1>7 DEF Fetch, ask
<1>8. CASE FetchFails(b)
  BY <1>2, <1>3, <1>8 DEF FetchFails, Priced, ask
<1>9. CASE PriceReopening(b)
  BY <1>2, <1>9 DEF PriceReopening, ask
<1> QED
  BY <1>4, <1>5, <1>6, <1>7, <1>8, <1>9

LEMMA OthersCovered ==
  ASSUME Costs, NEW b \in Buyer,
         \/ \E c \in Country : OpenQuote(b, c)
         \/ Refuse(b) \/ ResolveChain(b) \/ FindAdapter(b)
  PROVE  \E r : Covered(r) /\ BuyerDoes(b, r)
<1>1. Covered(Idle)
  BY DEF Covered, Idle
<1>2. CASE \E c \in Country : OpenQuote(b, c)
  BY <1>2 DEF OpenQuote, Covered
<1>3. CASE Refuse(b)
  BY <1>1, <1>3 DEF Refuse
<1>4. CASE ResolveChain(b)
  <2>1. Agreed(buyer[b].sale)
    BY <1>4 DEF ResolveChain, BuyerAt, Costs, Covered
  <2>2. Covered([step |-> "rent", sale |-> buyer[b].sale, chain |-> On])
    BY <2>1 DEF Covered
  <2> QED
    BY <1>1, <1>4, <2>2 DEF ResolveChain
<1>5. CASE FindAdapter(b)
  BY <1>5 DEF FindAdapter, Covered
<1> QED
  BY <1>2, <1>3, <1>4, <1>5

(* An order is made for what was agreed; a reopened one stays as it was.   *)
LEMMA InsertCosts ==
  ASSUME Costs, NEW b \in Buyer, InsertOrder(b)
  PROVE  Costs'
<1> DEFINE n == Len(order)
<1>1. PICK S : order \in Seq(S)
  BY DEF Costs, OrderType
<1>2. PICK o : /\ order' = Append(order, o) /\ o.provider = buyer[b].provider
               /\ o.price = buyer[b].sale.price /\ o.billed = buyer[b].billed
  BY DEF InsertOrder
<1>3. order \in Seq(S \cup {o})
  BY <1>1
<1>4. /\ order' \in Seq(S \cup {o}) /\ n \in Nat /\ DOMAIN order = 1..n
      /\ DOMAIN order' = 1..(n + 1) /\ order'[n + 1] = o
      /\ \A i \in 1..n : order'[i] = order[i]
  BY <1>2, <1>3
<1>5. Kind[o.provider] # "custom_http" => o.billed <= Dearest(Kind[o.provider], o.price)
  BY <1>2 DEF InsertOrder, BuyerAt, Costs, Covered
<1>6. \A i \in 1..(n + 1) : i = n + 1 \/ i \in 1..n
  BY <1>4
<1>7. NotBelowCost'
  BY <1>4, <1>5, <1>6 DEF Costs, NotBelowCost
<1>8. BuyerType' /\ \A d \in Buyer : Covered(buyer'[d])
  BY DEF InsertOrder, BuyerDoes, Costs, BuyerType, Covered, Idle
<1>9. Priceable'
  BY DEF InsertOrder, Reads, Costs, Priceable
<1> QED
  BY <1>4, <1>7, <1>8, <1>9 DEF Costs, OrderType, Covered

LEMMA OneOrderCosts ==
  ASSUME Costs, NEW i, NEW o, order' = [order EXCEPT ![i] = o],
         o.provider = order[i].provider, o.price = order[i].price, o.billed = order[i].billed,
         UNCHANGED <<list, setting, cache>>,
         buyer' = buyer \/ \E b \in Buyer : \E r : BuyerDoes(b, r) /\ r.step \in {"idle", "adapter"}
  PROVE  Costs'
<1>1. PICK S : order \in Seq(S)
  BY DEF Costs, OrderType
<1>2. order' \in Seq(S \cup {o}) /\ DOMAIN order' = DOMAIN order
  <2>1. CASE i \in DOMAIN order
    BY <1>1, <2>1
  <2>2. CASE i \notin DOMAIN order
    <3>1. order' = order
      BY <1>1, <2>2
    <3>2. order \in Seq(S \cup {o})
      BY <1>1
    <3> QED
      BY <3>1, <3>2
  <2> QED
    BY <2>1, <2>2
<1>3. \A j \in DOMAIN order : /\ order'[j].provider = order[j].provider
                              /\ order'[j].billed = order[j].billed
                              /\ order'[j].price = order[j].price
  BY <1>2
<1>4. NotBelowCost'
  BY <1>2, <1>3 DEF Costs, NotBelowCost
<1>5. \A d \in Buyer : Covered(buyer'[d])
  <2> TAKE d \in Buyer
  <2>1. CASE buyer'[d] = buyer[d]
    BY <2>1 DEF Costs
  <2>2. CASE buyer'[d] # buyer[d]
    <3>1. buyer'[d].step \in {"idle", "adapter"}
      BY <2>2 DEF BuyerDoes, Costs, BuyerType
    <3> QED
      BY <3>1 DEF Covered
  <2> QED
    BY <2>1, <2>2
<1>6. Priceable' /\ BuyerType' /\ OrderType'
  BY <1>2 DEF Costs, Priceable, BuyerType, OrderType, BuyerDoes
<1> QED
  BY <1>4, <1>5, <1>6 DEF Costs, Covered

LEMMA ReopeningCosts ==
  ASSUME Costs, NEW b \in Buyer,
         (\E i \in DOMAIN order : Reactivate(b, i)) \/ RefuseReopening(b) \/ Reopen(b)
  PROVE  Costs'
<1>1. CASE \E i \in DOMAIN order : Reactivate(b, i)
  <2>1. PICK i \in DOMAIN order : Reactivate(b, i)
    BY <1>1
  <2> DEFINE o == [order[i] EXCEPT !.reopening = TRUE]
             r == [step |-> "adapter", order |-> i]
  <2>2. order' = [order EXCEPT ![i] = o] /\ UNCHANGED <<list, setting, cache>> /\ BuyerDoes(b, r)
    BY <2>1 DEF Reactivate, Reads
  <2>3. /\ o.provider = order[i].provider /\ o.price = order[i].price
        /\ o.billed = order[i].billed /\ r.step = "adapter"
    OBVIOUS
  <2> HIDE DEF o, r
  <2> QED
    BY <2>2, <2>3, OneOrderCosts
<1>2. CASE RefuseReopening(b)
  <2>1. PICK i : order' = [order EXCEPT ![i].reopening = FALSE]
    BY <1>2 DEF RefuseReopening
  <2> DEFINE o == [order[i] EXCEPT !.reopening = FALSE]
  <2>2. /\ order' = [order EXCEPT ![i] = o] /\ UNCHANGED <<list, setting, cache>>
        /\ BuyerDoes(b, Idle) /\ Idle.step = "idle"
    BY <1>2, <2>1 DEF RefuseReopening, Reads, Idle
  <2>3. o.provider = order[i].provider /\ o.price = order[i].price /\ o.billed = order[i].billed
    OBVIOUS
  <2> HIDE DEF o
  <2> QED
    BY <2>2, <2>3, OneOrderCosts
<1>3. CASE Reopen(b)
  <2> DEFINE i == buyer[b].ask.order
             o == [order[i] EXCEPT !.status = "waiting", !.reopening = FALSE,
                                   !.raced = Races(b, buyer[b].ask.provider)]
  <2>1. /\ order' = [order EXCEPT ![i] = o] /\ UNCHANGED <<list, setting, cache>>
        /\ BuyerDoes(b, Idle) /\ Idle.step = "idle"
    BY <1>3 DEF Reopen, Reads, Idle
  <2>2. o.provider = order[i].provider /\ o.price = order[i].price /\ o.billed = order[i].billed
    OBVIOUS
  <2> HIDE DEF o, i
  <2> QED
    BY <2>1, <2>2, OneOrderCosts
<1> QED
  BY <1>1, <1>2, <1>3

LEMMA BuyerCosts ==
  ASSUME Costs, Inv, NEW b \in Buyer, BuyerStarts(b) \/ BuyerGoesOn(b)
  PROVE  Costs'
<1>1. CASE /\ ~InsertOrder(b) /\ ~RefuseReopening(b) /\ ~Reopen(b)
           /\ ~\E i \in DOMAIN order : Reactivate(b, i)
  <2>1. \E r : Covered(r) /\ BuyerDoes(b, r)
    <3>1. CASE BuyerStarts(b)
      BY <1>1, <3>1, OthersCovered, OrdersUnseen DEF BuyerStarts, BuyUnseen
    <3>2. CASE BuyerPrices(b)
      BY <3>2, OrdersAsked, SettingsCovered, ShownIsFound, PricesAgreed, OthersCovered
         DEF BuyerPrices
    <3>3. CASE BuyerRents(b)
      BY <1>1, <3>3, OthersCovered, RentsCovered DEF BuyerRents
    <3>4. CASE BuyerReopens(b)
      BY <1>1, <3>4, OthersCovered, SettingsCovered DEF BuyerReopens
    <3> QED
      BY <3>1, <3>2, <3>3, <3>4 DEF BuyerGoesOn
  <2>2. /\ order' = order /\ list' = list /\ setting' = setting
        /\ cache' = cache \/ Keep(b)
    BY <1>1 DEF BuyerStarts, BuyerGoesOn, BuyerPrices, BuyerRents, BuyerReopens, OpenQuote, Buy,
       BuyByApi, BuyUnseen, FindAdapter, Hit, Miss, Fetch, FetchFails, ShowQuote, Keep,
       ShowProduct, PriceOrder, PriceReopening, Refuse, ResolveChain, Rent,
       ChooseProduct, OrderProduct, RentFails, Reads, ReadsRows
  <2>3. Keep(b) => \E s \in Setting : cache' = <<s>>
    BY DEF Keep, BuyerAt, Costs, Covered
  <2> QED
    BY <2>1, <2>2, <2>3, CoveredKept
<1> QED
  BY <1>1, InsertCosts, ReopeningCosts

LEMMA InitCosts == Init => Costs
<1> SUFFICES ASSUME Init PROVE Costs
  OBVIOUS
<1>1. Priceable
  BY SettingAssumption DEF Init, Priceable
<1>2. BuyerType /\ OrderType /\ NotBelowCost
  BY DEF Init, BuyerType, OrderType, NotBelowCost
<1>3. \A b \in Buyer : Covered(buyer[b])
  BY DEF Init, Covered, Idle
<1> QED
  BY <1>1, <1>2, <1>3 DEF Costs

LEMMA NextCosts ==
  ASSUME Costs, Inv, [Next]_vars
  PROVE  Costs'
<1>1. CASE \E b \in Buyer : BuyerStarts(b) \/ BuyerGoesOn(b)
  BY <1>1, BuyerCosts
<1>2. CASE \E i \in DOMAIN order : CloseOrder(i, "completed") \/ CloseOrder(i, "closed")
  <2>1. PICK i \in DOMAIN order, s \in {"completed", "closed"} : CloseOrder(i, s)
    BY <1>2
  <2> DEFINE o == [order[i] EXCEPT !.status = s]
  <2>2. order' = [order EXCEPT ![i] = o] /\ buyer' = buyer /\ UNCHANGED <<list, setting, cache>>
    BY <2>1 DEF CloseOrder
  <2>3. o.provider = order[i].provider /\ o.price = order[i].price /\ o.billed = order[i].billed
    OBVIOUS
  <2> HIDE DEF o
  <2> QED
    BY <2>2, <2>3, OneOrderCosts
<1>3. CASE \/ \E a \in Admin : AdminStarts(a) \/ AdminGoesOn(a) \/ Die(a)
           \/ \E p \in Provider, l \in Listing : Reprice(p, l)
           \/ Expire \/ UNCHANGED vars
  <2>1. buyer' = buyer /\ order' = order
    BY <1>3 DEF AdminStarts, AdminGoesOn, CreateProvider, UpdateProvider, DeleteProvider,
      UpdateSettings, SaveProvider, DisableOthers, DeleteRow, ResetCache, AdminFetch, AdminKeep,
      Die, Reprice, Expire, vars
  <2>2. setting' \in Setting
    BY <1>3 DEF AdminStarts, AdminGoesOn, CreateProvider, UpdateProvider, DeleteProvider,
      UpdateSettings, SaveProvider, DisableOthers, DeleteRow, ResetCache, AdminFetch, AdminKeep,
      Die, Reprice, Expire, vars, Costs, Priceable
  <2>3. list' \in [Provider -> Listing]
    BY <1>3 DEF AdminStarts, AdminGoesOn, CreateProvider, UpdateProvider, DeleteProvider,
      UpdateSettings, SaveProvider, DisableOthers, DeleteRow, ResetCache, AdminFetch, AdminKeep,
      Die, Reprice, Expire, vars, Costs, Priceable
  <2>4. cache' \in {None} \cup {<<s>> : s \in Setting}
    <3>1. CASE \E a \in Admin : AdminKeep(a)
      <4>1. PICK a \in Admin : AdminKeep(a)
        BY <3>1
      <4>2. admin[a].read \in Setting
        BY <4>1 DEF AdminKeep, AdminAt, Inv, Types, AdminType, AdminTask
      <4> QED
        BY <4>1, <4>2 DEF AdminKeep
    <3>2. CASE ~\E a \in Admin : AdminKeep(a)
      <4>1. cache' = cache \/ cache' = None
        BY <1>3, <3>2 DEF AdminStarts, AdminGoesOn, CreateProvider, UpdateProvider, DeleteProvider,
          UpdateSettings, SaveProvider, DisableOthers, DeleteRow, ResetCache, AdminFetch,
          Die, Reprice, Expire, vars
      <4> QED
        BY <4>1 DEF Costs, Priceable
    <3> QED
      BY <3>1, <3>2
  <2> QED
    BY <2>1, <2>2, <2>3, <2>4 DEF Costs, Priceable, BuyerType, OrderType, NotBelowCost, Covered
<1> QED
  BY <1>1, <1>2, <1>3 DEF Next
THEOREM CostsCovered == Spec => []Costs
  BY InitCosts, NextCosts, InvHolds, PTL DEF Spec

(* orders.service.ts createOrder: "we're never billed above what we        *)
(* quoted".  Whatever member of the chain rents the number, and however    *)
(* prices and settings move between quote, price and rental, the reseller  *)
(* bills no more than the buyer pays, up to the rounding of the cap; and   *)
(* for smscode, however they move between its two calls, no more than the  *)
(* headroom of the second above it.                                        *)
THEOREM NotBelowCostHolds == Spec => []NotBelowCost
<1>1. Costs => NotBelowCost
  BY DEF Costs
<1> QED
  BY CostsCovered, <1>1, PTL

(* The variables of Market keep their types.                               *)
THEOREM TypeCorrect == Spec => []TypeOK
<1>1. Init => cut \in BOOLEAN
  BY DEF Init
<1>2. cut \in BOOLEAN /\ [Next]_vars => (cut \in BOOLEAN)'
  <2> SUFFICES ASSUME cut \in BOOLEAN, [Next]_vars PROVE cut' \in BOOLEAN
    OBVIOUS
  <2>1. CASE \E b \in Buyer : BuyerStarts(b) \/ BuyerGoesOn(b)
    <3>1. cut' = cut
      BY <2>1 DEF BuyerStarts, BuyerGoesOn, BuyerPrices, BuyerRents, BuyerReopens, OpenQuote, Buy,
         BuyByApi, BuyUnseen, Reactivate, FindAdapter, Hit, Miss, Fetch, FetchFails, Keep, ShowQuote,
         ShowProduct, PriceOrder, PriceReopening, Refuse, RefuseReopening, ResolveChain, Rent,
         ChooseProduct, OrderProduct, RentFails, InsertOrder, Reopen, Reads, ReadsRows
    <3> QED
      BY <3>1, Zenon
  <2>2. CASE ~\E b \in Buyer : BuyerStarts(b) \/ BuyerGoesOn(b)
    <3>1. cut' = cut \/ cut' = TRUE \/ cut' = FALSE
      BY <2>2 DEF Next, vars, AdminStarts, AdminGoesOn, CreateProvider, UpdateProvider, SaveProvider,
           DisableOthers, DeleteProvider, DeleteRow, UpdateSettings, ResetCache, AdminFetch,
           AdminKeep, Die, Expire, Reprice, CloseOrder
    <3> QED
      BY <3>1, Zenon
  <2> QED
    BY <2>1, <2>2, Zenon
<1>3. Inv /\ Costs /\ cut \in BOOLEAN => TypeOK
  BY DEF Inv, Types, RowType, AdminType, BuyerType, Sellers, Costs, Priceable, TypeOK
<1> QED
  BY <1>1, <1>2, <1>3, InvHolds, CostsCovered, PTL DEF Spec

-----------------------------------------------------------------------------
(* What is shown is what is bought.                                        *)

(* A row in stock that the cap reaches can be rented.                      *)
LEMMA RentalExists ==
  ASSUME NEW kind \in Kinds \ {"sms_code"}, NEW l \in Seq(PriceRow), NEW c, NEW cap,
         NEW r \in ToSet(Source(kind, l, c)), InStock(r),
         kind # "custom_http" => r.raw <= PriceCap(cap)
  PROVE  Rentals(kind, l, c, cap) # {}
<1>1. CASE kind = "custom_http"
  BY <1>1 DEF Rentals, CustomRent, Source, Routed
<1>2. CASE kind # "custom_http"
  <2>1. r \in Affordable(l, Routed(kind, c), PriceCap(cap))
    BY <1>2 DEF Affordable, Source
  <2> QED
    BY <1>2, <2>1 DEF Rentals, HeroRent, BowerRent, TigerRent, PoolRent, Routed, Kinds, ActivateKind
<1> QED
  BY <1>1, <1>2

(* smscode: a product in stock under the cap, of a country whose products  *)
(* are one page, or one that is cheaper is chosen.                         *)
LEMMA ChoiceExists ==
  ASSUME NEW l \in Seq(PriceRow), NEW c, NEW cap,
         Cardinality(DOMAIN InCountry(l, c)) <= CodePage,
         NEW r \in ToSet(InCountry(l, c)), InStock(r), r.raw <= cap
  PROVE  CodeChoice(l, c, cap) # {}
<1> DEFINE rows == InCountry(l, c)
           D == DOMAIN rows
           before(i) == {j \in D : j < i}
<1>1. /\ \E m \in Nat : D \subseteq 1 .. m
      /\ D \subseteq Nat
      /\ \A i \in D : rows[i] \in PriceRow
  BY CountryRows DEF RowsOK
<1>2. IsFiniteSet(D) /\ Cardinality(D) \in Nat
  <2>1. PICK m \in Nat : D \subseteq 1 .. m
    BY <1>1
  <2>2. IsFiniteSet(1 .. m)
    BY FS_Interval
  <2> HIDE DEF D
  <2> QED
    BY <2>1, <2>2, FS_Subset, FS_CardinalityType
<1>3. \A i \in D : Cardinality(before(i)) < CodePage
  <2> TAKE i \in D
  <2>1. before(i) \in SUBSET D /\ before(i) # D
    BY <1>1
  <2> HIDE DEF before, D
  <2>2. IsFiniteSet(before(i)) /\ Cardinality(before(i)) <= Cardinality(D)
        /\ Cardinality(before(i)) # Cardinality(D)
    BY <1>2, <2>1, FS_Subset
  <2>3. Cardinality(before(i)) \in Nat /\ CodePage \in Nat
    BY <2>2, FS_CardinalityType, PageAssumption
  <2> QED
    BY <1>2, <2>2, <2>3 DEF D, rows
<1>4. PICK i \in D : r = rows[i]
  BY DEF ToSet
<1>5. i \in DOMAIN FirstPage(rows) /\ FirstPage(rows)[i] = r
  BY <1>3, <1>4 DEF FirstPage, Restrict
<1>6. \A j \in DOMAIN FirstPage(rows) : j \in D /\ FirstPage(rows)[j] = rows[j]
  BY DEF FirstPage, Restrict
<1> DEFINE some == {q \in ToSet(FirstPage(rows)) : InStock(q) /\ q.raw <= cap}
<1>7. some # {}
  BY <1>5 DEF ToSet
<1>8. \A q \in some : q.raw \in Nat
  BY <1>1, <1>6 DEF ToSet, PriceRow
<1>9. \E q1 \in some : \A q \in some : q1.raw <= q.raw
  <2> HIDE DEF some
  <2> QED
    BY <1>7, <1>8, CheapestExists
<1> QED
  BY <1>9 DEF CodeChoice

(* What an adapter lists, in stock, can be rented at its price.            *)
LEMMA ListedIsSold ==
  ASSUME NEW p \in Provider, list \in [Provider -> Listing], NEW c, NEW raw,
         Lists(p, c, raw), Told(p, c, raw)
  PROVE  Sells(p, c, raw)
<1> DEFINE source == Source(Kind[p], list[p], c)
<1>1. Kind[p] \in Kinds /\ list[p] \in Seq(PriceRow)
  BY KindAssumption, ListingAssumption
<1>2. PICK brief \in BOOLEAN : \E t \in ToSet(ListPrices(Kind[p], list[p], c, brief)) :
        t.raw = raw /\ t.stock \notin {0, Unknown}
  BY DEF Lists
<1> DEFINE rows == ListPrices(Kind[p], list[p], c, brief)
<1>3. ListedFrom(rows, source)
  BY <1>1, PricesAreListed
<1>4. PICK i \in DOMAIN rows : rows[i].raw = raw /\ rows[i].stock \notin {0, Unknown}
  BY <1>2 DEF ToSet
<1>5. i \in DOMAIN source /\ source[i].raw = raw /\ source[i].stock = rows[i].stock /\ raw \in Nat
  <2> HIDE DEF rows, source
  <2> QED
    BY <1>3, <1>4 DEF ListedFrom, PriceRow
<1>6. source[i] \in ToSet(source) /\ InStock(source[i])
  BY <1>4, <1>5 DEF ToSet, InStock
<1>7. CASE Kind[p] = "sms_code"
  <2>1. source = InCountry(list[p], c)
    BY <1>7 DEF Source, Routed
  <2>2. Cardinality(DOMAIN InCountry(list[p], c)) <= CodePage
    BY <1>7 DEF Told
  <2>3. CodeChoice(list[p], c, raw) # {}
    <3> HIDE DEF source, rows
    <3> QED
      BY <1>1, <1>5, <1>6, <2>1, <2>2, ChoiceExists
  <2> QED
    BY <1>7, <2>3 DEF Sells
<1>8. CASE Kind[p] # "sms_code"
  <2>1. Kind[p] # "custom_http" => raw <= PriceCap(raw)
    <3>1. PriceCap(raw) \in Nat
      BY <1>5, CapIsRounded
    <3> QED
      BY <1>5, <1>8, <3>1 DEF Told
  <2>2. Rentals(Kind[p], list[p], c, raw) # {}
    <3> HIDE DEF rows
    <3> QED
      BY <1>1, <1>5, <1>6, <1>8, <2>1, RentalExists
  <2> QED
    BY <1>8, <2>2 DEF Sells
<1> QED
  BY <1>7, <1>8

(* orders.service.ts createOrder, catalog.ts resolveTier and the adapters: *)
(* an order finds the tier it was shown, under the cap it was given, if    *)
(* the tiers have not shifted when it is priced; whatever shifted, whoever *)
(* buys on the page pays at most the price that was shown; and a provider  *)
(* that still lists the tier in stock when the number is rented has one.   *)
THEOREM QuotedIsBoughtHolds == Spec => []QuotedIsBought
<1>1. Costs /\ Inv => QuotedIsBought
  <2> SUFFICES ASSUME Costs, Inv, NEW b \in Buyer
               PROVE  QuotedIsBought!(b)
    BY DEF QuotedIsBought
  <2>1. ASSUME Pricing(b, "order"), NEW quote \in ToSet(buyer[b].ask.seen),
               NEW p \in On, NEW brief \in BOOLEAN, TiersFor(b, p, brief) = quote.tiers
        PROVE  \E t \in Resolve(TiersFor(b, p, brief), buyer[b].ask.tier, AnyOperator) :
                 t.price = quote.price /\ WithinCap(t, buyer[b].ask.cap)
    <3>1. Asked(buyer[b].ask)
      BY <2>1 DEF Pricing, BuyerAt, Costs, Covered
    <3>2. /\ quote.price \in Nat /\ FoundIn(quote.tiers, buyer[b].ask.tier, quote.price)
          /\ buyer[b].ask.cap \in {None, <<quote.price>>}
      BY <3>1 DEF Asked
    <3>3. PICK t \in Resolve(quote.tiers, buyer[b].ask.tier, AnyOperator) : t.price = quote.price
      BY <3>2 DEF FoundIn
    <3>4. \A most \in ToSet(buyer[b].ask.cap) : most = quote.price
      BY <3>2 DEF ToSet, None
    <3>5. WithinCap(t, buyer[b].ask.cap)
      BY <3>2, <3>3, <3>4 DEF WithinCap
    <3> QED
      BY <2>1, <3>3, <3>5
  <2>2. ASSUME buyer[b].step \in {"chain", "rent", "create", "insert"}
        PROVE  \A quote \in ToSet(buyer[b].sale.seen) :
                 quote.page => buyer[b].sale.price <= quote.price
    BY <2>2 DEF Costs, Covered, Agreed
  <2>3. ASSUME BuyerAt(b, "rent"), NEW p \in buyer[b].chain, NEW c, NEW raw,
               Lists(p, c, raw), Told(p, c, raw)
        PROVE  Sells(p, c, raw)
    <3>1. p \in Provider /\ list \in [Provider -> Listing]
      BY <2>3 DEF BuyerAt, Inv, Sellers, Dealing, Costs, Priceable
    <3> QED
      BY <2>3, <3>1, ListedIsSold
  <2> QED
    BY <2>1, <2>2, <2>3
<1> QED
  BY CostsCovered, InvHolds, <1>1, PTL
=============================================================================
