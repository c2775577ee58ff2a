--------------------------- MODULE MarketplaceProofs ---------------------------
(* Theorems about Marketplace, for every value of its constants.             *)
EXTENDS Marketplace, FiniteSetTheorems, TLAPS

RowType ==
    /\ owner \in [Assets -> Users]
    /\ listing \in [Assets -> Listings]
    /\ \A a \in Assets : listing[a].status # "NONE" => listing[a].seller \in Users
SaleType ==
    /\ sale \in [Keys -> Sales \cup {NoSale}]
    /\ transfers \in [Assets -> Seq([from : Users, to : Users])]
HistoryType ==
    /\ listed \in [Assets -> Nat] /\ held \in [Assets -> SUBSET Users]
    /\ overlapped \subseteq Assets /\ faults \in Nat
Memory == [pc : Steps, user : Users \cup {None}, asset : Assets \cup {None}, price : Nat,
           key : Keys \cup {None}, seller : Users \cup {None}]

(* What a call has read by the time it comes to a step.                       *)
Busy(m) == m.pc # "idle" => m.user \in Users /\ m.asset \in Assets
Buying(m) ==
    /\ m.pc \in {"buyRead", "buyClaim", "buyTell"} => m.key \in Keys
    /\ m.pc = "buyClaim" => m.seller \in Users /\ m.seller # m.user
CallType ==
    /\ call \in [Calls -> Memory]
    /\ \A c \in Calls : Busy(call[c]) /\ Buying(call[c])

(* Rows a later write relies on are there: rows are never deleted.            *)
RowsStay ==
    /\ told \subseteq {k \in Keys : sale[k] # NoSale}
    /\ \A c \in Calls :
        /\ call[c].pc = "cancelWrite" => listing[call[c].asset].status # "NONE"
        /\ call[c].pc = "buyTell" => sale[call[c].key] # NoSale

TypeInv == RowType /\ SaleType /\ HistoryType /\ CallType /\ RowsStay

(* Changing one call changes no other, and a proper memory is enough.         *)
LEMMA CallUpdate ==
    ASSUME TypeInv, NEW c \in Calls, NEW m \in Memory, Busy(m), Buying(m),
           call' = [call EXCEPT ![c] = m]
    PROVE  /\ CallType' /\ call'[c] = m
           /\ \A d \in Calls : d # c => call'[d] = call[d]
  BY DEF TypeInv, CallType

LEMMA IdleMemory ==
    /\ IdleCall \in Memory /\ Busy(IdleCall) /\ Buying(IdleCall)
    /\ IdleCall.pc = "idle"
  BY DEF IdleCall, Memory, Busy, Buying, Steps

(* A call that ends.                                                           *)
LEMMA EndType ==
    ASSUME TypeInv, NEW c \in Calls, End(c)
    PROVE  /\ CallType' /\ call'[c].pc = "idle"
           /\ \A d \in Calls : d # c => call'[d] = call[d]
  BY IdleMemory, CallUpdate DEF End

(* A call that goes on to a step with what it has read.                        *)
LEMMA GoType ==
    ASSUME TypeInv, NEW c \in Calls, NEW step \in Steps, Go(c, step), call[c].pc # "idle",
           Buying([call[c] EXCEPT !.pc = step])
    PROVE  /\ CallType' /\ call'[c] = [call[c] EXCEPT !.pc = step]
           /\ \A d \in Calls : d # c => call'[d] = call[d]
  <1> DEFINE m == [call[c] EXCEPT !.pc = step]
  <1>1. m \in Memory /\ Busy(m)
    BY DEF TypeInv, CallType, Memory, Busy
  <1>2. call' = [call EXCEPT ![c] = m]
    BY DEF Go, TypeInv, CallType
  <1> HIDE DEF m
  <1>3. Buying(m)
    BY DEF m
  <1>4. CallType' /\ call'[c] = m /\ \A d \in Calls : d # c => call'[d] = call[d]
    BY <1>1, <1>2, <1>3, CallUpdate
  <1> QED
    BY <1>4 DEF m

LEMMA InitType == Init => TypeInv
  <1> SUFFICES ASSUME Init PROVE TypeInv
    OBVIOUS
  <1>1. RowType
    BY DEF Init, RowType, Listings, NoListing
  <1>2. SaleType /\ HistoryType
    BY DEF Init, SaleType, HistoryType
  <1>3. CallType /\ RowsStay
    BY IdleMemory DEF Init, CallType, RowsStay
  <1> QED
    BY <1>1, <1>2, <1>3 DEF TypeInv

(* The first reads of the three operations.                                    *)
LEMMA BeginType ==
    ASSUME TypeInv, NEW c \in Calls, NEW u \in Users, NEW a \in Assets,
           \/ \E price \in Prices : ListAsset(c, u, a, price)
           \/ CancelListing(c, u, a)
           \/ \E k \in Keys : PurchaseListing(c, u, a, k)
    PROVE  TypeInv'
  <1> DEFINE Begun == \E m \in Memory :
          /\ Busy(m) /\ Buying(m) /\ call' = [call EXCEPT ![c] = m] /\ m.pc # "buyTell"
          /\ m.pc = "cancelWrite" => listing[m.asset].status # "NONE"
  <1>1. Begun
    <2>1. ASSUME NEW price \in Prices, ListAsset(c, u, a, price)
          PROVE  Begun
      <3>0. price \in Nat
        BY MarketAssumption
      <3> DEFINE m == [IdleCall EXCEPT !.pc = "listCheck", !.user = u, !.asset = a,
                                       !.price = price]
      <3>1. m \in Memory /\ Busy(m) /\ Buying(m) /\ m.pc = "listCheck"
        BY <3>0 DEF IdleCall, Memory, Busy, Buying, Steps
      <3> QED
        BY <2>1, <3>1 DEF ListAsset
    <2>2. ASSUME CancelListing(c, u, a) PROVE Begun
      <3> DEFINE m == [IdleCall EXCEPT !.pc = "cancelWrite", !.user = u, !.asset = a]
      <3>1. m \in Memory /\ Busy(m) /\ Buying(m) /\ m.pc = "cancelWrite" /\ m.asset = a
        BY DEF IdleCall, Memory, Busy, Buying, Steps
      <3> QED
        BY <2>2, <3>1 DEF CancelListing
    <2>3. ASSUME NEW k \in Keys, PurchaseListing(c, u, a, k)
          PROVE  Begun
      <3> DEFINE m == [IdleCall EXCEPT !.pc = "buyRead", !.user = u, !.asset = a, !.key = k]
      <3>1. m \in Memory /\ Busy(m) /\ Buying(m) /\ m.pc = "buyRead"
        BY DEF IdleCall, Memory, Busy, Buying, Steps
      <3> QED
        BY <2>3, <3>1 DEF PurchaseListing
    <2> QED
      BY <2>1, <2>2, <2>3
  <1>2. PICK m \in Memory :
          /\ Busy(m) /\ Buying(m) /\ call' = [call EXCEPT ![c] = m] /\ m.pc # "buyTell"
          /\ m.pc = "cancelWrite" => listing[m.asset].status # "NONE"
    BY <1>1
  <1>3. CallType' /\ call'[c] = m /\ \A d \in Calls : d # c => call'[d] = call[d]
    BY <1>2, CallUpdate
  <1>4. UNCHANGED <<owner, listing, sale, transfers, told, listed, held, overlapped, faults>>
    BY DEF ListAsset, CancelListing, PurchaseListing
  <1>5. RowType' /\ SaleType' /\ HistoryType'
    BY <1>4 DEF TypeInv, RowType, SaleType, HistoryType
  <1>6. RowsStay'
    BY <1>2, <1>3, <1>4 DEF TypeInv, RowsStay
  <1> QED
    BY <1>3, <1>5, <1>6 DEF TypeInv

(* The steps that write nothing or a listing.                                  *)
LEMMA CheckType ==
    ASSUME TypeInv, NEW c \in Calls, ListCheck(c) \/ BuyRead(c)
    PROVE  TypeInv'
  <1>1. UNCHANGED <<owner, listing, sale, transfers, told, listed, held, overlapped, faults>>
    BY DEF ListCheck, BuyRead
  <1>2. /\ CallType'
        /\ call'[c].pc \notin {"cancelWrite", "buyTell"}
        /\ \A d \in Calls : d # c => call'[d] = call[d]
    <2>1. CASE End(c)
      BY <2>1, EndType
    <2>2. CASE ListCheck(c) /\ ~ End(c)
      <3>1. Go(c, "listWrite") /\ call[c].pc = "listCheck"
        BY <2>2 DEF ListCheck
      <3>2. Buying([call[c] EXCEPT !.pc = "listWrite"])
        BY DEF Buying, TypeInv, CallType, Memory
      <3>3. "listWrite" \in Steps
        BY DEF Steps
      <3>4. CallType' /\ call'[c] = [call[c] EXCEPT !.pc = "listWrite"]
                      /\ \A d \in Calls : d # c => call'[d] = call[d]
        BY <3>1, <3>2, <3>3, GoType
      <3> QED
        BY <3>4 DEF TypeInv, CallType, Memory
    <2>3. CASE BuyRead(c) /\ ~ End(c)
      <3> DEFINE row == listing[call[c].asset]
                 m == [call[c] EXCEPT !.pc = "buyClaim", !.seller = row.seller,
                                      !.price = row.price]
      <3>1. /\ call' = [call EXCEPT ![c] = m] /\ call[c].pc = "buyRead"
            /\ row.status = "ACTIVE" /\ row.seller # call[c].user
        BY <2>3 DEF BuyRead, TypeInv, CallType
      <3>2. row.seller \in Users /\ row.price \in Nat
        BY <3>1 DEF TypeInv, RowType, CallType, Busy, Listings
      <3>3. m \in Memory /\ m.pc = "buyClaim" /\ Busy(m) /\ Buying(m)
        <4> HIDE DEF row
        <4> QED
          BY <3>1, <3>2 DEF TypeInv, CallType, Memory, Busy, Buying, Steps
      <3> HIDE DEF m
      <3> QED
        BY <3>1, <3>3, CallUpdate
    <2> QED
      BY <2>1, <2>2, <2>3 DEF ListCheck, BuyRead
  <1>3. RowType' /\ SaleType' /\ HistoryType'
    BY <1>1 DEF TypeInv, RowType, SaleType, HistoryType
  <1>4. RowsStay'
    BY <1>1, <1>2 DEF TypeInv, RowsStay
  <1> QED
    BY <1>2, <1>3, <1>4 DEF TypeInv

LEMMA ListWriteType ==
    ASSUME TypeInv, NEW c \in Calls, ListWrite(c)
    PROVE  TypeInv'
  <1>1. call[c].user \in Users /\ call[c].asset \in Assets /\ call[c].price \in Nat
    BY DEF ListWrite, TypeInv, CallType, Memory, Busy
  <1>2. CallType' /\ call'[c].pc = "idle" /\ \A d \in Calls : d # c => call'[d] = call[d]
    BY EndType DEF ListWrite
  <1>3. RowType'
    BY <1>1 DEF ListWrite, TypeInv, RowType, Listings
  <1>4. SaleType' /\ HistoryType'
    <2>1. listed' \in [Assets -> Nat]
      BY <1>1 DEF ListWrite, TypeInv, HistoryType
    <2> QED
      BY <2>1 DEF ListWrite, TypeInv, SaleType, HistoryType
  <1>5. RowsStay'
    <2>1. \A a \in Assets : listing[a].status # "NONE" => listing'[a].status # "NONE"
      BY <1>1 DEF ListWrite, TypeInv, RowType
    <2> QED
      BY <1>2, <2>1 DEF ListWrite, TypeInv, RowsStay, CallType, Busy
  <1> QED
    BY <1>2, <1>3, <1>4, <1>5 DEF TypeInv

LEMMA CancelWriteType ==
    ASSUME TypeInv, NEW c \in Calls, CancelWrite(c)
    PROVE  TypeInv'
  <1>1. call[c].asset \in Assets /\ listing[call[c].asset].status # "NONE"
    BY DEF CancelWrite, TypeInv, CallType, Busy, RowsStay
  <1>2. CallType' /\ call'[c].pc = "idle" /\ \A d \in Calls : d # c => call'[d] = call[d]
    BY EndType DEF CancelWrite
  <1>3. RowType'
    BY <1>1 DEF CancelWrite, TypeInv, RowType, Listings
  <1>4. SaleType' /\ HistoryType'
    BY DEF CancelWrite, TypeInv, SaleType, HistoryType
  <1>5. RowsStay'
    <2>1. \A a \in Assets : listing[a].status # "NONE" => listing'[a].status # "NONE"
      BY <1>1 DEF CancelWrite, TypeInv, RowType, Listings
    <2> QED
      BY <1>2, <2>1 DEF CancelWrite, TypeInv, RowsStay, CallType, Busy
  <1> QED
    BY <1>2, <1>3, <1>4, <1>5 DEF TypeInv

(* What a purchase has in hand when its transaction begins, and what the        *)
(* transaction leaves.                                                          *)
LEMMA SellEffect ==
    ASSUME TypeInv, NEW c \in Calls, call[c].pc = "buyClaim", Sell(c)
    PROVE  /\ call[c].asset \in Assets /\ call[c].user \in Users /\ call[c].key \in Keys
           /\ call[c].seller \in Users /\ call[c].price \in Nat
           /\ sale'[call[c].key] = [asset |-> call[c].asset, buyer |-> call[c].user,
                                    seller |-> call[c].seller, amount |-> call[c].price]
           /\ sale'[call[c].key] \in Sales /\ sale'[call[c].key] # NoSale
           /\ \A k \in Keys : k # call[c].key => sale'[k] = sale[k]
           /\ CallType' /\ call'[c] = [call[c] EXCEPT !.pc = "buyTell"]
           /\ \A d \in Calls : d # c => call'[d] = call[d]
  <1>1. /\ call[c].asset \in Assets /\ call[c].user \in Users /\ call[c].key \in Keys
        /\ call[c].seller \in Users /\ call[c].price \in Nat
    BY DEF TypeInv, CallType, Memory, Busy, Buying
  <1>2. /\ sale'[call[c].key] = [asset |-> call[c].asset, buyer |-> call[c].user,
                                 seller |-> call[c].seller, amount |-> call[c].price]
        /\ \A k \in Keys : k # call[c].key => sale'[k] = sale[k]
    BY <1>1 DEF Sell, TypeInv, SaleType
  <1>3. sale'[call[c].key] \in Sales /\ sale'[call[c].key] # NoSale
    <2>1. None \notin Assets
      BY MarketAssumption
    <2> QED
      BY <1>1, <1>2, <2>1 DEF Sales, NoSale
  <1>4. Go(c, "buyTell") /\ "buyTell" \in Steps /\ Buying([call[c] EXCEPT !.pc = "buyTell"])
    BY <1>1 DEF Sell, Steps, Buying, TypeInv, CallType, Memory
  <1>5. CallType' /\ call'[c] = [call[c] EXCEPT !.pc = "buyTell"]
                  /\ \A d \in Calls : d # c => call'[d] = call[d]
    BY <1>4, GoType
  <1> QED
    BY <1>1, <1>2, <1>3, <1>5

LEMMA SellType ==
    ASSUME TypeInv, NEW c \in Calls, call[c].pc = "buyClaim", Sell(c),
           listing[call[c].asset].status = "ACTIVE", UNCHANGED <<told, listed, faults>>
    PROVE  TypeInv'
  <1>1. RowType'
    <2>1. /\ listing' = [listing EXCEPT ![call[c].asset].status = "SOLD"]
          /\ owner' = [owner EXCEPT ![call[c].asset] = call[c].user]
          /\ call[c].asset \in Assets /\ call[c].user \in Users
      BY SellEffect DEF Sell
    <2>2. owner' \in [Assets -> Users]
      BY <2>1 DEF TypeInv, RowType
    <2>3. listing' \in [Assets -> Listings]
      BY <2>1 DEF TypeInv, RowType, Listings
    <2> QED
      BY <2>1, <2>2, <2>3 DEF TypeInv, RowType, Listings
  <1>2. SaleType'
    <2>1. sale' \in [Keys -> Sales \cup {NoSale}]
      BY SellEffect DEF Sell, TypeInv, SaleType
    <2>2. transfers' \in [Assets -> Seq([from : Users, to : Users])]
      <3>1. [from |-> call[c].seller, to |-> call[c].user] \in [from : Users, to : Users]
        BY SellEffect
      <3> QED
        <4>1. \A s \in Seq([from : Users, to : Users]) :
                Append(s, [from |-> call[c].seller, to |-> call[c].user])
                    \in Seq([from : Users, to : Users])
          BY <3>1
        <4> QED
          BY <4>1, SellEffect DEF Sell, TypeInv, SaleType
    <2> QED
      BY <2>1, <2>2 DEF SaleType
  <1>3. HistoryType'
    <2>1. held' \in [Assets -> SUBSET Users]
      <3>1. /\ held' = [held EXCEPT ![call[c].asset] = @ \cup {call[c].user}]
            /\ call[c].asset \in Assets /\ call[c].user \in Users
        BY SellEffect DEF Sell
      <3> QED
        BY <3>1 DEF TypeInv, HistoryType
    <2>2. overlapped' \subseteq Assets
      BY SellEffect DEF Sell, TypeInv, HistoryType
    <2> QED
      BY <2>1, <2>2 DEF TypeInv, HistoryType
  <1>4. RowsStay'
    <2>1. \A k \in Keys : sale[k] # NoSale => sale'[k] # NoSale
      BY SellEffect
    <2>2. \A a \in Assets : listing[a].status # "NONE" => listing'[a].status # "NONE"
      <3>1. listing' = [listing EXCEPT ![call[c].asset].status = "SOLD"]
        BY DEF Sell
      <3> QED
        BY <3>1 DEF TypeInv, RowType, Listings
    <2>3. call'[c].pc = "buyTell" /\ sale'[call'[c].key] # NoSale
      <3>1. call'[c].pc = "buyTell" /\ call'[c].key = call[c].key
        <4>1. call'[c] = [call[c] EXCEPT !.pc = "buyTell"]
          BY SellEffect
        <4> QED
          BY <4>1 DEF TypeInv, CallType, Memory
      <3> QED
        BY <3>1, SellEffect
    <2>4. told' \subseteq {k \in Keys : sale'[k] # NoSale}
      BY <2>1 DEF TypeInv, RowsStay
    <2>5. ASSUME NEW d \in Calls
          PROVE  /\ call'[d].pc = "cancelWrite" => listing'[call'[d].asset].status # "NONE"
                 /\ call'[d].pc = "buyTell" => sale'[call'[d].key] # NoSale
      <3>1. CASE d = c
        BY <2>3, <3>1
      <3>2. CASE d # c
        <4>1. call'[d] = call[d]
          BY <3>2, SellEffect
        <4>2. /\ call[d].pc = "cancelWrite" =>
                    call[d].asset \in Assets /\ listing[call[d].asset].status # "NONE"
              /\ call[d].pc = "buyTell" => call[d].key \in Keys /\ sale[call[d].key] # NoSale
          BY DEF TypeInv, RowsStay, CallType, Busy, Buying
        <4> QED
          BY <2>1, <2>2, <4>1, <4>2
      <3> QED
        BY <3>1, <3>2
    <2> QED
      BY <2>4, <2>5 DEF RowsStay
  <1> QED
    BY <1>1, <1>2, <1>3, <1>4, SellEffect DEF TypeInv

LEMMA EndingType ==
    ASSUME TypeInv, NEW c \in Calls, End(c),
           UNCHANGED <<owner, listing, sale, transfers, listed, held, overlapped>>,
           \/ UNCHANGED <<told, faults>>
           \/ UNCHANGED told /\ faults' = faults + 1
           \/ call[c].pc = "buyTell" /\ told' = told \cup {call[c].key} /\ UNCHANGED faults
    PROVE  TypeInv'
  <1>1. CallType' /\ call'[c].pc = "idle" /\ \A d \in Calls : d # c => call'[d] = call[d]
    BY EndType
  <1>2. RowType' /\ SaleType'
    BY DEF TypeInv, RowType, SaleType
  <1>3. HistoryType'
    BY DEF TypeInv, HistoryType
  <1>4. RowsStay'
    BY <1>1 DEF TypeInv, RowsStay, CallType, Buying
  <1> QED
    BY <1>1, <1>2, <1>3, <1>4 DEF TypeInv

LEMMA TypeInvariance == TypeInv /\ [Next]_vars => TypeInv'
  <1> SUFFICES ASSUME TypeInv, [Next]_vars PROVE TypeInv'
    OBVIOUS
  <1>1. ASSUME NEW c \in Calls, NEW u \in Users, NEW a \in Assets,
               \/ \E price \in Prices : ListAsset(c, u, a, price)
               \/ CancelListing(c, u, a)
               \/ \E k \in Keys : PurchaseListing(c, u, a, k)
        PROVE  TypeInv'
    BY <1>1, BeginType
  <1>2. ASSUME NEW c \in Calls, CallStep(c) \/ Fault(c)
        PROVE  TypeInv'
    <2>1. CASE BuyClaim(c)
      BY <2>1, SellType, EndingType DEF BuyClaim
    <2>2. CASE BuyTell(c) \/ Fault(c)
      BY <2>2, EndingType DEF BuyTell, Fault
    <2> QED
      BY <1>2, <2>1, <2>2, CheckType, ListWriteType, CancelWriteType DEF CallStep
  <1>3. CASE UNCHANGED vars
    BY <1>3 DEF vars, TypeInv, RowType, SaleType, HistoryType, CallType, RowsStay
  <1> QED
    BY <1>1, <1>2, <1>3 DEF Next

(* Every row and every memory of a call stays in its type.                      *)
THEOREM TypeCorrect == Spec => []TypeOK
  <1>1. TypeInv => TypeOK
    BY DEF TypeInv, TypeOK, RowType, SaleType, HistoryType, CallType, RowsStay, Memory
  <1> QED
    BY <1>1, InitType, TypeInvariance, PTL DEF Spec

-----------------------------------------------------------------------------
(* Who may sell.  The properties speak of rows; what makes them inductive is    *)
(* what the calls in flight remember: the user who lists was once the owner,    *)
(* and still is if no sale came in between.                                     *)
Listing(m) == m.pc \in {"listCheck", "listWrite"}
HeldInv ==
    /\ SellersOwned
    /\ \A a \in Assets : owner[a] \in held[a]
    /\ \A c \in Calls :
        /\ Listing(call[c]) => call[c].user \in held[call[c].asset]
        /\ call[c].pc = "buyClaim" => call[c].seller \in held[call[c].asset]
OfferInv ==
    /\ OffersByOwner
    /\ \A c \in Calls :
        Listing(call[c]) /\ call[c].asset \notin overlapped =>
            call[c].user = owner[call[c].asset]
SellerInv == HeldInv /\ OfferInv /\ NoSelfSale

(* A step of one call that sells nothing and writes no row.                     *)
LEMMA QuietSeller ==
    ASSUME TypeInv, TypeInv', SellerInv, NEW c \in Calls,
           UNCHANGED <<owner, listing, sale, held, overlapped>>,
           \A d \in Calls : d # c => call'[d] = call[d],
           Listing(call'[c]) =>
              \/ call'[c].user = owner[call'[c].asset]
              \/ Listing(call[c]) /\ call'[c].user = call[c].user
                                  /\ call'[c].asset = call[c].asset,
           call'[c].pc = "buyClaim" =>
              /\ call'[c].seller = listing[call'[c].asset].seller
              /\ listing[call'[c].asset].status # "NONE"
    PROVE  SellerInv'
  <1>1. SellersOwned' /\ OffersByOwner' /\ NoSelfSale'
    BY DEF SellerInv, HeldInv, OfferInv, SellersOwned, OffersByOwner, NoSelfSale
  <1>2. ASSUME NEW d \in Calls, Listing(call'[d])
        PROVE  /\ call'[d].user \in held'[call'[d].asset]
               /\ call'[d].asset \notin overlapped' => call'[d].user = owner'[call'[d].asset]
    <2>1. call'[d].asset \in Assets
      BY <1>2 DEF TypeInv, CallType, Busy, Listing
    <2> QED
      BY <1>2, <2>1 DEF SellerInv, HeldInv, OfferInv
  <1>3. ASSUME NEW d \in Calls, call'[d].pc = "buyClaim"
        PROVE  call'[d].seller \in held'[call'[d].asset]
    <2>1. call'[d].asset \in Assets
      BY <1>3 DEF TypeInv, CallType, Busy
    <2> QED
      BY <1>3, <2>1 DEF SellerInv, HeldInv, SellersOwned
  <1> QED
    BY <1>1, <1>2, <1>3 DEF SellerInv, HeldInv, OfferInv

LEMMA BeginSeller ==
    ASSUME TypeInv, TypeInv', SellerInv, NEW c \in Calls, NEW u \in Users, NEW a \in Assets,
           \/ \E price \in Prices : ListAsset(c, u, a, price)
           \/ CancelListing(c, u, a)
           \/ \E k \in Keys : PurchaseListing(c, u, a, k)
    PROVE  SellerInv'
  <1>1. UNCHANGED <<owner, listing, sale, held, overlapped>>
    BY DEF ListAsset, CancelListing, PurchaseListing
  <1>2. /\ \A d \in Calls : d # c => call'[d] = call[d]
        /\ call'[c].pc # "buyClaim"
        /\ Listing(call'[c]) => call'[c].user = owner[call'[c].asset]
    <2>1. CASE \E price \in Prices : ListAsset(c, u, a, price)
      BY <2>1 DEF ListAsset, IdleCall, Listing, TypeInv, CallType
    <2>2. CASE CancelListing(c, u, a)
      BY <2>2 DEF CancelListing, IdleCall, Listing, TypeInv, CallType
    <2>3. CASE \E k \in Keys : PurchaseListing(c, u, a, k)
      BY <2>3 DEF PurchaseListing, IdleCall, Listing, TypeInv, CallType
    <2> QED
      BY <2>1, <2>2, <2>3
  <1> QED
    BY <1>1, <1>2, QuietSeller

LEMMA StepSeller ==
    ASSUME TypeInv, TypeInv', SellerInv, NEW c \in Calls,
           ListCheck(c) \/ BuyRead(c) \/ BuyTell(c) \/ Fault(c)
           \/ (BuyClaim(c) /\ End(c) /\ UNCHANGED <<owner, listing, sale, held, overlapped>>)
    PROVE  SellerInv'
  <1>1. UNCHANGED <<owner, listing, sale, held, overlapped>>
    BY DEF ListCheck, BuyRead, BuyTell, Fault
  <1>2. CASE End(c)
    BY <1>1, <1>2, EndType, QuietSeller DEF Listing
  <1>3. CASE ListCheck(c) /\ Go(c, "listWrite")
    <2>1. /\ \A d \in Calls : d # c => call'[d] = call[d]
          /\ call'[c] = [call[c] EXCEPT !.pc = "listWrite"]
      BY <1>3 DEF Go, TypeInv, CallType
    <2>2. call'[c].pc = "listWrite" /\ call'[c].user = call[c].user
                                    /\ call'[c].asset = call[c].asset
      BY <2>1 DEF TypeInv, CallType, Memory
    <2> QED
      BY <1>1, <1>3, <2>1, <2>2, QuietSeller DEF ListCheck, Listing
  <1>4. CASE BuyRead(c) /\ ~ End(c)
    <2>1. /\ listing[call[c].asset].status = "ACTIVE"
          /\ call' = [call EXCEPT ![c].pc = "buyClaim",
                                  ![c].seller = listing[call[c].asset].seller,
                                  ![c].price = listing[call[c].asset].price]
      BY <1>4 DEF BuyRead
    <2>2. /\ \A d \in Calls : d # c => call'[d] = call[d]
          /\ call'[c].pc = "buyClaim" /\ call'[c].asset = call[c].asset
          /\ call'[c].seller = listing[call[c].asset].seller
      BY <2>1 DEF TypeInv, CallType, Memory
    <2> QED
      BY <1>1, <2>1, <2>2, QuietSeller DEF Listing
  <1> QED
    BY <1>2, <1>3, <1>4 DEF ListCheck, BuyTell, Fault

(* The two unconditional writes of a listing.                                   *)
LEMMA WriteSeller ==
    ASSUME TypeInv, TypeInv', SellerInv, NEW c \in Calls, ListWrite(c) \/ CancelWrite(c)
    PROVE  SellerInv'
  <1>1. /\ \A d \in Calls : d # c => call'[d] = call[d]
        /\ call'[c].pc = "idle"
        /\ UNCHANGED <<owner, sale, held, overlapped>>
    BY EndType DEF ListWrite, CancelWrite
  <1>2. call[c].asset \in Assets
    BY DEF ListWrite, CancelWrite, TypeInv, CallType, Busy
  <1>3. \A a \in Assets : a # call[c].asset => listing'[a] = listing[a]
    BY DEF ListWrite, CancelWrite, TypeInv, RowType
  <1>4. CASE ListWrite(c)
    <2>1. /\ listing'[call[c].asset].seller = call[c].user
          /\ Listing(call[c])
      BY <1>2, <1>4 DEF ListWrite, TypeInv, RowType, Listing
    <2> QED
      BY <1>1, <1>2, <1>3, <2>1 DEF SellerInv, HeldInv, OfferInv, SellersOwned,
                                    OffersByOwner, NoSelfSale, Listing
  <1>5. CASE CancelWrite(c)
    <2>1. /\ listing'[call[c].asset].seller = listing[call[c].asset].seller
          /\ listing'[call[c].asset].status = "CANCELLED"
          /\ listing[call[c].asset].status # "NONE"
      BY <1>2, <1>5 DEF CancelWrite, TypeInv, RowType, Listings, RowsStay
    <2> QED
      BY <1>1, <1>2, <1>3, <2>1 DEF SellerInv, HeldInv, OfferInv, SellersOwned,
                                    OffersByOwner, NoSelfSale, Listing
  <1> QED
    BY <1>4, <1>5

(* The sale: it marks the asset when a call still lists it in the name of the   *)
(* old owner.                                                                   *)
LEMMA SellSeller ==
    ASSUME TypeInv, TypeInv', SellerInv, NEW c \in Calls, call[c].pc = "buyClaim", Sell(c),
           listing[call[c].asset].status = "ACTIVE"
    PROVE  SellerInv'
  <1> DEFINE a == call[c].asset
  <1>1. /\ a \in Assets /\ call[c].user \in Users
        /\ owner' = [owner EXCEPT ![a] = call[c].user]
        /\ held' = [held EXCEPT ![a] = @ \cup {call[c].user}]
        /\ listing' = [listing EXCEPT ![a].status = "SOLD"]
        /\ call'[c] = [call[c] EXCEPT !.pc = "buyTell"]
        /\ \A d \in Calls : d # c => call'[d] = call[d]
    BY SellEffect DEF Sell
  <1>2. /\ \A b \in Assets : held[b] \subseteq held'[b]
        /\ \A b \in Assets : b # a => owner'[b] = owner[b] /\ listing'[b] = listing[b]
        /\ owner'[a] \in held'[a]
        /\ listing'[a].status = "SOLD" /\ listing'[a].seller = listing[a].seller
    BY <1>1 DEF TypeInv, HistoryType, RowType, Listings
  <1>3. call'[c].pc = "buyTell"
    BY <1>1 DEF TypeInv, CallType, Memory
  <1>4. \A k \in Keys : sale'[k] # NoSale =>
            sale'[k].seller \in held'[sale'[k].asset] /\ sale'[k].seller # sale'[k].buyer
    <2>1. call[c].seller \in held'[a] /\ call[c].seller # call[c].user
      BY <1>1, <1>2 DEF SellerInv, HeldInv, TypeInv, CallType, Buying
    <2>2. ASSUME NEW k \in Keys, k # call[c].key, sale'[k] # NoSale
          PROVE  sale'[k].seller \in held'[sale'[k].asset] /\ sale'[k].seller # sale'[k].buyer
      <3>1. sale'[k] = sale[k]
        BY <2>2, SellEffect
      <3>2. sale[k].asset \in Assets
        BY <2>2, <3>1 DEF TypeInv, SaleType, Sales
      <3> QED
        BY <1>2, <2>2, <3>1, <3>2 DEF SellerInv, HeldInv, SellersOwned, NoSelfSale
    <2>3. sale'[call[c].key] = [asset |-> a, buyer |-> call[c].user,
                                seller |-> call[c].seller, amount |-> call[c].price]
      BY SellEffect
    <2>4. ASSUME NEW k \in Keys, k = call[c].key
          PROVE  sale'[k].seller \in held'[sale'[k].asset] /\ sale'[k].seller # sale'[k].buyer
      BY <2>1, <2>3, <2>4
    <2> QED
      BY <2>2, <2>4
  <1>5. SellersOwned' /\ NoSelfSale' /\ \A b \in Assets : owner'[b] \in held'[b]
    <2>1. \A b \in Assets : listing'[b].status # "NONE" => listing'[b].seller \in held'[b]
      BY <1>1, <1>2 DEF SellerInv, HeldInv, SellersOwned
    <2>2. \A b \in Assets : owner'[b] \in held'[b]
      BY <1>2 DEF SellerInv, HeldInv
    <2> QED
      BY <1>4, <2>1, <2>2 DEF SellersOwned, NoSelfSale
  <1>6. ASSUME NEW d \in Calls
        PROVE  /\ Listing(call'[d]) => call'[d].user \in held'[call'[d].asset]
               /\ call'[d].pc = "buyClaim" => call'[d].seller \in held'[call'[d].asset]
    <2>1. CASE d = c
      BY <1>3, <2>1 DEF Listing
    <2>2. CASE d # c
      <3>1. call'[d] = call[d] /\ (call[d].pc # "idle" => call[d].asset \in Assets)
        BY <1>1, <2>2 DEF TypeInv, CallType, Busy
      <3> QED
        BY <1>2, <3>1 DEF SellerInv, HeldInv, Listing
    <2> QED
      BY <2>1, <2>2
  <1>7. OffersByOwner'
    <2>1. overlapped \subseteq overlapped'
      BY DEF Sell
    <2> QED
      BY <1>2, <2>1 DEF SellerInv, OfferInv, OffersByOwner
  <1>8. ASSUME NEW d \in Calls, Listing(call'[d]), call'[d].asset \notin overlapped'
        PROVE  call'[d].user = owner'[call'[d].asset]
    <2>1. d # c
      BY <1>3, <1>8 DEF Listing
    <2>2. call'[d] = call[d] /\ call[d].asset \in Assets
      BY <1>1, <1>8, <2>1 DEF TypeInv, CallType, Busy, Listing
    <2>3. call[d].asset # a
      BY <1>8, <2>2 DEF Sell, Listing
    <2>4. call[d].asset \notin overlapped
      BY <1>8, <2>2 DEF Sell
    <2> QED
      BY <1>2, <1>8, <2>2, <2>3, <2>4 DEF SellerInv, OfferInv
  <1> QED
    BY <1>5, <1>6, <1>7, <1>8 DEF SellerInv, HeldInv, OfferInv

LEMMA SellerInvariance == TypeInv /\ SellerInv /\ [Next]_vars => SellerInv'
  <1> SUFFICES ASSUME TypeInv, SellerInv, [Next]_vars PROVE SellerInv'
    OBVIOUS
  <1>1. TypeInv'
    BY TypeInvariance
  <1>2. ASSUME NEW c \in Calls, NEW u \in Users, NEW a \in Assets,
               \/ \E price \in Prices : ListAsset(c, u, a, price)
               \/ CancelListing(c, u, a)
               \/ \E k \in Keys : PurchaseListing(c, u, a, k)
        PROVE  SellerInv'
    BY <1>1, <1>2, BeginSeller
  <1>3. ASSUME NEW c \in Calls, CallStep(c) \/ Fault(c)
        PROVE  SellerInv'
    <2>1. CASE BuyClaim(c)
      <3>1. CASE listing[call[c].asset].status = "ACTIVE" /\ sale[call[c].key] = NoSale
        BY <1>1, <2>1, <3>1, SellSeller DEF BuyClaim
      <3>2. CASE ~ (listing[call[c].asset].status = "ACTIVE" /\ sale[call[c].key] = NoSale)
        BY <1>1, <2>1, <3>2, StepSeller DEF BuyClaim
      <3> QED
        BY <3>1, <3>2
    <2> QED
      BY <1>1, <1>3, <2>1, StepSeller, WriteSeller DEF CallStep
  <1>4. CASE UNCHANGED vars
    BY <1>4 DEF vars, SellerInv, HeldInv, OfferInv, SellersOwned, OffersByOwner, NoSelfSale
  <1> QED
    BY <1>2, <1>3, <1>4 DEF Next

(* Sellers once owned what they sell; they still do unless a sale overlapped    *)
(* their listing; and nobody buys from themselves.                              *)
THEOREM SellersSound == Spec => [](SellersOwned /\ OffersByOwner /\ NoSelfSale)
  <1>1. Init => SellerInv
    BY DEF Init, SellerInv, HeldInv, OfferInv, SellersOwned, OffersByOwner, NoSelfSale,
           NoListing, IdleCall, Listing
  <1>2. SellerInv => SellersOwned /\ OffersByOwner /\ NoSelfSale
    BY DEF SellerInv, HeldInv, OfferInv
  <1> QED
    BY <1>1, <1>2, InitType, TypeInvariance, SellerInvariance, PTL DEF Spec

(* What is offered is the owner's, unless it was sold under a listing call.     *)
COROLLARY OffersSound == Spec => []OffersByOwner
  BY SellersSound, PTL

-----------------------------------------------------------------------------
(* The ledger.                                                                  *)
LEMMA SaleStep ==
    ASSUME TypeInv, [Next]_vars
    PROVE  \/ UNCHANGED <<owner, sale>>
           \/ \E c \in Calls : BuyClaim(c) /\ Sell(c) /\ sale[call[c].key] = NoSale
                               /\ listing[call[c].asset].status = "ACTIVE"
  BY DEF Next, vars, ListAsset, CancelListing, PurchaseListing, CallStep, Fault,
         ListCheck, ListWrite, CancelWrite, BuyRead, BuyClaim, BuyTell

(* A recorded sale is never overwritten.                                        *)
THEOREM Final == Spec => SaleIsFinal
  <1>1. TypeInv /\ [Next]_vars => [\A k \in Keys : sale[k] # NoSale => sale'[k] = sale[k]]_vars
    <2> SUFFICES ASSUME TypeInv, [Next]_vars, NEW k \in Keys, sale[k] # NoSale
                 PROVE  sale'[k] = sale[k]
      OBVIOUS
    <2> QED
      BY SaleStep, SellEffect DEF BuyClaim
  <1> QED
    BY <1>1, InitType, TypeInvariance, PTL DEF Spec, SaleIsFinal

(* Listings and calls implement the plain ledger: each step is a recorded        *)
(* transfer or leaves the ledger alone.                                          *)
THEOREM Refinement == Spec => ImplementsLedger
  <1> DEFINE buyerOf == [k \in Keys |-> [asset |-> sale[k].asset, buyer |-> sale[k].buyer]]
  <1>1. Init => Ledger!Init
    BY DEF Init, Ledger!Init, Ledger!Unused, NoSale
  <1>2. TypeInv /\ [Next]_vars => [Ledger!Next]_<<owner, buyerOf>>
    <2> SUFFICES ASSUME TypeInv, [Next]_vars, ~ UNCHANGED <<owner, sale>>
                 PROVE  Ledger!Next
      OBVIOUS
    <2>1. PICK c \in Calls : BuyClaim(c) /\ Sell(c) /\ sale[call[c].key] = NoSale
      BY SaleStep
    <2>2. PICK a \in Assets, u \in Users, key \in Keys :
            /\ a = call[c].asset /\ u = call[c].user /\ key = call[c].key
            /\ owner' = [owner EXCEPT ![a] = u]
            /\ sale'[key] = [asset |-> a, buyer |-> u, seller |-> call[c].seller,
                             amount |-> call[c].price]
            /\ \A k \in Keys : k # key => sale'[k] = sale[k]
      <3>1. owner' = [owner EXCEPT ![call[c].asset] = call[c].user]
        BY <2>1 DEF Sell
      <3>2. call[c].pc = "buyClaim"
        BY <2>1 DEF BuyClaim
      <3>3. /\ call[c].asset \in Assets /\ call[c].user \in Users /\ call[c].key \in Keys
            /\ sale'[call[c].key] = [asset |-> call[c].asset, buyer |-> call[c].user,
                                     seller |-> call[c].seller, amount |-> call[c].price]
            /\ \A k \in Keys : k # call[c].key => sale'[k] = sale[k]
        BY <2>1, <3>2, SellEffect
      <3> QED
        BY <3>1, <3>3
    <2>3. sale[key].asset = None /\ sale[key].buyer = None
      BY <2>1, <2>2 DEF NoSale
    <2>4. sale'[key].asset = a /\ sale'[key].buyer = u
      BY <2>2
    <2>5. Ledger!Transfer(a, u, key)
      <3>1. buyerOf[key] = Ledger!Unused
        BY <2>3 DEF Ledger!Unused
      <3>2. buyerOf' = [buyerOf EXCEPT ![key] = [asset |-> a, buyer |-> u]]
        BY <2>2, <2>4
      <3> QED
        BY <2>2, <3>1, <3>2 DEF Ledger!Transfer
    <2> QED
      BY <2>5 DEF Ledger!Next
  <1> QED
    BY <1>1, <1>2, InitType, TypeInvariance, PTL DEF Spec, ImplementsLedger, Ledger!Spec

-----------------------------------------------------------------------------
(* Counting sales: every claim uses up the listing it found active, so racing   *)
(* writers can only lose listings, never sell one twice.                        *)
LEMMA SoldAsFinite ==
    \A a \in Assets : IsFiniteSet(SoldAs(a)) /\ Cardinality(SoldAs(a)) \in Nat
  <1> SUFFICES ASSUME NEW a \in Assets
               PROVE  IsFiniteSet(SoldAs(a)) /\ Cardinality(SoldAs(a)) \in Nat
    OBVIOUS
  <1>1. IsFiniteSet(SoldAs(a))
    BY MarketAssumption, FS_Subset DEF SoldAs
  <1> QED
    BY <1>1, FS_CardinalityType

LEMMA SoldOnceInvariance ==
    TypeInv /\ SoldOncePerListing /\ [Next]_vars => SoldOncePerListing'
  <1> SUFFICES ASSUME TypeInv, SoldOncePerListing, [Next]_vars, NEW a \in Assets
               PROVE  Cardinality(SoldAs(a)') + (IF listing'[a].status = "ACTIVE" THEN 1 ELSE 0)
                          <= listed'[a]
    BY DEF SoldOncePerListing
  <1> DEFINE n == Cardinality(SoldAs(a))
  <1>1. /\ n \in Nat /\ listed[a] \in Nat
        /\ n + (IF listing[a].status = "ACTIVE" THEN 1 ELSE 0) <= listed[a]
    BY SoldAsFinite DEF SoldOncePerListing, TypeInv, HistoryType
  <1>2. CASE \E c \in Calls : ListWrite(c)
    <2>1. SoldAs(a)' = SoldAs(a)
      BY <1>2 DEF ListWrite, SoldAs
    <2>2. \/ listing'[a] = listing[a] /\ listed'[a] = listed[a]
          \/ listed'[a] = listed[a] + 1
      BY <1>2 DEF ListWrite, TypeInv, RowType, HistoryType
    <2> QED
      BY <1>1, <2>1, <2>2
  <1>3. CASE \E c \in Calls : CancelWrite(c)
    <2>1. SoldAs(a)' = SoldAs(a) /\ listed'[a] = listed[a]
      BY <1>3 DEF CancelWrite, SoldAs
    <2>2. listing'[a].status = "ACTIVE" => listing[a].status = "ACTIVE"
      BY <1>3 DEF CancelWrite, TypeInv, RowType, Listings
    <2> QED
      BY <1>1, <2>1, <2>2
  <1>4. ASSUME NEW c \in Calls, BuyClaim(c), Sell(c), sale[call[c].key] = NoSale,
               listing[call[c].asset].status = "ACTIVE"
        PROVE  Cardinality(SoldAs(a)') + (IF listing'[a].status = "ACTIVE" THEN 1 ELSE 0)
                   <= listed'[a]
    <2>1. /\ sale'[call[c].key] = [asset |-> call[c].asset, buyer |-> call[c].user,
                                   seller |-> call[c].seller, amount |-> call[c].price]
          /\ \A k \in Keys : k # call[c].key => sale'[k] = sale[k]
          /\ call[c].key \in Keys /\ call[c].asset \in Assets
      BY <1>4, SellEffect DEF BuyClaim
    <2>2. sale'[call[c].key].asset = call[c].asset /\ sale[call[c].key].asset = None
      BY <1>4, <2>1 DEF NoSale
    <2>3. /\ listing' = [listing EXCEPT ![call[c].asset].status = "SOLD"]
          /\ listed'[a] = listed[a]
      BY <1>4 DEF BuyClaim, Sell
    <2>4. CASE a = call[c].asset
      <3>1. SoldAs(a)' = SoldAs(a) \cup {call[c].key} /\ call[c].key \notin SoldAs(a)
        <4>1. None \notin Assets
          BY MarketAssumption
        <4> QED
          BY <2>1, <2>2, <2>4, <4>1 DEF SoldAs
      <3>2. Cardinality(SoldAs(a)') = n + 1
        BY <3>1, SoldAsFinite, FS_AddElement
      <3>3. listing'[a].status = "SOLD" /\ listing[a].status = "ACTIVE"
        BY <1>4, <2>1, <2>3, <2>4 DEF TypeInv, RowType, Listings
      <3> QED
        BY <1>1, <2>3, <3>2, <3>3
    <2>5. CASE a # call[c].asset
      <3>1. SoldAs(a)' = SoldAs(a)
        <4>1. None \notin Assets
          BY MarketAssumption
        <4> QED
          BY <2>1, <2>2, <2>5, <4>1 DEF SoldAs
      <3>2. listing'[a] = listing[a]
        BY <2>3, <2>5 DEF TypeInv, RowType
      <3> QED
        BY <1>1, <2>3, <3>1, <3>2
    <2> QED
      BY <2>4, <2>5
  <1>5. CASE UNCHANGED <<listing, sale, listed>>
    BY <1>1, <1>5 DEF SoldAs
  <1>6. \/ UNCHANGED <<listing, sale, listed>>
        \/ \E c \in Calls : ListWrite(c) \/ CancelWrite(c)
        \/ \E c \in Calls : BuyClaim(c) /\ Sell(c) /\ sale[call[c].key] = NoSale
                            /\ listing[call[c].asset].status = "ACTIVE"
    BY DEF Next, vars, ListAsset, CancelListing, PurchaseListing, CallStep, Fault,
           ListCheck, BuyRead, BuyClaim, BuyTell
  <1> QED
    BY <1>2, <1>3, <1>4, <1>5, <1>6

(* No listing is sold twice.                                                    *)
THEOREM SoldOnce == Spec => []SoldOncePerListing
  <1>1. Init => SoldOncePerListing
    <2> SUFFICES ASSUME Init, NEW a \in Assets
                 PROVE  Cardinality(SoldAs(a)) + 0 <= listed[a] /\ listing[a].status = "NONE"
      BY DEF SoldOncePerListing
    <2>1. SoldAs(a) = {}
      BY MarketAssumption DEF Init, SoldAs, NoSale
    <2> QED
      BY <2>1, FS_EmptySet DEF Init, NoListing
  <1> QED
    BY <1>1, InitType, TypeInvariance, SoldOnceInvariance, PTL DEF Spec
=============================================================================
