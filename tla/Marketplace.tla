----------------------------- MODULE Marketplace -----------------------------
(***************************************************************************)
(* The marketplace: users put assets up for sale, take them off and buy    *)
(* them.  Every call reads the database, decides, and writes in a later    *)
(* step; only the purchase writes on condition, in a transaction.          *)
(*                                                                         *)
(* An asset has at most one Listing row, which is used again for every     *)
(* sale of that asset.                                                     *)
(***************************************************************************)
EXTENDS Naturals, FiniteSets, Sequences

CONSTANTS
    Users,
    Assets,
    Keys,           \* idempotency keys of purchases
    Prices,         \* prices sellers ask
    Calls,          \* service calls that may be in flight together
    MaxListed,      \* bound: how often an asset is put up for sale
    MaxFaults,      \* bound: database calls that fail
    None            \* no user, no asset, no key

HighestPrice == 1000000000

ASSUME MarketAssumption ==
    /\ Prices \subseteq Nat /\ MaxListed \in Nat /\ MaxFaults \in Nat
    /\ None \notin Users /\ None \notin Assets /\ None \notin Keys
    /\ IsFiniteSet(Keys)

VARIABLES
    owner,      \* Asset.ownerId
    listing,    \* the Listing row of each asset
    sale,       \* the Transaction row with each key, or NoSale
    transfers,  \* AssetTransfer rows of each asset, in order
    told,       \* keys of the sales whose seller has a MARKETPLACE_SOLD notification
    call,       \* what each call in flight does, and what it has read
    listed,     \* history: how often each asset was put up for sale
    held,       \* history: everybody who ever owned an asset
    overlapped, \* history: assets sold while a call was putting them up for sale
    faults

vars == <<owner, listing, sale, transfers, told, call, listed, held, overlapped, faults>>

\* "NONE" stands for no row.
Listings == [status : {"NONE", "ACTIVE", "SOLD", "CANCELLED"},
             seller : Users \cup {None}, price : Nat]
NoListing == [status |-> "NONE", seller |-> None, price |-> 0]

NoSale == [asset |-> None, buyer |-> None, seller |-> None, amount |-> 0]
Sales  == [asset : Assets, buyer : Users, seller : Users, amount : Nat]

Steps == {"idle", "listCheck", "listWrite", "cancelWrite", "buyRead", "buyClaim", "buyTell"}
IdleCall == [pc |-> "idle", user |-> None, asset |-> None, price |-> 0, key |-> None,
             seller |-> None]

TypeOK ==
    /\ owner \in [Assets -> Users]
    /\ listing \in [Assets -> Listings]
    /\ sale \in [Keys -> Sales \cup {NoSale}]
    /\ transfers \in [Assets -> Seq([from : Users, to : Users])]
    /\ told \subseteq {k \in Keys : sale[k] # NoSale}
    /\ call \in [Calls -> [pc : Steps, user : Users \cup {None}, asset : Assets \cup {None},
                           price : Nat, key : Keys \cup {None},
                           seller : Users \cup {None}]]
    /\ listed \in [Assets -> Nat]
    /\ held \in [Assets -> SUBSET Users]
    /\ overlapped \subseteq Assets
    /\ faults \in Nat

Init ==
    /\ owner \in [Assets -> Users]
    /\ listing = [a \in Assets |-> NoListing]
    /\ sale = [k \in Keys |-> NoSale]
    /\ transfers = [a \in Assets |-> <<>>]
    /\ told = {}
    /\ call = [c \in Calls |-> IdleCall]
    /\ listed = [a \in Assets |-> 0]
    /\ held = [a \in Assets |-> {owner[a]}]
    /\ overlapped = {}
    /\ faults = 0

Go(c, step) == call' = [call EXCEPT ![c].pc = step]
End(c)      == call' = [call EXCEPT ![c] = IdleCall]

-----------------------------------------------------------------------------
(* listAsset                                                               *)

\* Mutant of ListAsset: anybody may list an asset.
ListAnyAsset(c, u, a, price) ==
    /\ call[c].pc = "idle"
    /\ price \in 1 .. HighestPrice
    /\ call' = [call EXCEPT ![c] = [IdleCall EXCEPT
                    !.pc = "listCheck", !.user = u, !.asset = a, !.price = price]]
    /\ UNCHANGED <<owner, listing, sale, transfers, told, listed, held, overlapped, faults>>

ListAsset(c, u, a, price) ==
    /\ call[c].pc = "idle"
    /\ price \in 1 .. HighestPrice
    /\ owner[a] = u
    /\ call' = [call EXCEPT ![c] = [IdleCall EXCEPT
                    !.pc = "listCheck", !.user = u, !.asset = a, !.price = price]]
    /\ UNCHANGED <<owner, listing, sale, transfers, told, listed, held, overlapped, faults>>

ListCheck(c) ==
    /\ call[c].pc = "listCheck"
    /\ IF listing[call[c].asset].status = "ACTIVE" THEN End(c) ELSE Go(c, "listWrite")
    /\ UNCHANGED <<owner, listing, sale, transfers, told, listed, held, overlapped, faults>>

\* The upsert: it looks neither at the owner nor at the listing again.
ListWrite(c) ==
    LET a == call[c].asset IN
    /\ call[c].pc = "listWrite"
    /\ listed[a] < MaxListed
    /\ listing' = [listing EXCEPT ![a] =
            [status |-> "ACTIVE", seller |-> call[c].user, price |-> call[c].price]]
    /\ listed' = [listed EXCEPT ![a] = @ + 1]
    /\ End(c)
    /\ UNCHANGED <<owner, sale, transfers, told, held, overlapped, faults>>

-----------------------------------------------------------------------------
(* cancelListing                                                           *)

CancelListing(c, u, a) ==
    /\ call[c].pc = "idle"
    /\ listing[a].status = "ACTIVE" /\ listing[a].seller = u
    /\ call' = [call EXCEPT ![c] = [IdleCall EXCEPT
                    !.pc = "cancelWrite", !.user = u, !.asset = a]]
    /\ UNCHANGED <<owner, listing, sale, transfers, told, listed, held, overlapped, faults>>

CancelWrite(c) ==
    /\ call[c].pc = "cancelWrite"
    /\ listing' = [listing EXCEPT ![call[c].asset].status = "CANCELLED"]
    /\ End(c)
    /\ UNCHANGED <<owner, sale, transfers, told, listed, held, overlapped, faults>>

-----------------------------------------------------------------------------
(* purchaseListing                                                         *)

\* A key that was used already gets the prior result, and nothing changes.
PurchaseListing(c, u, a, k) ==
    /\ call[c].pc = "idle"
    /\ sale[k] = NoSale
    /\ call' = [call EXCEPT ![c] = [IdleCall EXCEPT
                    !.pc = "buyRead", !.user = u, !.asset = a, !.key = k]]
    /\ UNCHANGED <<owner, listing, sale, transfers, told, listed, held, overlapped, faults>>

\* Mutant of BuyRead: the seller is told before the sale.
BuyTellFirst(c) ==
    LET row == listing[call[c].asset] IN
    /\ call[c].pc = "buyRead"
    /\ told' = told \cup {call[c].key}
    /\ IF row.status = "ACTIVE" /\ row.seller # call[c].user
       THEN call' = [call EXCEPT ![c].pc = "buyClaim",
                                 ![c].seller = row.seller, ![c].price = row.price]
       ELSE End(c)
    /\ UNCHANGED <<owner, listing, sale, transfers, listed, held, overlapped, faults>>

BuyRead(c) ==
    LET row == listing[call[c].asset] IN
    /\ call[c].pc = "buyRead"
    /\ IF row.status = "ACTIVE" /\ row.seller # call[c].user
       THEN call' = [call EXCEPT ![c].pc = "buyClaim",
                                 ![c].seller = row.seller, ![c].price = row.price]
       ELSE End(c)
    /\ UNCHANGED <<owner, listing, sale, transfers, told, listed, held, overlapped, faults>>

\* What the transaction writes: the sale and the transfer say what was read
\* before it began.
Sell(c) ==
    LET a == call[c].asset  buyer == call[c].user  seller == call[c].seller IN
    /\ listing' = [listing EXCEPT ![a].status = "SOLD"]
    /\ sale' = [sale EXCEPT ![call[c].key] =
            [asset |-> a, buyer |-> buyer, seller |-> seller, amount |-> call[c].price]]
    /\ owner' = [owner EXCEPT ![a] = buyer]
    /\ transfers' = [transfers EXCEPT ![a] = Append(@, [from |-> seller, to |-> buyer])]
    /\ held' = [held EXCEPT ![a] = @ \cup {buyer}]
    /\ overlapped' =
            IF \E d \in Calls : call[d].pc \in {"listCheck", "listWrite"} /\ call[d].asset = a
            THEN overlapped \cup {a} ELSE overlapped
    /\ Go(c, "buyTell")

\* Mutant of BuyClaim: the listing is claimed without looking.
BuyUnclaimed(c) ==
    /\ call[c].pc = "buyClaim"
    /\ IF sale[call[c].key] = NoSale
       THEN Sell(c)
       ELSE End(c) /\ UNCHANGED <<owner, listing, sale, transfers, held, overlapped>>
    /\ UNCHANGED <<told, listed, faults>>

\* Mutant of BuyClaim: idempotencyKey is not unique.
BuyAgain(c) ==
    /\ call[c].pc = "buyClaim"
    /\ IF listing[call[c].asset].status = "ACTIVE"
       THEN Sell(c)
       ELSE End(c) /\ UNCHANGED <<owner, listing, sale, transfers, held, overlapped>>
    /\ UNCHANGED <<told, listed, faults>>

\* The claim is conditional and the key is unique: otherwise all rolls back.
BuyClaim(c) ==
    /\ call[c].pc = "buyClaim"
    /\ IF listing[call[c].asset].status = "ACTIVE" /\ sale[call[c].key] = NoSale
       THEN Sell(c)
       ELSE End(c) /\ UNCHANGED <<owner, listing, sale, transfers, held, overlapped>>
    /\ UNCHANGED <<told, listed, faults>>

BuyTell(c) ==
    /\ call[c].pc = "buyTell"
    /\ told' = told \cup {call[c].key}
    /\ End(c)
    /\ UNCHANGED <<owner, listing, sale, transfers, listed, held, overlapped, faults>>

\* A database call fails: the call throws.
Fault(c) ==
    /\ call[c].pc # "idle"
    /\ faults < MaxFaults
    /\ faults' = faults + 1
    /\ End(c)
    /\ UNCHANGED <<owner, listing, sale, transfers, told, listed, held, overlapped>>

-----------------------------------------------------------------------------

CallStep(c) ==
    \/ ListCheck(c) \/ ListWrite(c) \/ CancelWrite(c)
    \/ BuyRead(c) \/ BuyClaim(c) \/ BuyTell(c)

Next ==
    \/ \E c \in Calls, u \in Users, a \in Assets :
        \/ \E price \in Prices : ListAsset(c, u, a, price)
        \/ CancelListing(c, u, a)
        \/ \E k \in Keys : PurchaseListing(c, u, a, k)
    \/ \E c \in Calls : CallStep(c) \/ Fault(c)

Spec == Init /\ [][Next]_vars

-----------------------------------------------------------------------------
(* Properties.                                                             *)

SoldAs(a) == {k \in Keys : sale[k].asset = a}

\* An asset is sold at most as often as it was put up for sale, although its
\* one Listing row is claimed, cancelled and used again by racing calls.
SoldOncePerListing ==
    \A a \in Assets :
        Cardinality(SoldAs(a)) + (IF listing[a].status = "ACTIVE" THEN 1 ELSE 0)
            <= listed[a]

\* Nobody sells what was never theirs: every seller owned the asset at some time.
SellersOwned ==
    /\ \A k \in Keys : sale[k] # NoSale => sale[k].seller \in held[sale[k].asset]
    /\ \A a \in Assets : listing[a].status # "NONE" => listing[a].seller \in held[a]

\* Unless an asset was sold while a call was putting it up for sale, it is the
\* owner who offers it: no sale takes an asset from somebody who did not list it.
OffersByOwner ==
    \A a \in Assets :
        a \in overlapped \/ (listing[a].status = "ACTIVE" => listing[a].seller = owner[a])

\* No sale goes from a user to the same user, whichever listing it was read from.
NoSelfSale == \A k \in Keys : sale[k] # NoSale => sale[k].seller # sale[k].buyer

\* A sale, once recorded under its key, stays as it is: a purchase that is
\* retried or raced with the same key moves nothing else.
SaleIsFinal == [][\A k \in Keys : sale[k] # NoSale => sale'[k] = sale[k]]_vars

\* The ledger of owners, seen through the Transaction rows.
Ledger == INSTANCE AssetLedger WITH
    buyerOf <- [k \in Keys |-> [asset |-> sale[k].asset, buyer |-> sale[k].buyer]]

\* An asset moves only in the step that records its sale, under a fresh key and
\* to the buyer recorded.
ImplementsLedger == Ledger!Spec
=============================================================================
