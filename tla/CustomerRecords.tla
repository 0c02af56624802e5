--------------------------- MODULE CustomerRecords ---------------------------
(***************************************************************************)
(* What a customer keeps: payment cards (src/payments/payments.service.ts),*)
(* the Stripe customer they hang on, and saved addresses                   *)
(* (src/saved-addresses/saved-addresses.service.ts).                       *)
(*                                                                         *)
(* No index of the database allows only one default: the flag is kept by   *)
(* reads followed by writes, one round trip per step.  Rows are numbered   *)
(* in the order of their creation.                                         *)
(***************************************************************************)
EXTENDS Naturals, FiniteSetsExt

CONSTANTS
  Callers,                 \* requests of the customer in progress at once
  SheetCards,              \* cards the customer may save in the PaymentSheet
  MAX_ADDRESSES_PER_USER,
  MaxRows                  \* bound: rows ever created in one table

ASSUME CustomersAssumption == IsFiniteSet(Callers) /\ MaxRows \in Nat

VARIABLES
  cards,        \* payment_methods: [id, from, isDefault]
  cardRows,     \* rows created so far
  customer,     \* users.stripeCustomerId: the customer's number, 0 for null
  customers,    \* Stripe customers created so far
  attached,     \* cards attached at Stripe: <<customer, card>>
  cardCall,     \* per caller: the payment request in progress
  addresses,    \* saved_addresses: [id, isDefault]
  addressRows,
  addressCall   \* per caller: the count its create() read, in an optional

cardVars == <<cards, cardRows, customer, customers, attached, cardCall>>
addressVars == <<addresses, addressRows, addressCall>>
customerVars == <<cards, cardRows, customer, customers, attached, cardCall,
                  addresses, addressRows, addressCall>>

Manual == "manual"
NoCardCall == [at |-> "idle", id |-> 0, flag |-> FALSE, todo |-> {}]
CardSteps == {"idle", "add", "delete", "promote", "promoted", "default", "sync", "count",
              "customer", "save"}

CustomersTypeOK ==
  /\ cards \subseteq [id : 1..MaxRows, from : SheetCards \cup {Manual}, isDefault : BOOLEAN]
  /\ cardRows \in 0..MaxRows
  /\ customer \in 0..customers
  /\ customers \in 0..Cardinality(Callers)
  /\ attached \subseteq (1..customers) \X SheetCards
  /\ cardCall \in [Callers -> [at : CardSteps, id : 0..MaxRows, flag : BOOLEAN,
                               todo : SUBSET SheetCards]]
  /\ addresses \subseteq [id : 1..MaxRows, isDefault : BOOLEAN]
  /\ addressRows \in 0..MaxRows
  /\ addressCall \in [Callers -> SUBSET (0..MAX_ADDRESSES_PER_USER)]

CustomersInit ==
  /\ cards = {} /\ cardRows = 0
  /\ customer = 0 /\ customers = 0 /\ attached = {}
  /\ cardCall = [c \in Callers |-> NoCardCall]
  /\ addresses = {} /\ addressRows = 0
  /\ addressCall = [c \in Callers |-> {}]

Cleared(rows) == {[r EXCEPT !.isDefault = FALSE] : r \in rows}
Flagged(rows, id) == {IF r.id = id THEN [r EXCEPT !.isDefault = TRUE] ELSE r : r \in rows}

----------------------------------------------------------------------------
(* Payment methods.                                                        *)

AtCard(c, at) == cardCall[c].at = at
GotoCard(c, call) == cardCall' = [cardCall EXCEPT ![c] = call]
EndsCard(c) == GotoCard(c, NoCardCall)
HasCard(id) == \E card \in cards : card.id = id

InsertCard(from, first) ==
  /\ cardRows < MaxRows
  /\ cardRows' = cardRows + 1
  /\ cards' = cards \cup {[id |-> cardRows + 1, from |-> from, isDefault |-> first]}

\* addPaymentMethod: the count, then the row.
AddCounts(c) ==
  /\ AtCard(c, "idle")
  /\ GotoCard(c, [NoCardCall EXCEPT !.at = "add", !.flag = (cards = {})])
  /\ UNCHANGED <<cards, cardRows, customer, customers, attached, addressVars>>

AddCreates(c) ==
  /\ AtCard(c, "add")
  /\ InsertCard(Manual, cardCall[c].flag)
  /\ EndsCard(c)
  /\ UNCHANGED <<customer, customers, attached, addressVars>>

\* remove and setDefault read the row first; one that is not there is a 404.
CardReads(c, at) ==
  /\ AtCard(c, "idle") /\ at \in {"delete", "default"}
  /\ \E card \in cards : GotoCard(c, [NoCardCall EXCEPT !.at = at, !.id = card.id,
                                                        !.flag = card.isDefault])
  /\ UNCHANGED <<cards, cardRows, customer, customers, attached, addressVars>>

RemoveDeletes_Only(c) ==
  /\ AtCard(c, "delete")
  /\ cards' = {card \in cards : card.id # cardCall[c].id}
  /\ EndsCard(c)
  /\ UNCHANGED <<cardRows, customer, customers, attached, addressVars>>

\* The delete, which throws on a row that has gone; a default is replaced.
RemoveDeletes(c) ==
  /\ AtCard(c, "delete")
  /\ cards' = {card \in cards : card.id # cardCall[c].id}
  /\ IF HasCard(cardCall[c].id) /\ cardCall[c].flag
     THEN GotoCard(c, [cardCall[c] EXCEPT !.at = "promote"]) ELSE EndsCard(c)
  /\ UNCHANGED <<cardRows, customer, customers, attached, addressVars>>

\* The most recent remaining card, if any, becomes the default.
RemoveReads(c) ==
  /\ AtCard(c, "promote")
  /\ IF cards = {} THEN EndsCard(c)
     ELSE GotoCard(c, [cardCall[c] EXCEPT !.at = "promoted", !.id = Max({card.id : card \in cards})])
  /\ UNCHANGED <<cards, cardRows, customer, customers, attached, addressVars>>

RemovePromotes(c) ==
  /\ AtCard(c, "promoted")
  /\ cards' = Flagged(cards, cardCall[c].id)
  /\ EndsCard(c)
  /\ UNCHANGED <<cardRows, customer, customers, attached, addressVars>>

\* setDefault: one transaction, which rolls back when the row has gone.
SetDefaultCard(c) ==
  /\ AtCard(c, "default")
  /\ cards' = IF HasCard(cardCall[c].id) THEN Flagged(Cleared(cards), cardCall[c].id) ELSE cards
  /\ EndsCard(c)
  /\ UNCHANGED <<cardRows, customer, customers, attached, addressVars>>

\* Stripe makes a new customer on every call.
CreateCustomer(c) ==
  /\ customers < Cardinality(Callers)
  /\ customers' = customers + 1
  /\ GotoCard(c, [NoCardCall EXCEPT !.at = "customer", !.id = customers + 1])

\* createSetupSession: ensureStripeCustomer, and the sheet, which may attach a card.
EnsureStripeCustomer(c) ==
  /\ AtCard(c, "idle")
  /\ IF customer # 0
     THEN /\ GotoCard(c, [NoCardCall EXCEPT !.at = "save", !.id = customer])
          /\ UNCHANGED customers
     ELSE CreateCustomer(c)
  /\ UNCHANGED <<cards, cardRows, customer, attached, addressVars>>

StoresCustomer(c) ==
  /\ AtCard(c, "customer")
  /\ customer' = cardCall[c].id
  /\ GotoCard(c, [cardCall[c] EXCEPT !.at = "save"])
  /\ UNCHANGED <<cards, cardRows, customers, attached, addressVars>>

SheetSaves(c) ==
  /\ AtCard(c, "save")
  /\ \E card \in SheetCards : attached' \in {attached, attached \cup {<<cardCall[c].id, card>>}}
  /\ EndsCard(c)
  /\ UNCHANGED <<cards, cardRows, customer, customers, addressVars>>

\* syncCards: what Stripe lists, card by card.
SyncLists(c) ==
  /\ AtCard(c, "idle") /\ customer # 0
  /\ GotoCard(c, [NoCardCall EXCEPT !.at = "sync",
                                    !.todo = {card \in SheetCards : <<customer, card>> \in attached}])
  /\ UNCHANGED <<cards, cardRows, customer, customers, attached, addressVars>>

\* The next card: known, or counted for; the last one ends the call.
SyncFinds(c) ==
  /\ AtCard(c, "sync")
  /\ LET todo == cardCall[c].todo
         known == {card.from : card \in cards} IN
     IF todo \subseteq known THEN EndsCard(c)
     ELSE GotoCard(c, [cardCall[c] EXCEPT !.at = "count", !.todo = todo \ known, !.flag = (cards = {})])
  /\ UNCHANGED <<cards, cardRows, customer, customers, attached, addressVars>>

SyncCreates(c) ==
  /\ AtCard(c, "count")
  /\ \E card \in cardCall[c].todo :
       /\ InsertCard(card, cardCall[c].flag)
       /\ GotoCard(c, [cardCall[c] EXCEPT !.at = "sync", !.todo = @ \ {card}])
  /\ UNCHANGED <<customer, customers, attached, addressVars>>

----------------------------------------------------------------------------
(* Saved addresses.                                                        *)

\* create: the count, against the limit; geocoding comes in between.
AddressCounts(c) ==
  /\ addressCall[c] = {} /\ Cardinality(addresses) < MAX_ADDRESSES_PER_USER
  /\ addressCall' = [addressCall EXCEPT ![c] = {Cardinality(addresses)}]
  /\ UNCHANGED <<addresses, addressRows, cardVars>>

\* The first address is the default, a later one if it was asked for.
AddressCreates(c, asked) ==
  /\ addressRows < MaxRows
  /\ addressRows' = addressRows + 1
  /\ \E count \in addressCall[c] :
       LET default == count = 0 \/ asked IN
       addresses' = (IF default THEN Cleared(addresses) ELSE addresses)
                      \cup {[id |-> addressRows + 1, isDefault |-> default]}
  /\ addressCall' = [addressCall EXCEPT ![c] = {}]
  /\ UNCHANGED cardVars

\* setDefault, and update with the flag: the others are cleared in one transaction.
SetDefaultAddress ==
  /\ \E address \in addresses : addresses' = Flagged(Cleared(addresses), address.id)
  /\ UNCHANGED <<addressRows, addressCall, cardVars>>

\* remove: nothing takes the place of a default.
RemoveAddress ==
  /\ \E address \in addresses : addresses' = addresses \ {address}
  /\ UNCHANGED <<addressRows, addressCall, cardVars>>

CustomersNext ==
  \/ \E c \in Callers :
       \/ AddCounts(c) \/ AddCreates(c)
       \/ CardReads(c, "delete") \/ RemoveDeletes(c) \/ RemoveReads(c) \/ RemovePromotes(c)
       \/ CardReads(c, "default") \/ SetDefaultCard(c)
       \/ EnsureStripeCustomer(c) \/ StoresCustomer(c) \/ SheetSaves(c)
       \/ SyncLists(c) \/ SyncFinds(c) \/ SyncCreates(c)
       \/ AddressCounts(c) \/ \E asked \in BOOLEAN : AddressCreates(c, asked)
  \/ SetDefaultAddress \/ RemoveAddress

CustomersSpec == CustomersInit /\ [][CustomersNext]_customerVars

----------------------------------------------------------------------------
(* Properties *)

Defaults(rows) == {r \in rows : r.isDefault}

\* One request at a time, a customer with cards has one default card whenever no
\* request is in progress, through every add, import, removal and change of the
\* default, and no two addresses are the default (payments.service.ts remove:
\* "promote the most recent remaining card"; saved-addresses.service.ts create).
OneDefault ==
  Cardinality(Callers) = 1 =>
    /\ (\A c \in Callers : AtCard(c, "idle")) /\ cards # {} => Cardinality(Defaults(cards)) = 1
    /\ Cardinality(Defaults(addresses)) <= 1
=============================================================================
