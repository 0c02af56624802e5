--------------------------- MODULE CustomerProofs ---------------------------
(***************************************************************************)
(* Proofs about the records a customer keeps and the deliveries that       *)
(* recur: the default flags of CustomerRecords, and the calendar and the   *)
(* scans of RecurringDeliveries.                                           *)
(***************************************************************************)
EXTENDS CustomerRecords, RecurringDeliveries, FiniteSetTheorems, WellFoundedInduction, TLAPS

----------------------------------------------------------------------------
(* CustomerRecords.                                                        *)

LEMMA MinIsMember ==
    ASSUME NEW S \in SUBSET Nat, S # {}
    PROVE  Min(S) \in S /\ \A y \in S : Min(S) <= y
<1>1. PICK x \in S : \A y \in S : ~(<<y, x>> \in OpToRel(<, Nat))
  BY NatLessThanWellFounded, WFMin
<1>2. ASSUME NEW y \in S PROVE ~(y < x)
  <2> DEFINE p == <<y, x>>
  <2>1. p \in Nat \X Nat /\ p[1] = y /\ p[2] = x
    OBVIOUS
  <2>2. p \notin OpToRel(<, Nat)
    BY <1>1, <1>2
  <2> HIDE DEF p
  <2> QED
    BY Zenon, <2>1, <2>2 DEF OpToRel
<1>3. \A y \in S : x <= y
  BY <1>2
<1> QED
  BY Zenon, <1>3 DEF Min

LEMMA MaxIsMember ==
    ASSUME NEW n \in Nat, NEW S \in SUBSET (0..n), S # {}
    PROVE  Max(S) \in S
<1> DEFINE T == {k \in 0..n : n - k \in S}
<1>1. PICK z \in S : TRUE
  BY Zenon
<1>2. n - z \in 0..n /\ n - (n - z) = z
  OBVIOUS
<1>3. n - z \in T
  BY <1>2
<1>4. T \in SUBSET Nat
  OBVIOUS
<1>5. Min(T) \in T /\ \A k \in T : Min(T) <= k
  BY Zenon, <1>3, <1>4, MinIsMember
<1>6. PICK k \in 0..n : n - k \in S /\ \A j \in T : k <= j
  BY <1>5
<1>7. ASSUME NEW y \in S PROVE n - k >= y
  <2>1. n - y \in 0..n /\ n - (n - y) = y
    OBVIOUS
  <2>2. n - y \in T
    BY <2>1
  <2> HIDE DEF T
  <2>3. k <= n - y
    BY <1>6, <2>2
  <2> QED
    BY <2>1, <2>3
<1> QED
  BY Zenon, <1>6, <1>7 DEF Max

CardRows == [id : Nat, from : SheetCards \cup {Manual}, isDefault : BOOLEAN]
AddressRows == [id : Nat, isDefault : BOOLEAN]
CardCalls == [at : CardSteps, id : Nat, flag : BOOLEAN, todo : SUBSET SheetCards]

Typed(rows) == rows \subseteq CardRows \/ rows \subseteq AddressRows
Bare(rows) == \A r \in rows : r.isDefault = FALSE
OneOf(rows) == \E r \in rows : r.isDefault = TRUE /\ \A s \in rows : s.isDefault = TRUE => s = r
NumberedBy(rows, n) ==
  /\ \A r \in rows : r.id \in 1..n
  /\ \A r, s \in rows : r.id = s.id => r = s

\* Where the request in progress stands: a removed default leaves no default until the next
\* card is promoted; at every other step a customer with cards has one.
CardStep(call) ==
  IF call.at \in {"promote", "promoted"}
  THEN /\ Bare(cards)
       /\ call.at = "promoted" => \E r \in cards : r.id = call.id
  ELSE /\ cards # {} => OneOf(cards)
       /\ call.at \in {"add", "count"} => call.flag = (cards = {})
       /\ call.at = "delete" => \E r \in cards : r.id = call.id /\ r.isDefault = call.flag

CardTypes ==
  /\ cards \subseteq CardRows /\ cardRows \in 0..MaxRows /\ NumberedBy(cards, cardRows)
  /\ customer \in Nat /\ customers \in Nat
  /\ cardCall \in [Callers -> CardCalls]

AddressInv ==
  /\ addresses \subseteq AddressRows /\ addressRows \in 0..MaxRows /\ NumberedBy(addresses, addressRows)
  /\ Bare(addresses) \/ OneOf(addresses)

CustomersInv ==
  /\ CardTypes /\ AddressInv
  /\ Cardinality(Callers) = 1 => \A c \in Callers : CardStep(cardCall[c])

----------------------------------------------------------------------------

LEMMA ClearedIs ==
  ASSUME NEW rows, Typed(rows), NEW n \in Nat, NumberedBy(rows, n)
  PROVE  /\ rows \subseteq CardRows => Cleared(rows) \subseteq CardRows
         /\ rows \subseteq AddressRows => Cleared(rows) \subseteq AddressRows
         /\ NumberedBy(Cleared(rows), n) /\ Bare(Cleared(rows))
         /\ \A r \in rows : \E q \in Cleared(rows) : q.id = r.id
         /\ rows = {} => Cleared(rows) = {}
<1> DEFINE off(r) == [r EXCEPT !.isDefault = FALSE]
<1>1. ASSUME NEW r \in rows
      PROVE  /\ off(r).id = r.id /\ off(r).isDefault = FALSE
             /\ rows \subseteq CardRows => off(r) \in CardRows
             /\ rows \subseteq AddressRows => off(r) \in AddressRows
  <2>1. CASE rows \subseteq CardRows
    <3>1. /\ off(r).id = r.id /\ off(r).isDefault = FALSE /\ off(r) \in CardRows
      BY Zenon, <2>1 DEF CardRows
    <3>2. ~(rows \subseteq AddressRows)
      <4> SUFFICES ASSUME r \in AddressRows PROVE FALSE
        OBVIOUS
      <4>1. DOMAIN r = {"id", "isDefault"} /\ DOMAIN r = {"id", "from", "isDefault"}
        BY <2>1 DEF CardRows, AddressRows
      <4> QED
        BY <4>1
    <3> QED
      BY <3>1, <3>2
  <2>2. CASE ~(rows \subseteq CardRows)
    BY Zenon, <2>2 DEF AddressRows, Typed
  <2> QED
    BY <2>1, <2>2
<1>2. Cleared(rows) = {off(r) : r \in rows}
  BY DEF Cleared
<1> HIDE DEF off
<1>3. ASSUME NEW q \in Cleared(rows)
      PROVE  \E r \in rows : q = off(r) /\ q.id = r.id /\ q.isDefault = FALSE
  BY Zenon, <1>1, <1>2
<1>4. NumberedBy(Cleared(rows), n)
  <2>1. ASSUME NEW p \in Cleared(rows), NEW q \in Cleared(rows), p.id = q.id PROVE p = q
    <3>1. PICK r \in rows : p = off(r) /\ p.id = r.id
      BY Zenon, <1>3
    <3>2. PICK s \in rows : q = off(s) /\ q.id = s.id
      BY <1>3
    <3>3. r = s
      BY <2>1, <3>1, <3>2 DEF NumberedBy
    <3> QED
      BY <3>1, <3>2, <3>3
  <2>2. \A q \in Cleared(rows) : q.id \in 1..n
    BY Zenon, <1>3 DEF NumberedBy
  <2> QED
    BY <2>1, <2>2 DEF NumberedBy
<1>5. \A r \in rows : off(r) \in Cleared(rows)
  BY <1>2
<1>6. /\ rows \subseteq CardRows => Cleared(rows) \subseteq CardRows
      /\ rows \subseteq AddressRows => Cleared(rows) \subseteq AddressRows
  BY <1>1, <1>2
<1>7. \A r \in rows : \E q \in Cleared(rows) : q.id = r.id
  BY Zenon, <1>1, <1>5
<1> QED
  BY Zenon, <1>2, <1>3, <1>4, <1>6, <1>7 DEF Bare

LEMMA FlaggedIs ==
  ASSUME NEW rows, Typed(rows), NEW n \in Nat, NumberedBy(rows, n), NEW id
  PROVE  /\ rows \subseteq CardRows => Flagged(rows, id) \subseteq CardRows
         /\ rows \subseteq AddressRows => Flagged(rows, id) \subseteq AddressRows
         /\ NumberedBy(Flagged(rows, id), n)
         /\ Bare(rows) /\ (\E r \in rows : r.id = id) => OneOf(Flagged(rows, id))
<1> DEFINE on(r) == IF r.id = id THEN [r EXCEPT !.isDefault = TRUE] ELSE r
<1>1. ASSUME NEW r \in rows
      PROVE  /\ on(r).id = r.id
             /\ r.id = id => on(r).isDefault = TRUE
             /\ r.id # id => on(r) = r
             /\ rows \subseteq CardRows => on(r) \in CardRows
             /\ rows \subseteq AddressRows => on(r) \in AddressRows
  <2>1. CASE r.id # id
    BY <2>1
  <2>2. CASE r.id = id /\ rows \subseteq CardRows
    <3>1. /\ on(r).id = r.id /\ on(r).isDefault = TRUE /\ on(r) \in CardRows
      BY Zenon, <2>2 DEF CardRows
    <3>2. ~(rows \subseteq AddressRows)
      <4> SUFFICES ASSUME r \in AddressRows PROVE FALSE
        OBVIOUS
      <4>1. DOMAIN r = {"id", "isDefault"} /\ DOMAIN r = {"id", "from", "isDefault"}
        BY <2>2 DEF CardRows, AddressRows
      <4> QED
        BY <4>1
    <3> QED
      BY <2>2, <3>1, <3>2
  <2>3. CASE r.id = id /\ ~(rows \subseteq CardRows)
    <3>1. on(r).id = r.id /\ on(r).isDefault = TRUE /\ on(r) \in AddressRows
      BY Zenon, <2>3 DEF AddressRows, Typed
    <3> QED
      BY <2>3, <3>1
  <2> QED
    BY <2>1, <2>2, <2>3
<1>2. Flagged(rows, id) = {on(r) : r \in rows}
  BY DEF Flagged
<1> HIDE DEF on
<1>3. ASSUME NEW q \in Flagged(rows, id)
      PROVE  \E r \in rows : q = on(r) /\ q.id = r.id
  BY Zenon, <1>1, <1>2
<1>4. NumberedBy(Flagged(rows, id), n)
  <2>1. ASSUME NEW p \in Flagged(rows, id), NEW q \in Flagged(rows, id), p.id = q.id PROVE p = q
    <3>1. PICK r \in rows : p = on(r) /\ p.id = r.id
      BY <1>3
    <3>2. PICK s \in rows : q = on(s) /\ q.id = s.id
      BY <1>3
    <3>3. r = s
      BY <2>1, <3>1, <3>2 DEF NumberedBy
    <3> QED
      BY <3>1, <3>2, <3>3
  <2>2. \A q \in Flagged(rows, id) : q.id \in 1..n
    BY <1>3 DEF NumberedBy
  <2> QED
    BY <2>1, <2>2 DEF NumberedBy
<1>5. ASSUME Bare(rows), NEW r \in rows, r.id = id PROVE OneOf(Flagged(rows, id))
  <2>1. on(r) \in Flagged(rows, id) /\ on(r).isDefault = TRUE
    BY Zenon, <1>1, <1>2, <1>5
  <2>2. ASSUME NEW s \in Flagged(rows, id), s.isDefault = TRUE PROVE s = on(r)
    <3>1. PICK q \in rows : s = on(q)
      BY <1>2
    <3>2. q.id = id
      BY Zenon, <1>1, <1>5, <2>2, <3>1 DEF Bare
    <3> QED
      BY <1>5, <3>1, <3>2 DEF NumberedBy
  <2> QED
    BY Zenon, <2>1, <2>2 DEF OneOf
<1>6. /\ rows \subseteq CardRows => Flagged(rows, id) \subseteq CardRows
      /\ rows \subseteq AddressRows => Flagged(rows, id) \subseteq AddressRows
  BY Zenon, <1>1, <1>2
<1> QED
  BY <1>4, <1>5, <1>6

\* A new row.
LEMMA AddedIs ==
  ASSUME NEW rows, NEW n \in Nat, NumberedBy(rows, n), NEW row, row.id = n + 1
  PROVE  /\ NumberedBy(rows \cup {row}, n + 1)
         /\ row.isDefault = FALSE /\ OneOf(rows) => OneOf(rows \cup {row})
         /\ row.isDefault = FALSE /\ Bare(rows) => Bare(rows \cup {row})
         /\ row.isDefault = TRUE /\ Bare(rows) => OneOf(rows \cup {row})
<1>1. NumberedBy(rows \cup {row}, n + 1)
  BY DEF NumberedBy
<1>2. ASSUME row.isDefault = FALSE, OneOf(rows) PROVE OneOf(rows \cup {row})
  BY <1>2 DEF OneOf
<1>3. ASSUME row.isDefault = TRUE, Bare(rows) PROVE OneOf(rows \cup {row})
  BY <1>3 DEF OneOf, Bare
<1> QED
  BY <1>1, <1>2, <1>3 DEF Bare

----------------------------------------------------------------------------

\* The steps of a request that only reads and moves on.
LEMMA CallsAre ==
  /\ NoCardCall \in CardCalls
  /\ CardSteps = {"idle", "add", "delete", "promote", "promoted", "default", "sync", "count", "customer", "save"}
BY DEF NoCardCall, CardCalls, CardSteps

LEMMA GotoIs ==
  ASSUME CardTypes, NEW c \in Callers, NEW call \in CardCalls, GotoCard(c, call)
  PROVE  cardCall' \in [Callers -> CardCalls] /\ cardCall'[c] = call
BY DEF CardTypes, GotoCard

\* With one caller, what the step of that caller establishes is all there is to show.
LEMMA OneCaller ==
  ASSUME Cardinality(Callers) = 1, NEW c \in Callers, NEW d \in Callers
  PROVE  c = d
<1>1. PICK x : Callers = {x}
  BY CustomersAssumption, FS_Singleton DEF CustomersAssumption
<1> QED
  BY <1>1

LEMMA CardStepKeeps ==
  ASSUME CardTypes', AddressInv, addressVars' = addressVars, NEW c \in Callers,
         Cardinality(Callers) = 1 => CardStep(cardCall[c])'
  PROVE  CustomersInv'
<1>1. AddressInv'
  BY DEF AddressInv, addressVars, NumberedBy, Bare, OneOf
<1>2. ASSUME Cardinality(Callers) = 1, NEW d \in Callers PROVE CardStep(cardCall[d])'
  BY <1>2, OneCaller
<1> QED
  BY <1>1, <1>2 DEF CustomersInv

\* Steps that leave the cards alone.
LEMMA ReadKeeps ==
  ASSUME CustomersInv, NEW c \in Callers, NEW call \in CardCalls, GotoCard(c, call),
         cards' = cards, cardRows' = cardRows, customer' \in Nat, customers' \in Nat, addressVars' = addressVars,
         Cardinality(Callers) = 1 => CardStep(call)
  PROVE  CustomersInv'
<1>1. CardTypes'
  BY GotoIs DEF CustomersInv, CardTypes, NumberedBy
<1>2. cardCall'[c] = call
  BY GotoIs DEF CustomersInv
<1>3. Cardinality(Callers) = 1 => CardStep(cardCall[c])'
  BY <1>2 DEF CardStep, Bare, OneOf
<1> QED
  BY <1>1, <1>3, CardStepKeeps DEF CustomersInv

LEMMA CallRecord ==
  ASSUME NEW at \in CardSteps, NEW id \in Nat, NEW flag \in BOOLEAN, NEW todo \in SUBSET SheetCards
  PROVE  LET call == [at |-> at, id |-> id, flag |-> flag, todo |-> todo]
         IN  call \in CardCalls /\ call.at = at /\ call.id = id /\ call.flag = flag /\ call.todo = todo
BY DEF CardCalls

LEMMA CallFields ==
  ASSUME NEW call \in CardCalls
  PROVE  /\ call.at \in CardSteps /\ call.id \in Nat /\ call.flag \in BOOLEAN /\ call.todo \in SUBSET SheetCards
         /\ call = [at |-> call.at, id |-> call.id, flag |-> call.flag, todo |-> call.todo]
BY DEF CardCalls

\* What holds of the cards at the steps that are not about to promote one.
LEMMA SettledStep ==
  ASSUME NEW call, CardStep(call), call.at \notin {"promote", "promoted"}
  PROVE  cards # {} => OneOf(cards)
BY DEF CardStep

LEMMA AddCountsKeeps ==
  ASSUME CustomersInv, NEW c \in Callers, AddCounts(c) PROVE CustomersInv'
<1>0. PICK flag \in BOOLEAN : flag = (cards = {})
  BY Zenon
<1> DEFINE call == [NoCardCall EXCEPT !.at = "add", !.flag = flag]
<1>1. GotoCard(c, call)
  BY <1>0, Zenon DEF AddCounts
<1>2. NoCardCall \in CardCalls /\ "add" \in CardSteps
  BY CallsAre
<1>3. call \in CardCalls /\ call.at = "add" /\ call.flag = flag
  BY <1>2 DEF CardCalls
<1> HIDE DEF call
<1>4. Cardinality(Callers) = 1 => CardStep(call)
  <2> SUFFICES ASSUME Cardinality(Callers) = 1 PROVE CardStep(call)
    OBVIOUS
  <2>1. CardStep(cardCall[c]) /\ cardCall[c].at = "idle"
    BY DEF CustomersInv, AddCounts, AtCard
  <2>2. cards # {} => OneOf(cards)
    BY <2>1, SettledStep
  <2> QED
    BY <1>0, <1>3, <2>2 DEF CardStep
<1>5. customer \in Nat /\ customers \in Nat
  BY DEF CustomersInv, CardTypes
<1> QED
  BY <1>1, <1>3, <1>4, <1>5, ReadKeeps DEF AddCounts

\* A row that is inserted as the first card if there was none.
LEMMA InsertIs ==
  ASSUME CustomersInv, NEW from \in SheetCards \cup {Manual}, NEW first \in BOOLEAN, InsertCard(from, first)
  PROVE  /\ cards' \subseteq CardRows /\ cardRows' \in 0..MaxRows /\ NumberedBy(cards', cardRows')
         /\ cards' # {}
         /\ (cards # {} => OneOf(cards)) /\ first = (cards = {}) => OneOf(cards')
<1> DEFINE row == [id |-> cardRows + 1, from |-> from, isDefault |-> first]
<1>1. cards' = cards \cup {row} /\ cardRows' = cardRows + 1 /\ cardRows < MaxRows
  BY DEF InsertCard
<1>2. cardRows \in Nat /\ cardRows + 1 \in 0..MaxRows /\ cards \subseteq CardRows /\ NumberedBy(cards, cardRows)
  BY <1>1, CustomersAssumption DEF CustomersInv, CardTypes, CustomersAssumption
<1>3. row \in CardRows /\ row.id = cardRows + 1 /\ row.isDefault = first
  BY <1>2 DEF CardRows
<1> HIDE DEF row
<1>4. NumberedBy(cards', cardRows')
  BY Zenon, <1>1, <1>2, <1>3, AddedIs
<1>5. ASSUME cards # {} => OneOf(cards), first = (cards = {}) PROVE OneOf(cards')
  <2>1. CASE cards = {}
    <3>1. Bare(cards) /\ row.isDefault = TRUE
      BY Zenon, <1>3, <1>5, <2>1 DEF Bare
    <3> QED
      BY Zenon, <1>1, <1>2, <1>3, <3>1, AddedIs
  <2>2. CASE cards # {}
    <3>1. OneOf(cards) /\ row.isDefault = FALSE
      BY <1>3, <1>5, <2>2
    <3> QED
      BY Zenon, <1>1, <1>2, <1>3, <3>1, AddedIs
  <2> QED
    BY <2>1, <2>2
<1> QED
  BY <1>1, <1>2, <1>3, <1>4, <1>5

LEMMA AddCreatesKeeps ==
  ASSUME CustomersInv, NEW c \in Callers, AddCreates(c) PROVE CustomersInv'
<1>1. cardCall[c] \in CardCalls /\ Manual \in SheetCards \cup {Manual}
  BY DEF CustomersInv, CardTypes
<1>2. cardCall[c].flag \in BOOLEAN
  BY <1>1, CallFields
<1>3. InsertCard(Manual, cardCall[c].flag) /\ GotoCard(c, NoCardCall)
  BY DEF AddCreates, EndsCard
<1>4. customer' = customer /\ customers' = customers /\ addressVars' = addressVars
  BY DEF AddCreates
<1>5. cardCall' \in [Callers -> CardCalls] /\ cardCall'[c] = NoCardCall
  BY <1>3, CallsAre, GotoIs DEF CustomersInv
<1>6. /\ cards' \subseteq CardRows /\ cardRows' \in 0..MaxRows /\ NumberedBy(cards', cardRows')
      /\ (cards # {} => OneOf(cards)) /\ cardCall[c].flag = (cards = {}) => OneOf(cards')
  BY Zenon, <1>1, <1>2, <1>3, InsertIs
<1>7. CardTypes'
  BY <1>4, <1>5, <1>6 DEF CustomersInv, CardTypes, NumberedBy
<1>8. ASSUME Cardinality(Callers) = 1 PROVE CardStep(cardCall[c])'
  <2>1. CardStep(cardCall[c]) /\ cardCall[c].at = "add"
    BY <1>8 DEF CustomersInv, AddCreates, AtCard
  <2>2. OneOf(cards')
    BY <1>6, <2>1 DEF CardStep
  <2>3. cardCall'[c].at = "idle"
    BY <1>5 DEF NoCardCall
  <2> QED
    BY <2>2, <2>3 DEF CardStep, OneOf
<1> QED
  BY <1>4, <1>7, <1>8, CardStepKeeps DEF CustomersInv

LEMMA CardReadsKeeps ==
  ASSUME CustomersInv, NEW c \in Callers, NEW at \in {"delete", "default"}, CardReads(c, at) PROVE CustomersInv'
<1>1. PICK card \in cards : GotoCard(c, [NoCardCall EXCEPT !.at = at, !.id = card.id, !.flag = card.isDefault])
  BY Zenon DEF CardReads
<1>3. at \in CardSteps /\ card.id \in Nat /\ card.isDefault \in BOOLEAN
  BY CallsAre DEF CustomersInv, CardTypes, CardRows
<1>0. PICK flag \in BOOLEAN : flag = card.isDefault
  BY <1>3
<1> DEFINE call == [NoCardCall EXCEPT !.at = at, !.id = card.id, !.flag = flag]
<1>2. GotoCard(c, call)
  BY <1>0, <1>1, Zenon
<1>4. call \in CardCalls /\ call.at = at /\ call.id = card.id /\ call.flag = flag
  <2>1. NoCardCall \in CardCalls
    BY CallsAre
  <2> QED
    BY <1>3, <2>1 DEF CardCalls
<1> HIDE DEF call
<1>5. Cardinality(Callers) = 1 => CardStep(call)
  <2> SUFFICES ASSUME Cardinality(Callers) = 1 PROVE CardStep(call)
    OBVIOUS
  <2>1. CardStep(cardCall[c]) /\ cardCall[c].at = "idle"
    BY DEF CustomersInv, CardReads, AtCard
  <2>2. cards # {} => OneOf(cards)
    BY <2>1, SettledStep
  <2> QED
    BY <1>0, <1>4, <2>2 DEF CardStep
<1>6. customer \in Nat /\ customers \in Nat
  BY DEF CustomersInv, CardTypes
<1> QED
  BY <1>2, <1>4, <1>5, <1>6, ReadKeeps DEF CardReads

LEMMA RemoveDeletesKeeps ==
  ASSUME CustomersInv, NEW c \in Callers, RemoveDeletes(c) PROVE CustomersInv'
<1> DEFINE id == cardCall[c].id
           promote == HasCard(id) /\ cardCall[c].flag
           call == IF promote THEN [cardCall[c] EXCEPT !.at = "promote"] ELSE NoCardCall
<1>1. cards' = {card \in cards : card.id # id} /\ cardRows' = cardRows
  BY DEF RemoveDeletes
<1>2. customer' = customer /\ customers' = customers /\ addressVars' = addressVars
  BY DEF RemoveDeletes
<1>3. GotoCard(c, call)
  BY DEF RemoveDeletes, EndsCard
<1>4. call \in CardCalls /\ call.at = IF promote THEN "promote" ELSE "idle"
  <2>1. cardCall[c] \in CardCalls /\ "promote" \in CardSteps
    BY CallsAre DEF CustomersInv, CardTypes
  <2>2. CASE promote
    BY <2>1, <2>2 DEF CardCalls
  <2>3. CASE ~promote
    BY <2>3, CallsAre DEF NoCardCall
  <2> QED
    BY <2>2, <2>3
<1>5. cardCall' \in [Callers -> CardCalls] /\ cardCall'[c].at = IF promote THEN "promote" ELSE "idle"
  BY Zenon, <1>3, <1>4, GotoIs DEF CustomersInv
<1>6. CardTypes'
  BY <1>1, <1>2, <1>5 DEF CustomersInv, CardTypes, NumberedBy
<1>7. ASSUME Cardinality(Callers) = 1 PROVE CardStep(cardCall[c])'
  <2>1. CardStep(cardCall[c]) /\ cardCall[c].at = "delete"
    BY <1>7 DEF CustomersInv, RemoveDeletes, AtCard
  <2>2. PICK r \in cards : r.id = id /\ r.isDefault = cardCall[c].flag
    BY <2>1 DEF CardStep
  <2>3. OneOf(cards)
    BY Zenon, <2>1, SettledStep, <2>2
  <2>4. \A s \in cards : s.id = id <=> s = r
    BY <2>2 DEF CustomersInv, CardTypes, NumberedBy
  <2>5. cards' = cards \ {r}
    BY <1>1, <2>4
  <2>6. promote <=> r.isDefault = TRUE
    <3>1. r.isDefault \in BOOLEAN /\ HasCard(id)
      BY <2>2 DEF CustomersInv, CardTypes, CardRows, HasCard
    <3> QED
      BY <2>2, <3>1
  <2> HIDE DEF promote
  <2>7. CASE promote
    <3>1. Bare(cards')
      <4>1. \A s \in cards : s.isDefault = TRUE => s = r
        BY <2>3, <2>6, <2>7 DEF OneOf
      <4>2. \A s \in cards : s.isDefault \in BOOLEAN
        BY DEF CustomersInv, CardTypes, CardRows
      <4> QED
        BY <2>5, <4>1, <4>2 DEF Bare
    <3>2. cardCall'[c].at = "promote"
      BY <1>5, <2>7
    <3> QED
      BY <3>1, <3>2 DEF CardStep, Bare
  <2>8. CASE ~promote
    <3>1. OneOf(cards')
      BY <2>3, <2>5, <2>6, <2>8 DEF OneOf
    <3>2. cardCall'[c].at = "idle"
      BY <1>5, <2>8
    <3> QED
      BY <3>1, <3>2 DEF CardStep, OneOf
  <2> QED
    BY <2>7, <2>8
<1> QED
  BY <1>2, <1>6, <1>7, CardStepKeeps DEF CustomersInv

LEMMA RemoveReadsKeeps ==
  ASSUME CustomersInv, NEW c \in Callers, RemoveReads(c) PROVE CustomersInv'
<1>1. cardCall[c] \in CardCalls /\ customer \in Nat /\ customers \in Nat
  BY DEF CustomersInv, CardTypes
<1>2. Cardinality(Callers) = 1 => Bare(cards)
  BY DEF CustomersInv, RemoveReads, AtCard, CardStep
<1>3. CASE cards = {}
  <2>1. GotoCard(c, NoCardCall)
    BY <1>3 DEF RemoveReads, EndsCard
  <2>2. CardStep(NoCardCall)
    BY <1>3 DEF CardStep, NoCardCall
  <2> QED
    BY <1>1, <2>1, <2>2, CallsAre, ReadKeeps DEF RemoveReads
<1>4. CASE cards # {}
  <2> DEFINE ids == {card.id : card \in cards}
             call == [cardCall[c] EXCEPT !.at = "promoted", !.id = Max(ids)]
  <2>1. GotoCard(c, call)
    BY <1>4 DEF RemoveReads
  <2>2. ids \in SUBSET (0..MaxRows) /\ ids # {}
    BY <1>4, CustomersAssumption DEF CustomersInv, CardTypes, NumberedBy, CustomersAssumption
  <2>3. Max(ids) \in ids
    BY Zenon, <2>2, MaxIsMember, CustomersAssumption DEF CustomersAssumption
  <2>4. PICK r \in cards : r.id = Max(ids)
    BY <2>3
  <2>5. Max(ids) \in Nat
    BY <2>2, <2>3
  <2> HIDE DEF ids
  <2>6. call \in CardCalls /\ call.at = "promoted" /\ call.id = Max(ids)
    BY Zenon, <1>1, <2>5, CallsAre DEF CardCalls
  <2> HIDE DEF call
  <2>7. Cardinality(Callers) = 1 => CardStep(call)
    BY <1>2, <2>4, <2>6 DEF CardStep
  <2> QED
    BY <1>1, <2>1, <2>6, <2>7, ReadKeeps DEF RemoveReads
<1> QED
  BY <1>3, <1>4

\* The steps that set the flag: a promotion, and setDefault.
LEMMA FlagKeeps ==
  ASSUME CustomersInv, NEW c \in Callers, GotoCard(c, NoCardCall), cardRows' = cardRows,
         customer' = customer, customers' = customers, addressVars' = addressVars,
         cards' \subseteq CardRows, NumberedBy(cards', cardRows),
         Cardinality(Callers) = 1 => (cards' # {} => OneOf(cards'))
  PROVE  CustomersInv'
<1>1. cardCall' \in [Callers -> CardCalls] /\ cardCall'[c].at = "idle"
  BY CallsAre, GotoIs DEF CustomersInv, NoCardCall
<1>2. CardTypes'
  BY <1>1 DEF CustomersInv, CardTypes, NumberedBy
<1>3. Cardinality(Callers) = 1 => CardStep(cardCall[c])'
  BY <1>1 DEF CardStep, OneOf
<1> QED
  BY Zenon, <1>2, <1>3, CardStepKeeps DEF CustomersInv

LEMMA RemovePromotesKeeps ==
  ASSUME CustomersInv, NEW c \in Callers, RemovePromotes(c) PROVE CustomersInv'
<1>1. cards \subseteq CardRows /\ Typed(cards) /\ cardRows \in Nat /\ NumberedBy(cards, cardRows)
  BY CustomersAssumption DEF CustomersInv, CardTypes, Typed, CustomersAssumption
<1>2. cards' = Flagged(cards, cardCall[c].id) /\ GotoCard(c, NoCardCall)
  BY Zenon DEF RemovePromotes, EndsCard
<1>3. ASSUME Cardinality(Callers) = 1 PROVE OneOf(cards')
  <2>1. Bare(cards) /\ \E r \in cards : r.id = cardCall[c].id
    BY Zenon, <1>3 DEF CustomersInv, CardStep, RemovePromotes, AtCard
  <2> QED
    BY Zenon, <1>1, <1>2, <2>1, FlaggedIs
<1>4. cards' \subseteq CardRows /\ NumberedBy(cards', cardRows)
  BY <1>1, <1>2, FlaggedIs
<1> QED
  BY <1>2, <1>3, <1>4, FlagKeeps DEF RemovePromotes

LEMMA SetDefaultCardKeeps ==
  ASSUME CustomersInv, NEW c \in Callers, SetDefaultCard(c) PROVE CustomersInv'
<1>1. cards \subseteq CardRows /\ Typed(cards) /\ cardRows \in Nat /\ NumberedBy(cards, cardRows)
  BY CustomersAssumption DEF CustomersInv, CardTypes, Typed, CustomersAssumption
<1>2. GotoCard(c, NoCardCall)
  BY DEF SetDefaultCard, EndsCard
<1>3. CASE HasCard(cardCall[c].id)
  <2> DEFINE cleared == Cleared(cards)
  <2>1. cards' = Flagged(cleared, cardCall[c].id)
    BY <1>3 DEF SetDefaultCard
  <2>2. /\ cleared \subseteq CardRows /\ Typed(cleared) /\ NumberedBy(cleared, cardRows) /\ Bare(cleared)
        /\ \E r \in cleared : r.id = cardCall[c].id
    BY <1>1, <1>3, ClearedIs DEF HasCard, Typed
  <2> HIDE DEF cleared
  <2>3. cards' \subseteq CardRows /\ NumberedBy(cards', cardRows) /\ OneOf(cards')
    BY <1>1, <2>1, <2>2, FlaggedIs
  <2> QED
    BY <1>2, <2>3, FlagKeeps DEF SetDefaultCard
<1>4. CASE ~HasCard(cardCall[c].id)
  <2>1. cards' = cards
    BY <1>4 DEF SetDefaultCard
  <2>2. ASSUME Cardinality(Callers) = 1 PROVE cards # {} => OneOf(cards)
    <3>1. CardStep(cardCall[c]) /\ cardCall[c].at = "default"
      BY <2>2 DEF CustomersInv, SetDefaultCard, AtCard
    <3> QED
      BY <3>1, SettledStep
  <2> QED
    BY <1>1, <1>2, <2>1, <2>2, FlagKeeps DEF SetDefaultCard
<1> QED
  BY <1>3, <1>4

\* A step of another payment request, which changes no card.
LEMMA PassKeeps ==
  ASSUME CustomersInv, NEW c \in Callers, NEW call \in CardCalls, GotoCard(c, call),
         cards' = cards, cardRows' = cardRows, customer' \in Nat, customers' \in Nat, addressVars' = addressVars,
         cardCall[c].at \notin {"promote", "promoted"},
         call.at \notin {"promote", "promoted", "add", "count", "delete"}
  PROVE  CustomersInv'
<1>1. ASSUME Cardinality(Callers) = 1 PROVE CardStep(call)
  <2>1. CardStep(cardCall[c])
    BY <1>1 DEF CustomersInv
  <2>2. cards # {} => OneOf(cards)
    BY <2>1, SettledStep
  <2> QED
    BY <2>2 DEF CardStep
<1> QED
  BY <1>1, ReadKeeps

LEMMA StripeKeeps ==
  ASSUME CustomersInv, NEW c \in Callers,
         EnsureStripeCustomer(c) \/ StoresCustomer(c) \/ SheetSaves(c) \/ SyncLists(c)
  PROVE  CustomersInv'
<1>1. cardCall[c] \in CardCalls /\ customer \in Nat /\ customers \in Nat /\ cardCall[c].id \in Nat
  BY CallFields DEF CustomersInv, CardTypes
<1>2. cards' = cards /\ cardRows' = cardRows /\ addressVars' = addressVars
  BY DEF EnsureStripeCustomer, StoresCustomer, SheetSaves, SyncLists
<1>3. cardCall[c].at \in {"idle", "customer", "save"}
  BY DEF EnsureStripeCustomer, StoresCustomer, SheetSaves, SyncLists, AtCard
<1>4. CASE EnsureStripeCustomer(c)
  <2>1. PICK at \in {"save", "customer"}, id \in Nat : GotoCard(c, [NoCardCall EXCEPT !.at = at, !.id = id])
    <3>1. CASE customer # 0
      BY <1>1, <1>4, <3>1, Zenon DEF EnsureStripeCustomer
    <3>2. CASE customer = 0
      <4>1. GotoCard(c, [NoCardCall EXCEPT !.at = "customer", !.id = customers + 1])
        BY <1>4, <3>2, Zenon DEF EnsureStripeCustomer, CreateCustomer
      <4>2. customers + 1 \in Nat
        BY <1>1
      <4> QED
        BY <4>1, <4>2, Zenon
    <3> QED
      BY Zenon, <3>1, <3>2
  <2>2. customer' = customer /\ customers' \in Nat
    BY <1>1, <1>4 DEF EnsureStripeCustomer, CreateCustomer
  <2> DEFINE call == [NoCardCall EXCEPT !.at = at, !.id = id]
  <2>3. call \in CardCalls /\ call.at = at
    BY Zenon, CallsAre DEF NoCardCall, CardCalls
  <2> HIDE DEF call
  <2> QED
    BY <1>1, <1>2, <1>3, <2>1, <2>2, <2>3, PassKeeps DEF call
<1>5. CASE StoresCustomer(c)
  <2>1. GotoCard(c, [cardCall[c] EXCEPT !.at = "save"]) /\ customer' \in Nat /\ customers' \in Nat
    BY <1>1, <1>5 DEF StoresCustomer
  <2> DEFINE call == [cardCall[c] EXCEPT !.at = "save"]
  <2>2. call \in CardCalls /\ call.at = "save"
    BY Zenon, <1>1, CallsAre DEF CardCalls
  <2> HIDE DEF call
  <2> QED
    BY <1>1, <1>2, <1>3, <2>1, <2>2, PassKeeps DEF call
<1>6. CASE SheetSaves(c)
  <2>1. GotoCard(c, NoCardCall) /\ customer' \in Nat /\ customers' \in Nat
    BY <1>1, <1>6 DEF SheetSaves, EndsCard
  <2>2. NoCardCall \in CardCalls /\ NoCardCall.at = "idle"
    BY CallsAre DEF NoCardCall
  <2> QED
    BY Zenon, <1>1, <1>2, <1>3, <2>1, <2>2, PassKeeps
<1>7. CASE SyncLists(c)
  <2>1. PICK todo \in SUBSET SheetCards : GotoCard(c, [NoCardCall EXCEPT !.at = "sync", !.todo = todo])
    BY Zenon, <1>7 DEF SyncLists
  <2>2. customer' \in Nat /\ customers' \in Nat
    BY <1>1, <1>7 DEF SyncLists
  <2> DEFINE call == [NoCardCall EXCEPT !.at = "sync", !.todo = todo]
  <2>3. call \in CardCalls /\ call.at = "sync"
    BY Zenon, CallsAre DEF NoCardCall, CardCalls
  <2> HIDE DEF call
  <2> QED
    BY <1>1, <1>2, <1>3, <2>1, <2>2, <2>3, PassKeeps DEF call
<1> QED
  BY <1>4, <1>5, <1>6, <1>7

LEMMA SyncFindsKeeps ==
  ASSUME CustomersInv, NEW c \in Callers, SyncFinds(c) PROVE CustomersInv'
<1> DEFINE known == {card.from : card \in cards}
           todo == cardCall[c].todo
<1>1. cardCall[c] \in CardCalls /\ customer \in Nat /\ customers \in Nat /\ todo \in SUBSET SheetCards
  BY CallFields DEF CustomersInv, CardTypes
<1>2. cards' = cards /\ cardRows' = cardRows /\ addressVars' = addressVars /\ customer' = customer /\ customers' = customers
  BY DEF SyncFinds
<1>3. cardCall[c].at = "sync"
  BY DEF SyncFinds, AtCard
<1>4. CASE todo \subseteq known
  <2>1. GotoCard(c, NoCardCall)
    BY <1>4 DEF SyncFinds, EndsCard
  <2>2. NoCardCall \in CardCalls /\ NoCardCall.at = "idle"
    BY CallsAre DEF NoCardCall
  <2> QED
    BY Zenon, <1>1, <1>2, <1>3, <2>1, <2>2, PassKeeps
<1>5. CASE ~(todo \subseteq known)
  <2>0. PICK flag \in BOOLEAN : flag = (cards = {})
    OBVIOUS
  <2> DEFINE call == [cardCall[c] EXCEPT !.at = "count", !.todo = todo \ known, !.flag = flag]
  <2>1. GotoCard(c, call)
    BY <1>5, <2>0, Zenon DEF SyncFinds
  <2>2. call \in CardCalls /\ call.at = "count" /\ call.flag = flag
    BY Zenon, <1>1, CallsAre DEF CardCalls
  <2> HIDE DEF call
  <2>3. ASSUME Cardinality(Callers) = 1 PROVE CardStep(call)
    <3>1. CardStep(cardCall[c])
      BY <2>3 DEF CustomersInv
    <3>2. cards # {} => OneOf(cards)
      BY Zenon, <1>3, <3>1, SettledStep
    <3> QED
      BY <2>0, <2>2, <3>2 DEF CardStep
  <2> QED
    BY <1>1, <1>2, <2>1, <2>2, <2>3, ReadKeeps
<1> QED
  BY <1>4, <1>5

LEMMA SyncCreatesKeeps ==
  ASSUME CustomersInv, NEW c \in Callers, SyncCreates(c) PROVE CustomersInv'
<1>1. cardCall[c] \in CardCalls /\ cardCall[c].flag \in BOOLEAN /\ cardCall[c].todo \in SUBSET SheetCards
  BY CallFields DEF CustomersInv, CardTypes
<1>2. PICK card \in cardCall[c].todo :
        /\ InsertCard(card, cardCall[c].flag)
        /\ GotoCard(c, [cardCall[c] EXCEPT !.at = "sync", !.todo = @ \ {card}])
  BY Zenon DEF SyncCreates
<1> DEFINE call == [cardCall[c] EXCEPT !.at = "sync", !.todo = @ \ {card}]
<1>3. call \in CardCalls /\ call.at = "sync"
  BY Zenon, <1>1, CallsAre DEF CardCalls
<1> HIDE DEF call
<1>4. customer' = customer /\ customers' = customers /\ addressVars' = addressVars
  BY DEF SyncCreates
<1>5. cardCall' \in [Callers -> CardCalls] /\ cardCall'[c] = call
  BY <1>2, <1>3, GotoIs DEF CustomersInv, call
<1>6. /\ cards' \subseteq CardRows /\ cardRows' \in 0..MaxRows /\ NumberedBy(cards', cardRows')
      /\ (cards # {} => OneOf(cards)) /\ cardCall[c].flag = (cards = {}) => OneOf(cards')
  <2>1. card \in SheetCards \cup {Manual}
    BY <1>1, <1>2
  <2> QED
    BY <1>1, <1>2, <2>1, InsertIs
<1>7. CardTypes'
  BY <1>4, <1>5, <1>6 DEF CustomersInv, CardTypes, NumberedBy
<1>8. ASSUME Cardinality(Callers) = 1 PROVE CardStep(cardCall[c])'
  <2>1. CardStep(cardCall[c]) /\ cardCall[c].at = "count"
    BY Zenon, <1>8 DEF CustomersInv, SyncCreates, AtCard
  <2>2. OneOf(cards')
    BY Zenon, <1>6, <2>1 DEF CardStep
  <2> QED
    BY <1>3, <1>5, <2>2 DEF CardStep, OneOf
<1> QED
  BY <1>4, <1>7, <1>8, CardStepKeeps DEF CustomersInv

\* Addresses: whoever creates a default clears the others first.
LEMMA AddressStep ==
  ASSUME CustomersInv, cardVars' = cardVars, AddressInv' PROVE CustomersInv'
BY DEF CustomersInv, CardTypes, CardStep, Bare, OneOf, NumberedBy, cardVars

LEMMA AddressCreatesKeeps ==
  ASSUME CustomersInv, NEW c \in Callers, NEW asked \in BOOLEAN, AddressCreates(c, asked) PROVE CustomersInv'
<1>1. /\ addresses \subseteq AddressRows /\ Typed(addresses) /\ addressRows \in Nat /\ NumberedBy(addresses, addressRows)
      /\ Bare(addresses) \/ OneOf(addresses)
  BY CustomersAssumption DEF CustomersInv, AddressInv, Typed, CustomersAssumption
<1>2. PICK default \in BOOLEAN :
        addresses' = (IF default THEN Cleared(addresses) ELSE addresses)
                       \cup {[id |-> addressRows + 1, isDefault |-> default]}
  BY Zenon DEF AddressCreates
<1>3. addressRows' = addressRows + 1 /\ addressRows' \in 0..MaxRows /\ cardVars' = cardVars
  BY <1>1, CustomersAssumption DEF AddressCreates, CustomersAssumption
<1> DEFINE row == [id |-> addressRows + 1, isDefault |-> default]
           rows == IF default THEN Cleared(addresses) ELSE addresses
<1>4. row \in AddressRows /\ row.id = addressRows + 1 /\ row.isDefault = default
  BY <1>1 DEF AddressRows
<1>5. rows \subseteq AddressRows /\ NumberedBy(rows, addressRows) /\ (default => Bare(rows)) /\ (Bare(rows) \/ OneOf(rows))
  BY <1>1, ClearedIs
<1>6. addresses' = rows \cup {row}
  BY <1>2
<1> HIDE DEF row, rows
<1>7. NumberedBy(addresses', addressRows') /\ addresses' \subseteq AddressRows
  BY Zenon, <1>1, <1>3, <1>4, <1>5, <1>6, AddedIs
<1>8. Bare(addresses') \/ OneOf(addresses')
  <2>1. CASE default = TRUE
    BY Zenon, <1>1, <1>4, <1>5, <1>6, <2>1, AddedIs
  <2>2. CASE default = FALSE
    BY <1>1, <1>4, <1>5, <1>6, <2>2, AddedIs
  <2> QED
    BY Zenon, <2>1, <2>2
<1>9. AddressInv'
  BY Zenon, <1>3, <1>7, <1>8 DEF AddressInv, NumberedBy, Bare, OneOf
<1> QED
  BY <1>3, <1>9, AddressStep

LEMMA AddressChangeKeeps ==
  ASSUME CustomersInv, SetDefaultAddress \/ RemoveAddress PROVE CustomersInv'
<1>1. /\ addresses \subseteq AddressRows /\ Typed(addresses) /\ addressRows \in Nat /\ NumberedBy(addresses, addressRows)
      /\ Bare(addresses) \/ OneOf(addresses)
  BY CustomersAssumption DEF CustomersInv, AddressInv, Typed, CustomersAssumption
<1>2. addressRows' = addressRows /\ cardVars' = cardVars
  BY DEF SetDefaultAddress, RemoveAddress
<1>3. addresses' \subseteq AddressRows /\ NumberedBy(addresses', addressRows) /\ (Bare(addresses') \/ OneOf(addresses'))
  <2>1. CASE SetDefaultAddress
    <3>1. PICK address \in addresses : addresses' = Flagged(Cleared(addresses), address.id)
      BY <2>1 DEF SetDefaultAddress
    <3> DEFINE cleared == Cleared(addresses)
    <3>2. /\ cleared \subseteq AddressRows /\ Typed(cleared) /\ NumberedBy(cleared, addressRows) /\ Bare(cleared)
          /\ \E r \in cleared : r.id = address.id
      BY <1>1, <3>1, ClearedIs DEF Typed
    <3>3. addresses' = Flagged(cleared, address.id)
      BY <3>1
    <3> HIDE DEF cleared
    <3> QED
      BY <1>1, <3>2, <3>3, FlaggedIs
  <2>2. CASE RemoveAddress
    <3>1. PICK address \in addresses : addresses' = addresses \ {address}
      BY <2>2 DEF RemoveAddress
    <3>2. addresses' \subseteq AddressRows /\ NumberedBy(addresses', addressRows)
      BY <1>1, <3>1 DEF NumberedBy
    <3>3. CASE Bare(addresses)
      BY <3>1, <3>2, <3>3 DEF Bare
    <3>4. CASE OneOf(addresses)
      <4>1. PICK r \in addresses : r.isDefault = TRUE /\ \A s \in addresses : s.isDefault = TRUE => s = r
        BY <3>4 DEF OneOf
      <4>2. CASE address = r
        <5>1. \A s \in addresses : s.isDefault \in BOOLEAN
          BY <1>1 DEF AddressRows
        <5>2. Bare(addresses')
          BY <3>1, <4>1, <4>2, <5>1 DEF Bare
        <5> QED
          BY <3>2, <5>2
      <4>3. CASE address # r
        BY Zenon, <3>1, <3>2, <4>1, <4>3 DEF OneOf
      <4> QED
        BY <4>2, <4>3
    <3> QED
      BY <1>1, <3>3, <3>4
  <2> QED
    BY Zenon, <2>1, <2>2
<1>4. AddressInv'
  BY Zenon, <1>2, <1>3 DEF AddressInv, CustomersInv, NumberedBy, Bare, OneOf
<1> QED
  BY <1>2, <1>4, AddressStep

LEMMA CustomersNextKeeps ==
  ASSUME CustomersInv, [CustomersNext]_customerVars
  PROVE  CustomersInv'
<1>1. CASE UNCHANGED customerVars
  <2>1. cardVars' = cardVars /\ addresses' = addresses /\ addressRows' = addressRows
    BY <1>1 DEF customerVars, cardVars
  <2>2. AddressInv'
    BY <2>1 DEF CustomersInv, AddressInv, NumberedBy, Bare, OneOf
  <2> QED
    BY <2>1, <2>2, AddressStep
<1>2. ASSUME NEW c \in Callers, AddressCounts(c) PROVE CustomersInv'
  <2>1. cardVars' = cardVars /\ addresses' = addresses /\ addressRows' = addressRows
    BY Zenon, <1>2 DEF AddressCounts
  <2>2. AddressInv'
    BY <2>1 DEF CustomersInv, AddressInv, NumberedBy, Bare, OneOf
  <2> QED
    BY <2>1, <2>2, AddressStep
<1>3. ASSUME NEW c \in Callers, CardReads(c, "delete") \/ CardReads(c, "default") PROVE CustomersInv'
  BY <1>3, CardReadsKeeps
<1>4. ASSUME NEW c \in Callers,
             EnsureStripeCustomer(c) \/ StoresCustomer(c) \/ SheetSaves(c) \/ SyncLists(c)
               \/ SyncFinds(c) \/ SyncCreates(c)
      PROVE  CustomersInv'
  BY <1>4, StripeKeeps, SyncFindsKeeps, SyncCreatesKeeps
<1> QED
  BY <1>1, <1>2, <1>3, <1>4, AddCountsKeeps, AddCreatesKeeps, RemoveDeletesKeeps, RemoveReadsKeeps,
     RemovePromotesKeeps, SetDefaultCardKeeps, AddressCreatesKeeps, AddressChangeKeeps DEF CustomersNext

\* Through any sequence of adds, imports, removals and changes of the default, one request at a
\* time, a customer with cards has one default card; and no two addresses are ever the default,
\* which the proof shows for any number of concurrent requests (payments.service.ts remove and
\* setDefault, saved-addresses.service.ts create).
THEOREM DefaultIsUnique == CustomersSpec => []OneDefault
<1>1. CustomersInit => CustomersInv
  <2> SUFFICES ASSUME CustomersInit PROVE CustomersInv
    OBVIOUS
  <2>1. cards = {} /\ addresses = {} /\ cardCall = [c \in Callers |-> NoCardCall]
    BY DEF CustomersInit
  <2>2. cardRows \in 0..MaxRows /\ addressRows \in 0..MaxRows /\ customer \in Nat /\ customers \in Nat
    BY CustomersAssumption DEF CustomersInit, CustomersAssumption
  <2>3. AddressInv
    BY <2>1, <2>2 DEF AddressInv, NumberedBy, Bare
  <2>4. CardTypes
    BY Zenon, <2>1, <2>2, CallsAre DEF CardTypes, NumberedBy
  <2>5. ASSUME NEW c \in Callers PROVE CardStep(cardCall[c])
    BY <2>1 DEF CardStep, NoCardCall
  <2> QED
    BY <2>3, <2>4, <2>5 DEF CustomersInv
<1>2. CustomersInv => OneDefault
  <2> SUFFICES ASSUME CustomersInv, Cardinality(Callers) = 1
               PROVE  /\ (\A c \in Callers : AtCard(c, "idle")) /\ cards # {} => Cardinality(Defaults(cards)) = 1
                      /\ Cardinality(Defaults(addresses)) <= 1
    BY DEF OneDefault
  <2>1. ASSUME NEW rows, OneOf(rows), Typed(rows) PROVE Cardinality(Defaults(rows)) = 1
    <3>1. PICK r \in rows : r.isDefault = TRUE /\ \A s \in rows : s.isDefault = TRUE => s = r
      BY <2>1 DEF OneOf
    <3>2. \A s \in rows : s.isDefault \in BOOLEAN
      BY <2>1 DEF Typed, CardRows, AddressRows
    <3>3. Defaults(rows) = {r}
      BY <3>1, <3>2 DEF Defaults
    <3> QED
      BY <3>3, FS_Singleton
  <2>2. ASSUME \A c \in Callers : AtCard(c, "idle"), cards # {} PROVE Cardinality(Defaults(cards)) = 1
    <3>1. PICK c : c \in Callers
      <4>1. PICK x : Callers = {x}
        BY Zenon, CustomersAssumption, FS_Singleton DEF CustomersAssumption
      <4> QED
        BY <4>1
    <3>2. CardStep(cardCall[c]) /\ cardCall[c].at = "idle"
      BY <2>2, <3>1 DEF CustomersInv, AtCard
    <3>3. OneOf(cards)
      BY <2>2, <3>2, SettledStep
    <3>4. Typed(cards)
      BY DEF Typed, CustomersInv, CardTypes
    <3> QED
      BY <2>1, <3>3, <3>4
  <2>3. Cardinality(Defaults(addresses)) <= 1
    <3>1. CASE OneOf(addresses)
      <4>1. Typed(addresses)
        BY DEF Typed, CustomersInv, AddressInv
      <4>2. Cardinality(Defaults(addresses)) = 1
        BY <2>1, <3>1, <4>1
      <4> QED
        BY <4>2
    <3>2. CASE Bare(addresses)
      <4>1. Defaults(addresses) = {}
        BY <3>2 DEF Bare, Defaults
      <4> QED
        BY <4>1, FS_EmptySet
    <3> QED
      BY <3>1, <3>2 DEF CustomersInv, AddressInv
  <2> QED
    BY <2>2, <2>3
<1> QED
  BY <1>1, <1>2, CustomersNextKeeps, PTL DEF CustomersSpec

----------------------------------------------------------------------------
(* RecurringDeliveries.                                                    *)

ScheduleRows == [row : {"none", "kept", "removed"}, active : BOOLEAN, nextRunAt : Nat \cup {NoRun},
                 rule : Rules \cup {NoRule}]
ScanStates == [at : {"idle", "claim", "create"}, cursor : Nat \cup {NoRun}, now : Nat]

RecurringTypes ==
    /\ clock \in Nat /\ rewinds \in Nat
    /\ schedule \in ScheduleRows
    /\ resuming \in Nat \cup {NoRun}
    /\ scan \in [Scans -> ScanStates]
    /\ DOMAIN made \subseteq Nat /\ \A t \in DOMAIN made : made[t] \in Nat

\* Every instant the schedule, a resume, a scan or a delivery holds is an occurrence of the rule.
HoldsOccurrences ==
    /\ schedule.row # "none" => schedule.rule \in Rules
    /\ schedule.row = "none" => /\ DOMAIN made = {} /\ resuming = NoRun
                                /\ \A s \in Scans : scan[s].at = "idle"
    /\ schedule.nextRunAt # NoRun => Occurs(schedule.rule, schedule.nextRunAt)
    /\ resuming # NoRun => Occurs(schedule.rule, resuming)
    /\ \A s \in Scans : scan[s].at # "idle" => scan[s].cursor \in Nat /\ Occurs(schedule.rule, scan[s].cursor)
    /\ \A t \in DOMAIN made : Occurs(schedule.rule, t)

\* The deliveries of an instant that exist, that a scan is about to create, and that the
\* cursor may still reach.
Tally(t) == IF t \in DOMAIN made THEN made[t] ELSE 0
Pending(t) == {s \in Scans : scan[s].at = "create" /\ scan[s].cursor = t}
Ahead(t) == IF schedule.nextRunAt # NoRun /\ schedule.nextRunAt <= t THEN 1 ELSE 0

Counted(t) == Tally(t) + Cardinality(Pending(t)) + Ahead(t) <= 1 + rewinds
RecurringInv == RecurringTypes /\ HoldsOccurrences /\ \A t \in Nat : Counted(t)

----------------------------------------------------------------------------
(* Days and instants.                                                      *)

LEMMA Scaled ==
  ASSUME NEW a \in Int, NEW b \in Int, NEW x \in 0..(DAY - 1), a * DAY + x < b * DAY
  PROVE  a < b
<1>1. DAY \in Nat \ {0}
  BY RecurringAssumption DEF RecurringAssumption
<1> SUFFICES ASSUME a >= b PROVE FALSE
  OBVIOUS
<1>2. (a - b) * DAY >= 0
  <2>1. a - b \in Nat
    OBVIOUS
  <2> DEFINE m == a - b
  <2> HIDE DEF m
  <2>2. m \in Nat => m * DAY >= 0
    BY <1>1
  <2> QED
    BY <2>1, <2>2 DEF m
<1>3. (a - b) * DAY = a * DAY - b * DAY
  BY <1>1
<1>4. a * DAY \in Int /\ b * DAY \in Int
  BY <1>1
<1> QED
  BY <1>1, <1>2, <1>3, <1>4

LEMMA DividedBy ==
  ASSUME NEW x \in Int, NEW d \in Nat, d > 0
  PROVE  x \div d \in Int /\ x % d \in 0..(d - 1) /\ x = (x \div d) * d + (x % d)
OBVIOUS

LEMMA DayOf ==
  ASSUME NEW t \in Int
  PROVE  /\ LocalDay(t) \in Int
         /\ (t + OFFSET) % DAY \in 0..(DAY - 1)
         /\ t + OFFSET = LocalDay(t) * DAY + ((t + OFFSET) % DAY)
<1> DEFINE x == t + OFFSET
<1>1. DAY \in Nat /\ DAY > 0 /\ x \in Int
  BY RecurringAssumption DEF RecurringAssumption
<1> HIDE DEF x
<1>2. x \div DAY \in Int /\ x % DAY \in 0..(DAY - 1) /\ x = (x \div DAY) * DAY + (x % DAY)
  BY <1>1, DividedBy
<1> QED
  BY Zenon, <1>2 DEF LocalDay, x

LEMMA DayIs ==
  ASSUME NEW t \in Int, NEW day \in Int, NEW time \in 0..(DAY - 1), t = WallClockToUtc(day, time)
  PROVE  LocalDay(t) = day /\ (t + OFFSET) % DAY = time
<1>1. DAY \in Nat \ {0} /\ OFFSET \in Nat
  BY RecurringAssumption DEF RecurringAssumption
<1> DEFINE d == LocalDay(t)
           x == (t + OFFSET) % DAY
<1>2. d \in Int /\ x \in 0..(DAY - 1) /\ t + OFFSET = d * DAY + x
  BY DayOf, Zenon
<1>3. t + OFFSET = day * DAY + time
  BY <1>1 DEF WallClockToUtc
<1> HIDE DEF d, x
<1>4. d * DAY \in Int /\ day * DAY \in Int /\ (d + 1) * DAY = d * DAY + DAY /\ (day + 1) * DAY = day * DAY + DAY
  BY <1>1, <1>2
<1>5. d < day + 1 /\ day < d + 1
  <2>1. d * DAY + x < (day + 1) * DAY /\ day * DAY + time < (d + 1) * DAY
    BY <1>1, <1>2, <1>3, <1>4
  <2>2. d + 1 \in Int /\ day + 1 \in Int
    BY <1>2
  <2> QED
    BY <1>2, <2>1, <2>2, Scaled
<1>6. d = day
  BY <1>2, <1>5
<1>7. x = time
  BY <1>2, <1>3, <1>4, <1>6
<1> QED
  BY <1>6, <1>7 DEF d, x

LEMMA LaterDay ==
  ASSUME NEW t \in Int, NEW u \in Int, t <= u
  PROVE  LocalDay(t) <= LocalDay(u)
<1>1. DAY \in Nat \ {0} /\ OFFSET \in Nat
  BY RecurringAssumption DEF RecurringAssumption
<1> DEFINE a == LocalDay(t)
           b == LocalDay(u)
<1>2. PICK x \in 0..(DAY - 1) : a \in Int /\ t + OFFSET = a * DAY + x
  BY DayOf, Zenon
<1>3. PICK y \in 0..(DAY - 1) : b \in Int /\ u + OFFSET = b * DAY + y
  BY DayOf, Zenon
<1> HIDE DEF a, b
<1>4. a * DAY \in Int /\ b * DAY \in Int /\ (b + 1) * DAY = b * DAY + DAY
  BY <1>1, <1>2, <1>3
<1>5. a * DAY + x < (b + 1) * DAY
  BY <1>1, <1>2, <1>3, <1>4
<1>6. b + 1 \in Int
  BY <1>3
<1>7. a < b + 1
  BY <1>2, <1>5, <1>6, Scaled
<1> QED
  BY <1>2, <1>3, <1>7 DEF a, b

LEMMA FloorIs ==
  ASSUME NEW a \in Int, NEW b \in Int
  PROVE  Max({a, b}) \in {a, b} /\ Max({a, b}) >= a /\ Max({a, b}) >= b
BY DEF Max

----------------------------------------------------------------------------
(* computeNextOccurrence.                                                  *)

LEMMA RuleFields ==
  ASSUME NEW r \in Rules
  PROVE  /\ r.time \in 0..(DAY - 1) /\ r.start \in Int /\ r.end \in Int
         /\ LocalDay(r.start) \in Int /\ LocalDay(r.end) \in Int
         /\ DAY \in Nat \ {0} /\ OFFSET \in 0..(DAY - 1) /\ MAX_DAY_PROBE \in Nat
<1>1. r.time \in 0..(DAY - 1) /\ r.start \in Int /\ r.end \in Int
  BY RecurringAssumption DEF RecurringAssumption, NoRun
<1> QED
  BY Zenon, <1>1, DayOf, RecurringAssumption DEF RecurringAssumption

\* The candidate of a probed day, where it is after the floor.
Probe(r, floor) == {k \in 0..(MAX_DAY_PROBE - 1) : /\ Weekday(LocalDay(floor) + k) \in r.days
                                                   /\ WallClockToUtc(LocalDay(floor) + k, r.time) > floor}
Floor(r, after) == Max({after, DayStartUtc(r.start) - 1})

Candidate(r, after) == WallClockToUtc(LocalDay(Floor(r, after)) + Min(Probe(r, Floor(r, after))), r.time)
Ended(r, t) == r.end # NoRun /\ t >= NextDayStartUtc(r.end)

LEMMA NextIs ==
  ASSUME NEW r, NEW after
  PROVE  ComputeNextOccurrence(r, after) =
           IF Probe(r, Floor(r, after)) = {} \/ Ended(r, Candidate(r, after)) THEN NoRun
           ELSE Candidate(r, after)
BY DEF ComputeNextOccurrence, Probe, Floor, Candidate, Ended

LEMMA FloorFacts ==
  ASSUME NEW r \in Rules, NEW after \in Int
  PROVE  /\ Floor(r, after) \in Int /\ Floor(r, after) >= after
         /\ Floor(r, after) >= LocalDay(r.start) * DAY - OFFSET - 1
         /\ Floor(r, after) \in {after, LocalDay(r.start) * DAY - OFFSET - 1}
<1>1. LocalDay(r.start) * DAY \in Int /\ OFFSET \in Int
  BY RuleFields
<1>2. DayStartUtc(r.start) - 1 = LocalDay(r.start) * DAY - OFFSET - 1
  BY <1>1 DEF DayStartUtc, WallClockToUtc
<1> DEFINE low == DayStartUtc(r.start) - 1
<1>3. low \in Int
  BY <1>1, <1>2
<1> HIDE DEF low
<1>4. Max({after, low}) \in {after, low} /\ Max({after, low}) >= after /\ Max({after, low}) >= low
  BY Zenon, <1>3, FloorIs
<1> QED
  BY <1>2, <1>3, <1>4 DEF Floor, low

\* A probed day whose candidate is after the floor gives an occurrence, unless the rule has ended.
LEMMA CandidateOccurs ==
  ASSUME NEW r \in Rules, NEW after \in Nat, NEW k \in Probe(r, Floor(r, after)),
         NEW c, c = WallClockToUtc(LocalDay(Floor(r, after)) + k, r.time)
  PROVE  /\ c \in Nat /\ c > after
         /\ LocalDay(c) = LocalDay(Floor(r, after)) + k
         /\ (r.end # NoRun => c < NextDayStartUtc(r.end)) => Occurs(r, c)
         /\ r.end # NoRun /\ LocalDay(c) <= LocalDay(r.end) => c < NextDayStartUtc(r.end)
<1> DEFINE floor == Floor(r, after)
           day == LocalDay(floor) + k
           first == LocalDay(r.start)
           last == LocalDay(r.end)
<1>1. floor \in Int /\ floor >= after /\ floor >= first * DAY - OFFSET - 1
  BY FloorFacts
<1>2. k \in 0..(MAX_DAY_PROBE - 1) /\ Weekday(day) \in r.days /\ WallClockToUtc(day, r.time) > floor
  BY Zenon DEF Probe
<1>3. day \in Int /\ first \in Int /\ last \in Int
  BY <1>1, <1>2, DayOf, RuleFields
<1>4. c = WallClockToUtc(day, r.time)
  OBVIOUS
<1>5. /\ r.time \in 0..(DAY - 1) /\ DAY \in Nat \ {0} /\ OFFSET \in 0..(DAY - 1)
  BY RuleFields
<1> HIDE DEF floor, day, first, last
<1>6. day * DAY \in Int /\ first * DAY \in Int /\ last * DAY \in Int /\ (day + 1) * DAY = day * DAY + DAY
      /\ (last + 1) * DAY \in Int
  BY <1>3, <1>5
<1>7. c = day * DAY + r.time - OFFSET /\ c \in Int
  BY <1>4, <1>5, <1>6 DEF WallClockToUtc
<1>8. c > floor
  BY Zenon, <1>2, <1>4
<1>9. c \in Nat /\ c > after
  BY <1>1, <1>7, <1>8
<1>10. LocalDay(c) = day /\ (c + OFFSET) % DAY = r.time
  BY Zenon, <1>3, <1>4, <1>5, <1>7, DayIs
<1>11. day >= first
  <2>1. first * DAY + 0 < (day + 1) * DAY
    BY <1>1, <1>5, <1>6, <1>7, <1>8
  <2>2. 0 \in 0..(DAY - 1) /\ day + 1 \in Int
    BY <1>3, <1>5
  <2>3. first < day + 1
    BY <1>3, <2>1, <2>2, Scaled
  <2> QED
    BY <1>3, <2>3
<1>12. NextDayStartUtc(r.end) = (last + 1) * DAY - OFFSET
  <2>1. NextDayStartUtc(r.end) = (last + 1) * DAY + 0 - OFFSET
    BY DEF NextDayStartUtc, WallClockToUtc, last
  <2> QED
    BY <1>5, <1>6, <2>1
<1>13. c < NextDayStartUtc(r.end) => day <= last
  <2> SUFFICES ASSUME c < (last + 1) * DAY - OFFSET PROVE day <= last
    BY Zenon, <1>12
  <2>1. day * DAY + r.time < (last + 1) * DAY
    BY <1>5, <1>6, <1>7
  <2>2. last + 1 \in Int
    BY <1>3
  <2>3. day < last + 1
    BY Zenon, <1>3, <1>5, <2>1, <2>2, Scaled
  <2> QED
    BY <1>3, <2>3
<1>14. day <= last => c < NextDayStartUtc(r.end)
  <2> SUFFICES ASSUME day <= last PROVE c < (last + 1) * DAY - OFFSET
    BY <1>12
  <2>1. ~((last + 1) * DAY + 0 < (day + 1) * DAY)
    <3> SUFFICES ASSUME (last + 1) * DAY + 0 < (day + 1) * DAY PROVE FALSE
      OBVIOUS
    <3>1. 0 \in 0..(DAY - 1) /\ day + 1 \in Int /\ last + 1 \in Int
      BY <1>3, <1>5
    <3>2. last + 1 < day + 1
      BY Zenon, <3>1, Scaled
    <3> QED
      BY <1>3, <3>2
  <2> QED
    BY <1>5, <1>6, <1>7, <2>1
<1>15. (r.end # NoRun => c < NextDayStartUtc(r.end)) => Occurs(r, c)
  <2> SUFFICES ASSUME r.end # NoRun => c < NextDayStartUtc(r.end) PROVE Occurs(r, c)
    BY Zenon
  <2>1. Weekday(LocalDay(c)) \in r.days
    BY <1>2, <1>10
  <2>2. LocalDay(c) >= LocalDay(r.start)
    BY <1>10, <1>11 DEF first
  <2>3. r.end # NoRun => LocalDay(c) <= LocalDay(r.end)
    BY <1>10, <1>13 DEF last
  <2> QED
    BY <1>10, <2>1, <2>2, <2>3 DEF Occurs
<1> QED
  BY <1>9, <1>10, <1>14, <1>15 DEF day, floor, last

\* What it returns is an occurrence of the rule after the instant, or null.
LEMMA NextOccurs ==
  ASSUME NEW r \in Rules, NEW after \in Nat, NEW next, next = ComputeNextOccurrence(r, after), next # NoRun
  PROVE  next \in Nat /\ next > after /\ Occurs(r, next)
<1> DEFINE hits == Probe(r, Floor(r, after))
           k == Min(hits)
           c == WallClockToUtc(LocalDay(Floor(r, after)) + k, r.time)
<1>1. hits # {} /\ next = c /\ (r.end # NoRun => ~(c >= NextDayStartUtc(r.end)))
  <2>1. hits # {} /\ next = Candidate(r, after) /\ ~Ended(r, Candidate(r, after))
    BY NextIs, Zenon
  <2> QED
    BY <2>1 DEF Candidate, Ended
<1>2. hits \in SUBSET Nat
  BY RuleFields DEF Probe
<1>3. k \in hits
  BY Zenon, <1>1, <1>2, MinIsMember
<1> HIDE DEF k, c
<1>4. c \in Nat /\ c > after /\ ((r.end # NoRun => c < NextDayStartUtc(r.end)) => Occurs(r, c))
  BY <1>3, CandidateOccurs DEF c
<1>5. r.end # NoRun => NextDayStartUtc(r.end) \in Int
  <2>1. (LocalDay(r.end) + 1) * DAY \in Int /\ OFFSET \in Int
    BY RuleFields
  <2>2. NextDayStartUtc(r.end) = (LocalDay(r.end) + 1) * DAY + 0 - OFFSET
    BY DEF NextDayStartUtc, WallClockToUtc
  <2> QED
    BY <2>1, <2>2
<1> QED
  BY <1>1, <1>4, <1>5

\* And it passes over none on the days it probes.
LEMMA NextIsEarliest ==
  ASSUME NEW r \in Rules, NEW after \in Nat, NEW t \in Nat, t > after, Occurs(r, t),
         LocalDay(t) < LocalDay(after) + MAX_DAY_PROBE
  PROVE  ComputeNextOccurrence(r, after) # NoRun /\ ComputeNextOccurrence(r, after) <= t
<1> DEFINE floor == Floor(r, after)
           base == LocalDay(floor)
           hits == Probe(r, floor)
           k == Min(hits)
           c == WallClockToUtc(base + k, r.time)
           first == LocalDay(r.start)
           day == LocalDay(t)
           time == (t + OFFSET) % DAY
<1>1. floor \in Int /\ floor >= after /\ floor \in {after, first * DAY - OFFSET - 1}
  BY FloorFacts
<1>2. /\ r.time \in 0..(DAY - 1) /\ DAY \in Nat \ {0} /\ OFFSET \in 0..(DAY - 1) /\ MAX_DAY_PROBE \in Nat
      /\ first \in Int /\ base \in Int /\ day \in Int /\ LocalDay(after) \in Int
  BY <1>1, RuleFields, DayOf
<1>3. t + OFFSET = day * DAY + r.time /\ Weekday(day) \in r.days /\ day >= first
  <2>1. t + OFFSET = day * DAY + time
    BY DayOf
  <2>2. time = r.time /\ Weekday(day) \in r.days /\ day >= first
    BY Zenon DEF Occurs
  <2> QED
    BY <2>1, <2>2, Zenon
<1>4. t = WallClockToUtc(day, r.time)
  <2>1. day * DAY \in Int
    BY <1>2
  <2> QED
    BY <1>2, <1>3, <2>1 DEF WallClockToUtc
<1>5. t > floor
  <2>1. CASE floor = after
    BY Zenon, <2>1
  <2>2. CASE floor = first * DAY - OFFSET - 1
    <3>1. day * DAY \in Int /\ first * DAY \in Int /\ (day + 1) * DAY = day * DAY + DAY
      BY <1>2
    <3>2. ~(day * DAY + 0 < first * DAY)
      <4> SUFFICES ASSUME day * DAY + 0 < first * DAY PROVE FALSE
        BY Zenon
      <4>1. 0 \in 0..(DAY - 1)
        BY <1>2
      <4>2. day < first
        BY Zenon, <1>2, <4>1, Scaled
      <4> QED
        BY <1>2, <1>3, <4>2
    <3> QED
      BY <1>2, <1>3, <2>2, <3>1, <3>2
  <2> QED
    BY <1>1, <2>1, <2>2
<1>6. base <= day /\ LocalDay(after) <= base
  BY <1>1, <1>5, LaterDay
<1>7. day - base \in hits
  <2>1. day - base \in 0..(MAX_DAY_PROBE - 1) /\ base + (day - base) = day
    BY <1>2, <1>6
  <2>2. Weekday(base + (day - base)) \in r.days /\ WallClockToUtc(base + (day - base), r.time) > floor
    BY Zenon, <1>3, <1>4, <1>5, <2>1
  <2> QED
    BY Zenon, <2>1, <2>2 DEF Probe
<1>8. hits \in SUBSET Nat
  BY <1>2 DEF Probe
<1>9. k \in hits /\ k <= day - base /\ k \in Nat
  BY Zenon, <1>7, <1>8, MinIsMember
<1>10. ComputeNextOccurrence(r, after) =
         IF hits = {} \/ (r.end # NoRun /\ c >= NextDayStartUtc(r.end)) THEN NoRun ELSE c
  BY Zenon, NextIs DEF Candidate, Ended
<1> HIDE DEF k, c, hits
<1>11. /\ c \in Nat /\ LocalDay(c) = base + k
       /\ r.end # NoRun /\ LocalDay(c) <= LocalDay(r.end) => c < NextDayStartUtc(r.end)
  BY <1>9, CandidateOccurs DEF c, hits
<1>12. r.end # NoRun => ~(c >= NextDayStartUtc(r.end))
  <2> SUFFICES ASSUME r.end # NoRun PROVE ~(c >= NextDayStartUtc(r.end))
    BY Zenon
  <2>1. day <= LocalDay(r.end) /\ LocalDay(r.end) \in Int
    BY Zenon, RuleFields DEF Occurs
  <2>2. base + k <= LocalDay(r.end)
    BY <1>2, <1>9, <2>1
  <2>3. c < NextDayStartUtc(r.end)
    BY Zenon, <1>11, <2>2
  <2>4. NextDayStartUtc(r.end) \in Int
    <3>1. (LocalDay(r.end) + 1) * DAY \in Int /\ OFFSET \in Int
      BY RuleFields
    <3>2. NextDayStartUtc(r.end) = (LocalDay(r.end) + 1) * DAY + 0 - OFFSET
      BY Zenon DEF NextDayStartUtc, WallClockToUtc
    <3> QED
      BY <3>1, <3>2
  <2> QED
    BY <1>11, <2>3, <2>4
<1>13. ComputeNextOccurrence(r, after) = c
  BY Zenon, <1>7, <1>10, <1>12
<1>14. c <= t
  <2> SUFFICES ASSUME t < c PROVE FALSE
    BY <1>11
  <2>1. c = (base + k) * DAY + r.time - OFFSET
    BY Zenon DEF c, WallClockToUtc
  <2>2. (base + k) * DAY \in Int /\ day * DAY \in Int /\ base + k \in Int
    BY <1>2, <1>9
  <2>3. day * DAY + 0 < (base + k) * DAY
    BY <1>2, <1>3, <2>1, <2>2
  <2>4. 0 \in 0..(DAY - 1)
    BY <1>2
  <2>5. day < base + k
    BY Zenon, <1>2, <2>2, <2>3, <2>4, Scaled
  <2> QED
    BY <1>2, <1>9, <2>5
<1> QED
  BY <1>11, <1>13, <1>14 DEF NoRun

\* The day of an instant n days later.
LEMMA DaysLater ==
  ASSUME NEW t \in Nat, NEW u \in Nat, NEW n \in Nat, u <= t + n * DAY
  PROVE  LocalDay(u) <= LocalDay(t) + n
<1>1. DAY \in Nat \ {0} /\ OFFSET \in Nat
  BY RecurringAssumption DEF RecurringAssumption
<1> DEFINE a == LocalDay(t)
           b == LocalDay(u)
           x == (t + OFFSET) % DAY
           y == (u + OFFSET) % DAY
<1>2. /\ a \in Int /\ x \in 0..(DAY - 1) /\ t + OFFSET = a * DAY + x
      /\ b \in Int /\ y \in 0..(DAY - 1) /\ u + OFFSET = b * DAY + y
  BY DayOf
<1> HIDE DEF a, b, x, y
<1>3. /\ a * DAY \in Int /\ b * DAY \in Int /\ n * DAY \in Int
      /\ (a + n + 1) * DAY = a * DAY + n * DAY + DAY
  BY <1>1, <1>2
<1>4. b * DAY + y < (a + n + 1) * DAY
  BY <1>1, <1>2, <1>3
<1>5. a + n + 1 \in Int
  BY <1>2
<1>6. b < a + n + 1
  BY Zenon, <1>2, <1>4, <1>5, Scaled
<1> QED
  BY <1>2, <1>6 DEF a, b

\* What the property says of one rule and one instant.
LEMMA NextIsFirst ==
  ASSUME NEW r \in Rules, NEW now \in Nat, MAX_DAY_PROBE >= 9
  PROVE  LET later == {t \in (now + 1)..(now + 8 * DAY) : Occurs(r, t)}
         IN IF later = {} THEN ComputeNextOccurrence(r, now) \notin (now + 1)..(now + 8 * DAY)
            ELSE ComputeNextOccurrence(r, now) = Min(later)
<1> DEFINE later == {t \in (now + 1)..(now + 8 * DAY) : Occurs(r, t)}
           next == ComputeNextOccurrence(r, now)
<1>1. DAY \in Nat \ {0} /\ MAX_DAY_PROBE \in Nat /\ 8 * DAY \in Nat
  BY RuleFields
<1>2. CASE later = {}
  <2> SUFFICES ASSUME next \in (now + 1)..(now + 8 * DAY) PROVE FALSE
    BY <1>2
  <2> HIDE DEF next
  <2>1. next # NoRun
    BY <1>1 DEF NoRun
  <2>2. Occurs(r, next)
    BY Zenon, <2>1, NextOccurs DEF next
  <2> QED
    BY Zenon, <1>2, <2>2
<1>3. CASE later # {}
  <2> DEFINE first == Min(later)
  <2>1. later \in SUBSET Nat
    BY <1>1
  <2>2. first \in later /\ \A t \in later : first <= t
    BY Zenon, <1>3, <2>1, MinIsMember
  <2> HIDE DEF first, next
  <2>3. first \in Nat /\ first > now /\ first <= now + 8 * DAY /\ Occurs(r, first)
    BY <1>1, <2>2
  <2>4. LocalDay(first) <= LocalDay(now) + 8
    BY <2>3, DaysLater
  <2>5. LocalDay(first) < LocalDay(now) + MAX_DAY_PROBE
    <3>1. LocalDay(first) \in Int /\ LocalDay(now) \in Int
      BY <2>3, DayOf
    <3> QED
      BY <1>1, <2>4, <3>1
  <2>6. next # NoRun /\ next <= first
    BY Zenon, <2>3, <2>5, NextIsEarliest DEF next
  <2>7. next \in Nat /\ next > now /\ Occurs(r, next)
    BY <2>6, NextOccurs DEF next
  <2>8. next \in later
    BY <1>1, <2>3, <2>6, <2>7
  <2>9. next = first
    BY <2>2, <2>3, <2>6, <2>7, <2>8
  <2> QED
    BY <1>3, <2>9 DEF first, next
<1> QED
  BY <1>2, <1>3

\* toCreateDto's date and time, read back, name the same instant.
LEMMA RoundTrip ==
  ASSUME NEW r \in Rules, NEW t \in Nat, Occurs(r, t)
  PROVE  ScheduledFor(r, t) = t
<1> DEFINE day == LocalDay(t)
           time == (t + OFFSET) % DAY
<1>1. t + OFFSET = day * DAY + time /\ day \in Int
  BY DayOf
<1>2. time = r.time /\ r.time \in Int /\ OFFSET \in Int /\ DAY \in Int
  BY RuleFields DEF Occurs
<1> HIDE DEF day, time
<1>3. day * DAY \in Int
  BY <1>1, <1>2
<1>4. t = WallClockToUtc(day, r.time)
  BY <1>1, <1>2, <1>3 DEF WallClockToUtc
<1> QED
  BY <1>4 DEF ScheduledFor, day

----------------------------------------------------------------------------
(* The steps.                                                              *)

\* The fields of the row.
LEMMA RowFields ==
  ASSUME RecurringInv
  PROVE  /\ schedule.row \in {"none", "kept", "removed"} /\ schedule.active \in BOOLEAN
         /\ schedule.nextRunAt \in Nat \cup {NoRun} /\ schedule.rule \in Rules \cup {NoRule}
BY Zenon DEF RecurringInv, RecurringTypes, ScheduleRows

LEMMA ScanFields ==
  ASSUME RecurringInv, NEW s \in Scans
  PROVE  /\ scan[s] \in ScanStates /\ scan[s].at \in {"idle", "claim", "create"}
         /\ scan[s].cursor \in Nat \cup {NoRun} /\ scan[s].now \in Nat
BY Zenon DEF RecurringInv, RecurringTypes, ScanStates

LEMMA PendingIs ==
  ASSUME NEW t
  PROVE  IsFiniteSet(Pending(t)) /\ Cardinality(Pending(t)) \in Nat
<1>1. Pending(t) \subseteq Scans /\ IsFiniteSet(Scans)
  BY Zenon, RecurringAssumption DEF Pending, RecurringAssumption
<1> QED
  BY Zenon, <1>1, FS_Subset, FS_CardinalityType

LEMMA CountedTypes ==
  ASSUME RecurringInv, NEW t \in Nat
  PROVE  Tally(t) \in Nat /\ Cardinality(Pending(t)) \in Nat /\ Ahead(t) \in {0, 1} /\ rewinds \in Nat
<1>1. Tally(t) \in Nat
  BY DEF RecurringInv, RecurringTypes, Tally
<1>2. Ahead(t) \in {0, 1}
  BY Zenon DEF Ahead
<1> QED
  BY <1>1, <1>2, PendingIs DEF RecurringInv, RecurringTypes

\* A step of the owner or of the clock that leaves the scans and the deliveries alone.
LEMMA OwnerStep ==
  ASSUME RecurringInv, UNCHANGED <<scan, made>>, RecurringTypes', HoldsOccurrences',
         \A t \in Nat : Counted(t) => Ahead(t)' - rewinds' <= Ahead(t) - rewinds
  PROVE  RecurringInv'
<1> SUFFICES ASSUME NEW t \in Nat PROVE Counted(t)'
  BY Zenon DEF RecurringInv
<1>1. Tally(t)' = Tally(t) /\ Pending(t)' = Pending(t)
  BY Zenon DEF Tally, Pending
<1>2. Tally(t) \in Nat /\ Cardinality(Pending(t)) \in Nat /\ Ahead(t) \in {0, 1} /\ rewinds \in Nat
  BY Zenon, CountedTypes
<1>3. Ahead(t)' \in {0, 1} /\ rewinds' \in Nat
  BY DEF Ahead, RecurringTypes
<1>4. Counted(t)
  BY Zenon DEF RecurringInv
<1> DEFINE a == Ahead(t)
           b == Tally(t)
           n == Cardinality(Pending(t))
<1>5. b + n + a <= 1 + rewinds /\ a' - rewinds' <= a - rewinds
  BY Zenon, <1>4 DEF Counted
<1>6. b' = b /\ n' = n
  BY Zenon, <1>1
<1> HIDE DEF a, b, n
<1>7. b' + n' + a' <= 1 + rewinds'
  BY <1>2, <1>3, <1>5, <1>6 DEF a, b, n
<1> QED
  BY <1>7 DEF Counted, a, b, n

LEMMA CreateScheduleKeeps ==
  ASSUME RecurringInv, NEW r \in Rules, CreateSchedule(r) PROVE RecurringInv'
<1> DEFINE next == ComputeNextOccurrence(r, clock)
<1>1. /\ schedule' = [row |-> "kept", active |-> TRUE, rule |-> r, nextRunAt |-> next]
      /\ next # NoRun /\ schedule.row = "none"
      /\ clock' = clock /\ resuming' = resuming /\ scan' = scan /\ made' = made /\ rewinds' = rewinds
  BY DEF CreateSchedule
<1>2. clock \in Nat
  BY Zenon DEF RecurringInv, RecurringTypes
<1>3. next \in Nat /\ Occurs(r, next)
  BY Zenon, <1>1, <1>2, NextOccurs
<1> HIDE DEF next
<1>4. schedule'.row = "kept" /\ schedule'.rule = r /\ schedule'.nextRunAt = next /\ schedule' \in ScheduleRows
  BY <1>1, <1>3 DEF ScheduleRows
<1>5. DOMAIN made = {} /\ resuming = NoRun /\ \A s \in Scans : scan[s].at = "idle"
  BY Zenon, <1>1 DEF RecurringInv, HoldsOccurrences
<1>6. RecurringTypes'
  BY Zenon, <1>1, <1>4, <1>5 DEF RecurringInv, RecurringTypes
<1>7. HoldsOccurrences'
  <2>1. schedule'.nextRunAt # NoRun => Occurs(schedule.rule, schedule.nextRunAt)'
    BY Zenon, <1>3, <1>4 DEF Occurs
  <2> QED
    BY Zenon, <1>1, <1>4, <1>5, <2>1 DEF HoldsOccurrences
<1>8. ASSUME NEW t \in Nat PROVE Counted(t)'
  <2>1. Tally(t)' = 0
    BY Zenon, <1>1, <1>5 DEF Tally
  <2>2. Pending(t)' = {}
    BY <1>1, <1>5 DEF Pending
  <2>3. Cardinality(Pending(t)') = 0
    BY Zenon, <2>2, FS_EmptySet
  <2>4. Ahead(t)' \in {0, 1} /\ rewinds' \in Nat
    BY Zenon, <1>6 DEF Ahead, RecurringTypes
  <2> QED
    BY <2>1, <2>3, <2>4 DEF Counted
<1> QED
  BY Zenon, <1>6, <1>7, <1>8 DEF RecurringInv

LEMMA OwnerKeeps ==
  ASSUME RecurringInv, Pause \/ ResumeRead \/ RemoveSchedule \/ ClockTicks PROVE RecurringInv'
<1>1. scan' = scan /\ made' = made /\ rewinds' = rewinds
  BY DEF Pause, ResumeRead, RemoveSchedule, ClockTicks
<1>2. /\ schedule'.nextRunAt = schedule.nextRunAt /\ schedule'.rule = schedule.rule
      /\ schedule' \in ScheduleRows
      /\ schedule'.row = "none" <=> schedule.row = "none"
  BY Zenon DEF Pause, ResumeRead, RemoveSchedule, ClockTicks, RecurringInv, RecurringTypes, ScheduleRows
<1>3. clock \in Nat /\ clock' \in Nat /\ (clock' = clock \/ resuming' = resuming)
  BY DEF Pause, ResumeRead, RemoveSchedule, ClockTicks, RecurringInv, RecurringTypes
<1>4. resuming' = resuming \/ (resuming' \in Nat /\ schedule.row = "kept" /\ Occurs(schedule.rule, resuming'))
  <2>1. CASE ResumeRead
    <3>1. /\ schedule.row = "kept" /\ resuming' = ComputeNextOccurrence(schedule.rule, clock)
          /\ resuming' # NoRun
      BY <2>1 DEF ResumeRead
    <3>2. schedule.rule \in Rules
      BY <3>1 DEF RecurringInv, HoldsOccurrences
    <3> QED
      BY <1>3, <3>1, <3>2, NextOccurs
  <2>2. CASE ~ResumeRead
    BY Zenon, <2>2 DEF Pause, RemoveSchedule, ClockTicks
  <2> QED
    BY Zenon, <2>1, <2>2
<1>5. RecurringTypes'
  BY Zenon, <1>1, <1>2, <1>3, <1>4 DEF RecurringInv, RecurringTypes
<1>6. HoldsOccurrences'
  <2>1. ASSUME NEW t PROVE Occurs(schedule.rule, t)' <=> Occurs(schedule.rule, t)
    BY Zenon, <1>2 DEF Occurs
  <2>2. resuming' # NoRun => Occurs(schedule'.rule, resuming')
    BY Zenon, <1>2, <1>4 DEF RecurringInv, HoldsOccurrences
  <2>3. schedule'.nextRunAt # NoRun => Occurs(schedule'.rule, schedule'.nextRunAt)
    BY Zenon, <1>2 DEF RecurringInv, HoldsOccurrences
  <2>4. \A s \in Scans : scan'[s].at # "idle" => scan'[s].cursor \in Nat /\ Occurs(schedule'.rule, scan'[s].cursor)
    BY Zenon, <1>1, <1>2 DEF RecurringInv, HoldsOccurrences
  <2>5. \A t \in DOMAIN made' : Occurs(schedule'.rule, t)
    BY Zenon, <1>1, <1>2 DEF RecurringInv, HoldsOccurrences
  <2>6. schedule'.row # "none" => schedule'.rule \in Rules
    BY Zenon, <1>2 DEF RecurringInv, HoldsOccurrences
  <2>7. schedule'.row = "none" => DOMAIN made' = {} /\ resuming' = NoRun /\ \A s \in Scans : scan'[s].at = "idle"
    BY <1>1, <1>2, <1>4 DEF RecurringInv, HoldsOccurrences
  <2> QED
    BY Zenon, <2>2, <2>3, <2>4, <2>5, <2>6, <2>7 DEF HoldsOccurrences
<1>7. ASSUME NEW t \in Nat PROVE Ahead(t)' - rewinds' <= Ahead(t) - rewinds
  <2>1. Ahead(t)' = Ahead(t) /\ Ahead(t) \in {0, 1} /\ rewinds \in Nat
    BY <1>2 DEF Ahead, RecurringInv, RecurringTypes
  <2> QED
    BY <1>1, <2>1
<1> QED
  BY <1>1, <1>5, <1>6, <1>7, OwnerStep

LEMMA ResumeWriteKeeps ==
  ASSUME RecurringInv, ResumeWrite PROVE RecurringInv'
<1>1. scan' = scan /\ made' = made /\ clock' = clock /\ resuming' = NoRun /\ resuming # NoRun
  BY Zenon DEF ResumeWrite
<1>2. resuming \in Nat /\ rewinds \in Nat /\ schedule \in ScheduleRows /\ Occurs(schedule.rule, resuming)
  BY Zenon, <1>1 DEF RecurringInv, RecurringTypes, HoldsOccurrences
<1>3. CASE schedule.row # "kept"
  <2>1. schedule' = schedule /\ rewinds' = rewinds
    BY Zenon, <1>3 DEF ResumeWrite
  <2>2. RecurringTypes'
    BY Zenon, <1>1, <2>1 DEF RecurringInv, RecurringTypes
  <2>3. HoldsOccurrences'
    BY <1>1, <2>1 DEF RecurringInv, HoldsOccurrences
  <2>4. ASSUME NEW t \in Nat PROVE Ahead(t)' - rewinds' <= Ahead(t) - rewinds
    <3>1. Ahead(t)' = Ahead(t) /\ Ahead(t) \in {0, 1}
      BY <2>1 DEF Ahead
    <3> QED
      BY <1>2, <2>1, <3>1
  <2> QED
    BY <1>1, <2>2, <2>3, <2>4, OwnerStep
<1>4. CASE schedule.row = "kept"
  <2> DEFINE back == schedule.nextRunAt = NoRun \/ resuming < schedule.nextRunAt
  <2>1. /\ schedule' = [schedule EXCEPT !.active = TRUE, !.nextRunAt = resuming]
        /\ back => rewinds' = rewinds + 1
        /\ ~back => rewinds' = rewinds
    BY <1>4 DEF ResumeWrite
  <2>2. /\ schedule' \in ScheduleRows /\ schedule'.nextRunAt = resuming /\ schedule'.rule = schedule.rule
        /\ schedule'.row = schedule.row /\ schedule.nextRunAt \in Nat \cup {NoRun}
    BY Zenon, <1>2, <2>1 DEF ScheduleRows
  <2>3. rewinds' \in Nat
    BY <1>2, <2>1
  <2>4. RecurringTypes'
    BY Zenon, <1>1, <2>2, <2>3 DEF RecurringInv, RecurringTypes
  <2>5. HoldsOccurrences'
    <3>1. Occurs(schedule'.rule, schedule'.nextRunAt)
      BY Zenon, <1>2, <2>2
    <3>2. /\ \A s \in Scans : scan'[s].at # "idle" => scan'[s].cursor \in Nat /\ Occurs(schedule'.rule, scan'[s].cursor)
          /\ \A t \in DOMAIN made' : Occurs(schedule'.rule, t)
      BY Zenon, <1>1, <2>2 DEF RecurringInv, HoldsOccurrences
    <3>3. schedule'.row = "kept" /\ schedule'.rule \in Rules
      BY Zenon, <1>4, <2>2 DEF RecurringInv, HoldsOccurrences
    <3> QED
      BY <1>1, <3>1, <3>2, <3>3 DEF HoldsOccurrences
  <2>6. ASSUME NEW t \in Nat PROVE Ahead(t)' - rewinds' <= Ahead(t) - rewinds
    <3>1. Ahead(t)' \in {0, 1} /\ Ahead(t) \in {0, 1}
      BY DEF Ahead
    <3>2. CASE back
      BY <1>2, <2>1, <2>3, <3>1, <3>2
    <3>3. CASE ~back
      <4>1. schedule.nextRunAt # NoRun /\ schedule.nextRunAt \in Nat /\ schedule.nextRunAt <= resuming
        BY <1>2, <2>2, <3>3
      <4>2. Ahead(t)' = 1 => Ahead(t) = 1
        BY <1>2, <2>2, <4>1 DEF Ahead
      <4>3. rewinds' = rewinds
        BY Zenon, <2>1, <3>3
      <4> QED
        BY <1>2, <3>1, <4>2, <4>3
    <3> QED
      BY <3>2, <3>3
  <2> QED
    BY <1>1, <2>4, <2>5, <2>6, OwnerStep
<1> QED
  BY <1>3, <1>4

\* A step of a scan: it goes to x, and what it leaves behind holds occurrences only.
LEMMA ScanStep ==
  ASSUME RecurringInv, NEW s \in Scans, NEW x \in ScanStates, scan' = [scan EXCEPT ![s] = x],
         UNCHANGED <<clock, resuming, rewinds>>, schedule.row # "none",
         schedule' \in ScheduleRows, schedule'.row = schedule.row, schedule'.rule = schedule.rule,
         schedule'.nextRunAt # NoRun => Occurs(schedule.rule, schedule'.nextRunAt),
         x.at # "idle" => x.cursor \in Nat /\ Occurs(schedule.rule, x.cursor),
         DOMAIN made' \subseteq Nat,
         \A t \in DOMAIN made' : made'[t] \in Nat /\ Occurs(schedule.rule, t),
         \A t \in Nat : Counted(t)'
  PROVE  RecurringInv'
<1>1. scan \in [Scans -> ScanStates]
  BY Zenon DEF RecurringInv, RecurringTypes
<1>2. scan' \in [Scans -> ScanStates] /\ \A z \in Scans : scan'[z] = IF z = s THEN x ELSE scan[z]
  BY Zenon, <1>1
<1>3. RecurringTypes'
  BY <1>2 DEF RecurringInv, RecurringTypes
<1>4. \A z \in Scans : scan'[z].at # "idle" => scan'[z].cursor \in Nat /\ Occurs(schedule'.rule, scan'[z].cursor)
  BY Zenon, <1>2 DEF RecurringInv, HoldsOccurrences
<1>5. schedule'.row # "none" /\ schedule'.rule \in Rules
  BY Zenon DEF RecurringInv, HoldsOccurrences
<1>6. resuming' # NoRun => Occurs(schedule'.rule, resuming')
  BY Zenon DEF RecurringInv, HoldsOccurrences
<1>7. HoldsOccurrences'
  BY Zenon, <1>4, <1>5, <1>6 DEF HoldsOccurrences
<1> QED
  BY Zenon, <1>3, <1>7 DEF RecurringInv

\* How many scans are about to create an instant, after one of them has moved.
LEMMA PendingAfter ==
  ASSUME RecurringInv, NEW s \in Scans, NEW x \in ScanStates, scan' = [scan EXCEPT ![s] = x], NEW t \in Nat
  PROVE  LET n == Cardinality(Pending(t))
             m == Cardinality(Pending(t)')
         IN  /\ m \in Nat /\ n \in Nat
             /\ m <= n + 1
             /\ ~(x.at = "create" /\ x.cursor = t) => m <= n
             /\ ~(x.at = "create" /\ x.cursor = t) /\ s \in Pending(t) => m = n - 1
<1>1. scan \in [Scans -> ScanStates]
  BY Zenon DEF RecurringInv, RecurringTypes
<1>2. scan' \in [Scans -> ScanStates] /\ \A z \in Scans : scan'[z] = IF z = s THEN x ELSE scan[z]
  BY Zenon, <1>1
<1>3. IsFiniteSet(Pending(t)) /\ Cardinality(Pending(t)) \in Nat
  BY Zenon, PendingIs
<1> DEFINE P == Pending(t)
           Q == Pending(t)'
<1>4. CASE x.at = "create" /\ x.cursor = t
  <2>1. Q = P \cup {s}
    BY <1>2, <1>4 DEF Pending
  <2> HIDE DEF P, Q
  <2>2. s \in P \/ s \notin P
    BY Zenon
  <2>3. Cardinality(Q) = IF s \in P THEN Cardinality(P) ELSE Cardinality(P) + 1
    BY Zenon, <1>3, <2>1, FS_AddElement DEF P
  <2> QED
    BY <1>3, <1>4, <2>3 DEF P, Q
<1>5. CASE ~(x.at = "create" /\ x.cursor = t)
  <2>1. Q = P \ {s}
    BY <1>2, <1>5 DEF Pending
  <2> HIDE DEF P, Q
  <2>2. Cardinality(Q) = IF s \in P THEN Cardinality(P) - 1 ELSE Cardinality(P)
    BY Zenon, <1>3, <2>1, FS_RemoveElement DEF P
  <2>3. s \in P => Cardinality(P) # 0
    BY Zenon, <1>3, FS_EmptySet DEF P
  <2>4. Cardinality(Q) \in Nat
    BY <1>3, <2>2, <2>3 DEF P
  <2> QED
    BY <1>3, <1>5, <2>2, <2>4 DEF P, Q
<1> QED
  BY Zenon, <1>4, <1>5

\* A scan that moves without touching the schedule, and not to a creation.
LEMMA PassingScan ==
  ASSUME RecurringInv, NEW s \in Scans, NEW x \in ScanStates, scan' = [scan EXCEPT ![s] = x],
         UNCHANGED <<clock, resuming, rewinds, schedule, made>>,
         x.at # "create", x.at # "idle" => x.cursor \in Nat /\ Occurs(schedule.rule, x.cursor),
         scan[s].at # "idle" \/ schedule.row # "none"
  PROVE  RecurringInv'
<1>1. schedule.row # "none"
  BY DEF RecurringInv, HoldsOccurrences
<1>2. ASSUME NEW t \in Nat PROVE Counted(t)'
  <2> DEFINE n == Cardinality(Pending(t))
             m == Cardinality(Pending(t)')
  <2>1. m \in Nat /\ n \in Nat /\ m <= n
    BY Zenon, PendingAfter
  <2>2. Tally(t)' = Tally(t) /\ Ahead(t)' = Ahead(t)
    BY Zenon DEF Tally, Ahead
  <2>3. Tally(t) \in Nat /\ Ahead(t) \in {0, 1} /\ rewinds \in Nat
    BY CountedTypes
  <2>4. Tally(t) + n + Ahead(t) <= 1 + rewinds
    BY DEF RecurringInv, Counted
  <2> HIDE DEF n, m
  <2>5. Tally(t) + m + Ahead(t) <= 1 + rewinds
    BY <2>1, <2>3, <2>4
  <2> QED
    BY Zenon, <2>2, <2>5 DEF Counted, m
<1>3. /\ schedule' \in ScheduleRows /\ (schedule.nextRunAt # NoRun => Occurs(schedule.rule, schedule.nextRunAt))
      /\ DOMAIN made \subseteq Nat /\ \A t \in DOMAIN made : made[t] \in Nat /\ Occurs(schedule.rule, t)
  BY Zenon DEF RecurringInv, RecurringTypes, HoldsOccurrences
<1> QED
  BY Zenon, <1>1, <1>2, <1>3, ScanStep

LEMMA IdleScanIs == IdleScan \in ScanStates /\ IdleScan.at = "idle"
BY Zenon DEF IdleScan, ScanStates, NoRun

LEMMA ScanReadKeeps ==
  ASSUME RecurringInv, NEW s \in Scans, ScanRead(s) PROVE RecurringInv'
<1> DEFINE x == [at |-> "claim", cursor |-> schedule.nextRunAt, now |-> clock]
<1>1. /\ scan' = [scan EXCEPT ![s] = x] /\ schedule.row = "kept" /\ schedule.nextRunAt # NoRun
      /\ UNCHANGED <<clock, resuming, rewinds, schedule, made>>
  BY DEF ScanRead
<1>2. clock \in Nat /\ schedule.nextRunAt \in Nat \cup {NoRun} /\ Occurs(schedule.rule, schedule.nextRunAt)
  BY <1>1, RowFields DEF RecurringInv, RecurringTypes, HoldsOccurrences
<1>3. x \in ScanStates /\ x.at = "claim" /\ x.cursor \in Nat /\ x.cursor = schedule.nextRunAt
  BY Zenon, <1>1, <1>2 DEF ScanStates
<1> HIDE DEF x
<1> QED
  BY Zenon, <1>1, <1>2, <1>3, PassingScan

LEMMA ScanDiesKeeps ==
  ASSUME RecurringInv, NEW s \in Scans, ScanDies(s) PROVE RecurringInv'
BY Zenon, IdleScanIs, PassingScan DEF ScanDies

\* The loop goes on with an occurrence, or the scan is over.
LEMMA LoopAtIs ==
  ASSUME RecurringInv, NEW s \in Scans, NEW c, c = NoRun \/ (c \in Nat /\ Occurs(schedule.rule, c))
  PROVE  /\ LoopAt(s, c) \in ScanStates /\ LoopAt(s, c).at # "create"
         /\ LoopAt(s, c).at # "idle" => LoopAt(s, c).cursor \in Nat /\ Occurs(schedule.rule, LoopAt(s, c).cursor)
<1>1. scan[s] \in ScanStates
  BY Zenon, ScanFields
<1>2. CASE c = NoRun \/ c > scan[s].now + LOOKAHEAD
  <2>1. LoopAt(s, c) = IdleScan
    BY Zenon, <1>2 DEF LoopAt
  <2> QED
    BY <2>1, IdleScanIs
<1>3. CASE ~(c = NoRun \/ c > scan[s].now + LOOKAHEAD)
  <2> DEFINE x == [scan[s] EXCEPT !.at = "claim", !.cursor = c]
  <2>1. LoopAt(s, c) = x
    BY <1>3 DEF LoopAt
  <2>2. x \in ScanStates /\ x.at = "claim" /\ x.cursor = c
    BY Zenon, <1>1, <1>3 DEF ScanStates
  <2> HIDE DEF x
  <2> QED
    BY <1>3, <2>1, <2>2
<1> QED
  BY Zenon, <1>2, <1>3

LEMMA ScanClaimKeeps ==
  ASSUME RecurringInv, NEW s \in Scans, ScanClaim(s) PROVE RecurringInv'
<1>1. scan[s].at = "claim" /\ UNCHANGED <<clock, resuming, rewinds, made>>
  BY DEF ScanClaim
<1>2. CASE ~(schedule.row = "kept" /\ schedule.active /\ schedule.nextRunAt = scan[s].cursor)
  <2>1. scan' = [scan EXCEPT ![s] = IdleScan] /\ schedule' = schedule
    BY <1>2 DEF ScanClaim
  <2> QED
    BY Zenon, <1>1, <2>1, IdleScanIs, PassingScan
<1>3. CASE schedule.row = "kept" /\ schedule.active /\ schedule.nextRunAt = scan[s].cursor
  <2> DEFINE cursor == scan[s].cursor
             after == IF Missed(s) THEN scan[s].now ELSE cursor
             next == AdvanceTo(s)
             x == IF Missed(s) THEN LoopAt(s, next) ELSE [scan[s] EXCEPT !.at = "create"]
  <2>1. schedule' = [schedule EXCEPT !.nextRunAt = next] /\ scan' = [scan EXCEPT ![s] = x]
    BY <1>3 DEF ScanClaim, Claimed
  <2>2. cursor \in Nat /\ Occurs(schedule.rule, cursor) /\ scan[s].now \in Nat /\ schedule.rule \in Rules
    BY Zenon, <1>1, <1>3, ScanFields DEF RecurringInv, HoldsOccurrences
  <2>3. after \in Nat /\ after >= cursor /\ next = ComputeNextOccurrence(schedule.rule, after)
    <3>1. MISSED_GRACE \in Nat
      BY RecurringAssumption DEF RecurringAssumption
    <3>2. CASE Missed(s)
      <4>1. scan[s].now >= cursor
        BY <2>2, <3>1, <3>2 DEF Missed
      <4> QED
        BY Zenon, <2>2, <3>2, <4>1 DEF AdvanceTo
    <3>3. CASE ~Missed(s)
      <4>1. cursor >= cursor
        BY <2>2
      <4> QED
        BY Zenon, <2>2, <3>3, <4>1 DEF AdvanceTo
    <3> QED
      BY Zenon, <3>2, <3>3
  <2> HIDE DEF next
  <2>4. next = NoRun \/ (next \in Nat /\ next > cursor /\ Occurs(schedule.rule, next))
    <3> SUFFICES ASSUME next # NoRun PROVE next \in Nat /\ next > cursor /\ Occurs(schedule.rule, next)
      BY Zenon
    <3> HIDE DEF after
    <3>1. next \in Nat /\ next > after /\ Occurs(schedule.rule, next)
      BY <2>2, <2>3, NextOccurs
    <3> QED
      BY <2>2, <2>3, <3>1
  <2>5. /\ schedule' \in ScheduleRows /\ schedule'.row = schedule.row /\ schedule'.rule = schedule.rule
        /\ schedule'.nextRunAt = next
    <3>1. schedule \in ScheduleRows
      BY Zenon DEF RecurringInv, RecurringTypes
    <3>2. next \in Nat \cup {NoRun}
      BY Zenon, <2>4
    <3> QED
      BY Zenon, <2>1, <3>1, <3>2 DEF ScheduleRows
  <2>6. /\ x \in ScanStates
        /\ x.at # "idle" => x.cursor \in Nat /\ Occurs(schedule.rule, x.cursor)
        /\ x.at = "create" => ~Missed(s) /\ x.cursor = cursor
    <3>1. CASE Missed(s)
      BY <2>4, <3>1, LoopAtIs
    <3>2. CASE ~Missed(s)
      <4>1. scan[s] \in ScanStates
        BY ScanFields
      <4>2. [scan[s] EXCEPT !.at = "create"] \in ScanStates /\ [scan[s] EXCEPT !.at = "create"].cursor = cursor
        BY <4>1 DEF ScanStates
      <4> QED
        BY Zenon, <2>2, <3>2, <4>2
    <3> QED
      BY <3>1, <3>2
  <2> HIDE DEF x
  <2>7. ASSUME NEW t \in Nat PROVE Counted(t)'
    <3> DEFINE n == Cardinality(Pending(t))
               m == Cardinality(Pending(t)')
    <3>1. m \in Nat /\ n \in Nat /\ m <= n + 1 /\ (~(x.at = "create" /\ x.cursor = t) => m <= n)
      BY Zenon, <2>1, <2>6, PendingAfter
    <3>2. Tally(t)' = Tally(t)
      BY Zenon, <1>1 DEF Tally
    <3>3. Tally(t) \in Nat /\ Ahead(t) \in {0, 1} /\ rewinds \in Nat /\ rewinds' = rewinds
      BY <1>1, CountedTypes
    <3>4. Tally(t) + n + Ahead(t) <= 1 + rewinds
      BY DEF RecurringInv, Counted
    <3>5. Ahead(t) = IF cursor <= t THEN 1 ELSE 0
      BY <1>3, <2>2 DEF Ahead, NoRun
    <3>6. Ahead(t)' = IF next # NoRun /\ next <= t THEN 1 ELSE 0
      BY Zenon, <2>5 DEF Ahead
    <3> HIDE DEF n, m
    <3>7. CASE x.at = "create" /\ x.cursor = t
      <4>1. Ahead(t) = 1 /\ Ahead(t)' = 0
        BY <2>2, <2>4, <2>6, <3>5, <3>6, <3>7
      <4>2. Tally(t) + m + 0 <= 1 + rewinds
        BY <3>1, <3>3, <3>4, <4>1
      <4> QED
        BY Zenon, <3>2, <3>3, <4>1, <4>2 DEF Counted, m
    <3>8. CASE ~(x.at = "create" /\ x.cursor = t)
      <4>1. Ahead(t)' \in {0, 1} /\ Ahead(t)' <= Ahead(t)
        BY <2>2, <2>4, <3>5, <3>6
      <4> DEFINE a == Ahead(t)'
      <4> HIDE DEF a
      <4>2. Tally(t) + m + a <= 1 + rewinds
        BY <3>1, <3>3, <3>4, <3>8, <4>1 DEF a
      <4> QED
        BY Zenon, <3>2, <3>3, <4>2 DEF Counted, m, a
    <3> QED
      BY <3>7, <3>8
  <2>8. DOMAIN made' \subseteq Nat /\ \A t \in DOMAIN made' : made'[t] \in Nat /\ Occurs(schedule.rule, t)
    BY Zenon, <1>1 DEF RecurringInv, RecurringTypes, HoldsOccurrences
  <2>9. schedule'.nextRunAt # NoRun => Occurs(schedule.rule, schedule'.nextRunAt)
    BY Zenon, <2>4, <2>5
  <2>10. schedule.row # "none"
    BY Zenon, <1>3
  <2> QED
    BY <1>1, <2>1, <2>5, <2>6, <2>7, <2>8, <2>9, <2>10, ScanStep
<1> QED
  BY Zenon, <1>2, <1>3

LEMMA ScanCreateKeeps ==
  ASSUME RecurringInv, NEW s \in Scans, ScanCreate(s) PROVE RecurringInv'
<1> DEFINE cursor == scan[s].cursor
           next == ComputeNextOccurrence(schedule.rule, cursor)
           x == LoopAt(s, next)
<1>1. /\ scan[s].at = "create" /\ UNCHANGED <<clock, schedule, resuming, rewinds>>
      /\ scan' = [scan EXCEPT ![s] = x]
      /\ Made(ScheduledFor(schedule.rule, cursor)) \/ made' = made
  BY Zenon DEF ScanCreate
<1>2. schedule.row # "none" /\ schedule.rule \in Rules /\ cursor \in Nat /\ Occurs(schedule.rule, cursor)
  BY Zenon, <1>1 DEF RecurringInv, HoldsOccurrences
<1>3. next = NoRun \/ (next \in Nat /\ Occurs(schedule.rule, next))
  BY Zenon, <1>2, NextOccurs
<1>4. /\ x \in ScanStates /\ x.at # "create"
      /\ x.at # "idle" => x.cursor \in Nat /\ Occurs(schedule.rule, x.cursor)
  BY Zenon, <1>3, LoopAtIs
<1> HIDE DEF x, next
<1>5. CASE made' = made
  BY Zenon, <1>1, <1>2, <1>4, <1>5, PassingScan
<1>6. CASE Made(ScheduledFor(schedule.rule, cursor))
  <2>1. Made(cursor)
    BY <1>2, <1>6, RoundTrip
  <2>2. /\ DOMAIN made \subseteq Nat
        /\ \A t \in DOMAIN made : made[t] \in Nat /\ Occurs(schedule.rule, t)
        /\ schedule \in ScheduleRows /\ (schedule.nextRunAt # NoRun => Occurs(schedule.rule, schedule.nextRunAt))
    BY Zenon DEF RecurringInv, RecurringTypes, HoldsOccurrences
  <2>3. /\ DOMAIN made' = DOMAIN made \cup {cursor}
        /\ \A u \in DOMAIN made \cup {cursor} :
             made'[u] = IF u \notin DOMAIN made THEN 1 ELSE IF u = cursor THEN made[u] + 1 ELSE made[u]
    BY Zenon, <2>1 DEF Made
  <2>4. DOMAIN made' \subseteq Nat /\ \A t \in DOMAIN made' : made'[t] \in Nat /\ Occurs(schedule.rule, t)
    BY <1>2, <2>2, <2>3
  <2>5. ASSUME NEW t \in Nat PROVE Counted(t)'
    <3> DEFINE n == Cardinality(Pending(t))
               m == Cardinality(Pending(t)')
    <3>1. m \in Nat /\ n \in Nat /\ m <= n /\ (s \in Pending(t) => m = n - 1)
      BY Zenon, <1>1, <1>4, PendingAfter
    <3>2. Ahead(t)' = Ahead(t)
      BY <1>1 DEF Ahead
    <3>3. Tally(t) \in Nat /\ Ahead(t) \in {0, 1} /\ rewinds \in Nat /\ rewinds' = rewinds
      BY <1>1, CountedTypes
    <3>4. Tally(t) + n + Ahead(t) <= 1 + rewinds
      BY DEF RecurringInv, Counted
    <3> HIDE DEF n, m
    <3>5. CASE t = cursor
      <4>1. m = n - 1
        BY <1>1, <3>1, <3>5 DEF Pending
      <4>2. Tally(t)' = Tally(t) + 1
        <5>1. Tally(t)' = made'[t] /\ 0 + 1 = 1
          BY <2>3, <3>5 DEF Tally
        <5>2. CASE t \in DOMAIN made
          BY Zenon, <2>3, <3>5, <5>1, <5>2 DEF Tally
        <5>3. CASE t \notin DOMAIN made
          BY Zenon, <2>3, <3>5, <5>1, <5>3 DEF Tally
        <5> QED
          BY Zenon, <5>2, <5>3
      <4>3. (Tally(t) + 1) + m + Ahead(t) <= 1 + rewinds
        BY <3>1, <3>3, <3>4, <4>1
      <4> QED
        BY Zenon, <3>2, <3>3, <4>2, <4>3 DEF Counted, m
    <3>6. CASE t # cursor
      <4>1. Tally(t)' = Tally(t)
        BY Zenon, <2>3, <3>6 DEF Tally
      <4>2. Tally(t) + m + Ahead(t) <= 1 + rewinds
        BY <3>1, <3>3, <3>4
      <4> QED
        BY Zenon, <3>2, <3>3, <4>1, <4>2 DEF Counted, m
    <3> QED
      BY Zenon, <3>5, <3>6
  <2> QED
    BY Zenon, <1>1, <1>2, <1>4, <2>2, <2>4, <2>5, ScanStep
<1> QED
  BY Zenon, <1>1, <1>5, <1>6

LEMMA RecurringHolds == RecurringSpec => []RecurringInv
<1>1. RecurringInit => RecurringInv
  <2> SUFFICES ASSUME RecurringInit PROVE RecurringInv
    OBVIOUS
  <2>1. /\ clock \in Nat /\ rewinds = 0 /\ resuming = NoRun /\ schedule = NoSchedule
        /\ DOMAIN made = {} /\ scan = [s \in Scans |-> IdleScan]
    BY Zenon, RecurringAssumption DEF RecurringInit, RecurringAssumption
  <2>2. schedule \in ScheduleRows /\ schedule.row = "none" /\ schedule.nextRunAt = NoRun
    BY Zenon, <2>1 DEF NoSchedule, ScheduleRows
  <2>3. scan \in [Scans -> ScanStates] /\ \A s \in Scans : scan[s].at = "idle"
    BY Zenon, <2>1, IdleScanIs
  <2>4. RecurringTypes
    BY Zenon, <2>1, <2>2, <2>3 DEF RecurringTypes
  <2>5. HoldsOccurrences
    BY Zenon, <2>1, <2>2, <2>3 DEF HoldsOccurrences
  <2>6. ASSUME NEW t \in Nat PROVE Counted(t)
    <3>1. Tally(t) = 0 /\ Ahead(t) = 0 /\ Pending(t) = {}
      BY Zenon, <2>1, <2>2, <2>3 DEF Tally, Ahead, Pending
    <3>2. Cardinality(Pending(t)) = 0
      BY Zenon, <3>1, FS_EmptySet
    <3> QED
      BY <2>1, <3>1, <3>2 DEF Counted
  <2> QED
    BY Zenon, <2>4, <2>5, <2>6 DEF RecurringInv
<1>2. RecurringInv /\ [RecurringNext]_recurringVars => RecurringInv'
  <2> SUFFICES ASSUME RecurringInv, [RecurringNext]_recurringVars PROVE RecurringInv'
    BY Zenon
  <2>1. CASE UNCHANGED recurringVars
    <3>1. /\ clock' = clock /\ schedule' = schedule /\ resuming' = resuming /\ scan' = scan /\ made' = made
          /\ rewinds' = rewinds
      BY Zenon, <2>1 DEF recurringVars
    <3>2. RecurringTypes' /\ HoldsOccurrences'
      BY Zenon, <3>1 DEF RecurringInv, RecurringTypes, HoldsOccurrences
    <3>3. ASSUME NEW t \in Nat PROVE Ahead(t)' - rewinds' <= Ahead(t) - rewinds
      <4>1. Ahead(t)' = Ahead(t) /\ Ahead(t) \in {0, 1} /\ rewinds \in Nat
        BY Zenon, <3>1 DEF Ahead, RecurringInv, RecurringTypes
      <4> QED
        BY <3>1, <4>1
    <3> QED
      BY Zenon, <3>1, <3>2, <3>3, OwnerStep
  <2>2. CASE RecurringNext
    BY <2>2, CreateScheduleKeeps, OwnerKeeps, ResumeWriteKeeps, ScanReadKeeps, ScanClaimKeeps,
       ScanCreateKeeps, ScanDiesKeeps DEF RecurringNext
  <2> QED
    BY <2>1, <2>2
<1> QED
  BY <1>1, <1>2, PTL DEF RecurringSpec

\* However many scans overlap, wherever a worker dies and whenever the owner pauses, resumes or
\* deletes, an occurrence is turned into at most one delivery plus one for each resume that set
\* the cursor back, and only occurrences of the rule are (recurring-materializer.ts,
\* materializeSchedule's conditional claim).
THEOREM OccurrenceMaterializesOnce == RecurringSpec => []MaterializedOncePerResume
<1>1. RecurringInv => MaterializedOncePerResume
  <2> SUFFICES ASSUME RecurringInv, NEW t \in DOMAIN made
               PROVE  Occurs(schedule.rule, t) /\ made[t] <= 1 + rewinds
    BY Zenon DEF MaterializedOncePerResume
  <2>1. t \in Nat /\ Occurs(schedule.rule, t)
    BY Zenon DEF RecurringInv, RecurringTypes, HoldsOccurrences
  <2> DEFINE n == Cardinality(Pending(t))
  <2>2. made[t] \in Nat /\ n \in Nat /\ Ahead(t) \in {0, 1} /\ rewinds \in Nat
    BY Zenon, <2>1, CountedTypes DEF Tally
  <2>3. made[t] + n + Ahead(t) <= 1 + rewinds
    BY <2>1 DEF RecurringInv, Counted, Tally
  <2> HIDE DEF n
  <2> QED
    BY <2>1, <2>2, <2>3
<1> QED
  BY <1>1, RecurringHolds, PTL

\* Where the loop probes at least nine days, it finds the first occurrence of the rule within
\* eight days of now, through the time zone, the weekdays, the start and the inclusive end date,
\* and nothing else (recurrence.ts, whose MAX_DAY_PROBE is 14).
THEOREM NextOccurrenceIsRight ==
  ASSUME MAX_DAY_PROBE >= 9
  PROVE  RecurringSpec => []NextOccurrenceIsFirst
<1>1. RecurringInv => NextOccurrenceIsFirst
  <2> SUFFICES ASSUME RecurringInv, schedule.row = "kept" PROVE NextOccurrenceIsFirst
    BY Zenon DEF NextOccurrenceIsFirst
  <2>1. schedule.rule \in Rules /\ clock \in Nat
    BY DEF RecurringInv, RecurringTypes, HoldsOccurrences
  <2> QED
    BY Zenon, <2>1, NextIsFirst DEF NextOccurrenceIsFirst
<1> QED
  BY <1>1, RecurringHolds, PTL

=============================================================================
