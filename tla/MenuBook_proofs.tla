--------------------------- MODULE MenuBook_proofs --------------------------
(***************************************************************************)
(* An order is charged as the menu offered while it was read; clearing out *)
(* staged prices and groups moves no price in force; a save is checked     *)
(* against what its panel showed and stands when it ends, unless a rival   *)
(* committed on each of its attempts; and each row's change events end at  *)
(* its tick: for any number of managers and cooks, any prices, windows and *)
(* moments, and any number of saves, clean-ups, batches and orders.        *)
(***************************************************************************)
EXTENDS MenuBook, FiniteSetTheorems, TLAPS

-----------------------------------------------------------------------------
(* What the steps carry *)

\* A save that is about to write has read a day, and one that stages has one
EditorOK(e) ==
    /\ {"step", "id", "column", "cents", "day", "shown", "read", "today", "saw", "attempt"}
            \subseteq DOMAIN e
    /\ e.column \in Columns
    /\ e.step = "target" => e.column \in Rows
    /\ e.day \in Int \union {None}
    /\ e.day = None => e.step \notin {"delete", "create"}
    /\ e.step = "write" => e.today \in Int

RequestOK(r) ==
    /\ {"line", "clock", "read"} \subseteq DOMAIN r
    /\ {"rows", "item", "group"} \subseteq DOMAIN r.read
    /\ r.clock \in ToSet(Moments)

ShapeInv ==
    /\ now \in 1..Len(Moments)
    /\ Columns \subseteq DOMAIN live
    /\ Managers \subseteq DOMAIN editor
    /\ \A r \in staged : r.day \in Int
    /\ \A m \in Managers : editor[m] # None => EditorOK(editor[m])
    /\ request # None => RequestOK(request)

\* A price, and a row, some offer since the request came shows
Charged(column, cents) == \E offer \in offered : cents \in offer.price[column]
Shown(row)             == \E offer \in offered : row \in offer.on

\* What the request has read was offered; where nothing had landed, the live
\* column still to be read was offered too
RowsKeep(read) ==
    read.rows # None =>
        \A c \in Rows : Charged(c, Resolved(c, read.rows, live[c]))

ItemKeeps(read, clock) ==
    read.item # None =>
        /\ Charged("item", Resolved("item", read.rows, read.item.cents))
        /\ read.item.available /\ ~daypartClosure(read.item.windows, clock) => Shown("item")

GroupKeeps(read) ==
    read.group # None =>
        /\ Charged("option", Resolved("option", read.rows, read.group.cents))
        /\ Charged("extra", read.group.extra)
        /\ read.group.there /\ read.group.available => Shown("option")

OfferInv ==
    \A clock : request # None /\ clock = request.clock =>
        /\ Offer(clock) \in offered
        /\ request.read.item # None \/ request.read.group # None => request.read.rows # None
        /\ RowsKeep(request.read)
        /\ ItemKeeps(request.read, clock)
        /\ GroupKeeps(request.read)

-----------------------------------------------------------------------------
(* Shapes *)

LEMMA ElementOf == \A S : \A s \in Seq(S) : \A i \in 1..Len(s) : s[i] \in S
OBVIOUS

LEMMA ClocksHaveDays ==
    /\ \A clock \in ToSet(Moments) : clock.day \in Int
    /\ now \in 1..Len(Moments) => Clock \in ToSet(Moments) /\ Today \in Int
<1>. DEFINE R == [day : Nat, weekday : 0..6, minuteOfDay : 0..1439]
<1>1. Moments \in Seq(R)  BY MomentsAssumption
<1>2. DOMAIN Moments = 1..Len(Moments)  BY <1>1
<1>3. \A i \in 1..Len(Moments) : Moments[i] \in R
  <2>. HIDE DEF R
  <2>. QED  BY <1>1, ElementOf
<1>4. \A i \in 1..Len(Moments) : Moments[i].day \in Int  BY <1>3
<1>. QED  BY <1>2, <1>4 DEF ToSet, Clock, Today

LEMMA ShapeInit == Init => ShapeInv
<1>. SUFFICES ASSUME Init PROVE ShapeInv  OBVIOUS
<1>1. now \in 1..Len(Moments)  BY MomentsAssumption DEF Init
<1>2. Columns \subseteq DOMAIN live  BY FirstPricesAssumption DEF Init
<1>. QED  BY <1>1, <1>2 DEF Init, ShapeInv

LEMMA ShapeStep == ShapeInv /\ [Next]_vars => ShapeInv'
<1>. SUFFICES ASSUME ShapeInv, [Next]_vars PROVE ShapeInv'  OBVIOUS
<1>. USE DEF ShapeInv
<1>1. CASE UNCHANGED vars
      BY <1>1 DEF vars, menuVars, boardVars, cartVars, EditorOK, RequestOK
<1>2. CASE Tick
      BY <1>2, MomentsAssumption DEF Tick, menuVars, boardVars, cartVars, EditorOK, RequestOK
<1>3. CASE Customer
  <2>1. /\ UNCHANGED <<now, live, staged, editor>>
        /\ request' \in {request, None} \/ RequestOK(request')
    <3>1. CASE addLine \/ replaceLine \/ removeLine \/ confirmPrices
          BY <3>1 DEF addLine, replaceLine, removeLine, confirmPrices, menuVars
    <3>2. CASE Submit
          BY <3>2, ClocksHaveDays DEF Submit, menuVars, RequestOK, Unread
    <3>3. ASSUME NEW part, NEW answer, Read(part, answer), part \in {"rows", "item", "group"}
          PROVE  /\ UNCHANGED <<now, live, staged, editor>>
                 /\ RequestOK(request')
          BY <3>3 DEF Read, menuVars, RequestOK
    <3>4. CASE ReadStaged \/ ReadItem \/ ReadGroup
          BY <3>3, <3>4 DEF ReadStaged, ReadItem, ReadGroup
    <3>5. CASE placeOrder  BY <3>5 DEF placeOrder, menuVars
    <3>. QED  BY <1>3, <3>1, <3>2, <3>4, <3>5 DEF Customer
  <2>. QED  BY <2>1 DEF RequestOK
<1>4. ASSUME NEW m \in Managers, Manager(m) PROVE ShapeInv'
  <2>1. /\ UNCHANGED <<now, request>>
        /\ Columns \subseteq DOMAIN live'
        /\ \A r \in staged' : r.day \in Int
        /\ DOMAIN editor' = DOMAIN editor
        /\ \A n \in Managers \ {m} : editor'[n] = editor[n]
        /\ editor'[m] # None => EditorOK(editor'[m])
    <3>1. CASE ConfirmPanel(m)
      <4>1. UNCHANGED <<now, request, live, staged>>
            BY <3>1 DEF ConfirmPanel, menuVars, cartVars
      <4>2. \A c \in ToSet(Moments) : c.day \in Int  BY ClocksHaveDays
      <4>3. \A column \in Columns, cents \in Amounts, day \in Int \union {None} :
               EditorOK(Panel(column, cents, day))
            BY DEF EditorOK, Panel
      <4>4. PICK column \in left.kinds \cap Columns, cents \in Amounts,
                 day \in {None} \union {c.day : c \in ToSet(Moments)} :
               editor' = [editor EXCEPT ![m] = Panel(column, cents, day)]
            BY <3>1 DEF ConfirmPanel
      <4>5. EditorOK(Panel(column, cents, day))
        <5>1. day \in Int \union {None}  BY <4>2, <4>4
        <5>. QED  BY <4>3, <4>4, <5>1
      <4>. QED  BY <4>1, <4>4, <4>5
    <3>2. CASE saveExtraSurcharge(m) \/ saveGroup(m)
          BY <3>2, ClocksHaveDays
          DEF saveExtraSurcharge, saveGroup, CompareRow, menuVars, cartVars, EditorOK
    <3>3. CASE ReadTarget(m)
          BY <3>3 DEF ReadTarget, menuVars, cartVars, EditorOK
    <3>4. CASE CheckShown(m)
          BY <3>4, ClocksHaveDays DEF CheckShown, menuVars, cartVars, EditorOK
    <3>5. CASE writeLive(m)
          BY <3>5 DEF writeLive, cartVars
    <3>6. CASE DeleteStaged(m)
          BY <3>6 DEF DeleteStaged, menuVars, cartVars, EditorOK
    <3>7. CASE CreateStaged(m)
      <4>1. /\ UNCHANGED <<now, request, live>>
            /\ \A r \in staged' : r \in staged \/ r.day = editor[m].day
            /\ editor[m] # None /\ editor[m].step = "create"
            BY <3>7 DEF CreateStaged, cartVars
      <4>2. /\ DOMAIN editor' = DOMAIN editor
            /\ \A n \in Managers \ {m} : editor'[n] = editor[n]
            /\ editor'[m] # None => EditorOK(editor'[m])
            BY <3>7 DEF CreateStaged, EditorOK
      <4>. QED  BY <4>1, <4>2 DEF EditorOK
    <3>. QED  BY <1>4, <3>1, <3>2, <3>3, <3>4, <3>5, <3>6, <3>7 DEF Manager
  <2>2. \A n \in Managers : editor'[n] # None => EditorOK(editor'[n])
        BY <2>1
  <2>3. Managers \subseteq DOMAIN editor'  BY <2>1
  <2>. QED  BY <2>1, <2>2, <2>3 DEF EditorOK, RequestOK
<1>5. CASE Office
  <2>1. /\ UNCHANGED <<now, live, editor, request>>
        /\ staged' \subseteq staged
        BY <1>5 DEF Office, cancelStagedPrice, collectSupersededPrices, DeleteDoomed,
              deleteGroup, addItemWindow, deleteItemWindow, menuVars, cartVars
  <2>. QED  BY <2>1
<1>6. ASSUME NEW k \in Cooks, Cook(k) PROVE ShapeInv'
  <2>1. UNCHANGED <<now, live, staged, editor, request>>
        BY <1>6 DEF Cook, Tap, setAvailability, menuVars, cartVars
  <2>. QED  BY <2>1
<1>. QED  BY <1>1, <1>2, <1>3, <1>4, <1>5, <1>6 DEF Next

-----------------------------------------------------------------------------
(* The offers *)

\* A request in flight keeps every offer and gains the one of the new state
LEMMA OffersGrow ==
    ASSUME Watch, request' # None, NEW clock, clock = request'.clock
    PROVE  /\ Offer(clock)' \in offered'
           /\ offered \subseteq offered'
<1>1. offered' = offered \union {Offer(c)' : c \in {request'.clock}}  BY DEF Watch
<1>2. Offer(clock)' \in {Offer(c)' : c \in {request'.clock}}  OBVIOUS
<1>. QED  BY <1>1, <1>2

LEMMA ChargedGrows ==
    ASSUME offered \subseteq offered', NEW column, NEW cents, Charged(column, cents)
    PROVE  Charged(column, cents)'
BY DEF Charged

LEMMA ShownGrows ==
    ASSUME offered \subseteq offered', NEW row, Shown(row)
    PROVE  Shown(row)'
BY DEF Shown

\* An instant of the request shows every price in force at it
LEMMA OfferCharges ==
    ASSUME NEW clock, Offer(clock) \in offered
    PROVE  /\ \A c \in Columns : Charged(c, PriceOn(c, clock.day))
           /\ \A c \in Columns : \A p \in Late(c, clock.day) : Charged(c, p)
           /\ \A r \in OnSale(clock) : Shown(r)
BY DEF Offer, Charged, Shown

\* A row that a save typed over is worth what was typed, unless the save had
\* read an earlier day than the request
LEMMA LiveIsOffered ==
    ASSUME ShapeInv, ShapeInv', Next, NEW c \in Rows,
           request # None, request' # None, NEW clock, clock = request.clock,
           clock = request'.clock, Offer(clock) \in offered
    PROVE  live'[c] # live[c] => Charged(c, live[c])'
<1>. SUFFICES ASSUME live'[c] # live[c] PROVE Charged(c, live[c])'  OBVIOUS
<1>1. Offer(clock)' \in offered' /\ offered \subseteq offered'
      BY OffersGrow DEF Next
<1>2. PICK m \in Managers : writeLive(m)
  <2>1. Tick \/ Customer \/ Office \/ (\E m \in Managers : Manager(m))
            \/ (\E k \in Cooks : Cook(k))
        BY DEF Next
  <2>2. CASE Tick  BY <2>2 DEF Tick, menuVars
  <2>3. CASE Customer
        BY <2>3 DEF Customer, addLine, replaceLine, removeLine, confirmPrices, Submit,
             ReadStaged, ReadItem, ReadGroup, Read, placeOrder, menuVars
  <2>4. CASE Office
        BY <2>4 DEF Office, cancelStagedPrice, collectSupersededPrices, DeleteDoomed,
             deleteGroup, addItemWindow, deleteItemWindow, menuVars
  <2>5. CASE \E k \in Cooks : Cook(k)
        BY <2>5 DEF Cook, Tap, setAvailability, menuVars
  <2>6. CASE \E m \in Managers : Manager(m)
        BY <2>6 DEF Manager, ConfirmPanel, ReadTarget, CheckShown, saveExtraSurcharge,
             saveGroup, CompareRow, DeleteStaged, CreateStaged, menuVars
  <2>. QED  BY <2>1, <2>2, <2>3, <2>4, <2>5, <2>6
<1>3. /\ editor[m] # None /\ editor[m].step = "write" /\ editor[m].column = c
      /\ live'[c] = editor[m].cents
      /\ staged' = staged \ Landed(c, editor[m].today)
      BY <1>2 DEF writeLive, ShapeInv, EditorOK, Rows, Columns
<1>4. clock.day \in Int /\ editor[m].today \in Int
      BY <1>3, ClocksHaveDays DEF ShapeInv, EditorOK, RequestOK
<1>5. CASE editor[m].today < clock.day
  <2>1. editor[m].cents \in Late(c, clock.day)  BY <1>3, <1>5 DEF Late
  <2>2. Charged(c, editor[m].cents)  BY <2>1, OfferCharges DEF Rows, Columns
  <2>. QED  BY <2>2, <1>1, <1>3 DEF Charged
<1>6. CASE ~(editor[m].today < clock.day)
  <2>1. Landed(c, clock.day)' = {}
        BY <1>3, <1>4, <1>6 DEF Landed, ShapeInv
  <2>2. effectivePrices(clock.day)'[c] = None  BY <2>1 DEF effectivePrices
  <2>3. PriceOn(c, clock.day)' = live'[c]  BY <2>2 DEF PriceOn, Resolved
  <2>4. PriceOn(c, clock.day)' \in (Offer(clock)').price[c]
        BY DEF Offer, Rows, Columns
  <2>. QED  BY <1>1, <2>3, <2>4 DEF Charged
<1>. QED  BY <1>5, <1>6

\* What a step may do to the request in flight
LEMMA RequestSteps ==
    ASSUME ShapeInv, Next, request' # None
    PROVE  \/ request = None /\ Submit
           \/ request # None /\ (request' = request \/ ReadStaged \/ ReadItem \/ ReadGroup)
<1>1. Tick \/ Customer \/ Office \/ (\E m \in Managers : Manager(m))
          \/ (\E k \in Cooks : Cook(k))
      BY DEF Next
<1>2. CASE Tick  BY <1>2 DEF Tick, cartVars
<1>3. CASE Customer
      BY <1>3 DEF Customer, addLine, replaceLine, removeLine, confirmPrices, Submit,
           ReadStaged, ReadItem, ReadGroup, placeOrder
<1>4. CASE Office
      BY <1>4 DEF Office, cancelStagedPrice, collectSupersededPrices, DeleteDoomed,
           deleteGroup, addItemWindow, deleteItemWindow, cartVars
<1>5. CASE \E m \in Managers : Manager(m)
      BY <1>5 DEF Manager, ConfirmPanel, ReadTarget, CheckShown, saveExtraSurcharge,
           saveGroup, CompareRow, writeLive, DeleteStaged, CreateStaged, cartVars
<1>6. CASE \E k \in Cooks : Cook(k)
      BY <1>6 DEF Cook, Tap, setAvailability, cartVars
<1>. QED  BY <1>1, <1>2, <1>3, <1>4, <1>5, <1>6

LEMMA OfferStep ==
    ASSUME ShapeInv, ShapeInv', OfferInv, Next
    PROVE  OfferInv'
<1>. SUFFICES ASSUME NEW clock, request' # None, clock = request'.clock
              PROVE  /\ Offer(clock)' \in offered'
                     /\ request'.read.item # None \/ request'.read.group # None
                            => request'.read.rows # None
                     /\ RowsKeep(request.read)'
                     /\ ItemKeeps(request.read, clock)'
                     /\ GroupKeeps(request.read)'
      BY DEF OfferInv
<1>1. Offer(clock)' \in offered' /\ offered \subseteq offered'
      BY OffersGrow DEF Next
<1>2. CASE request = None /\ Submit
  <2>1. request'.read = Unread  BY <1>2 DEF Submit
  <2>. QED  BY <1>1, <2>1 DEF Unread, RowsKeep, ItemKeeps, GroupKeeps
<1>3. CASE request # None /\ (request' = request \/ ReadStaged \/ ReadItem \/ ReadGroup)
  <2>1. /\ clock = request.clock
        /\ Offer(clock) \in offered
        /\ request.read.item # None \/ request.read.group # None => request.read.rows # None
        /\ RowsKeep(request.read)
        /\ ItemKeeps(request.read, clock)
        /\ GroupKeeps(request.read)
    <3>1. clock = request.clock
          BY <1>3 DEF ReadStaged, ReadItem, ReadGroup, Read, ShapeInv, RequestOK
    <3>. QED  BY <1>3, <3>1 DEF OfferInv
  <2>2. ASSUME NEW c \in Rows, NEW rows, Charged(c, Resolved(c, rows, live[c]))
        PROVE  Charged(c, Resolved(c, rows, live[c]))'
    <3>1. CASE rows[c] # None
          BY <1>1, <2>2, <3>1, ChargedGrows DEF Resolved, Charged
    <3>2. CASE rows[c] = None /\ live'[c] # live[c]
          BY <1>3, <2>1, <3>2, LiveIsOffered DEF Resolved, Charged
    <3>3. CASE rows[c] = None /\ live'[c] = live[c]
          BY <1>1, <2>2, <3>3 DEF Resolved, Charged
    <3>. QED  BY <3>1, <3>2, <3>3
  <2>3. CASE request' = request
    <3>1. RowsKeep(request.read)'  BY <2>1, <2>2, <2>3 DEF RowsKeep
    <3>2. ItemKeeps(request.read, clock)'
          BY <1>1, <2>1, <2>3 DEF ItemKeeps, Charged, Shown
    <3>3. GroupKeeps(request.read)'
          BY <1>1, <2>1, <2>3 DEF GroupKeeps, Charged, Shown
    <3>. QED  BY <1>1, <2>1, <2>3, <3>1, <3>2, <3>3
  <2>4. CASE ReadStaged
    <3>1. /\ request.read.rows = None
          /\ request'.read.rows = effectivePrices(clock.day)
          /\ request'.read.item = request.read.item
          /\ request'.read.group = request.read.group
          /\ live' = live
          BY <1>3, <2>1, <2>4 DEF ReadStaged, Read, menuVars, ShapeInv, RequestOK
    <3>2. \A c \in Rows : Charged(c, Resolved(c, effectivePrices(clock.day), live[c]))
          BY <2>1, OfferCharges DEF PriceOn, Rows, Columns
    <3>3. RowsKeep(request.read)'  BY <1>1, <3>1, <3>2 DEF RowsKeep, Charged
    <3>. QED  BY <1>1, <2>1, <3>1, <3>3 DEF ItemKeeps, GroupKeeps
  <2>5. CASE ReadItem
    <3>1. /\ request.read.rows # None
          /\ request'.read.rows = request.read.rows
          /\ request'.read.item = ItemRow
          /\ request'.read.group = request.read.group
          BY <1>3, <2>5 DEF ReadItem, Read, ShapeInv, RequestOK
    <3>2. RowsKeep(request.read)'  BY <2>1, <2>2, <3>1 DEF RowsKeep
    <3>3. GroupKeeps(request.read)'
          BY <1>1, <2>1, <3>1 DEF GroupKeeps, Charged, Shown
    <3>4. Charged("item", Resolved("item", request.read.rows, live["item"]))
          BY <2>1, <3>1 DEF RowsKeep, Rows
    <3>5. available["item"] /\ ~daypartClosure(windows, clock) => Shown("item")
          BY <2>1, OfferCharges DEF OnSale, There, Rows
    <3>6. ItemKeeps(request.read, clock)'
          BY <1>1, <3>1, <3>4, <3>5 DEF ItemKeeps, ItemRow, Charged, Shown
    <3>. QED  BY <1>1, <3>1, <3>2, <3>3, <3>6
  <2>6. CASE ReadGroup
    <3>1. /\ request.read.rows # None
          /\ request'.read.rows = request.read.rows
          /\ request'.read.group = GroupRow
          /\ request'.read.item = request.read.item
          BY <1>3, <2>6 DEF ReadGroup, Read, ShapeInv, RequestOK
    <3>2. RowsKeep(request.read)'  BY <2>1, <2>2, <3>1 DEF RowsKeep
    <3>3. ItemKeeps(request.read, clock)'
          BY <1>1, <2>1, <3>1 DEF ItemKeeps, Charged, Shown
    <3>4. Charged("option", Resolved("option", request.read.rows, live["option"]))
          BY <2>1, <3>1 DEF RowsKeep, Rows
    <3>5. PriceOn("extra", clock.day) = live["extra"]  BY DEF PriceOn, Resolved, Rows
    <3>6. Charged("extra", live["extra"])
          BY <2>1, <3>5, OfferCharges DEF Columns
    <3>7. grouped /\ available["option"] => Shown("option")
          BY <2>1, OfferCharges DEF OnSale, There, Rows
    <3>8. GroupKeeps(request.read)'
          BY <1>1, <3>1, <3>4, <3>6, <3>7 DEF GroupKeeps, GroupRow, Charged, Shown
    <3>. QED  BY <1>1, <3>1, <3>2, <3>3, <3>8
  <2>. QED  BY <1>3, <2>3, <2>4, <2>5, <2>6
<1>. QED  BY <1>2, <1>3, RequestSteps

LEMMA OfferStutter == OfferInv /\ UNCHANGED vars => OfferInv'
BY DEF OfferInv, RowsKeep, ItemKeeps, GroupKeeps, Charged, Shown, Offer, PriceOn, Late,
     effectivePrices, Landed, OnSale, There, vars, menuVars, boardVars, cartVars

\* The offers a request saw hold all it has read, in every reachable state.
THEOREM OffersHold == Spec => [](ShapeInv /\ OfferInv)
<1>1. Init => ShapeInv /\ OfferInv  BY ShapeInit DEF Init, OfferInv
<1>2. ShapeInv /\ OfferInv /\ [Next]_vars => (ShapeInv /\ OfferInv)'
      BY ShapeStep, OfferStep, OfferStutter
<1>. QED  BY <1>1, <1>2, PTL DEF Spec

-----------------------------------------------------------------------------
\* An order is charged the baseline its customer had confirmed, at prices the
\* menu was charging while it was read, for what could be had then.
THEOREM ChargedAsOffered == Spec => SoldAsOffered
<1>. DEFINE Sold(o) ==
          /\ o.price = priceLine(o, o.pick)
          /\ \E offer \in offered : o.item \in offer.price["item"]
          /\ \E offer \in offered : "item" \in offer.on
          /\ Asks(o.pick) => /\ \E offer \in offered : o.option \in offer.price["option"]
                             /\ \E offer \in offered : "option" \in offer.on
          /\ o.pick = "extra" => \E offer \in offered : o.extra \in offer.price["extra"]
<1>1. ASSUME ShapeInv, OfferInv, [Next]_vars, NEW o \in {order'} \ {order}
      PROVE  Sold(o)
  <2>1. placeOrder
        BY <1>1 DEF Next, vars, menuVars, boardVars, cartVars, Tick, Customer, Office,
             addLine, replaceLine, removeLine, confirmPrices, Submit, ReadStaged, ReadItem,
             ReadGroup, Read, cancelStagedPrice, collectSupersededPrices, DeleteDoomed,
             deleteGroup, addItemWindow, deleteItemWindow, Manager, ConfirmPanel,
             ReadTarget, CheckShown, saveExtraSurcharge, saveGroup, CompareRow, writeLive,
             DeleteStaged, CreateStaged, Cook, Tap, setAvailability
  <2>. DEFINE read == request.read
              menu == loadMenu(read.rows, read.item, read.group)
              line == request.line
  <2>2. /\ request # None /\ read.rows # None /\ read.item # None /\ read.group # None
        /\ ItemKeeps(read, request.clock) /\ GroupKeeps(read)
        BY <1>1, <2>1 DEF placeOrder, HasRead, OfferInv
  <2>3. /\ validateComposition(menu, line.pick, request.clock)
        /\ priceLine(menu, line.pick) = line.price
        /\ o = [pick |-> line.pick, price |-> line.price,
                item |-> menu.item, option |-> menu.option, extra |-> menu.extra]
        BY <1>1, <2>1 DEF placeOrder, reviewCart, validateComposition
  <2>4. o.price = priceLine(o, o.pick)
        BY <2>3 DEF priceLine, appliedDeltaCents
  <2>5. Charged("item", o.item) /\ Shown("item")
        BY <2>2, <2>3 DEF ItemKeeps, loadMenu, validateComposition
  <2>6. Asks(o.pick) => Charged("option", o.option) /\ Shown("option")
        BY <2>2, <2>3 DEF GroupKeeps, loadMenu, validateComposition, Priceable, Asks
  <2>7. Charged("extra", o.extra)
        BY <2>2, <2>3 DEF GroupKeeps, loadMenu
  <2>. QED  BY <2>4, <2>5, <2>6, <2>7 DEF Charged, Shown
<1>2. ShapeInv /\ OfferInv /\ [Next]_vars => [\A o \in {order'} \ {order} : Sold(o)]_vars
      BY <1>1
<1>. QED  BY <1>2, OffersHold, PTL DEF Spec, SoldAsOffered

-----------------------------------------------------------------------------
(* Clean-up *)

\* Of finitely many landed rows one starts last
LEMMA LatestIsLast ==
    ASSUME NEW rows, IsFiniteSet(rows), rows # {}, \A r \in rows : r.day \in Int
    PROVE  Latest(rows) \in rows /\ \A s \in rows : s.day <= Latest(rows).day
<1>. DEFINE After(r) == {s \in rows : s.day > r.day}
            Afters   == {After(r) : r \in rows}
            Smaller  == StrictSubsetOrdering(rows)
<1>1. Afters \subseteq FiniteSubsetsOf(rows) /\ Afters # {}
  <2>1. \A r \in rows : After(r) \in SUBSET rows /\ IsFiniteSet(After(r))  BY FS_Subset
  <2>. QED  BY <2>1 DEF FiniteSubsetsOf
<1>2. PICK last \in Afters : \A y \in Afters : ~(<<y, last>> \in Smaller)
  <2>. HIDE DEF Afters, Smaller
  <2>1. IsWellFoundedOn(Smaller, FiniteSubsetsOf(rows))
        BY FS_StrictSubsetOrderingWellFounded DEF Smaller
  <2>. QED  BY <1>1, <2>1, WFMin
<1>3. PICK r \in rows : last = After(r)  BY <1>2
<1>4. \A s \in rows : s.day <= r.day
  <2>. SUFFICES ASSUME NEW s \in rows, ~(s.day <= r.day) PROVE FALSE  OBVIOUS
  <2>1. s.day > r.day /\ s.day \in Int /\ r.day \in Int  OBVIOUS
  <2>2. After(s) \subseteq After(r)  BY <2>1
  <2>3. s \in After(r) /\ s \notin After(s)  BY <2>1
  <2>4. <<After(s), After(r)>> \in Smaller
        BY <2>2, <2>3 DEF StrictSubsetOrdering
  <2>. QED  BY <1>2, <1>3, <2>4
<1>. QED  BY <1>3, <1>4 DEF Latest

\* What a save or a row is known by is spent budget, so nothing gets it twice
IdInv ==
    /\ left.edits \in Nat
    /\ {"edits", "batches", "orders"} \subseteq DOMAIN left
    /\ \A r \in staged : r.id.edits > left.edits /\ r.id.edits \in Nat
    /\ \A m \in Managers : editor[m] # None =>
          /\ editor[m].id.edits > left.edits /\ editor[m].id.edits \in Nat
          /\ \A r \in staged : r.id # editor[m].id
          /\ \A n \in Managers \ {m} : editor[n] # None => editor[n].id # editor[m].id
          /\ doomed # None => editor[m].id \notin doomed.ids
    /\ \A r, s \in staged : r.id = s.id => r = s
    /\ doomed # None => \A i \in doomed.ids : i.edits > left.edits /\ i.edits \in Nat

\* A column has one price to start on a day
SlotInv ==
    /\ IsFiniteSet(staged)
    /\ \A r, s \in staged : r.column = s.column /\ r.day = s.day => r = s

\* A row about to be deleted that had landed has a later one over it, still
DoomedInv ==
    doomed # None =>
        /\ doomed.today \in Int
        /\ doomed.today <= Today
        /\ \A r \in staged : r.id \in doomed.ids /\ r.day <= doomed.today =>
              \E s \in staged : /\ s.column = r.column
                                /\ s.day > r.day
                                /\ s.day <= doomed.today

LEMMA IdInit == Init => IdInv /\ SlotInv /\ DoomedInv
<1>. SUFFICES ASSUME Init PROVE IdInv /\ SlotInv /\ DoomedInv  OBVIOUS
<1>1. left \in Budgets  BY DEF Init
<1>2. left.edits \in Nat /\ {"edits", "batches", "orders"} \subseteq DOMAIN left
      BY <1>1, BudgetsAssumption DEF Purses
<1>. QED  BY <1>2, FS_EmptySet DEF Init, IdInv, SlotInv, DoomedInv

\* Saves that go on or end, rows that go, and budget that is spent break nothing
LEMMA IdFrame ==
    ASSUME IdInv,
           staged' \subseteq staged,
           \A m \in Managers : editor'[m] # None =>
               editor[m] # None /\ editor'[m].id = editor[m].id,
           doomed' = doomed \/ doomed' = None,
           left'.edits \in Nat, left'.edits <= left.edits,
           DOMAIN left' = DOMAIN left
    PROVE  IdInv'
<1>. USE DEF IdInv
<1>1. \A m \in Managers : editor'[m] # None =>
          /\ editor'[m].id.edits > left'.edits /\ editor'[m].id.edits \in Nat
          /\ \A r \in staged' : r.id # editor'[m].id
          /\ \A n \in Managers \ {m} : editor'[n] # None => editor'[n].id # editor'[m].id
          /\ doomed' # None => editor'[m].id \notin doomed'.ids
      OBVIOUS
<1>2. \A r \in staged' : r.id.edits > left'.edits /\ r.id.edits \in Nat  OBVIOUS
<1>3. doomed' # None => \A i \in doomed'.ids : i.edits > left'.edits /\ i.edits \in Nat
      OBVIOUS
<1>4. {"edits", "batches", "orders"} \subseteq DOMAIN left'  OBVIOUS
<1>5. \A r, s \in staged' : r.id = s.id => r = s  OBVIOUS
<1>. QED  BY <1>1, <1>2, <1>3, <1>4, <1>5

\* What each kind of step does to the saves, the rows and the budget
LEMMA Quiet ==
    ASSUME ShapeInv, IdInv,
           Tick \/ Customer \/ addItemWindow \/ deleteItemWindow \/ (\E k \in Cooks : Cook(k))
    PROVE  /\ UNCHANGED <<live, staged, editor, doomed>>
           /\ left'.edits \in Nat /\ left'.edits <= left.edits /\ DOMAIN left' = DOMAIN left
<1>1. CASE Tick  BY <1>1 DEF Tick, menuVars, IdInv
<1>2. CASE Customer
  <2>1. CASE placeOrder
    <3>1. left' = left \/ left' = [left EXCEPT !.orders = @ - 1]  BY <2>1 DEF placeOrder
    <3>. QED  BY <2>1, <3>1 DEF placeOrder, menuVars, IdInv
  <2>. QED
        BY <1>2, <2>1 DEF Customer, addLine, replaceLine, removeLine, confirmPrices, Submit,
           ReadStaged, ReadItem, ReadGroup, Read, menuVars, IdInv
<1>3. CASE addItemWindow  BY <1>3 DEF addItemWindow, IdInv
<1>4. CASE deleteItemWindow  BY <1>4 DEF deleteItemWindow, IdInv
<1>5. ASSUME NEW k \in Cooks, Cook(k)
      PROVE  /\ UNCHANGED <<live, staged, editor, doomed>>
             /\ left'.edits \in Nat /\ left'.edits <= left.edits /\ DOMAIN left' = DOMAIN left
      BY <1>5 DEF Cook, Tap, setAvailability, menuVars, IdInv
<1>. QED  BY <1>1, <1>2, <1>3, <1>4, <1>5

LEMMA SaveGoesOn ==
    ASSUME ShapeInv, NEW m \in Managers,
           \/ ReadTarget(m) \/ CheckShown(m) \/ saveExtraSurcharge(m) \/ saveGroup(m)
           \/ writeLive(m) \/ DeleteStaged(m) \/ CreateStaged(m)
    PROVE  /\ UNCHANGED <<now, doomed, left>>
           /\ \A n \in Managers : editor'[n] # None =>
                 editor[n] # None /\ editor'[n].id = editor[n].id
<1>1. UNCHANGED <<now, doomed, left>>
      BY DEF ReadTarget, CheckShown, saveExtraSurcharge, saveGroup, CompareRow, writeLive,
         DeleteStaged, CreateStaged
<1>3. \E next : editor' = [editor EXCEPT ![m] = next]
      BY Zenon DEF ReadTarget, CheckShown, saveExtraSurcharge, saveGroup, CompareRow, writeLive,
         DeleteStaged, CreateStaged
<1>4. \A n \in Managers \ {m} : editor'[n] = editor[n]  BY <1>3 DEF ShapeInv
<1>2. editor'[m] # None => editor[m] # None /\ editor'[m].id = editor[m].id
      BY DEF ReadTarget, CheckShown, saveExtraSurcharge, saveGroup, CompareRow, writeLive,
         DeleteStaged, CreateStaged, ShapeInv, EditorOK
<1>. QED  BY <1>1, <1>2, <1>4

\* A staged price created: the new row has the save's id, column and day
LEMMA Created ==
    ASSUME ShapeInv, NEW m \in Managers, CreateStaged(m)
    PROVE  /\ editor[m] # None /\ editor[m].step = "create" /\ editor[m].day \in Int
           /\ UNCHANGED live
           /\ \/ staged' = staged
              \/ /\ editor'[m] = None
                 /\ \E row : /\ row.id = editor[m].id /\ row.column = editor[m].column
                             /\ row.day = editor[m].day
                             /\ staged' = (staged \ Slot(editor[m])) \union {row}
<1>1. editor[m] # None /\ editor[m].step = "create" /\ editor[m].day \in Int /\ UNCHANGED live
      BY DEF CreateStaged, ShapeInv, EditorOK
<1>. DEFINE row == [id |-> editor[m].id, column |-> editor[m].column, day |-> editor[m].day,
                    cents |-> editor[m].cents]
<1>2. \/ staged' = staged
      \/ editor'[m] = None /\ staged' = (staged \ Slot(editor[m])) \union {row}
  <2>1. CASE (\E r \in Slot(editor[m]) : r.id \notin editor[m].saw) \/ ~Exists(editor[m].column)
        BY <2>1, Zenon DEF CreateStaged
  <2>2. CASE ~((\E r \in Slot(editor[m]) : r.id \notin editor[m].saw) \/ ~Exists(editor[m].column))
        BY <2>2, SMT DEF CreateStaged, ShapeInv
  <2>. QED  BY <2>1, <2>2
<1>3. row.id = editor[m].id /\ row.column = editor[m].column /\ row.day = editor[m].day
      OBVIOUS
<1>. HIDE DEF row
<1>. QED  BY <1>1, <1>2, <1>3

LEMMA IdStep ==
    ASSUME ShapeInv, IdInv, [Next]_vars
    PROVE  IdInv'
<1>1. CASE UNCHANGED vars
      BY <1>1 DEF vars, menuVars, boardVars, cartVars, IdInv
<1>2. CASE Tick \/ Customer \/ addItemWindow \/ deleteItemWindow \/ (\E k \in Cooks : Cook(k))
  <2>1. /\ UNCHANGED <<staged, editor, doomed>>
        /\ left'.edits \in Nat /\ left'.edits <= left.edits /\ DOMAIN left' = DOMAIN left
        BY <1>2, Quiet
  <2>. QED  BY <2>1, IdFrame
<1>3. ASSUME NEW m \in Managers, ConfirmPanel(m) PROVE IdInv'
  <2>1. /\ UNCHANGED <<staged, doomed>>
        /\ left.edits > 0 /\ left' = [left EXCEPT !.edits = @ - 1]
        BY <1>3 DEF ConfirmPanel, menuVars
  <2>2. editor'[m].id = left /\ \A n \in Managers \ {m} : editor'[n] = editor[n]
        BY <1>3 DEF ConfirmPanel, Panel, ShapeInv
  <2>3. left'.edits \in Nat /\ left'.edits < left.edits /\ DOMAIN left' = DOMAIN left
        BY <2>1 DEF IdInv
  <2>4. \A r \in staged : r.id # left  BY DEF IdInv
  <2>5. \A n \in Managers \ {m} : editor[n] # None => editor[n].id # left  BY DEF IdInv
  <2>6. doomed # None => left \notin doomed.ids  BY DEF IdInv
  <2>7. \A n \in Managers : editor'[n] # None =>
          /\ editor'[n].id.edits > left'.edits /\ editor'[n].id.edits \in Nat
          /\ \A r \in staged' : r.id # editor'[n].id
          /\ \A k \in Managers \ {n} : editor'[k] # None => editor'[k].id # editor'[n].id
          /\ doomed' # None => editor'[n].id \notin doomed'.ids
        BY <2>1, <2>2, <2>3, <2>4, <2>5, <2>6 DEF IdInv
  <2>8. /\ \A r \in staged' : r.id.edits > left'.edits /\ r.id.edits \in Nat
        /\ doomed' # None => \A i \in doomed'.ids : i.edits > left'.edits /\ i.edits \in Nat
        BY <2>1, <2>3 DEF IdInv
  <2>. QED  BY <2>1, <2>3, <2>7, <2>8 DEF IdInv
<1>4. ASSUME NEW m \in Managers,
             ReadTarget(m) \/ CheckShown(m) \/ saveExtraSurcharge(m) \/ saveGroup(m)
               \/ writeLive(m) \/ DeleteStaged(m)
      PROVE  IdInv'
  <2>1. staged' \subseteq staged
        BY <1>4 DEF ReadTarget, CheckShown, saveExtraSurcharge, saveGroup, CompareRow,
             writeLive, DeleteStaged, menuVars
  <2>. QED  BY <1>4, <2>1, SaveGoesOn, IdFrame DEF IdInv
<1>5. ASSUME NEW m \in Managers, CreateStaged(m) PROVE IdInv'
  <2>1. CASE staged' = staged  BY <1>5, <2>1, SaveGoesOn, IdFrame DEF IdInv
  <2>2. CASE staged' # staged
    <3>1. PICK row : /\ row.id = editor[m].id /\ editor[m] # None /\ editor'[m] = None
                     /\ staged' = (staged \ Slot(editor[m])) \union {row}
          BY <1>5, <2>2, Created
    <3>2. /\ UNCHANGED <<doomed, left>>
          /\ \A n \in Managers : editor'[n] # None =>
                editor[n] # None /\ editor'[n].id = editor[n].id
          BY <1>5, SaveGoesOn
    <3>3. \A n \in Managers : editor'[n] # None => n # m /\ row.id # editor'[n].id
          BY <3>1, <3>2 DEF IdInv
    <3>4. row.id.edits > left'.edits /\ row.id.edits \in Nat  BY <3>1, <3>2 DEF IdInv
    <3>5. \A r \in staged : r.id # row.id  BY <3>1 DEF IdInv
    <3>6. \A r \in staged' : r \in staged \/ r = row  BY <3>1
    <3>7. \A r \in staged' : r.id.edits > left'.edits /\ r.id.edits \in Nat
          BY <3>2, <3>4, <3>6 DEF IdInv
    <3>8. \A r, s \in staged' : r.id = s.id => r = s  BY <3>5, <3>6 DEF IdInv
    <3>9. \A n \in Managers : editor'[n] # None =>
            /\ editor'[n].id.edits > left'.edits /\ editor'[n].id.edits \in Nat
            /\ \A r \in staged' : r.id # editor'[n].id
            /\ \A k \in Managers \ {n} : editor'[k] # None => editor'[k].id # editor'[n].id
            /\ doomed' # None => editor'[n].id \notin doomed'.ids
          BY <3>2, <3>3, <3>6 DEF IdInv
    <3>. QED  BY <3>2, <3>7, <3>8, <3>9 DEF IdInv
  <2>. QED  BY <2>1, <2>2
<1>6. CASE cancelStagedPrice \/ collectSupersededPrices
  <2>1. /\ UNCHANGED <<staged, editor, left>>
        /\ doomed' # None => \A i \in doomed'.ids : \E r \in staged : r.id = i
        BY <1>6 DEF cancelStagedPrice, collectSupersededPrices, Superseded, menuVars
  <2>2. doomed' # None =>
          /\ \A i \in doomed'.ids : i.edits > left.edits /\ i.edits \in Nat
          /\ \A m \in Managers : editor[m] # None => editor[m].id \notin doomed'.ids
        BY <2>1 DEF IdInv
  <2>. QED  BY <2>1, <2>2 DEF IdInv
<1>7. CASE DeleteDoomed
  <2>1. staged' \subseteq staged /\ UNCHANGED <<editor, left>> /\ doomed' = None
        BY <1>7 DEF DeleteDoomed
  <2>. QED  BY <2>1, IdFrame DEF IdInv
<1>8. CASE deleteGroup
  <2>1. /\ staged' \subseteq staged /\ UNCHANGED <<editor, doomed>>
        /\ left'.edits \in Nat /\ left'.edits <= left.edits /\ DOMAIN left' = DOMAIN left
        BY <1>8 DEF deleteGroup, IdInv
  <2>. QED  BY <2>1, IdFrame
<1>. QED
     BY <1>1, <1>2, <1>3, <1>4, <1>5, <1>6, <1>7, <1>8 DEF Next, Manager, Office

LEMMA SlotStep ==
    ASSUME ShapeInv, SlotInv, [Next]_vars
    PROVE  SlotInv'
<1>1. ASSUME staged' \subseteq staged PROVE SlotInv'
      BY <1>1, FS_Subset DEF SlotInv
<1>2. ASSUME NEW m \in Managers, CreateStaged(m) PROVE SlotInv'
  <2>1. CASE staged' = staged  BY <1>1, <2>1
  <2>2. CASE staged' # staged
    <3>1. PICK row : /\ row.column = editor[m].column /\ row.day = editor[m].day
                     /\ staged' = (staged \ Slot(editor[m])) \union {row}
          BY <1>2, <2>2, Created
    <3>2. IsFiniteSet(staged')
      <4>1. IsFiniteSet(staged \ Slot(editor[m]))  BY FS_Subset DEF SlotInv
      <4>. QED  BY <3>1, <4>1, FS_AddElement
    <3>3. \A r \in staged' : r = row \/ (r \in staged /\ ~(r.column = row.column /\ r.day = row.day))
          BY <3>1 DEF Slot
    <3>. QED  BY <3>2, <3>3 DEF SlotInv
  <2>. QED  BY <2>1, <2>2
<1>3. CASE UNCHANGED vars  BY <1>1, <1>3 DEF vars, menuVars
<1>4. CASE Tick \/ Customer \/ addItemWindow \/ deleteItemWindow \/ (\E k \in Cooks : Cook(k))
  <2>1. staged' = staged
        BY <1>4 DEF Tick, Customer, addLine, replaceLine, removeLine, confirmPrices, Submit,
           ReadStaged, ReadItem, ReadGroup, Read, placeOrder, addItemWindow, deleteItemWindow,
           Cook, Tap, setAvailability, menuVars
  <2>. QED  BY <1>1, <2>1
<1>5. ASSUME NEW m \in Managers, Manager(m), ~CreateStaged(m) PROVE SlotInv'
  <2>1. staged' \subseteq staged
        BY <1>5 DEF Manager, ConfirmPanel, ReadTarget, CheckShown, saveExtraSurcharge, saveGroup,
             CompareRow, writeLive, DeleteStaged, menuVars
  <2>. QED  BY <1>1, <2>1
<1>6. CASE cancelStagedPrice \/ collectSupersededPrices \/ DeleteDoomed \/ deleteGroup
  <2>1. staged' \subseteq staged
        BY <1>6 DEF cancelStagedPrice, collectSupersededPrices, DeleteDoomed, deleteGroup, menuVars
  <2>. QED  BY <1>1, <2>1
<1>. QED  BY <1>2, <1>3, <1>4, <1>5, <1>6 DEF Next, Office

LEMMA DaysGoOn ==
    ASSUME ShapeInv
    PROVE  /\ Today \in Int
           /\ now' \in 1..Len(Moments) /\ now <= now' => Today' \in Int /\ Today <= Today'
<1>1. Moments \in Seq([day : Nat, weekday : 0..6, minuteOfDay : 0..1439])
      BY MomentsAssumption
<1>2. DOMAIN Moments = 1..Len(Moments)  BY <1>1
<1>3. \A i \in 1..Len(Moments) : Moments[i].day \in Int
  <2>1. \A i \in 1..Len(Moments) : Moments[i] \in ToSet(Moments)  BY <1>2 DEF ToSet
  <2>. QED  BY <2>1, ClocksHaveDays
<1>. QED  BY <1>2, <1>3, MomentsAssumption DEF ShapeInv, Today, Clock

LEMMA DoomedStep ==
    ASSUME ShapeInv, ShapeInv', IdInv, SlotInv, DoomedInv, [Next]_vars
    PROVE  DoomedInv'
<1>1. ASSUME staged' = staged, doomed' = doomed, now' = now \/ Tick PROVE DoomedInv'
  <2>1. now <= now' /\ now' \in 1..Len(Moments)  BY <1>1 DEF Tick, ShapeInv
  <2>. QED  BY <1>1, <2>1, DaysGoOn DEF DoomedInv
<1>2. CASE UNCHANGED vars  BY <1>1, <1>2 DEF vars, menuVars
<1>3. CASE Tick \/ Customer \/ addItemWindow \/ deleteItemWindow \/ (\E k \in Cooks : Cook(k))
  <2>1. staged' = staged /\ doomed' = doomed  BY <1>3, Quiet
  <2>2. now' = now \/ Tick
        BY <1>3 DEF Customer, addLine, replaceLine, removeLine, confirmPrices, Submit,
           ReadStaged, ReadItem, ReadGroup, Read, placeOrder, addItemWindow, deleteItemWindow,
           Cook, Tap, setAvailability
  <2>. QED  BY <1>1, <2>1, <2>2
<1>4. ASSUME NEW m \in Managers,
             ConfirmPanel(m) \/ ReadTarget(m) \/ CheckShown(m) \/ saveExtraSurcharge(m)
               \/ saveGroup(m) \/ DeleteStaged(m)
      PROVE  DoomedInv'
  <2>1. staged' = staged /\ doomed' = doomed /\ now' = now
        BY <1>4 DEF ConfirmPanel, ReadTarget, CheckShown, saveExtraSurcharge, saveGroup,
             CompareRow, DeleteStaged, menuVars
  <2>. QED  BY <1>1, <2>1
\* A save for now that takes the later row takes the one under it too
<1>5. ASSUME NEW m \in Managers, writeLive(m) PROVE DoomedInv'
  <2>1. doomed' = doomed /\ now' = now  BY <1>5 DEF writeLive
  <2>2. CASE staged' = staged  BY <1>1, <2>1, <2>2
  <2>3. CASE staged' = staged \ Landed(editor[m].column, editor[m].today)
    <3>1. editor[m].today \in Int  BY <1>5 DEF writeLive, ShapeInv, EditorOK
    <3>2. \A r, s \in staged : r \in staged' /\ s.column = r.column /\ s.day > r.day => s \in staged'
          BY <2>3, <3>1 DEF Landed, ShapeInv
    <3>3. Today' = Today /\ staged' \subseteq staged  BY <2>1, <2>3 DEF Today, Clock
    <3>. QED  BY <2>1, <3>2, <3>3 DEF DoomedInv
  <2>. QED  BY <1>5, <2>2, <2>3 DEF writeLive
\* A row a save puts in another's place starts the same day
<1>6. ASSUME NEW m \in Managers, CreateStaged(m) PROVE DoomedInv'
  <2>1. doomed' = doomed /\ now' = now  BY <1>6 DEF CreateStaged
  <2>2. CASE staged' = staged  BY <1>1, <2>1, <2>2
  <2>3. CASE staged' # staged
    <3>1. PICK row : /\ row.id = editor[m].id /\ row.column = editor[m].column
                     /\ row.day = editor[m].day
                     /\ staged' = (staged \ Slot(editor[m])) \union {row}
          BY <1>6, <2>3, Created
    <3>2. Today' = Today  BY <2>1 DEF Today, Clock
    <3>3. doomed # None => row.id \notin doomed.ids  BY <1>6, <3>1, Created DEF IdInv
    <3>4. \A s \in staged : s \in staged' \/ (s.column = row.column /\ s.day = row.day)
          BY <3>1 DEF Slot
    <3>5. row \in staged' /\ \A r \in staged' : r = row \/ r \in staged  BY <3>1
    <3>. QED  BY <2>1, <3>2, <3>3, <3>4, <3>5 DEF DoomedInv
  <2>. QED  BY <2>2, <2>3
<1>7. CASE cancelStagedPrice
  <2>1. PICK row \in staged : row.day > Today /\ doomed' = [ids |-> {row.id}, today |-> Today]
        BY <1>7 DEF cancelStagedPrice
  <2>2. staged' = staged /\ Today' = Today  BY <1>7 DEF cancelStagedPrice, menuVars, Today, Clock
  <2>3. \A r \in staged' : r.id \in doomed'.ids => r.day > doomed'.today
        BY <2>1, <2>2 DEF IdInv
  <2>4. \A r \in staged' : r.day \in Int  BY DEF ShapeInv
  <2>. QED  BY <2>1, <2>2, <2>3, <2>4, DaysGoOn DEF DoomedInv
<1>8. CASE collectSupersededPrices
  <2>1. /\ doomed' = [ids |-> {r.id : r \in Superseded(Today)}, today |-> Today]
        /\ staged' = staged /\ Today' = Today
        BY <1>8 DEF collectSupersededPrices, menuVars, Today, Clock
  <2>2. ASSUME NEW r \in staged, r.id \in doomed'.ids
        PROVE  \E s \in staged : s.column = r.column /\ s.day > r.day /\ s.day <= Today
    <3>. DEFINE rows == Landed(r.column, Today)
    <3>1. r \in Superseded(Today)  BY <2>1, <2>2 DEF IdInv, Superseded
    <3>2. r \in rows /\ r # Latest(rows)  BY <3>1 DEF Superseded, Landed
    <3>3. IsFiniteSet(rows)  BY FS_Subset DEF SlotInv, Landed
    <3>4. \A s \in rows : s \in staged /\ s.column = r.column /\ s.day <= Today /\ s.day \in Int
          BY DEF Landed, ShapeInv
    <3>. HIDE DEF rows
    <3>5. Latest(rows) \in rows /\ r.day <= Latest(rows).day
          BY <3>2, <3>3, <3>4, LatestIsLast
    <3>6. r.day # Latest(rows).day  BY <3>2, <3>4, <3>5 DEF SlotInv
    <3>. QED  BY <3>2, <3>4, <3>5, <3>6
  <2>. QED  BY <2>1, <2>2, DaysGoOn DEF DoomedInv
<1>9. CASE DeleteDoomed  BY <1>9 DEF DeleteDoomed, DoomedInv
<1>10. CASE deleteGroup
  <2>1. /\ staged' = {r \in staged : r.column # "option"}
        /\ doomed' = doomed /\ Today' = Today
        BY <1>10 DEF deleteGroup, Today, Clock
  <2>. QED  BY <2>1 DEF DoomedInv
<1>. QED
     BY <1>2, <1>3, <1>4, <1>5, <1>6, <1>7, <1>8, <1>9, <1>10 DEF Next, Manager, Office

LEMMA BookHolds == Spec => [](ShapeInv /\ IdInv /\ SlotInv /\ DoomedInv)
<1>. DEFINE Inv == ShapeInv /\ IdInv /\ SlotInv /\ DoomedInv
<1>1. Init => Inv  BY ShapeInit, IdInit
<1>2. Inv /\ [Next]_vars => Inv'  BY ShapeStep, IdStep, SlotStep, DoomedStep
<1>. HIDE DEF Inv
<1>3. Spec => []Inv  BY <1>1, <1>2, PTL DEF Spec
<1>. QED  BY <1>3 DEF Inv

\* Where a deletion leaves something landed, it leaves the latest of it
LEMMA LatestStays ==
    ASSUME ShapeInv, SlotInv, NEW kept \in SUBSET staged, NEW c, NEW day \in Int,
           Landed(c, day) # {}, Latest(Landed(c, day)) \in kept
    PROVE  /\ Landed(c, day) \cap kept # {}
           /\ Latest(Landed(c, day) \cap kept) = Latest(Landed(c, day))
<1>. DEFINE all  == Landed(c, day)
            some == all \cap kept
<1>1. \A r \in all : r \in staged /\ r.column = c /\ r.day \in Int
      BY DEF Landed, ShapeInv
<1>2. IsFiniteSet(all) /\ IsFiniteSet(some)  BY FS_Subset DEF SlotInv, Landed
<1>3. \A r, s \in all : r.day = s.day => r = s  BY <1>1 DEF SlotInv
<1>. HIDE DEF all
<1>4. Latest(all) \in all /\ \A s \in all : s.day <= Latest(all).day
      BY <1>1, <1>2, LatestIsLast DEF all
<1>5. some # {} /\ Latest(all) \in some  BY <1>4 DEF all
<1>6. /\ \A r \in some : r \in all /\ r.day \in Int
      /\ some # {} /\ IsFiniteSet(some)
      BY <1>1, <1>2, <1>5
<1>. HIDE DEF some
<1>7. Latest(some) \in some /\ \A s \in some : s.day <= Latest(some).day
      BY <1>6, LatestIsLast
<1>8. Latest(some).day = Latest(all).day  BY <1>1, <1>4, <1>5, <1>6, <1>7
<1>. QED  BY <1>3, <1>4, <1>5, <1>6, <1>7, <1>8 DEF all, some

LEMMA PriceStays ==
    ASSUME ShapeInv, NEW c \in Rows, live'[c] = live[c], now' = now,
           \/ Landed(c, Today)' = Landed(c, Today)
           \/ /\ Landed(c, Today) # {} /\ Landed(c, Today)' # {}
              /\ Latest(Landed(c, Today)') = Latest(Landed(c, Today))
    PROVE  PriceOn(c, Today)' = PriceOn(c, Today)
<1>1. effectivePrices(Today)[c]
          = IF Landed(c, Today) = {} THEN None ELSE Latest(Landed(c, Today)).cents
      BY DEF effectivePrices
<1>2. effectivePrices(Today)'[c]
          = IF Landed(c, Today)' = {} THEN None ELSE Latest(Landed(c, Today)').cents
      BY DEF effectivePrices
<1>3. effectivePrices(Today)'[c] = effectivePrices(Today)[c]  BY <1>1, <1>2
<1>. QED  BY <1>3 DEF PriceOn, Resolved

LEMMA CleanUpStep ==
    ASSUME ShapeInv, IdInv, SlotInv, DoomedInv, [Next]_vars,
           now' = now, editor' = editor, NEW c \in Rows, There(c)'
    PROVE  \/ PriceOn(c, Today)' = PriceOn(c, Today)
           \/ \E r \in Landed(c, Today) \ staged' : r.day > doomed.today
<1>. DEFINE Goal == \/ PriceOn(c, Today)' = PriceOn(c, Today)
                   \/ \E r \in Landed(c, Today) \ staged' : r.day > doomed.today
<1>1. ASSUME staged' = staged, live' = live PROVE Goal
  <2>1. Landed(c, Today)' = Landed(c, Today)  BY <1>1 DEF Landed, Today, Clock
  <2>. QED  BY <1>1, <2>1, PriceStays
<1>2. CASE UNCHANGED vars  BY <1>1, <1>2 DEF vars, menuVars
<1>3. CASE Tick \/ Customer \/ addItemWindow \/ deleteItemWindow \/ (\E k \in Cooks : Cook(k))
  <2>1. staged' = staged /\ live' = live  BY <1>3, Quiet
  <2>. QED  BY <1>1, <2>1
<1>4. ASSUME NEW m \in Managers,
             ConfirmPanel(m) \/ ReadTarget(m) \/ CheckShown(m) \/ saveExtraSurcharge(m)
               \/ saveGroup(m) \/ DeleteStaged(m)
      PROVE  Goal
  <2>1. staged' = staged /\ live' = live
        BY <1>4 DEF ConfirmPanel, ReadTarget, CheckShown, saveExtraSurcharge, saveGroup,
             CompareRow, DeleteStaged, menuVars
  <2>. QED  BY <1>1, <2>1
<1>5. ASSUME NEW m \in Managers, writeLive(m) PROVE FALSE
      BY <1>5 DEF writeLive, ShapeInv
<1>6. ASSUME NEW m \in Managers, CreateStaged(m) PROVE Goal
  <2>1. staged' = staged /\ live' = live  BY <1>6, Created
  <2>. QED  BY <1>1, <2>1
<1>7. CASE cancelStagedPrice \/ collectSupersededPrices
  <2>1. staged' = staged /\ live' = live
        BY <1>7 DEF cancelStagedPrice, collectSupersededPrices, menuVars
  <2>. QED  BY <1>1, <2>1
\* The group takes its option's price with it, and no other
<1>8. CASE deleteGroup
  <2>1. c = "item"  BY <1>8 DEF deleteGroup, There, Rows
  <2>2. Landed(c, Today)' = Landed(c, Today)
        BY <1>8, <2>1 DEF deleteGroup, Landed, Today, Clock
  <2>. QED  BY <1>8, <2>2, PriceStays DEF deleteGroup
\* A row that had landed when the ids were read is deleted under a later one
<1>9. CASE DeleteDoomed
  <2>. SUFFICES ASSUME \A r \in Landed(c, Today) \ staged' : ~(r.day > doomed.today)
                PROVE  PriceOn(c, Today)' = PriceOn(c, Today)
       OBVIOUS
  <2>1. /\ staged' = {r \in staged : r.id \notin doomed.ids}
        /\ live' = live /\ doomed # None
        BY <1>9 DEF DeleteDoomed
  <2>2. Landed(c, Today)' = Landed(c, Today) \cap staged'
        BY <2>1 DEF Landed, Today, Clock
  <2>3. Today \in Int  BY DaysGoOn
  <2>4. CASE Landed(c, Today) = {}  BY <2>1, <2>2, <2>4, PriceStays
  <2>5. CASE Landed(c, Today) # {}
    <3>. DEFINE all  == Landed(c, Today)
                last == Latest(all)
    <3>1. \A r \in all : r \in staged /\ r.column = c /\ r.day <= Today /\ r.day \in Int
          BY DEF Landed, ShapeInv
    <3>2. IsFiniteSet(all)  BY FS_Subset DEF SlotInv, Landed
    <3>3. last \in all /\ \A s \in all : s.day <= last.day
          BY <2>5, <3>1, <3>2, LatestIsLast
    <3>4. last \in staged'
      <4>. SUFFICES ASSUME last \notin staged' PROVE FALSE  OBVIOUS
      <4>1. last \in staged /\ last.id \in doomed.ids  BY <2>1, <3>1, <3>3
      <4>2. last.day <= doomed.today  BY <2>1, <3>1, <3>3 DEF DoomedInv
      <4>3. PICK s \in staged : /\ s.column = last.column
                                /\ s.day > last.day
                                /\ s.day <= doomed.today
            BY <2>1, <4>1, <4>2 DEF DoomedInv
      <4>4. s \in all
            BY <2>1, <2>3, <3>1, <3>3, <4>3 DEF DoomedInv, Landed, ShapeInv
      <4>. QED  BY <3>1, <3>3, <4>3, <4>4
    <3>5. staged' \in SUBSET staged  BY <2>1
    <3>6. /\ Landed(c, Today) \cap staged' # {}
          /\ Latest(Landed(c, Today) \cap staged') = Latest(Landed(c, Today))
          BY <2>3, <2>5, <3>4, <3>5, LatestStays
    <3>. QED  BY <2>1, <2>2, <2>5, <3>6, PriceStays
  <2>. QED  BY <2>4, <2>5
<1>. QED
     BY <1>2, <1>3, <1>4, <1>5, <1>6, <1>7, <1>8, <1>9 DEF Next, Manager, Office

\* No price in force is moved by collecting what is superseded or by deleting a
\* group, and none by a cancellation unless it landed after the cancellation read
\* its day (collectSupersededPrices, cancelStagedPrice, deleteGroup).
THEOREM CleanUpKeepsPrices == Spec => CleanUpMovesNoPrice
<1>1. ShapeInv /\ IdInv /\ SlotInv /\ DoomedInv /\ [Next]_vars
        => [now' = now /\ editor' = editor =>
              \A c \in Rows : \/ There(c)' => PriceOn(c, Today)' = PriceOn(c, Today)
                               \/ \E r \in Landed(c, Today) \ staged' : r.day > doomed.today]_vars
      BY CleanUpStep
<1>. QED  BY <1>1, BookHolds, PTL DEF Spec, CleanUpMovesNoPrice

-----------------------------------------------------------------------------
(* Saves *)

\* A step moves a manager's save on only by one of that manager's actions
LEMMA SaveSteps ==
    ASSUME ShapeInv, Next, NEW m \in Managers
    PROVE  editor'[m] = editor[m] \/ Manager(m)
<1>1. CASE Tick \/ Customer
      BY <1>1 DEF Tick, Customer, addLine, replaceLine, removeLine, confirmPrices, Submit,
         ReadStaged, ReadItem, ReadGroup, Read, placeOrder
<1>2. CASE Office
      BY <1>2 DEF Office, cancelStagedPrice, collectSupersededPrices, DeleteDoomed,
         deleteGroup, addItemWindow, deleteItemWindow
<1>3. ASSUME NEW n \in Managers, Manager(n) PROVE editor'[m] = editor[m] \/ n = m
  <2>1. \E next : editor' = [editor EXCEPT ![n] = next]
        BY <1>3, Zenon DEF Manager, ConfirmPanel, ReadTarget, CheckShown, saveExtraSurcharge,
           saveGroup, CompareRow, writeLive, DeleteStaged, CreateStaged
  <2>. QED  BY <2>1 DEF ShapeInv
<1>4. ASSUME NEW k \in Cooks, Cook(k) PROVE editor'[m] = editor[m]
      BY <1>4 DEF Cook, Tap, setAvailability
<1>. QED  BY <1>1, <1>2, <1>3, <1>4 DEF Next

\* A row is staged by a save that ends with it
LEMMA RowSteps ==
    ASSUME ShapeInv, Next, NEW r \in staged', r \notin staged
    PROVE  \E n \in Managers :
              /\ CreateStaged(n)
              /\ editor[n] # None
              /\ r.id = editor[n].id
              /\ r.cents = editor[n].cents
<1>1. staged' \subseteq staged \/ \E n \in Managers : CreateStaged(n)
  <2>1. CASE Tick \/ Customer
        BY <2>1 DEF Tick, Customer, addLine, replaceLine, removeLine, confirmPrices, Submit,
           ReadStaged, ReadItem, ReadGroup, Read, placeOrder, menuVars
  <2>2. CASE Office
        BY <2>2 DEF Office, cancelStagedPrice, collectSupersededPrices, DeleteDoomed,
           deleteGroup, addItemWindow, deleteItemWindow, menuVars
  <2>3. ASSUME NEW n \in Managers, Manager(n) PROVE staged' \subseteq staged \/ CreateStaged(n)
        BY <2>3 DEF Manager, ConfirmPanel, ReadTarget, CheckShown, saveExtraSurcharge,
           saveGroup, CompareRow, writeLive, DeleteStaged, menuVars
  <2>4. ASSUME NEW k \in Cooks, Cook(k) PROVE staged' = staged
        BY <2>4 DEF Cook, Tap, setAvailability, menuVars
  <2>. QED  BY <2>1, <2>2, <2>3, <2>4 DEF Next
<1>2. PICK n \in Managers : CreateStaged(n)  BY <1>1
<1>. DEFINE row == [id |-> editor[n].id, column |-> editor[n].column, day |-> editor[n].day,
                    cents |-> editor[n].cents]
<1>3. staged' = staged \/ staged' = (staged \ Slot(editor[n])) \union {row}
      BY <1>2, Zenon DEF CreateStaged
<1>4. r = row  BY <1>3
<1>. QED  BY <1>2, <1>4 DEF CreateStaged

\* The columns, the rows staged and the saves are what they should be
TypedInv ==
    /\ left \in Purses
    /\ live \in [Columns -> Int]
    /\ staged \subseteq [id : Purses, column : Columns, day : Int, cents : Int]
    /\ editor \in [Managers -> Saves \union {None}]
    /\ cookie # None \/ request # None => left.orders > 0

\* A column is worth its last landed price, or what stands in it
LEMMA WorthLanded ==
    ASSUME ShapeInv, SlotInv, TypedInv, NEW column \in Rows
    PROVE  /\ Landed(column, Today) = {} =>
                /\ effectivePrices(Today)[column] = None
                /\ InForce(column) = live[column]
           /\ Landed(column, Today) # {} =>
                /\ effectivePrices(Today)[column] \in Int \ {None}
                /\ InForce(column) = effectivePrices(Today)[column]
<1>. DEFINE rows == Landed(column, Today)
<1>1. effectivePrices(Today)[column] = IF rows = {} THEN None ELSE Latest(rows).cents
      BY DEF effectivePrices
<1>2. CASE rows = {}  BY <1>1, <1>2 DEF InForce, PriceOn, Resolved
<1>3. CASE rows # {}
  <2>1. \A r \in rows : r.day \in Int /\ r.cents \in Int
        BY DEF Landed, ShapeInv, TypedInv
  <2>2. IsFiniteSet(rows)  BY FS_Subset DEF Landed, SlotInv
  <2>3. Latest(rows) \in rows
    <3>. HIDE DEF rows
    <3>. QED  BY <1>3, <2>1, <2>2, LatestIsLast
  <2>4. Latest(rows).cents \in Int \ {None}  BY <2>1, <2>3, AmountsAssumption
  <2>. QED  BY <1>1, <1>3, <2>4 DEF InForce, PriceOn, Resolved
<1>. QED  BY <1>2, <1>3

\* What is in force is a number, or the column of no row.
LEMMA PricesAreNumbers ==
    ASSUME ShapeInv, SlotInv, TypedInv, NEW column \in Columns
    PROVE  InForce(column) \in Int
<1>1. live[column] \in Int  BY DEF TypedInv
<1>2. CASE column \in Rows  BY <1>1, <1>2, WorthLanded
<1>3. CASE column \notin Rows  BY <1>1, <1>3 DEF InForce, PriceOn, Resolved
<1>. QED  BY <1>2, <1>3

\* A save that goes on is still a save
LEMMA SavesGoOn ==
    ASSUME NEW e \in Saves, NEW step \in {"panel", "target", "write", "delete", "create"}
    PROVE  /\ [e EXCEPT !.step = step] \in Saves
           /\ \A cents \in Int : [e EXCEPT !.step = step, !.read = cents] \in Saves
           /\ \A day \in Int : [e EXCEPT !.step = step, !.today = day] \in Saves
           /\ \A ids \in SUBSET Purses : [e EXCEPT !.step = step, !.saw = ids] \in Saves
           /\ [e EXCEPT !.step = step, !.attempt = @ + 1] \in Saves
<1>1. [e EXCEPT !.step = step] \in Saves  BY DEF Saves
<1>2. ASSUME NEW cents \in Int PROVE [e EXCEPT !.step = step, !.read = cents] \in Saves
      BY <1>2 DEF Saves
<1>3. ASSUME NEW day \in Int PROVE [e EXCEPT !.step = step, !.today = day] \in Saves
      BY <1>3 DEF Saves
<1>4. ASSUME NEW ids \in SUBSET Purses PROVE [e EXCEPT !.step = step, !.saw = ids] \in Saves
      BY <1>4 DEF Saves
<1>5. [e EXCEPT !.step = step, !.attempt = @ + 1] \in Saves
  <2>1. \A n \in Nat : [e EXCEPT !.step = step, !.attempt = n] \in Saves  BY DEF Saves
  <2>2. e.attempt + 1 \in Nat  BY DEF Saves
  <2>. QED  BY <2>1, <2>2, Zenon
<1>. QED  BY <1>1, <1>2, <1>3, <1>4, <1>5

\* A line or a request in flight has an order left to it, and nothing is overspent
LEMMA PurseStep ==
    ASSUME TypedInv,
           \/ Tick \/ Customer \/ Office \/ (\E m \in Managers : Manager(m))
           \/ (\E k \in Cooks : Cook(k))
    PROVE  /\ left' \in Purses
           /\ cookie' # None \/ request' # None => left'.orders > 0
<1>. USE DEF TypedInv
<1>1. CASE placeOrder
  <2>1. request # None  BY <1>1 DEF placeOrder, HasRead
  <2>2. \/ left' = left /\ cookie' = cookie
        \/ left' = [left EXCEPT !.orders = @ - 1] /\ cookie' = None
        BY <1>1, Zenon DEF placeOrder
  <2>3. request' = None  BY <1>1 DEF placeOrder
  <2>4. left.orders > 0 => [left EXCEPT !.orders = @ - 1] \in Purses  BY DEF Purses
  <2>. QED  BY <2>1, <2>2, <2>3, <2>4
<1>2. CASE Customer
      BY <1>1, <1>2 DEF Customer, addLine, replaceLine, removeLine, confirmPrices, Submit,
         ReadStaged, ReadItem, ReadGroup, Read
<1>3. CASE Tick  BY <1>3 DEF Tick, cartVars
<1>4. CASE Office
  <2>1. left' = left \/ (left.edits > 0 /\ left' = [left EXCEPT !.edits = @ - 1])
        BY <1>4, Zenon DEF Office, cancelStagedPrice, collectSupersededPrices, DeleteDoomed,
           deleteGroup, addItemWindow, deleteItemWindow
  <2>2. cookie' = cookie /\ request' = request
        BY <1>4 DEF Office, cancelStagedPrice, collectSupersededPrices, DeleteDoomed,
           deleteGroup, addItemWindow, deleteItemWindow, cartVars
  <2>. QED  BY <2>1, <2>2 DEF Purses
<1>5. ASSUME NEW m \in Managers, Manager(m)
      PROVE  /\ left' \in Purses
             /\ cookie' # None \/ request' # None => left'.orders > 0
  <2>1. left' = left \/ (left.edits > 0 /\ left' = [left EXCEPT !.edits = @ - 1])
        BY <1>5, Zenon DEF Manager, ConfirmPanel, ReadTarget, CheckShown, saveExtraSurcharge,
           saveGroup, CompareRow, writeLive, DeleteStaged, CreateStaged
  <2>2. cookie' = cookie /\ request' = request
        BY <1>5 DEF Manager, ConfirmPanel, ReadTarget, CheckShown, saveExtraSurcharge,
           saveGroup, CompareRow, writeLive, DeleteStaged, CreateStaged, cartVars
  <2>. QED  BY <2>1, <2>2 DEF Purses
<1>6. ASSUME NEW k \in Cooks, Cook(k)
      PROVE  /\ left' \in Purses
             /\ cookie' # None \/ request' # None => left'.orders > 0
  <2>1. left' = left \/ (left.batches > 0 /\ left' = [left EXCEPT !.batches = @ - 1])
        BY <1>6, Zenon DEF Cook, Tap, setAvailability
  <2>2. cookie' = cookie /\ request' = request
        BY <1>6 DEF Cook, Tap, setAvailability, cartVars
  <2>. QED  BY <2>1, <2>2 DEF Purses
<1>. QED  BY <1>2, <1>3, <1>4, <1>5, <1>6

LEMMA TypedStep ==
    ASSUME ShapeInv, SlotInv, TypedInv, [Next]_vars
    PROVE  TypedInv'
<1>. USE DEF TypedInv
<1>1. CASE UNCHANGED vars  BY <1>1 DEF vars, menuVars, cartVars
<1>2. Today \in Int  BY ClocksHaveDays DEF ShapeInv
<1>3. CASE Tick \/ Customer \/ Office \/ (\E k \in Cooks : Cook(k))
  <2>1. live' = live /\ staged' \subseteq staged /\ editor' = editor
        BY <1>3 DEF Tick, Customer, addLine, replaceLine, removeLine, confirmPrices, Submit,
           ReadStaged, ReadItem, ReadGroup, Read, placeOrder, Office, cancelStagedPrice,
           collectSupersededPrices, DeleteDoomed, deleteGroup, addItemWindow, deleteItemWindow,
           Cook, Tap, setAvailability, menuVars
  <2>. QED  BY <1>3, <2>1, PurseStep
<1>4. ASSUME NEW m \in Managers, ConfirmPanel(m) PROVE TypedInv'
  <2>1. PICK column \in left.kinds \cap Columns, cents \in Amounts,
             day \in {None} \union {c.day : c \in ToSet(Moments)} :
             editor' = [editor EXCEPT ![m] = Panel(column, cents, day)]
        BY <1>4 DEF ConfirmPanel
  <2>2. InForce(column) \in Int  BY <2>1, PricesAreNumbers
  <2>3. day \in Int \union {None} /\ cents \in Int
        BY <2>1, ClocksHaveDays, AmountsAssumption
  <2>4. Panel(column, cents, day) \in Saves
    <3>. HIDE DEF Purses
    <3>. QED  BY <2>1, <2>2, <2>3 DEF Panel, InForce, Saves
  <2>5. UNCHANGED <<live, staged>>  BY <1>4 DEF ConfirmPanel, menuVars
  <2>6. Manager(m)  BY <1>4 DEF Manager
  <2>. QED  BY <2>1, <2>4, <2>5, <2>6, PurseStep
<1>5. ASSUME NEW m \in Managers,
             \/ ReadTarget(m) \/ CheckShown(m) \/ saveExtraSurcharge(m) \/ saveGroup(m)
             \/ writeLive(m) \/ DeleteStaged(m) \/ CreateStaged(m)
      PROVE  TypedInv'
  <2>. DEFINE e == editor[m]
  <2>1. e \in Saves  BY <1>5 DEF ReadTarget, CheckShown, saveExtraSurcharge, saveGroup,
                        CompareRow, writeLive, DeleteStaged, CreateStaged
  <2>2. Manager(m)  BY <1>5 DEF Manager
  <2>3. \A r \in staged : r.id \in Purses  OBVIOUS
  <2>4. \E next \in Saves \union {None} : editor' = [editor EXCEPT ![m] = next]
    <3>1. CASE saveExtraSurcharge(m) \/ saveGroup(m)
          BY <1>2, <2>1, <3>1, SavesGoOn, Zenon DEF saveExtraSurcharge, saveGroup, CompareRow
    <3>2. CASE ReadTarget(m)
      <4>1. e.column \in Rows => live[e.column] \in Int  BY DEF Rows, Columns
      <4>. QED  BY <2>1, <3>2, <4>1, SavesGoOn, Zenon DEF ReadTarget
    <3>3. CASE CheckShown(m)
      <4>1. (IF e.day = None THEN "write" ELSE "delete") \in {"write", "delete"}  OBVIOUS
      <4>. QED  BY <1>2, <2>1, <3>3, <4>1, SavesGoOn, Zenon DEF CheckShown
    <3>4. CASE DeleteStaged(m)
      <4>1. {r.id : r \in Slot(e)} \in SUBSET Purses  BY <2>3 DEF Slot
      <4>. QED  BY <2>1, <3>4, <4>1, SavesGoOn, Zenon DEF DeleteStaged
    <3>5. CASE CreateStaged(m)  BY <2>1, <3>5, SavesGoOn, Zenon DEF CreateStaged
    <3>6. CASE writeLive(m)  BY <3>6, Zenon DEF writeLive
    <3>. QED  BY <1>5, <3>1, <3>2, <3>3, <3>4, <3>5, <3>6
  <2>5. live' \in [Columns -> Int]
    <3>1. e.column \in Columns /\ e.cents \in Int  BY <2>1 DEF Saves
    <3>. QED  BY <1>5, <3>1 DEF ReadTarget, CheckShown, saveExtraSurcharge, saveGroup,
              CompareRow, writeLive, DeleteStaged, CreateStaged, menuVars
  <2>6. staged' \subseteq [id : Purses, column : Columns, day : Int, cents : Int]
    <3>1. CASE CreateStaged(m)
      <4>. DEFINE row == [id |-> e.id, column |-> e.column, day |-> e.day, cents |-> e.cents]
      <4>1. staged' = staged \/ staged' = (staged \ Slot(e)) \union {row}
            BY <3>1, Zenon DEF CreateStaged
      <4>2. e.day \in Int  BY <3>1, Created
      <4>3. row \in [id : Purses, column : Columns, day : Int, cents : Int]
        <5>. HIDE DEF Purses
        <5>. QED  BY <2>1, <4>2 DEF Saves
      <4>. HIDE DEF row
      <4>. QED  BY <4>1, <4>3
    <3>2. CASE ~CreateStaged(m)
      <4>1. staged' \subseteq staged
            BY <1>5, <3>2 DEF ReadTarget, CheckShown, saveExtraSurcharge, saveGroup,
               CompareRow, writeLive, DeleteStaged, menuVars
      <4>. QED  BY <4>1
    <3>. QED  BY <3>1, <3>2
  <2>. QED  BY <2>2, <2>4, <2>5, <2>6, PurseStep
<1>. QED  BY <1>1, <1>3, <1>4, <1>5 DEF Next, Manager

\* What a save saw in force: while the staged prices are still to be read, the
\* column it read if nothing has landed over it; past the check, what its panel
\* showed.  None if a landed price was typed over meanwhile.
SeenInv ==
    \A m \in Managers : editor[m] # None =>
        /\ editor[m].step = "target" /\ Landed(editor[m].column, Today) = {}
              => {editor[m].read, None} \cap witnessed[m] # {}
        /\ editor[m].step \in {"write", "delete", "create"}
              => {editor[m].shown, None} \cap witnessed[m] # {}

\* Before it is read, and from one step to the next, what is in force is noted
LEMMA Witnessing ==
    ASSUME Next, NEW m \in Managers, editor'[m] # None, editor'[m].step # "panel",
           editor'[m].column = editor[m].column
    PROVE  /\ witnessed[m] \subseteq witnessed'[m]
           /\ InForce(editor[m].column) \in witnessed'[m]
           /\ Landed(editor[m].column, Today) # {} /\ Landed(editor[m].column, Today)' = {}
                  => None \in witnessed'[m]
BY Zenon DEF Next, Watch

\* A save past its check has witnessed the price its panel showed.
LEMMA SeenStep ==
    ASSUME ShapeInv, SlotInv, TypedInv, SeenInv, [Next]_vars
    PROVE  SeenInv'
<1>1. CASE UNCHANGED vars
      BY <1>1 DEF vars, menuVars, SeenInv, Landed, Today, Clock
<1>2. CASE Next
  <2>. SUFFICES ASSUME NEW m \in Managers, editor'[m] # None, editor'[m].step # "panel"
                PROVE  /\ editor'[m].step = "target" /\ Landed(editor[m].column, Today)' = {}
                            => {editor'[m].read, None} \cap witnessed'[m] # {}
                       /\ editor'[m].step \in {"write", "delete", "create"}
                            => {editor'[m].shown, None} \cap witnessed'[m] # {}
       BY DEF SeenInv
  <2>1. CASE editor'[m] = editor[m]
        BY <1>2, <2>1, Witnessing DEF SeenInv
  <2>2. CASE ConfirmPanel(m)
    <3>1. \E column, cents, day : editor' = [editor EXCEPT ![m] = Panel(column, cents, day)]
          BY <2>2 DEF ConfirmPanel
    <3>. QED  BY <3>1 DEF ShapeInv, Panel
  \* The surcharge or the group is what is in force: nothing is staged for it
  <2>3. CASE saveExtraSurcharge(m) \/ saveGroup(m)
    <3>1. PICK column \in {"extra", "group"} : CompareRow(m, column)
          BY <2>3 DEF saveExtraSurcharge, saveGroup
    <3>2. /\ editor[m] # None /\ editor[m].column = column
          /\ editor'[m] = [editor[m] EXCEPT !.step = "write", !.today = Today]
          /\ editor[m].shown = live[column]
          BY <3>1 DEF CompareRow, ShapeInv, stale
    <3>3. /\ editor'[m].column = column /\ editor'[m].shown = live[column]
          /\ editor'[m].step = "write"
          BY <3>2 DEF ShapeInv, EditorOK
    <3>4. InForce(column) = live[column]
          BY <3>1 DEF InForce, PriceOn, Resolved, Rows
    <3>. QED  BY <1>2, <3>2, <3>3, <3>4, Witnessing
  \* With nothing landed, the column read is what is in force
  <2>4. CASE ReadTarget(m)
    <3>1. /\ editor[m] # None /\ editor[m].column \in Rows
          /\ editor'[m] = [editor[m] EXCEPT !.step = "target", !.read = live[editor[m].column]]
          /\ UNCHANGED <<now, staged>>
          BY <2>4 DEF ReadTarget, ShapeInv, menuVars
    <3>2. /\ editor'[m].column = editor[m].column
          /\ editor'[m].step = "target"
          /\ editor'[m].read = live[editor[m].column]
          BY <3>1 DEF ShapeInv, EditorOK
    <3>3. Landed(editor[m].column, Today)' = Landed(editor[m].column, Today)
          BY <3>1, <3>2 DEF Landed, Today, Clock
    <3>. QED  BY <1>2, <3>1, <3>2, <3>3, Witnessing, WorthLanded
  \* What is compared is what has landed, or what was seen in the column
  <2>5. CASE CheckShown(m)
    <3>. DEFINE column == editor[m].column
    <3>1. /\ editor[m] # None /\ editor[m].step = "target" /\ column \in Rows
          /\ editor[m].shown = Resolved(column, effectivePrices(Today), editor[m].read)
          BY <2>5 DEF CheckShown, ShapeInv, EditorOK, stale
    <3>2. /\ editor'[m].column = column
          /\ editor'[m].shown = editor[m].shown
          /\ editor'[m].step \in {"write", "delete"}
          BY <2>5 DEF CheckShown, ShapeInv, EditorOK
    <3>3. /\ witnessed[m] \subseteq witnessed'[m]
          /\ InForce(column) \in witnessed'[m]
          BY <1>2, <3>2, Witnessing
    <3>4. CASE Landed(column, Today) = {}
      <4>1. editor[m].shown = editor[m].read
            BY <3>1, <3>4, WorthLanded DEF Resolved
      <4>2. {editor[m].read, None} \cap witnessed[m] # {}  BY <3>1, <3>4 DEF SeenInv
      <4>. QED  BY <3>2, <3>3, <4>1, <4>2
    <3>5. CASE Landed(column, Today) # {}
      <4>1. editor[m].shown = InForce(column)
            BY <3>1, <3>5, WorthLanded DEF Resolved
      <4>. QED  BY <3>2, <3>3, <4>1
    <3>. QED  BY <3>4, <3>5
  <2>6. CASE writeLive(m) \/ DeleteStaged(m) \/ CreateStaged(m)
    <3>1. /\ editor[m] # None /\ editor[m].step \in {"delete", "create"}
          /\ editor'[m].column = editor[m].column
          /\ editor'[m].shown = editor[m].shown
          /\ editor'[m].step \in {"delete", "create"}
          BY <2>6 DEF writeLive, DeleteStaged, CreateStaged, ShapeInv, EditorOK
    <3>. QED  BY <1>2, <3>1, Witnessing DEF SeenInv
  <2>. QED
       BY <1>2, <2>1, <2>2, <2>3, <2>4, <2>5, <2>6, SaveSteps DEF Manager
<1>. QED  BY <1>1, <1>2

LEMMA TypedInit == Init => TypedInv
<1>1. FirstPrices \in [Columns -> Int]  BY FirstPricesAssumption, AmountsAssumption
<1>. QED  BY <1>1, BudgetsAssumption DEF Init, TypedInv

\* Both halves of what a save carries hold in every reachable state.
LEMMA SavesHold == Spec => [](ShapeInv /\ SlotInv /\ TypedInv /\ SeenInv)
<1>. DEFINE Inv == ShapeInv /\ SlotInv /\ TypedInv /\ SeenInv
<1>1. Init => Inv
  <2>1. Init => ShapeInv /\ SlotInv /\ TypedInv  BY ShapeInit, IdInit, TypedInit
  <2>. QED  BY <2>1 DEF Init, SeenInv
<1>2. Inv /\ [Next]_vars => Inv'  BY ShapeStep, SlotStep, TypedStep, SeenStep
<1>. HIDE DEF Inv
<1>3. Spec => []Inv  BY <1>1, <1>2, PTL DEF Spec
<1>. QED  BY <1>3 DEF Inv

\* The price columns hold numbers, staged rows and saves in flight are whole, and
\* the budget is never overspent, by an order least of all.
THEOREM BookTypeCorrect == Spec => []TypedInv
BY SavesHold, PTL

\* A save past its check was shown a price that was in force at some instant of
\* it, or a landed price was typed over while it ran (saveItemPrice, stale).
THEOREM SavedAsSeen == Spec => []SavedAgainstWhatWasSeen
<1>1. SeenInv => SavedAgainstWhatWasSeen  BY DEF SeenInv, SavedAgainstWhatWasSeen
<1>. QED  BY <1>1, SavesHold, PTL

-----------------------------------------------------------------------------
(* Rivals *)

\* What a save was overtaken by is spent: no save still running has its id, and
\* none to come will get it
SpentInv ==
    \A m \in Managers : \A i \in rivals[m] :
        /\ i.edits > left.edits /\ i.edits \in Nat
        /\ \A n \in Managers : editor[n] # None => editor[n].id # i

\* A rival for every attempt behind, and one more in the slot if this one is raced
RivalInv ==
    \A m \in Managers :
        /\ IsFiniteSet(rivals[m])
        /\ editor[m] # None =>
              /\ editor[m].attempt \in Nat
              /\ editor[m].step \notin {"delete", "create"} => editor[m].attempt = 0
              /\ Cardinality(rivals[m]) >= editor[m].attempt
              /\ editor[m].step = "create" /\ (\E r \in Slot(editor[m]) : r.id \notin editor[m].saw)
                    => Cardinality(rivals[m]) >= editor[m].attempt + 1

\* A save is known by the budget its panel was opened on, and budget only shrinks
LEMMA IdSteps ==
    ASSUME ShapeInv, IdInv, Next
    PROVE  /\ left'.edits <= left.edits
           /\ \A n \in Managers : editor'[n] # None =>
                 editor'[n].id = left \/ (editor[n] # None /\ editor'[n].id = editor[n].id)
<1>1. CASE Tick \/ Customer \/ addItemWindow \/ deleteItemWindow \/ (\E k \in Cooks : Cook(k))
      BY <1>1, Quiet
<1>2. CASE cancelStagedPrice \/ collectSupersededPrices \/ DeleteDoomed \/ deleteGroup
      BY <1>2 DEF cancelStagedPrice, collectSupersededPrices, DeleteDoomed, deleteGroup, IdInv
<1>3. ASSUME NEW m \in Managers, ConfirmPanel(m)
      PROVE  /\ left'.edits <= left.edits
             /\ \A n \in Managers : editor'[n] # None =>
                   editor'[n].id = left \/ (editor[n] # None /\ editor'[n].id = editor[n].id)
      BY <1>3 DEF ConfirmPanel, Panel, ShapeInv, IdInv
<1>4. ASSUME NEW m \in Managers, Manager(m), ~ConfirmPanel(m)
      PROVE  /\ left'.edits <= left.edits
             /\ \A n \in Managers : editor'[n] # None =>
                   editor[n] # None /\ editor'[n].id = editor[n].id
      BY <1>4, SaveGoesOn DEF Manager, IdInv
<1>. QED  BY <1>1, <1>2, <1>3, <1>4 DEF Next, Office

\* A save still running keeps its rivals and gains those newly in its slot
LEMMA RivalsGrow ==
    ASSUME Next, NEW m \in Managers
    PROVE  /\ editor[m] = None \/ editor'[m] = None => rivals'[m] = {}
           /\ editor[m] # None /\ editor'[m] # None =>
                rivals'[m] = rivals[m]
                    \union ({r.id : r \in Slot(editor[m])'} \ {r.id : r \in Slot(editor[m])})
BY Zenon DEF Next, Watch

\* Ids are never given back.
LEMMA SpentStep ==
    ASSUME ShapeInv, IdInv, IdInv', SpentInv, [Next]_vars
    PROVE  SpentInv'
<1>1. CASE UNCHANGED vars  BY <1>1 DEF vars, SpentInv
<1>2. CASE Next
  <2>1. ASSUME NEW m \in Managers, NEW i \in rivals'[m]
        PROVE  i \in rivals[m] \/ \E r \in staged' : i = r.id
    <3>1. \A r \in Slot(editor[m])' : r \in staged'  BY DEF Slot
    <3>. QED  BY <1>2, <2>1, <3>1, RivalsGrow
  <2>2. ASSUME NEW m \in Managers, NEW i \in rivals[m]
        PROVE  /\ i.edits > left'.edits /\ i.edits \in Nat
               /\ \A n \in Managers : editor'[n] # None => editor'[n].id # i
        BY <1>2, IdSteps DEF SpentInv, IdInv
  <2>3. ASSUME NEW r \in staged'
        PROVE  /\ r.id.edits > left'.edits /\ r.id.edits \in Nat
               /\ \A n \in Managers : editor'[n] # None => editor'[n].id # r.id
        BY DEF IdInv
  <2>. QED  BY <2>1, <2>2, <2>3 DEF SpentInv
<1>. QED  BY <1>1, <1>2

\* As many ids as rows
LEMMA IdsAreFinite ==
    ASSUME NEW rows, IsFiniteSet(rows)
    PROVE  IsFiniteSet({r.id : r \in rows})
<1>. DEFINE f == [r \in rows |-> r.id]
<1>1. f \in Surjection(rows, {r.id : r \in rows})  BY DEF Surjection
<1>. QED  BY <1>1, FS_Surjection

\* A rival that arrives in the slot is one more than those counted
LEMMA OneMoreRival ==
    ASSUME ShapeInv, IdInv, SlotInv, SlotInv', SpentInv, RivalInv, Next,
           NEW m \in Managers, editor[m] # None, editor'[m] # None
    PROVE  /\ IsFiniteSet(rivals'[m])
           /\ Cardinality(rivals'[m]) >= Cardinality(rivals[m])
           /\ \A r \in Slot(editor[m])' : r \in staged \/
                 Cardinality(rivals'[m]) >= Cardinality(rivals[m]) + 1
<1>. DEFINE ids == {r.id : r \in Slot(editor[m])}
            fresh == {r.id : r \in Slot(editor[m])'}
<1>1. IsFiniteSet(rivals[m]) /\ Cardinality(rivals[m]) \in Nat
      BY FS_CardinalityType DEF RivalInv
<1>2. IsFiniteSet(fresh)
  <2>1. IsFiniteSet(Slot(editor[m])')  BY FS_Subset DEF SlotInv, Slot
  <2>. QED  BY <2>1, IdsAreFinite
<1>3. rivals'[m] = rivals[m] \union (fresh \ ids)  BY RivalsGrow
<1>4. IsFiniteSet(rivals'[m])
  <2>. HIDE DEF fresh, ids
  <2>1. IsFiniteSet(fresh \ ids)  BY <1>2, FS_Difference
  <2>. QED  BY <1>1, <1>3, <2>1, FS_Union
<1>5. rivals[m] \subseteq rivals'[m]  BY <1>3
<1>6. /\ Cardinality(rivals'[m]) >= Cardinality(rivals[m])
      /\ Cardinality(rivals'[m]) \in Nat
      BY <1>4, <1>5, FS_Subset, FS_CardinalityType
<1>7. ASSUME NEW r \in Slot(editor[m])', r \notin staged
      PROVE  Cardinality(rivals'[m]) >= Cardinality(rivals[m]) + 1
  <2>1. r \in staged'  BY DEF Slot
  <2>2. PICK n \in Managers : editor[n] # None /\ r.id = editor[n].id
        BY <1>7, <2>1, RowSteps
  <2>3. r.id \notin rivals[m]  BY <2>2 DEF SpentInv
  <2>4. r.id \notin ids  BY <2>2 DEF IdInv, Slot
  <2>5. r.id \in rivals'[m]  BY <1>3, <2>4
  <2>6. Cardinality(rivals[m] \union {r.id}) = Cardinality(rivals[m]) + 1
        BY <1>1, <2>3, FS_AddElement
  <2>7. rivals[m] \union {r.id} \subseteq rivals'[m]  BY <1>5, <2>5
  <2>. QED  BY <1>1, <1>4, <1>6, <2>6, <2>7, FS_Subset
<1>. QED  BY <1>4, <1>6, <1>7

\* Each attempt a save lost was lost to a rival of its own.
LEMMA RivalStep ==
    ASSUME ShapeInv, IdInv, SlotInv, SlotInv', SpentInv, RivalInv, [Next]_vars
    PROVE  RivalInv'
<1>1. CASE UNCHANGED vars  BY <1>1 DEF vars, menuVars, RivalInv, Slot
<1>2. CASE Next
  <2>. SUFFICES ASSUME NEW m \in Managers
                PROVE  /\ IsFiniteSet(rivals'[m])
                       /\ editor'[m] # None =>
                            /\ editor'[m].attempt \in Nat
                            /\ editor'[m].step \notin {"delete", "create"} => editor'[m].attempt = 0
                            /\ Cardinality(rivals'[m]) >= editor'[m].attempt
                            /\ editor'[m].step = "create"
                                  /\ (\E r \in Slot(editor[m])' : r.id \notin editor'[m].saw)
                                  => Cardinality(rivals'[m]) >= editor'[m].attempt + 1
       BY DEF RivalInv
  <2>1. CASE editor'[m] = None  BY <1>2, <2>1, RivalsGrow, FS_EmptySet
  <2>2. CASE editor'[m] # None /\ ConfirmPanel(m)
    <3>1. PICK column \in left.kinds \cap Columns, cents \in Amounts,
               day \in {None} \union {c.day : c \in ToSet(Moments)} :
               editor' = [editor EXCEPT ![m] = Panel(column, cents, day)]
          BY <2>2 DEF ConfirmPanel
    <3>2. editor'[m].attempt = 0 /\ editor'[m].step = "panel" /\ editor[m] = None
          BY <2>2, <3>1 DEF ShapeInv, Panel, ConfirmPanel
    <3>3. rivals'[m] = {}  BY <1>2, <3>2, RivalsGrow
    <3>4. IsFiniteSet({}) /\ Cardinality({}) = 0  BY FS_EmptySet
    <3>. QED  BY <3>2, <3>3, <3>4
  <2>3. CASE editor'[m] # None /\ editor[m] # None
    <3>. DEFINE e == editor[m]
                count == Cardinality(rivals[m])
    <3>1. /\ IsFiniteSet(rivals'[m])
          /\ Cardinality(rivals'[m]) >= count
          /\ \A r \in Slot(editor[m])' : r \in staged \/ Cardinality(rivals'[m]) >= count + 1
          /\ Cardinality(rivals'[m]) \in Nat /\ count \in Nat
          BY <1>2, <2>3, OneMoreRival, FS_CardinalityType DEF RivalInv
    <3>2. /\ e.attempt \in Nat
          /\ e.step \notin {"delete", "create"} => e.attempt = 0
          /\ count >= e.attempt
          /\ e.step = "create" /\ (\E r \in Slot(e) : r.id \notin e.saw) => count >= e.attempt + 1
          BY <2>3 DEF RivalInv
    <3>. HIDE DEF count
    <3>3. CASE editor'[m] = editor[m]
      <4>1. ASSUME e.step = "create", NEW r \in Slot(editor[m])', r.id \notin e.saw
            PROVE  Cardinality(rivals'[m]) >= e.attempt + 1
        <5>1. CASE r \in staged
          <6>1. r \in Slot(e)  BY <3>3, <4>1, <5>1 DEF Slot
          <6>. QED  BY <3>1, <3>2, <4>1, <6>1
        <5>2. CASE r \notin staged  BY <3>1, <3>2, <5>2
        <5>. QED  BY <5>1, <5>2
      <4>. QED  BY <3>1, <3>2, <3>3, <4>1
    <3>4. CASE saveExtraSurcharge(m) \/ saveGroup(m) \/ ReadTarget(m) \/ CheckShown(m)
      <4>1. /\ e.step \notin {"delete", "create"}
            /\ editor'[m].step # "create"
            /\ editor'[m].attempt = e.attempt
            BY <2>3, <3>4 DEF saveExtraSurcharge, saveGroup, CompareRow, ReadTarget, CheckShown,
               ShapeInv, EditorOK
      <4>. QED  BY <3>1, <3>2, <4>1
    \* What the transaction can see of the slot is what it deletes
    <3>5. CASE DeleteStaged(m)
      <4>1. /\ editor'[m] = [e EXCEPT !.step = "create", !.saw = {r.id : r \in Slot(e)}]
            /\ staged' = staged
            BY <3>5 DEF DeleteStaged, ShapeInv, menuVars
      <4>2. /\ editor'[m].step = "create" /\ editor'[m].attempt = e.attempt
            /\ editor'[m].column = e.column /\ editor'[m].day = e.day
            /\ editor'[m].saw = {r.id : r \in Slot(e)}
            BY <2>3, <4>1 DEF ShapeInv, EditorOK
      <4>3. Slot(editor[m])' = Slot(e)  BY <4>1, <4>2 DEF Slot
      <4>. QED  BY <3>1, <3>2, <4>2, <4>3
    \* An attempt is lost to a rival of its own
    <3>6. CASE CreateStaged(m)
      <4>1. /\ e.step = "create" /\ \E r \in Slot(e) : r.id \notin e.saw
            /\ editor'[m] = [e EXCEPT !.step = "delete", !.attempt = @ + 1]
            BY <2>3, <3>6 DEF CreateStaged, ShapeInv
      <4>2. editor'[m].step = "delete" /\ editor'[m].attempt = e.attempt + 1
            BY <2>3, <4>1 DEF ShapeInv, EditorOK
      <4>. QED  BY <3>1, <3>2, <4>1, <4>2
    <3>7. CASE writeLive(m)  BY <2>3, <3>7 DEF writeLive, ShapeInv
    <3>8. ~ConfirmPanel(m)  BY <2>3 DEF ConfirmPanel
    <3>. QED  BY <1>2, <3>3, <3>4, <3>5, <3>6, <3>7, <3>8, SaveSteps DEF Manager
  <2>. QED  BY <1>2, <2>1, <2>2, <2>3, SaveSteps DEF Manager, ReadTarget, CheckShown,
            saveExtraSurcharge, saveGroup, CompareRow, writeLive, DeleteStaged, CreateStaged
<1>. QED  BY <1>1, <1>2

\* A price for now is the price in force once it is written
LEMMA WrittenInForce ==
    ASSUME ShapeInv, NEW m \in Managers, writeLive(m), editor[m].today = Today,
           Exists(editor[m].column), NEW column, column = editor[m].column
    PROVE  PriceOn(column, Today)' = editor[m].cents
<1>1. /\ live'[column] = editor[m].cents
      /\ staged' = staged \ Landed(column, Today)
      /\ now' = now
      BY DEF writeLive, ShapeInv, EditorOK
<1>2. Landed(column, Today)' = {}  BY <1>1 DEF Landed, Today, Clock
<1>3. column \in Rows => effectivePrices(Today)'[column] = None
      BY <1>2 DEF effectivePrices
<1>. QED  BY <1>1, <1>3 DEF PriceOn, Resolved

\* A staged price stands in its slot once it is created
LEMMA CreatedStands ==
    ASSUME ShapeInv, TypedInv, RivalInv, NEW m \in Managers, CreateStaged(m), editor'[m] = None,
           NEW e, e = editor[m], Exists(e.column)
    PROVE  \/ \E r \in Slot(e)' : r.id = e.id
           \/ Cardinality(rivals[m]) >= MAX_STAGE_ATTEMPTS
<1>. DEFINE raced == \E r \in Slot(e) : r.id \notin e.saw
            row == [id |-> e.id, column |-> e.column, day |-> e.day, cents |-> e.cents]
<1>1. CASE raced
  <2>1. /\ e # None /\ e.step = "create"
        /\ e.attempt \in Nat
        /\ Cardinality(rivals[m]) >= e.attempt + 1
        /\ Cardinality(rivals[m]) \in Nat
        BY <1>1, FS_CardinalityType DEF CreateStaged, RivalInv
  <2>2. ~(e.attempt < MAX_STAGE_ATTEMPTS - 1)
    <3>. SUFFICES ASSUME e.attempt < MAX_STAGE_ATTEMPTS - 1 PROVE FALSE  OBVIOUS
    <3>1. editor' = [editor EXCEPT ![m] = [e EXCEPT !.step = "delete", !.attempt = @ + 1]]
          BY <1>1, Zenon DEF CreateStaged
    <3>2. [e EXCEPT !.step = "delete", !.attempt = @ + 1] \in Saves
          BY <2>1, SavesGoOn DEF TypedInv
    <3>. QED  BY <3>1, <3>2, NoneAssumption DEF ShapeInv
  <2>. QED  BY <2>1, <2>2 DEF MAX_STAGE_ATTEMPTS
<1>2. CASE ~raced
  <2>1. staged' = (staged \ Slot(e)) \union {row}
        BY <1>2, Zenon DEF CreateStaged
  <2>2. row \in staged' /\ row.column = e.column /\ row.day = e.day /\ row.id = e.id
        BY <2>1
  <2>. HIDE DEF row
  <2>3. row \in Slot(e)'  BY <2>2 DEF Slot
  <2>. QED  BY <2>2, <2>3
<1>. QED  BY <1>1, <1>2

LEMMA RivalsHold == Spec => [](ShapeInv /\ IdInv /\ SlotInv /\ TypedInv /\ SpentInv /\ RivalInv)
<1>. DEFINE Inv == ShapeInv /\ IdInv /\ SlotInv /\ TypedInv /\ SpentInv /\ RivalInv
<1>1. Init => Inv
  <2>1. Init => ShapeInv /\ IdInv /\ SlotInv /\ TypedInv  BY ShapeInit, IdInit, TypedInit
  <2>2. Init => SpentInv /\ RivalInv  BY FS_EmptySet DEF Init, SpentInv, RivalInv
  <2>. QED  BY <2>1, <2>2
<1>2. Inv /\ [Next]_vars => Inv'  BY ShapeStep, IdStep, SlotStep, TypedStep, SpentStep, RivalStep
<1>. HIDE DEF Inv
<1>3. Spec => []Inv  BY <1>1, <1>2, PTL DEF Spec
<1>. QED  BY <1>3 DEF Inv

\* A save past its check is kept: a price for now is in force once it is written,
\* unless midnight came in between, and a price for a day to come stands in the
\* book, unless its row is gone or three rivals beat it to its slot (writePrice).
THEOREM SavesKept == Spec => SavesAreKept
<1>. DEFINE Kept(m, e) ==
          e # None /\ editor'[m] = None /\ Exists(e.column) =>
             /\ e.step = "write" /\ e.today = Today => PriceOn(e.column, Today)' = e.cents
             /\ e.step = "create" => \/ \E r \in Slot(e)' : r.id = e.id
                                    \/ Cardinality(rivals[m]) >= MAX_STAGE_ATTEMPTS
<1>1. ASSUME ShapeInv, TypedInv, RivalInv, [Next]_vars, NEW m \in Managers, NEW e \in {editor[m]},
             ~UNCHANGED vars
      PROVE  Kept(m, e)
  <2>. SUFFICES ASSUME e # None, editor'[m] = None, Exists(e.column),
                       e.step \in {"write", "create"}
                PROVE  Kept(m, e)
       OBVIOUS
  <2>1. e = editor[m] /\ Manager(m)  BY <1>1, SaveSteps
  <2>2. CASE writeLive(m)
    <3>1. e.step = "write"  BY <2>1, <2>2 DEF writeLive
    <3>. QED  BY <1>1, <2>1, <2>2, <3>1, WrittenInForce
  <2>3. CASE CreateStaged(m)
    <3>1. e.step = "create"  BY <2>1, <2>3 DEF CreateStaged
    <3>. QED  BY <1>1, <2>1, <2>3, <3>1, CreatedStands
  <2>. QED
       BY <2>1, <2>2, <2>3 DEF Manager, ConfirmPanel, ReadTarget, CheckShown,
          saveExtraSurcharge, saveGroup, CompareRow, DeleteStaged
<1>2. ShapeInv /\ TypedInv /\ RivalInv /\ [Next]_vars
        => [\A m \in Managers : \A e \in {editor[m]} : Kept(m, e)]_vars
      BY <1>1
<1>. QED  BY <1>2, RivalsHold, PTL DEF Spec, SavesAreKept

-----------------------------------------------------------------------------
(* The cooks' batches and the events they write *)

\* What a batch has flipped it alone holds, and it is still the other way up:
\* no rival can have claimed it, and the tick waits for the commit.
BatchInv ==
    /\ Cooks \subseteq DOMAIN batch
    /\ available \in [Rows -> BOOLEAN]
    /\ activity \in Seq([available : BOOLEAN, rows : SUBSET Rows])
    /\ \A k \in Cooks : batch[k] # None =>
          /\ batch[k].to \in BOOLEAN
          /\ batch[k].flipped \subseteq {"item"}
          /\ \A r \in batch[k].flipped : available[r] # batch[k].to
          /\ \A j \in Cooks \ {k} : batch[j] # None =>
                batch[j].flipped \cap batch[k].flipped = {}

\* Only the cooks touch the ticks, the events and the batches.
LEMMA BoardSteps == [Next]_vars => UNCHANGED boardVars \/ \E k \in Cooks : Cook(k)
<1>. SUFFICES ASSUME [Next]_vars PROVE UNCHANGED boardVars \/ \E k \in Cooks : Cook(k)
     OBVIOUS
<1>1. CASE UNCHANGED vars  BY <1>1 DEF vars, boardVars
<1>2. CASE Tick  BY <1>2 DEF Tick, boardVars
<1>3. CASE Customer
      BY <1>3 DEF Customer, addLine, replaceLine, removeLine, confirmPrices, Submit, Read,
         ReadStaged, ReadItem, ReadGroup, placeOrder, boardVars
<1>4. ASSUME NEW m \in Managers, Manager(m) PROVE UNCHANGED boardVars
      BY <1>4 DEF Manager, ConfirmPanel, ReadTarget, CheckShown, saveExtraSurcharge, saveGroup,
         CompareRow, writeLive, DeleteStaged, CreateStaged, boardVars
<1>5. CASE Office
      BY <1>5 DEF Office, cancelStagedPrice, collectSupersededPrices, DeleteDoomed,
         deleteGroup, addItemWindow, deleteItemWindow, boardVars
<1>. QED  BY <1>1, <1>2, <1>3, <1>4, <1>5 DEF Next

\* A tap flips what no batch holds, and a commit disturbs nobody else's flips.
LEMMA BatchTap ==
    ASSUME BatchInv, NEW k \in Cooks, Tap(k)
    PROVE  BatchInv'
<1>1. PICK choice \in Selections :
         LET b == [rows |-> choice.rows, to |-> choice.to, flipped |-> {}]
         IN  /\ Flips(b, "item") # {} => ~Locked("item")
             /\ batch' = [batch EXCEPT ![k] = [b EXCEPT !.flipped = Flips(b, "item")]]
      BY DEF Tap
<1>. DEFINE b == [rows |-> choice.rows, to |-> choice.to, flipped |-> {}]
            c == [rows |-> choice.rows, to |-> choice.to, flipped |-> Flips(b, "item")]
<1>2. batch' = [batch EXCEPT ![k] = c]
  <2>1. \A held : [b EXCEPT !.flipped = held] = [rows |-> choice.rows, to |-> choice.to,
                                                flipped |-> held]
        OBVIOUS
  <2>2. batch' = [batch EXCEPT ![k] = [b EXCEPT !.flipped = Flips(b, "item")]]
        BY <1>1, Zenon
  <2>. QED  BY <2>1, <2>2, Zenon
<1>3. UNCHANGED <<available, activity>>  BY DEF Tap
<1>4. /\ c.to \in BOOLEAN
      /\ c.flipped \subseteq {"item"}
      /\ \A r \in c.flipped : available[r] # c.to
      BY DEF Selections, Flips
<1>5. \A j \in Cooks : batch[j] # None => batch[j].flipped \cap c.flipped = {}
  <2>1. c.flipped # {} => ~Locked("item")  BY <1>1
  <2>. QED  BY <1>4, <2>1 DEF Locked
<1>6. /\ Cooks \subseteq DOMAIN batch'
      /\ batch'[k] = c
      /\ \A j \in Cooks \ {k} : batch'[j] = batch[j]
      BY <1>2 DEF BatchInv
<1>. HIDE DEF c
<1>. QED  BY <1>3, <1>4, <1>5, <1>6 DEF BatchInv

\* A commit writes one event, about rows that stood the other way, and ticks them.
LEMMA BatchCommit ==
    ASSUME BatchInv, NEW k \in Cooks, setAvailability(k)
    PROVE  /\ BatchInv'
           /\ \/ UNCHANGED <<available, activity>>
              \/ \E to \in BOOLEAN, flipped \in SUBSET Rows :
                    /\ \A r \in flipped : available[r] # to
                    /\ available' = [r \in Rows |-> IF r \in flipped THEN to ELSE available[r]]
                    /\ activity' = Append(activity, [available |-> to, rows |-> flipped])
<1>. DEFINE b       == batch[k]
            flipped == b.flipped \union Flips(b, "option")
<1>1. /\ b # None
      /\ available' = [r \in Rows |-> IF r \in flipped THEN b.to ELSE available[r]]
      /\ activity' = IF flipped = {} THEN activity
                     ELSE Append(activity, [available |-> b.to, rows |-> flipped])
      /\ batch' = [batch EXCEPT ![k] = None]
      BY Zenon DEF setAvailability
<1>2. /\ b.to \in BOOLEAN
      /\ flipped \in SUBSET Rows
      /\ \A r \in flipped : available[r] # b.to
      /\ "item" \in flipped => "item" \in b.flipped
      BY <1>1 DEF BatchInv, Flips, Rows
<1>3. /\ Cooks \subseteq DOMAIN batch'
      /\ batch'[k] = None
      /\ \A j \in Cooks \ {k} : batch'[j] = batch[j]
      BY <1>1 DEF BatchInv
<1>4. activity' \in Seq([available : BOOLEAN, rows : SUBSET Rows])
  <2>1. activity \in Seq([available : BOOLEAN, rows : SUBSET Rows])  BY DEF BatchInv
  <2>2. ASSUME NEW S, NEW s \in Seq(S), NEW e \in S PROVE Append(s, e) \in Seq(S)
        OBVIOUS
  <2>3. [available |-> b.to, rows |-> flipped] \in [available : BOOLEAN, rows : SUBSET Rows]
        BY <1>2
  <2>4. activity' = activity \/ activity' = Append(activity, [available |-> b.to, rows |-> flipped])
        BY <1>1, Zenon
  <2>. DEFINE E == [available : BOOLEAN, rows : SUBSET Rows]
              e == [available |-> b.to, rows |-> flipped]
  <2>5. activity \in Seq(E) /\ e \in E  BY <2>1, <2>3
  <2>6. activity' = activity \/ activity' = Append(activity, e)  BY <2>4
  <2>. HIDE DEF E, e
  <2>7. activity' \in Seq(E)  BY <2>2, <2>5, <2>6
  <2>. QED  BY <2>7 DEF E
<1>5. \A j \in Cooks \ {k} : batch[j] # None =>
         \A r \in batch[j].flipped : available'[r] = available[r]
      BY <1>1, <1>2 DEF BatchInv, Rows
<1>6. BatchInv'
  <2>1. available' \in [Rows -> BOOLEAN]  BY <1>1, <1>2 DEF BatchInv
  <2>2. ASSUME NEW j \in Cooks, batch'[j] # None
        PROVE  /\ batch'[j] = batch[j]
               /\ batch[j] # None
               /\ j # k
        BY <1>3, <2>2
  <2>3. ASSUME NEW j \in Cooks, batch'[j] # None
        PROVE  /\ batch'[j].to \in BOOLEAN
               /\ batch'[j].flipped \subseteq {"item"}
               /\ \A r \in batch'[j].flipped : available'[r] # batch'[j].to
               /\ \A i \in Cooks \ {j} : batch'[i] # None =>
                     batch'[i].flipped \cap batch'[j].flipped = {}
    <3>. HIDE DEF b, flipped
    <3>. QED  BY <1>5, <2>2, <2>3 DEF BatchInv
  <2>. QED  BY <1>3, <1>4, <2>1, <2>3 DEF BatchInv
<1>7. CASE flipped = {}
  <2>1. available' = [r \in Rows |-> available[r]]
    <3>. HIDE DEF b, flipped
    <3>. QED  BY <1>1, <1>7
  <2>2. available = [r \in Rows |-> available[r]]  BY DEF BatchInv
  <2>. QED  BY <1>1, <1>6, <1>7, <2>1, <2>2
<1>8. CASE flipped # {}
  <2>1. activity' = Append(activity, [available |-> b.to, rows |-> flipped])  BY <1>1, <1>8
  <2>. HIDE DEF flipped, b
  <2>. QED  BY <1>1, <1>2, <1>6, <2>1
<1>. QED  BY <1>7, <1>8

\* An event more leaves what the earlier ones said, and says its own of its rows.
LEMMA EventAdded ==
    ASSUME BatchInv, EventsTellTheBoard,
           NEW to \in BOOLEAN, NEW flipped \in SUBSET Rows,
           \A r \in flipped : available[r] # to,
           available' = [r \in Rows |-> IF r \in flipped THEN to ELSE available[r]],
           activity' = Append(activity, [available |-> to, rows |-> flipped])
    PROVE  EventsTellTheBoard'
<1>. DEFINE R == [available : BOOLEAN, rows : SUBSET Rows]
<1>0. activity \in Seq(R)  BY DEF BatchInv
<1>1. PICK N \in Nat : N = Len(activity)  BY <1>0
<1>2. /\ Len(activity') = N + 1
      /\ \A i \in 1..N : activity'[i] = activity[i]
      /\ activity'[N + 1] = [available |-> to, rows |-> flipped]
      BY <1>0, <1>1
<1>3. ASSUME NEW r \in Rows, NEW n \in 0..N PROVE LastSaid(r, n)' = LastSaid(r, n)
      BY <1>1, <1>2, <1>3 DEF LastSaid
<1>4. ASSUME NEW r \in Rows
      PROVE  LastSaid(r, N + 1)' = (IF r \in flipped THEN to ELSE LastSaid(r, N))
  <2>0. activity'[N + 1].available = to /\ activity'[N + 1].rows = flipped  BY <1>2
  <2>1. CASE r \in flipped
    <3>1. \A j \in 1..N : ~ \A i \in (j + 1)..(N + 1) : r \notin activity'[i].rows
      <4>. TAKE j \in 1..N
      <4>1. N + 1 \in (j + 1)..(N + 1)  BY <1>1
      <4>. QED  BY <2>0, <2>1, <4>1
    <3>2. N + 1 \in 1..(N + 1) /\ (N + 1 + 1)..(N + 1) = {}  BY <1>1
    <3>3. 1..(N + 1) = 1..N \union {N + 1}  BY <1>1
    <3>4. LastSaid(r, N + 1)' = to
          BY <2>0, <2>1, <3>1, <3>2, <3>3 DEF LastSaid
    <3>. QED  BY <2>1, <3>4
  <2>2. CASE r \notin flipped
    <3>1. \A j \in 1..N : (j + 1)..(N + 1) = (j + 1)..N \union {N + 1}  BY <1>1
    <3>2. 1..(N + 1) = 1..N \union {N + 1}  BY <1>1
    <3>3. \A j \in 1..N : \A i \in (j + 1)..N : i \in 1..N  BY <1>1
    <3>4. LastSaid(r, N + 1)' = LastSaid(r, N)
          BY <1>2, <2>0, <2>2, <3>1, <3>2, <3>3 DEF LastSaid
    <3>. QED  BY <2>2, <3>4
  <2>. QED  BY <2>1, <2>2
<1>5. ASSUME NEW r \in Rows, NEW n \in 1..(N + 1), r \in activity'[n].rows
      PROVE  activity'[n].available # LastSaid(r, n - 1)'
  <2>1. n - 1 \in 0..N  BY <1>1
  <2>2. LastSaid(r, n - 1)' = LastSaid(r, n - 1)  BY <1>3, <2>1, Zenon
  <2>3. CASE n \in 1..N
        BY <1>1, <1>2, <1>5, <2>2, <2>3 DEF EventsTellTheBoard
  <2>4. CASE n = N + 1
    <3>1. n - 1 = N  BY <1>1, <2>4
    <3>2. available[r] = LastSaid(r, N)  BY <1>1 DEF EventsTellTheBoard
    <3>3. r \in flipped /\ activity'[n].available = to  BY <1>2, <1>5, <2>4
    <3>. QED  BY <2>2, <3>1, <3>2, <3>3
  <2>. QED  BY <1>1, <2>3, <2>4
<1>6. ASSUME NEW r \in Rows PROVE available'[r] = LastSaid(r, N + 1)'
      BY <1>1, <1>4 DEF EventsTellTheBoard
<1>. QED
  <2>1. \A r \in Rows : \A n \in 1..(N + 1) :
           r \in activity'[n].rows => activity'[n].available # LastSaid(r, n - 1)'
        BY <1>5
  <2>2. Len(activity') = N + 1  BY <1>2
  <2>. QED  BY <1>6, <2>1, <2>2, Zenon DEF EventsTellTheBoard

LEMMA BatchStep == BatchInv /\ [Next]_vars => BatchInv'
<1>. SUFFICES ASSUME BatchInv, [Next]_vars PROVE BatchInv'  OBVIOUS
<1>1. CASE UNCHANGED boardVars
      BY <1>1 DEF boardVars, BatchInv
<1>2. ASSUME NEW k \in Cooks, Cook(k) PROVE BatchInv'
      BY <1>2, BatchTap, BatchCommit DEF Cook
<1>. QED  BY <1>1, <1>2, BoardSteps

\* Each row's change events alternate and end at its tick, whatever rows any
\* number of cooks batch over one another (setAvailability).
THEOREM BoardAsTold == Spec => []EventsTellTheBoard
<1>. DEFINE Inv == BatchInv /\ EventsTellTheBoard
<1>1. Init => Inv
      BY DEF Init, BatchInv, EventsTellTheBoard, LastSaid
<1>2. Inv /\ [Next]_vars => Inv'
  <2>. SUFFICES ASSUME BatchInv, EventsTellTheBoard, [Next]_vars PROVE EventsTellTheBoard'
       BY BatchStep
  <2>1. CASE UNCHANGED <<available, activity>>
        BY <2>1 DEF EventsTellTheBoard, LastSaid
  <2>2. ASSUME NEW k \in Cooks, Cook(k) PROVE EventsTellTheBoard'
    <3>1. CASE Tap(k)  BY <2>1, <3>1 DEF Tap
    <3>2. CASE setAvailability(k)
          BY <2>1, <3>2, BatchCommit, EventAdded
    <3>. QED  BY <2>2, <3>1, <3>2 DEF Cook
  <2>. QED  BY <2>1, <2>2, BoardSteps DEF boardVars
<1>. HIDE DEF Inv
<1>3. Spec => []Inv  BY <1>1, <1>2, PTL DEF Spec
<1>. QED  BY <1>3, PTL DEF Inv
=============================================================================
