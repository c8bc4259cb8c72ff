----------------------------- MODULE Stockroom -----------------------------
(***************************************************************************)
(* The stock counters of a product as an admin moves them, by opening      *)
(* packs for retail sale or by saving the product form, while the counter  *)
(* of CounterSale takes goods from them.                                   *)
(*                                                                         *)
(* Source: app/routes/products._index.tsx and                              *)
(* app/features/products/product-upsert-action.server.ts.                  *)
(*                                                                         *)
(* Opening reads the product and then updates it, by increments and with   *)
(* no second look.  The form writes both counters as absolute figures, as  *)
(* the admin's page showed them or as he typed them.  The product is one   *)
(* whose retail sale is allowed throughout, and that no delivery carries:  *)
(* how runs move the same counters is in DeliveryRun.                      *)
(***************************************************************************)
EXTENDS CounterSale, FiniteSets, Functions

CONSTANTS
    Admins,         \* pages or requests of admins on the product
    Pack, Piece,    \* the cells Product.stock and Product.packingStock
    PackSize,       \* pieces in a pack
    Opens,          \* packs an admin may open at once
    Deliveries,     \* packs an admin may add to the figure shown
    MaxDelivered    \* bound: packs delivered in all

ASSUME StockroomAssumption ==
    /\ Pack # Piece /\ Cells = {Pack, Piece}
    /\ PackSize \in Nat \ {0} /\ IsFiniteSet(Orders)
    /\ Opens \subseteq Nat \ {0} /\ Deliveries \subseteq Nat

VARIABLES
    page,       \* what an admin has read of the product and acts on, or None
    delivered,  \* packs the form has added
    stale       \* history: kinds of changes committed on counters that had moved

stockroomVars == <<page, delivered, stale>>

Pages == [op : {"open"}, packs : Opens, seen : [Cells -> Int]]
         \cup [op : {"form"}, seen : [Cells -> Int]]

StockroomInit ==
    /\ page = [a \in Admins |-> None]
    /\ delivered = 0
    /\ stale = {}

Leave(a) == page' = [page EXCEPT ![a] = None]

\* The change of an admin is committed; what he saw may have moved.
Settles(a) ==
    /\ Leave(a)
    /\ stale' = IF stock = page[a].seen THEN stale ELSE stale \cup {page[a].op}

-----------------------------------------------------------------------------
OpenRead(a, n) ==
    /\ page[a] = None
    /\ n <= stock[Pack]
    /\ page' = [page EXCEPT ![a] = [op |-> "open", packs |-> n, seen |-> stock]]
    /\ UNCHANGED <<stock, delivered, stale>>

\* Mutant: the pieces of a single pack are added, however many are opened.
UnpackedOne(n) == [stock EXCEPT ![Pack] = @ - n, ![Piece] = @ + PackSize]

Unpacked(n) == [stock EXCEPT ![Pack] = @ - n, ![Piece] = @ + n * PackSize]

Open(a) ==
    /\ page[a] # None /\ page[a].op = "open"
    /\ stock' = Unpacked(page[a].packs)
    /\ Settles(a)
    /\ UNCHANGED delivered

\* The loader of the edit page.
EditRead(a) ==
    /\ page[a] = None
    /\ page' = [page EXCEPT ![a] = [op |-> "form", seen |-> stock]]
    /\ UNCHANGED <<stock, delivered, stale>>

\* A figure below zero is refused; the admin leaves or begins again.
Acceptable(figures) == \A c \in Cells : figures[c] >= 0

\* The figures are those of the page, or raised by a delivery.
Save(a, n) ==
    /\ page[a] # None /\ page[a].op = "form"
    /\ Acceptable(page[a].seen)
    /\ delivered + n <= MaxDelivered
    /\ stock' = [page[a].seen EXCEPT ![Pack] = @ + n]
    /\ delivered' = delivered + n
    /\ Settles(a)

\* The form is left unsaved, or the update fails.
Dismiss(a) ==
    /\ page[a] # None
    /\ Leave(a)
    /\ UNCHANGED <<stock, delivered, stale>>

StockroomStep(a) ==
    \/ \E n \in Opens : OpenRead(a, n)
    \/ Open(a)
    \/ EditRead(a)
    \/ \E n \in Deliveries \cup {0} : Save(a, n)
    \/ Dismiss(a)

StockroomNext ==
    \/ Next /\ UNCHANGED stockroomVars
    \/ /\ \E a \in Admins : StockroomStep(a)
       /\ UNCHANGED <<order, paid, counter, kase, decisions, job, taken, contended>>

StockroomSpec == Init /\ StockroomInit /\ [][StockroomNext]_<<vars, stockroomVars>>

-----------------------------------------------------------------------------
(* Properties *)

Pieces(n) == n[Pack] * PackSize + n[Piece]

\* Unless a form was saved over counters that had moved since its page was read,
\* the goods on the shelf and the goods taken, counted in pieces, are those the
\* store began with and those delivered, however sales and openings interleave;
\* and unless an opening too had read counters that moved, no counter is negative.
StockAccounted ==
    /\ "form" \notin stale =>
          Pieces(stock) + SumFunction([o \in Orders |-> taken[o] * Pieces(Needs[o])])
              = Pieces([c \in Cells |-> InitialStock]) + delivered * PackSize
    /\ stale = {} => Acceptable(stock)

=============================================================================
