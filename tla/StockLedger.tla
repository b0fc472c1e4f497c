----------------------------- MODULE StockLedger -----------------------------
(***************************************************************************)
(* Inbound and outbound documents (blueprints/inventory.py) and the        *)
(* material of work orders (services/production_flow.py), which keep the   *)
(* same stock, inv_balance, and write the same ledger, inv_transaction.    *)
(* Every operation is one BEGIN IMMEDIATE transaction.  The value of the   *)
(* stock (amount, average cost) is left out; a product without a balance   *)
(* row has quantity 0.                                                     *)
(***************************************************************************)
EXTENDS Tables, Integers, Sequences, FiniteSets, Functions

CONSTANTS Documents,   \* ids inv_inbound and inv_outbound can give out
          Materials,   \* products
          ItemLists,   \* what a document may list: pairs of product and quantity
          Needs,       \* lines of the frozen BOM of the work orders
          MaterialOf, RequiredFor,  \* of each its material and required_qty
          Amounts      \* quantities a material request may name

ASSUME StockAssumption ==
    /\ ItemLists \subseteq Seq(Materials \X (Nat \ {0})) \ {<<>>}
    /\ MaterialOf \in [Needs -> Materials]
    /\ RequiredFor \in [Needs -> Nat \ {0}]
    /\ Amounts \subseteq Nat \ {0}
    \* SUM(...) adds the rows of a table
    /\ IsFiniteSet(Documents) /\ IsFiniteSet(Needs)

DocumentRow == [kind : {"inbound", "outbound"}, items : ItemLists, posted : BOOLEAN]
NeedRow == [requested : Nat, issued : Nat, received : Nat, returned : Nat]
Entry == [material : Materials, quantity : Int, balance : Int]

\* A row is no mark of a missing one.
ASSUME StockRowAssumption ==
    /\ NoRow \notin DocumentRow /\ Deleted \notin DocumentRow
    /\ NoRow \notin NeedRow

VARIABLES document, need,
          balance,   \* inv_balance.quantity
          ledger     \* inv_transaction in the order of its ids

stockVars == <<document, need, balance, ledger>>

StockInit ==
    /\ document = [d \in Documents |-> NoRow]
    /\ need = [n \in Needs |-> NoRow]
    /\ balance = [m \in Materials |-> 0]
    /\ ledger = <<>>

-----------------------------------------------------------------------------
(* Documents: drafts until they are posted.                                *)

Draft(d) == document[d] \notin Absent /\ ~ document[d].posted

SaveDocument(d, kind, items) ==
    /\ document[d] = NoRow \/ (Draft(d) /\ document[d].kind = kind)
    /\ document' = [document EXCEPT ![d] = [kind |-> kind, items |-> items, posted |-> FALSE]]
    /\ UNCHANGED <<need, balance, ledger>>

DeleteDocument(d) ==
    /\ Draft(d)
    /\ document' = [document EXCEPT ![d] = Deleted]
    /\ UNCHANGED <<need, balance, ledger>>

\* What the items ask of material m, all lines together.
Listed(items, m) ==
    SumFunction([k \in {k \in DOMAIN items : items[k][1] = m} |-> items[k][2]])

Signed(d, quantity) == IF document[d].kind = "inbound" THEN quantity ELSE - quantity

\* Line by line the balance is moved and the move entered with the balance
\* it leaves.
Book(books, material, quantity) ==
    LET after == books.balance[material] + quantity
    IN [balance |-> [books.balance EXCEPT ![material] = after],
        ledger |-> Append(books.ledger, [material |-> material, quantity |-> quantity,
                                         balance |-> after])]
Books == [balance |-> balance, ledger |-> ledger]

\* The books after the first k lines of document d.
Booked(d) ==
    LET items == document[d].items
        booked[k \in 0 .. Len(items)] ==
            IF k = 0 THEN Books
            ELSE Book(booked[k - 1], items[k][1], Signed(d, items[k][2]))
    IN booked

FaultyPostDocument(d) ==   \* the stock is checked line by line, before any is booked
    /\ Draft(d)
    /\ document[d].kind = "outbound" =>
          \A k \in DOMAIN document[d].items :
             document[d].items[k][2] <= balance[document[d].items[k][1]]
    /\ LET after == Booked(d)[Len(document[d].items)]
       IN balance' = after.balance /\ ledger' = after.ledger
    /\ document' = [document EXCEPT ![d].posted = TRUE]
    /\ UNCHANGED need

PostDocument(d) ==
    /\ Draft(d)
    /\ document[d].kind = "outbound" =>
          \A m \in Materials : Listed(document[d].items, m) <= balance[m]
    /\ LET after == Booked(d)[Len(document[d].items)]
       IN balance' = after.balance /\ ledger' = after.ledger
    /\ document' = [document EXCEPT ![d].posted = TRUE]
    /\ UNCHANGED need

-----------------------------------------------------------------------------
(* Material of work orders.                                                *)

\* generate_material_requirements, for the lines that have no row yet.
GenerateNeeds(lines) ==
    /\ need' = [n \in Needs |->
                  IF n \in lines /\ need[n] = NoRow
                  THEN [requested |-> 0, issued |-> 0, received |-> 0, returned |-> 0]
                  ELSE need[n]]
    /\ UNCHANGED <<document, balance, ledger>>

RequestMaterial(n, q) ==
    /\ need[n] # NoRow
    /\ q <= RequiredFor[n] - need[n].requested
    /\ need' = [need EXCEPT ![n].requested = @ + q]
    /\ UNCHANGED <<document, balance, ledger>>

\* Nothing requested counts as everything required.
Issuable(n) == IF need[n].requested = 0 THEN RequiredFor[n] ELSE need[n].requested

MoveStock(material, quantity) ==
    LET after == Book(Books, material, quantity)
    IN balance' = after.balance /\ ledger' = after.ledger

IssueMaterial(n, q) ==
    /\ need[n] # NoRow
    /\ q <= Issuable(n) - need[n].issued
    /\ q <= balance[MaterialOf[n]]
    /\ MoveStock(MaterialOf[n], - q)
    /\ need' = [need EXCEPT ![n].issued = @ + q]
    /\ UNCHANGED document

ReceiveMaterial(n, q) ==
    /\ need[n] # NoRow
    /\ q <= need[n].issued - need[n].received
    /\ need' = [need EXCEPT ![n].received = @ + q]
    /\ UNCHANGED <<document, balance, ledger>>

ReturnMaterial(n, q) ==
    /\ need[n] # NoRow
    /\ q <= need[n].received - need[n].returned
    /\ MoveStock(MaterialOf[n], q)
    /\ need' = [need EXCEPT ![n].returned = @ + q]
    /\ UNCHANGED document

StockNext ==
    \/ \E d \in Documents :
          \/ \E kind \in {"inbound", "outbound"}, items \in ItemLists : SaveDocument(d, kind, items)
          \/ DeleteDocument(d)
          \/ PostDocument(d)
    \/ GenerateNeeds(Needs)
    \/ \E n \in Needs, q \in Amounts :
          \/ RequestMaterial(n, q) \/ IssueMaterial(n, q)
          \/ ReceiveMaterial(n, q) \/ ReturnMaterial(n, q)

StockSpec == StockInit /\ [][StockNext]_stockVars

-----------------------------------------------------------------------------
(* Properties.                                                             *)

\* The variables hold rows of the tables' types.
StockTypeOK ==
    /\ document \in [Documents -> DocumentRow \cup Absent]
    /\ need \in [Needs -> NeedRow \cup {NoRow}]
    /\ balance \in [Materials -> Int]
    /\ ledger \in Seq(Entry)

\* What the entries of m among the first k come to.
Entered(entries, m, k) ==
    SumFunction([j \in {j \in 1 .. k : entries[j].material = m} |-> entries[j].quantity])
\* What the posted documents brought in of m, and what work orders have of it.
PostedDocuments == {d \in Documents : document[d] \notin Absent /\ document[d].posted}
BroughtIn(m) == SumFunction([d \in PostedDocuments |-> Signed(d, Listed(document[d].items, m))])
NeedsOf(m) == {n \in Needs : need[n] # NoRow /\ MaterialOf[n] = m}
GivenOut(m) == SumFunction([n \in NeedsOf(m) |-> need[n].issued - need[n].returned])

\* Documents and material moves together explain the stock: of each material
\* the balance is what posted documents brought in and took out and what work
\* orders returned less what they were issued, it is never negative, and each
\* ledger entry carries the balance that the entries before it leave.  A line
\* of a work order never gets more than it requires.
LedgerExplainsStock ==
    /\ \A m \in Materials :
          /\ balance[m] >= 0
          /\ balance[m] = BroughtIn(m) - GivenOut(m)
          /\ balance[m] = Entered(ledger, m, Len(ledger))
    /\ \A k \in DOMAIN ledger : ledger[k].balance = Entered(ledger, ledger[k].material, k)
    /\ \A n \in Needs : need[n] # NoRow =>
          /\ need[n].returned <= need[n].received
          /\ need[n].received <= need[n].issued
          /\ need[n].issued <= RequiredFor[n]
          /\ need[n].requested <= RequiredFor[n]
=============================================================================
