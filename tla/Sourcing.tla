------------------------------ MODULE Sourcing ------------------------------
(***************************************************************************)
(* Sourcing: modules/sourcing (service, domain, data) and the workflow     *)
(* that records a purchase, workflows/record_purchase.cpp: where material  *)
(* came from, and what is still owed for it.  Notes, kinds, quantities and *)
(* costs constrain nothing and are left out.                               *)
(***************************************************************************)
EXTENDS ShopClock, FiniteSets

CONSTANTS
  Suppliers,    \* identities of suppliers, which are parties
  Materials,    \* identities of materials
  Names,        \* names of materials
  Purchases     \* identities of purchases

VARIABLES
  supplier,  \* the table supplier: [created, updated]
  material,  \* the table material: its name
  purchase   \* the table purchase

sourcingVars == <<supplier, material, purchase>>

PurchaseRows ==
  [supplier : Suppliers, material : Materials, purchased : 1..MaxTime,
   state : {"owed", "paid"}, settled : 0..MaxTime, created : 1..MaxTime]

(* validate(Purchase).                                                     *)
ValidPurchase(row) ==
  /\ row.purchased <= row.created
  /\ row.state = "owed" => row.settled = 0
  /\ row.state = "paid" => row.settled > 0 /\ row.settled >= row.purchased

ValidSupplier(row) == row.updated >= row.created

ASSUME SourcingAssumption ==
  None \notin Names /\ None \notin [created : 1..MaxTime, updated : 1..MaxTime]

MaterialsNamed(name) == {m \in Materials : material[m] = name}

-----------------------------------------------------------------------------
CreateSupplier(s) ==
  /\ supplier[s] = None
  /\ supplier' = [supplier EXCEPT ![s] = [created |-> now, updated |-> now]]
  /\ UNCHANGED <<material, purchase>>

(* A clock set back before the creation refuses the update.                *)
UpdateSupplier(s) ==
  /\ supplier[s] # None
  /\ ValidSupplier([supplier[s] EXCEPT !.updated = now])
  /\ supplier' = [supplier EXCEPT ![s].updated = now]
  /\ UNCHANGED <<material, purchase>>

(* settle, with settle_purchase.                                           *)
Settle(p) ==
  /\ purchase[p] # None
  /\ purchase[p].state = "owed"
  /\ now >= purchase[p].purchased
  /\ purchase' = [purchase EXCEPT ![p].state = "paid", ![p].settled = now]
  /\ UNCHANGED <<supplier, material>>

(* The workflow and the service's record_purchase: a material on file      *)
(* keeps its row, a new one must bring a new name, and a purchase recorded *)
(* as paid says when.                                                      *)
RecordPurchase(p, s, m, name, purchased, settled) ==
  LET row == [supplier |-> s, material |-> m, purchased |-> purchased,
              state |-> IF settled > 0 THEN "paid" ELSE "owed", settled |-> settled,
              created |-> now]
  IN  /\ ValidPurchase(row)
      /\ supplier[s] # None
      /\ purchase[p] = None
      /\ IF material[m] # None THEN material[m] = name ELSE MaterialsNamed(name) = {}
      /\ material' = [material EXCEPT ![m] = name]
      /\ purchase' = [purchase EXCEPT ![p] = row]
      /\ UNCHANGED supplier

SourcingInit ==
  /\ supplier = [s \in Suppliers |-> None]
  /\ material = [m \in Materials |-> None]
  /\ purchase = [p \in Purchases |-> None]

SourcingNext ==
  \/ \E s \in Suppliers : CreateSupplier(s) \/ UpdateSupplier(s)
  \/ \E p \in Purchases :
       \/ Settle(p)
       \/ \E s \in Suppliers, m \in Materials, name \in Names,
             purchased \in 1..MaxTime, settled \in 0..MaxTime :
            RecordPurchase(p, s, m, name, purchased, settled)

-----------------------------------------------------------------------------
(* No two materials share a name, every purchase names a supplier and a    *)
(* material on file, and what was settled was settled after it was bought, *)
(* whichever way the clock was set in between (sourcing_service.cpp,       *)
(* record_purchase and settle).                                            *)
MemoryStands ==
  /\ \A m, n \in Materials : material[m] # None /\ material[m] = material[n] => m = n
  /\ \A p \in Purchases : purchase[p] # None =>
       /\ ValidPurchase(purchase[p])
       /\ supplier[purchase[p].supplier] # None
       /\ material[purchase[p].material] # None
  /\ \A s \in Suppliers : supplier[s] # None => ValidSupplier(supplier[s])
=============================================================================
