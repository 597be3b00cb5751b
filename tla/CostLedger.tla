------------------------------ MODULE CostLedger ------------------------------
(***************************************************************************)
(* What the table cost_records promises the readers of costs.py and of the *)
(* dashboards, with the extractor processes hidden: a record appears once, *)
(* under the id of a row that has been billed and with an amount that row  *)
(* has been billed at, and is never changed or removed afterwards.         *)
(***************************************************************************)
EXTENDS Naturals

CONSTANTS Ids, Rows, NoRecord,
          Owners   \* Owners[i]: the billed rows whose record id is i

VARIABLES bill,   \* bill[r]: what the provider charges for r so far
          table   \* table[i]: the record stored under id i

ledgerVars == <<bill, table>>

LedgerInit == /\ bill = [r \in Rows |-> 0]
              /\ table = [i \in Ids |-> NoRecord]

Charge(r) == /\ bill' = [bill EXCEPT ![r] = @ + 1]
             /\ UNCHANGED table

\* A batch of new records; the ids that are taken keep what they hold.
Record == /\ \A i \in Ids :
               \/ table'[i] = table[i]
               \/ /\ table[i] = NoRecord
                  /\ table'[i].row \in Owners[i]
                  /\ table'[i].amount \in 1..bill[table'[i].row]
          /\ DOMAIN table' = Ids
          /\ UNCHANGED bill

LedgerNext == (\E r \in Rows : Charge(r)) \/ Record

LedgerSpec == LedgerInit /\ [][LedgerNext]_ledgerVars
=============================================================================
