--------------------------------- MODULE Money ---------------------------------
(***************************************************************************)
(* The money of the temple: expenses, donations with their receipts, and   *)
(* the finance pages.  Requests for any of them interleave freely.  Each   *)
(* module has its own tables, so a step of one leaves the others alone;    *)
(* what the pages read of income and expenses, module Ledger enters for    *)
(* itself.                                                                 *)
(***************************************************************************)
EXTENDS Integers

CONSTANTS Amounts, NoRow,
          Clerks, Users, Approvers, ExpenseIds, Nobody,                  \* of Expenses
          Donors, Gifts, Modes, GiftForms, Recorded, MaxTries, LastNumber, \* of Donations
          EntryIds, Days, Times, Categories, AmountOf, BudgetOf, MonthLength \* of Ledger

VARIABLES expense, accepted, clerk, overrun,
          active, gift, income, desk, issued, gone, raced,
          incomes, expenses

spendingVars == <<expense, accepted, clerk, overrun>>
givingVars == <<active, gift, income, desk, issued, gone, raced>>
ledgerVars == <<incomes, expenses>>
moneyVars == <<spendingVars, givingVars, ledgerVars>>

Spending == INSTANCE Expenses
    WITH Requests <- Clerks, Expenses <- ExpenseIds, NoExpense <- NoRow, request <- clerk, raced <- overrun

Giving == INSTANCE Donations WITH Requests <- Donors, Forms <- GiftForms, request <- desk

Pages == INSTANCE Ledger WITH Ids <- EntryIds

ASSUME MoneyAssumption == Spending!ExpensesAssumption /\ Giving!DonationsAssumption /\ Pages!LedgerAssumption

Init == Spending!Init /\ Giving!Init /\ Pages!Init

Spend == Spending!Next /\ UNCHANGED <<givingVars, ledgerVars>>
Give == Giving!Next /\ UNCHANGED <<spendingVars, ledgerVars>>
Enter == Pages!Next /\ UNCHANGED <<spendingVars, givingVars>>

Next == Spend \/ Give \/ Enter
Spec == Init /\ [][Next]_moneyVars
-----------------------------------------------------------------------------
(* The properties of the modules, under one name each; the modules say in which races *)
(* they hold *)

\* Every variable has the values its columns can hold.
TypeOK == Spending!TypeOK /\ Giving!TypeOK /\ Pages!TypeOK

\* What counts as spent, an approver has accepted; a decision is not taken back.
CountedWasAccepted == Spending!CountedWasAccepted
DecisionsStand == Spending!DecisionsStand

\* The ledger follows the gifts, and a receipt is never taken back.
LedgerInSync == Giving!LedgerInSync
ReceiptStands == Giving!ReceiptStands

\* The finance pages, each computed in its own way, agree.
PagesMakeTheLedger == Pages!PagesMakeTheLedger
BooksAgree == Pages!BooksAgree
=============================================================================
