----------------------------- MODULE MCBilling ------------------------------
(***************************************************************************)
(* A small instance of Billing for TLC: one payment settles the invoice    *)
(* Small, any other invoice takes two.                                     *)
(***************************************************************************)
EXTENDS Billing, TLC

CONSTANT Small

MCDueOf == [i \in Invoices |-> 0]
MCCovers == [i \in Invoices |->
    {S \in SUBSET Payments : Cardinality(S) >= IF i = Small THEN 1 ELSE 2}]

Symmetry == Permutations(Workers) \cup Permutations(Payments) \cup Permutations(Bills)
=============================================================================
