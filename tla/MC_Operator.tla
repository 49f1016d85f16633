---------------------------- MODULE MC_Operator ----------------------------
(***************************************************************************)
(* Two SLOs in two namespaces: of different names, one of them too long to *)
(* keep the second; or of the same name.                                   *)
(***************************************************************************)
EXTENDS Operator

TwoSLOs == <<"shop/orders", "bank/ledger">>

TwoNames == [s \in {"shop/orders", "bank/ledger"} |-> s]
OneName  == [s \in {"shop/orders", "bank/ledger"} |-> "context"]

LongNames == {"bank/ledger"}
NoNames == {}

TwoIntervals == [s \in {"shop/orders", "bank/ledger"} |-> IF s = "shop/orders" THEN 2 ELSE 3]
OneInterval == [s \in {"shop/orders", "bank/ledger"} |-> 2]
=============================================================================
