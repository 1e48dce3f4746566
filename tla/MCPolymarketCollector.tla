------------------------ MODULE MCPolymarketCollector ------------------------
(* Instances of PolymarketCollector for TLC: which trades are special. *)
EXTENDS PolymarketCollector

NoTrade     == {}
FirstTrade  == {1}
SecondTrade == {2}
ThirdTrade  == {3}

(* Every trade has an id of its own; two fills have the same. *)
OwnIds    == <<1, 2, 3>>
SharedIds == <<1, 1, 3>>

==============================================================================
