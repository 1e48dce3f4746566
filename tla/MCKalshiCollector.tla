-------------------------- MODULE MCKalshiCollector --------------------------
(* Instances of KalshiCollector for TLC: which trades are special. *)
EXTENDS KalshiCollector

NoTrade     == {}
SecondTrade == {2}

==============================================================================
