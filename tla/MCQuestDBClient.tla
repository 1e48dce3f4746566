--------------------------- MODULE MCQuestDBClient ---------------------------
(* Instances of QuestDBClient for TLC: the rows that misbehave. *)
EXTENDS QuestDBClient

NoRow     == {}
SecondRow == {2}
FourthRow == {4}
FifthRow  == {5}

==============================================================================
