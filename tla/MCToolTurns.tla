---- MODULE MCToolTurns ----
EXTENDS ToolTurns

\* One generation of two rounds and one that the provider just answers.
LongTurn == CHOOSE g \in Turns : TRUE
MCMaxRounds == [g \in Turns |-> IF g = LongTurn THEN 2 ELSE 0]
====
