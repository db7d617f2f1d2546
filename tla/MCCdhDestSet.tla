---------------------------- MODULE MCCdhDestSet ----------------------------
EXTENDS CdhDestSet, TLC
CONSTANTS d1, d2, d3, d4
FirstSet == [s \in Slots |-> CASE s = "prim" -> d1 [] s = "sec" -> d2 [] s = "back" -> d3]
FirstTwo == [s \in Slots |-> CASE s = "prim" -> d1 [] s = "sec" -> d2 [] s = "back" -> NoDest]
=============================================================================
