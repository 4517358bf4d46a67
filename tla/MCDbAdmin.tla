--------------------------------- MODULE MCDbAdmin ---------------------------------
\* Two commands on one server; Init and Next treat them alike, and the properties
\* quantify over both.
EXTENDS DbAdmin, TLC

CONSTANTS c1, c2

Symmetry == Permutations(Commands)
=====================================================================================
