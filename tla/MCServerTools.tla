--------------------------- MODULE MCServerTools ----------------------------
\* Small instances of the groups of server tools: two calls, one failure.
EXTENDS ServerTools
CONSTANTS c1, c2

MCCalls == {c1, c2}
MCSymmetry == Permutations(MCCalls)

MCPgaGibs == {1, 2, 4}
MCGibs == {6, 7, 13}
MCOrders == {<<"P", "Q">>, <<"Q", "P">>, <<"P", "Q", "P">>, <<"Q">>}

Refresh(s, b, e, r) == [stuck |-> s, breach |-> b, errors |-> e, ran |-> r]
MCRefreshCases ==
  {Refresh(0, 0, 0, TRUE), Refresh(0, 0, 0, FALSE), Refresh(0, 0, 3, TRUE),
   Refresh(0, 0, 5, TRUE), Refresh(1, 0, 0, FALSE), Refresh(0, 1, 0, TRUE), Refresh(0, 1, 1, TRUE),
   Refresh(5, 0, 1, TRUE)}
MCNodes == {"n1", "n2"}
MCBookmarks == {"n1"}
=============================================================================
