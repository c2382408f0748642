--------------------------- MODULE MCCDMExtractor ---------------------------
(* Small readers for CDMExtractor.  x is a falling axis of three positions   *)
(* so that picks can have a gap, time is unlimited and comes last.           *)
EXTENDS CDMExtractor

MCDims == {"x", "y", "time"}
MCOrgLength == [x |-> 3, y |-> 2, time |-> 2]
MCVars == {"wind", "x", "mask"}
MCShape == [wind |-> <<"x", "y", "time">>, x |-> <<"x">>, mask |-> <<"x", "y">>]
MCInMemory == {"x", "mask"}
MCDepends == [wind |-> {}, x |-> {"mask"}, mask |-> {"wind"}]   \* found in two rounds
MCAxisValues == [x |-> <<30, 20, 10>>, time |-> <<1, 2>>]
MCBoxes == {{}, {<<0, 0>>, <<2, 1>>}, {<<1, 1>>}}
MCPicks == SUBSET (0 .. 2) \cup {{0, 3}}
MCAxisBounds == {0, 2, 10, 20}
MCEnds == {-1, 0, 1}
MCSelections == {{"x", "unknown"}}
=============================================================================
