------------------------- MODULE MCTraceServerRaces -------------------------
(* Two requests at a time, on sessions of two, of no and of one refused    *)
(* property, with traces that lead somewhere, nowhere and to a dead end.   *)
EXTENDS MCTraceServer, TraceServerRaces

Pairs   == {<<"Fa", "Until">>, <<"Fb", "Bad">>, <<>>}
Traces2 == {<<"a", "b">>, <<"x", "b">>}   \* no formula names "x"
=============================================================================
