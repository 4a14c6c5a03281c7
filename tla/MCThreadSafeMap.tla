--------------------------- MODULE MCThreadSafeMap ---------------------------
(* ThreadSafeMap for TLC: the strings.                                     *)
EXTENDS ThreadSafeMap

MCKeyOrder == <<<<"">>, <<"a">>, <<"a", "b">>, <<"b">>, <<"x">>>>
MCNewKeys == {<<"a">>, <<"a", "b">>}
MCNewValues == {<<"x">>, <<"b", "x">>, <<"">>}

=============================================================================
