------------------------------- MODULE MCWfs -------------------------------
(* Small instances of Wfs for TLC: two names, one of them also below the    *)
(* other; one direct block of two cells, then the indirect block.           *)
EXTENDS Wfs

TwoNames == {<<"a">>, <<"b">>, <<"a", "b">>}
============================================================================
