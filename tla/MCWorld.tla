------------------------------ MODULE MCWorld ------------------------------
(* Instances of World for TLC: two component types, and the bundles that the *)
(* callers use in each run.                                                  *)
EXTENDS World

CONSTANTS A, B

MCComponents == {A, B}

NoBundles == {}
OneOrBoth == {<<A>>, <<A, B>>}
AnyBundle == {<<A>>, <<B>>, <<B, A>>}
OnlyB == {<<B>>}
=============================================================================
