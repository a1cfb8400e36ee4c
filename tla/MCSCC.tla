-------------------------------- MODULE MCSCC --------------------------------
(****************************************************************************)
(* Inputs for SCC: graphs of four nodes around a fork of two ways, one of   *)
(* which goes on; every other edge but one may be there or not.             *)
(****************************************************************************)
EXTENDS SCC

CONSTANTS a, b, c, d

FourNodes == {a, b, c, d}

fixed == {<<a, b>>, <<a, c>>, <<b, d>>}
free  == {<<a, d>>, <<b, a>>, <<b, c>>, <<c, a>>, <<c, d>>, <<d, a>>, <<d, b>>, <<d, c>>, <<d, d>>}

AllGraphs == {fixed \cup g : g \in SUBSET free}
=============================================================================
