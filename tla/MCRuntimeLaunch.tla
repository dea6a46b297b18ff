--------------------------- MODULE MCRuntimeLaunch ---------------------------
(* RuntimeLaunch on small instances. *)
EXTENDS RuntimeLaunch, TLC

CONSTANTS l1, l2, r1, s1, s2, n1, n2, src, arg

MCVersions  == 1..2
MCBuilt     == [source : {src}, operation : {"acquisition", "processing"}]
MCArguments == {<<"delimiter", arg>>}
Symmetry    == Permutations({s1, s2})
                 \cup Permutations({l1, l2})
                 \cup Permutations({n1, n2})
=============================================================================
