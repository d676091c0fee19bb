--------------------------- MODULE MCCreateOrUpdate ---------------------------
(* Three calls, one of them replacing what it finds. *)
EXTENDS CreateOrUpdate

CONSTANTS c1, c2, c3

MCClient == {c1, c2, c3}
MCReplacing == {c3}
=============================================================================
