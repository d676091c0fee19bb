---------------------------- MODULE MCLunGroups ----------------------------
(* One group that has a disk, a name for another, and a device that may be  *)
(* free.                                                                    *)
EXTENDS LunGroups

MCPools == {[g \in {"g", "h"} |-> IF g = "g" THEN {"d1"} ELSE {}],
            [g \in {"g", "h"} |-> IF g = "g" THEN {"d1", "d2"} ELSE {}]}
=============================================================================
