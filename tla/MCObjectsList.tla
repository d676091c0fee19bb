---------------------------- MODULE MCObjectsList ----------------------------
(* Key a with a delete marker's place and two versions, and key ab, whose    *)
(* name begins with a, with one version, which may be locked.                *)
EXTENDS ObjectsList

MCKeyAt == <<"a", "a", "a", "ab">>
MCHasPrefix == [k \in {"a", "ab"} |-> IF k = "a" THEN {"a", "ab"} ELSE {"ab"}]
MCQueries == {{"a", "ab"}, {"ab"}}
=============================================================================
