----------------------------- MODULE MCKeySpace -----------------------------
(***************************************************************************)
(* KeySpace for TLC: short names that are prefixes of each other, that     *)
(* look like numbers, and that have separators in them.                    *)
(***************************************************************************)
EXTENDS KeySpace

\* "1", "10", "b:1"
MCNames == {<<49>>, <<49, 48>>, <<98, 58, 49>>}

\* "b", "b:1", "c:d"
MCSeparated == {<<98>>, <<98, 58, 49>>, <<99, 58, 100>>}

\* Two messages; one chunk each.
MCTags == {<<100, 58, 48>>, <<101, 58, 48>>}
=============================================================================
