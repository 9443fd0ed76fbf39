---------------------------- MODULE MCConfigCache ----------------------------
(* Instances of ConfigCache for TLC. *)
EXTENDS ConfigCache, TLC

CONSTANTS k1, k2

\* Two keys asked for together.
TwoKeyQueries == {<<k1, k2>>}

\* A list that names a key twice.
DuplicateQueries == {<<k1, k1>>}

\* Everything, or the keys without a tag.
SomePrefixes == {Names, {Plain(k) : k \in Keys}}
AllNames == {Names}

Symmetry == Permutations(Requests) \cup Permutations(Values \ {Empty})
=============================================================================
