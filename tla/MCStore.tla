------------------------------ MODULE MCStore ------------------------------
(* Instances of Store for TLC: two entries, one of them in a directory.      *)
EXTENDS Store, TLC

CONSTANT Keys
KeyLists == {{k} : k \in Keys}
KeySymmetry == Permutations(Keys)

MCEntries == {<<"x">>, <<"s", "x">>}

\* Two paths that an import may give to three items (ImportPathsUnique).
FlatEntries == {<<"x">>, <<"x-2">>}

MCSuffixed(e, n) == Append(Front(e), Last(e) \o "-" \o ToString(n))
=============================================================================
