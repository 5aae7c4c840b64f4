---------------------------- MODULE MCClientStore ----------------------------
(***************************************************************************)
(* A small instance of ClientStore: three ids for one place, three URIs    *)
(* for lists of two.  The more ids are in play, the fewer URIs are.        *)
(***************************************************************************)
EXTENDS ClientStore, TLC

Symmetry == Permutations(URIs) \cup Permutations(Callers) \cup Permutations(KiteKeys)

\* The entries in the map, in rows on their way and in the table, by id.
InPlay(id) ==
    ({clients[id], db[id]} \ {NoEntry}) \cup {saving[p].row : p \in PendingFor(id)}

\* A bound: three ids with one URI, two with two, or one with three.
FewIdsOrUris ==
    LET ids  == {id \in Ids : InPlay(id) # {}}
        uris == UNION {e.uris : e \in UNION {InPlay(id) : id \in ids}}
    IN  Cardinality(ids) + Cardinality(uris) <= 4
=============================================================================
