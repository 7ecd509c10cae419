------------------------------ MODULE MCSearch ------------------------------
(* Two tenants with the same two entities, and a few records and requests. *)
EXTENDS Search, TLC

CONSTANTS t1, t2, u1, u2, s1, s2

Named == [type |-> "table", source |-> s1, match |-> {"name", "tags"}]
Described == [type |-> "dashboard", source |-> s2, match |-> {"description"}]
Tagged == [type |-> "table", source |-> s1, match |-> {"tags"}]
Silent == [type |-> "dataset", source |-> s2, match |-> {}]
Unsearchable == [type |-> "source_connection", source |-> s1, match |-> {"name"}]

Contents == {Named, Described, Tagged, Silent, Unsearchable}

Everything == [text |-> FALSE, types |-> {}, sources |-> {}]
Text == [text |-> TRUE, types |-> {}, sources |-> {}]
Tables == [text |-> TRUE, types |-> {"table", "lineage_edge"}, sources |-> {}]
FromSource == [text |-> FALSE, types |-> {}, sources |-> {s1}]
Nothing == [text |-> FALSE, types |-> {"lineage_edge"}, sources |-> {}]

Asked == {Everything, Text, Tables, FromSource, Nothing}

Alike == Permutations({t1, t2}) \cup Permutations({u1, u2})
=============================================================================
