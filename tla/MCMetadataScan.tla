--------------------------- MODULE MCMetadataScan ---------------------------
(* One file that parses to any small tree, beside files of every other kind. *)
EXTENDS MetadataScan, TLC

Path(id) == [id |-> id, place |-> "metadata_dir", listed_name |-> FALSE,
             suffix |-> "json_yaml", marker |-> FALSE, outside |-> FALSE]
Config == Path(1)
Dataset == [Path(2) EXCEPT !.place = "elsewhere", !.marker = TRUE]
Card == [Path(3) EXCEPT !.place = "elsewhere", !.listed_name = TRUE, !.suffix = "toml_md"]
Workflow == [Path(4) EXCEPT !.place = "excluded", !.marker = TRUE]
Linked == [Path(5) EXCEPT !.outside = TRUE]
ManyPaths == {Config, Dataset, Card, Workflow, Linked}

ManyListings ==
    {<< >>, <<Config, Dataset>>, <<Workflow, Linked, Dataset, Card, Config>>}

Root == [parent |-> 0, key |-> "none", value |-> "mapping"]
Doc(nodes, loop) ==
    [state |-> "parsed", nodes |-> nodes, loop |-> loop, unhashable |-> FALSE]
Broken == [Missing EXCEPT !.state = "broken"]

\* The nodes that can follow those of a tree, in the order they are written: a
\* key in mappings only, and at most one child in a JSON text.
Ancestors(nodes) ==
    LET above[n \in 0..Len(nodes)] ==
            IF n = 0 THEN {} ELSE {n} \cup above[nodes[n].parent]
    IN  above[Len(nodes)]
Container(nodes, p) ==
    \/ nodes[p].value \in {"mapping", "list"}
    \/ nodes[p].value = "json" /\ \A n \in DOMAIN nodes : nodes[n].parent # p
\* A text is only decoded if it looks like a mapping or a list.
Below(value, values) ==
    IF value = "json" THEN values \cap {"mapping", "list"} ELSE values
Following(nodes, values) ==
    UNION {[parent : {p}, value : Below(nodes[p].value, values),
            key : IF nodes[p].value = "mapping" THEN Keys \ {"none"} ELSE {"none"}] :
             p \in {q \in Ancestors(nodes) : Container(nodes, q)}}
Grown(trees, values) ==
    trees \cup UNION {{Append(t, n) : n \in Following(t, values)} : t \in trees}

SmallTrees ==
    Grown(Grown(Grown({<<Root>>}, {"mapping", "list", "json", "text"}), Values),
          {"sensitive_text", "alias"})

Item(value) == [parent |-> 2, key |-> "none", value |-> value]
ListOf(items) == <<Root, [parent |-> 1, key |-> "plain", value |-> "list"]>> \o items
Others ==
    {Doc(<<[Root EXCEPT !.value = "list"], [Item("sensitive_text") EXCEPT !.parent = 1]>>, FALSE),
     Doc(<<Root>>, TRUE),
     Doc(ListOf(<<Item("split"), Item("float")>>), FALSE),
     Doc(ListOf(<<Item("int"), Item("int")>>), FALSE),
     [Doc(ListOf(<<Item("alias")>>), FALSE) EXCEPT !.unhashable = TRUE],
     [Doc(ListOf(<<Item("float")>>), FALSE) EXCEPT !.unhashable = TRUE],
     Broken, Missing}
Elsewhere == Doc(<<Root, [parent |-> 1, key |-> "forbidden", value |-> "alias"]>>, TRUE)

Tree(a, b) == (Config :> a) @@ (Dataset :> b) @@ [p \in ManyPaths |-> Elsewhere]
SplitOnly == Doc(ListOf(<<Item("split"), Item("int"), Item("int")>>), FALSE)
ManyWorlds ==
    {Tree(Doc(t, FALSE), SplitOnly) : t \in SmallTrees} \cup {Tree(a, b) : a, b \in Others}
SomeEdits == {Missing, Elsewhere}
=============================================================================
