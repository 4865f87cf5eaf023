----------------------------- MODULE MCCatalogs -----------------------------
(* One database; on disk a flat schema "t" and one that nests itself, "r";    *)
(* a schema "s" that is defined twice; the collections a and a_f.             *)
EXTENDS Catalogs

Field(n, type) == [name |-> n, type |-> type]

MCSchemas == {"s", "t", "r", "s_blended"}
MCDefinitions == {Schema("s", <<Field("f", "t")>>, <<>>),
                  Schema("s", <<>>, <<"t">>)}
MCGiven == {Schema("t", <<Field("g", "rid")>>, <<>>), Schema("r", <<Field("f", "r")>>, <<>>)}
MCBindings == {Unbound, "g" :> <<"a">>}
MCBlendedName == [s \in {"s"} |-> "s_blended"]
MCCols == {<<"a">>, <<"a", "f">>}

=============================================================================
