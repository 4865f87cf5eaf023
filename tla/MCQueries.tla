------------------------------ MODULE MCQueries ------------------------------
(* An instance of Queries for TLC: ints from -3 to 2, texts whose order is not  *)
(* the order of their numbers, a dotted field and clauses of every operator.      *)
EXTENDS Queries

NumberOf == "-4" :> -4 @@ "-3" :> -3 @@ "-2" :> -2 @@ "-1" :> -1 @@ "0" :> 0 @@ "1" :> 1
              @@ "2" :> 2 @@ "3" :> 3 @@ "10" :> 10 @@ "ann" :> NaN @@ "andy" :> NaN
TextsInOrder == <<"", "%", "(", ")", "*", "+", "-", "-1", "-2", "-2 and 1", "-2 and ann",
                  "-3", "-4", "/", "0", "1", "10", "2",
                  "2 or name in [andy]", "3", "TRUE", "[andy]", "[ann,2]",
                  "a.*n", "age", "an.*", "an[", "andy", "ann", "city", "name", "no age",
                  "on", "or name == ann )", "true">>
TypeOf == "name" :> "String" @@ "city" :> "String" @@ "age" :> "Integer" @@ "on" :> "Boolean"
ListOf == "[ann,2]" :> {"ann", "2"} @@ "[andy]" :> {"andy"}
RangeOf == "-2 and 1" :> <<"-2", "1">> @@ "-2 and ann" :> <<"-2", "ann">>
JoinedOf(tokens) ==
    LET quoted(t) == IF t = Empty THEN "\"\"" ELSE t
    IN  FoldLeft(LAMBDA line, t : line \o " " \o quoted(t), quoted(Head(tokens)), Tail(tokens))
PatternOf == "an.*" :> {"andy", "ann"} @@ "a.*n" :> {"ann"}

EntriesOf == {"name" :> "ann"  @@ "age" :> "1" @@ "city" :> "2",
              "name" :> "andy" @@ "age" :> "-2" @@ "on" :> "TRUE",
              "name" :> "" @@ "city" :> "ann" @@ "on" :> "true",
              "name" :> "2" @@ "age" :> "ann"}

Young == Term("age", "<", "1")
Ann   == Term("name", "==", "ann")
Nameless == Term("name", "==", Empty)
TermsOf == {Young, Ann, Term("age", ">=", "-1"), Term("-1", "<=", "age"), Term("age", "between", "-2 and 1"),
          Term("name", "between", "-2 and ann"), Term("name", "in", "[ann,2]"),
          Term("city", "in", "[ann,2]"), Term("name", "like", "an.*"), Term("name", "like", "a.*n"),
          Term("age", ">", "andy"), Term("age", "==", "10"), Term("name", "<", "age"),
          Term("name", "==", "city"), Term("age", "in", "name"),
          Term("on", "==", "true"), Term("2", "==", "name"), Term("name", "like", "an[")}
In(items) == Group(FALSE, items)
Clauses == {In(<<t>>) : t \in TermsOf}
        \cup {In(<<Ann, Bool(op), t>>) : op \in {"and", "or"}, t \in {Young, Term("name", "like", "a.*n")}}
        \cup {In(<<In(<<Ann, Bool("or"), Young>>), Bool("and"), Term("age", "<=", "1")>>),
              In(<<Term("name", "in", "[andy]"), Bool("or"), Term("name", "in", "[ann,2]")>>),
              In(<<Term("name", "like", "an.*"), Bool("and"), In(<<Young, Bool("or"), Ann>>)>>),
              In(<<Term("name", "like", "an.*"), Bool("or"), In(<<Young>>)>>),
              In(<<Group(TRUE, <<Young>>), Bool("or"), Ann>>),
              In(<<Ann, Bool("or"), Young, Bool("or"), Term("name", "==", "2")>>),
              In(<<Ann, Bool("or"), Young, Bool("or"), Ann, Bool("or"), Ann>>),
              In(<<Bool("or"), Ann>>)}
\* Empty texts, in terms of each place and operator, and in without a list.
NotPlain == {In(<<Nameless>>), In(<<Nameless, Bool("or"), Ann>>), In(<<Term(Empty, "==", "ann")>>),
             In(<<Ann, Bool("or"), Term("name", "like", Empty)>>),
             In(<<Term("city", "in", "2")>>),
             In(<<Term("city", "in", "2"), Bool("or"), Term("name", "in", "[andy]")>>)}

Age(expression) == [field |-> "age", expression |-> expression]
Updates == {Age(<<"2", "-", "age", "-", "1">>),
               Age(<<"1", "+", "age", "*", "2">>), Age(<<"2", "/", "age">>),
               Age(<<"(", "age", "+", "1", ")", "*", "2">>), Age(<<"age", "+", "-1">>),
               Age(<<"2", "%", "2", "+", "age">>),
               [field |-> "on", expression |-> <<"true">>]}
RequestsOf ==
    [kind : {"select"}, clause : Clauses \cup NotPlain, modify : {None}]
      \cup [kind : {"delete"}, modify : {None},
            clause : {In(<<Ann>>), In(<<Term("name", "like", "an.*")>>)} \cup NotPlain]
      \cup [kind : {"update"}, clause : {In(<<Young, Bool("or"), Ann>>)}, modify : Updates]
      \cup [kind : {"update"}, clause : {In(<<Term("on", "==", "true")>>)},
            modify : {[field |-> "name", expression |-> <<"ann">>]}]

\* Nothing tells the files of two documents apart.
Symmetry == Permutations(Rids)

DigitsOf == {"0", "1", "2", "3", "10"}
TextOf == [n \in -3 .. 2 |-> ToString(n)]
SymbolsOf == {"+", "-", "*", "/", "%", "("}
=============================================================================
