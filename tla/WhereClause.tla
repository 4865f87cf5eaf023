----------------------------- MODULE WhereClause -----------------------------
(* Where clauses: Moonlight's parser (Utils.cpp, recursiveParseBooleanExpression) *)
(* and Selenity's evaluation of a clause on an entry (EvaluateWhereClause.cpp).   *)
(* A text is a string.  The texts of lists, ranges and patterns are names: Lists, *)
(* Ranges and Patterns say what QueryExtractor and std::regex find in them, and    *)
(* no other text has a ].                                                         *)
(* An entry is a function from the fields it holds to their texts; a field of     *)
(* Nested is the dotted path of a field of a nested object.                       *)
EXTENDS Calculus

CONSTANTS FieldType,                 \* [field -> "String", "Integer" or "Boolean"]
          Nested,                    \* the dotted ones of these fields
          TextOrder,                 \* the texts in std::string's order
          HoldsAnd,                  \* the texts that match .*and.*
          Malformed,                 \* patterns std::regex does not take
          Lists, Ranges, Patterns,   \* [name -> set, pair or set of texts]
          Joined(_),                 \* the text that some tokens are together
          Depth                      \* how deep the groups of a clause nest

Term(lhs, op, rhs) == [kind |-> "term", lhs |-> lhs, op |-> op, rhs |-> rhs]
Bool(op) == [kind |-> "op", op |-> op]
Group(negated, items) == [kind |-> "group", negated |-> negated, items |-> items]
Compares == {"==", ">", ">=", "<", "<="}
BinaryOperators  == Compares \cup {"in", "between", "like"}
BooleanOperators == {"and", "or"}
Marks == {"(", ")", "!"} \cup BooleanOperators

Empty == ""
Texts == {TextOrder[i] : i \in DOMAIN TextOrder}
\* A range is not quoted, a list ends the right hand side of in alone.
Terms == {t \in [kind : {"term"}, lhs : Texts \ (Marks \cup DOMAIN Lists),
                 op : BinaryOperators, rhs : Texts] :
            /\ t.op = "between" => t.rhs \in DOMAIN Ranges
            /\ t.rhs \in DOMAIN Lists => t.op = "in"}
Bools == [kind : {"op"}, op : BooleanOperators]
\* The groups of each depth, the first of terms and operators alone.
Groups[n \in 0 .. Depth] ==
    IF n = 0 THEN {}
    ELSE [kind : {"group"}, negated : BOOLEAN, items : Seq(Terms \cup Bools \cup Groups[n - 1])]

ASSUME WhereClauseAssumption ==
    /\ Depth \in Nat
    /\ DOMAIN TextOrder \subseteq Nat /\ Empty \in Texts
    /\ DOMAIN FieldType \subseteq Texts
    /\ \A f \in DOMAIN FieldType : FieldType[f] \in {"String", "Integer", "Boolean"}
    /\ \A name \in DOMAIN Lists : Lists[name] \subseteq Texts
    /\ \A name \in DOMAIN Ranges : Ranges[name] \in Texts \X Texts
    /\ \A pattern \in DOMAIN Patterns : Patterns[pattern] \subseteq Texts

(* The parser.  At each token it finds the items up to the closing brace of    *)
(* their group and the token after them, or fails.                              *)
Items(items, next) == [ok |-> TRUE, items |-> items, next |-> next]
Parsed(group, next) == [ok |-> TRUE, group |-> group, next |-> next]
NotParsed == [ok |-> FALSE]

Then(item, more) == IF more.ok THEN Items(<<item>> \o more.items, more.next) ELSE NotParsed
Grouped(negated, inner) ==
    IF inner.ok THEN Parsed(Group(negated, inner.items), inner.next) ELSE NotParsed

\* A word and the token after it.  An empty text in quotes is not the word when
\* something follows: that is all the rest of the query.
Taken(text, next) == [ok |-> TRUE, is |-> text, next |-> next]
Word(tokens, i) ==
    IF i > Len(tokens) THEN Taken(Empty, Len(tokens) + 1)
    ELSE IF tokens[i] # Empty \/ i = Len(tokens) THEN Taken(tokens[i], i + 1)
    ELSE Taken(Joined(SubSeq(tokens, i + 1, Len(tokens))), Len(tokens) + 1)

\* What the operator takes for its right hand side: in all up to the first ].
Least(S) == CHOOSE k \in S : \A other \in S : k <= other
Extract(op, tokens, i) ==
    LET ends == {k \in i .. Len(tokens) : tokens[k] \in DOMAIN Lists}
        end  == Least(ends)
    IN  IF op = "in"
        THEN IF ends = {} THEN NotParsed
             ELSE Taken(IF end = i THEN tokens[i] ELSE Joined(SubSeq(tokens, i, end)), end + 1)
        ELSE IF op = "between" /\ (i > Len(tokens) \/ tokens[i] \notin DOMAIN Ranges)
        THEN NotParsed ELSE Word(tokens, i)

\* Mutant: the negation of a group is forgotten.
GroupAtForgets(parse, tokens, i) ==
    LET open == IF i <= Len(tokens) /\ tokens[i] = "!" THEN i + 1 ELSE i
    IN  IF open >= Len(tokens) \/ tokens[open] # "(" THEN NotParsed
        ELSE Grouped(FALSE, parse[open + 1])

GroupAt(parse, tokens, i) ==
    LET negated == i <= Len(tokens) /\ tokens[i] = "!"
        open    == IF negated THEN i + 1 ELSE i
    IN  IF open >= Len(tokens) \/ tokens[open] # "(" THEN NotParsed
        ELSE Grouped(negated, parse[open + 1])

\* The term of the left hand side before token i.
TermAt(parse, tokens, lhs, i) ==
    LET rhs == Extract(tokens[i], tokens, i + 1)
    IN  IF i <= Len(tokens) /\ tokens[i] \in BinaryOperators /\ rhs.ok
        THEN Then(Term(lhs, tokens[i], rhs.is), parse[rhs.next]) ELSE NotParsed

ItemsAt(parse, tokens, i) ==
    IF i > Len(tokens) THEN Items(<<>>, i)
    ELSE IF tokens[i] = ")" THEN Items(<<>>, i + 1)
    ELSE IF tokens[i] \in {"!", "("}
    THEN LET inner == GroupAt(parse, tokens, i)
         IN  IF inner.ok THEN Then(inner.group, parse[inner.next]) ELSE NotParsed
    ELSE LET word == Word(tokens, i)
         IN  IF word.is \in BooleanOperators THEN Then(Bool(word.is), parse[word.next])
             ELSE TermAt(parse, tokens, word.is, word.next)

ParseItems(tokens) ==
    LET parse[i \in 1 .. Len(tokens) + 1] == ItemsAt(parse, tokens, i) IN parse

ParseGroup(tokens) == GroupAt(ParseItems(tokens), tokens, 1)

(* The tokens of a clause as a user writes it: written[n] has those of the     *)
(* groups of depth n, and line[j] those of the last j items of a group.         *)
WrittenItem(inner, item) ==
    IF item.kind = "term" THEN <<item.lhs, item.op, item.rhs>>
    ELSE IF item.kind = "op" THEN <<item.op>> ELSE inner[item]

WrittenItems(inner, items) ==
    LET line[j \in 0 .. Len(items)] ==
          IF j = 0 THEN <<")">>
          ELSE WrittenItem(inner, items[Len(items) + 1 - j]) \o line[j - 1]
    IN  line

WrittenGroup(inner, group) ==
    (IF group.negated THEN <<"!">> ELSE <<>>) \o <<"(">>
      \o WrittenItems(inner, group.items)[Len(group.items)]

WrittenGroups ==
    LET written[n \in 0 .. Depth] ==
          IF n = 0 THEN <<>> ELSE [group \in Groups[n] |-> WrittenGroup(written[n - 1], group)]
    IN  written

Written(clause) == WrittenGroups[Depth][clause]

\* A clause the parser can give back: no empty text and each "in" before a list.
Plainly(tokens) == \A i \in 1 .. Len(tokens) :
    /\ tokens[i] # Empty
    /\ tokens[i] = "in" => i < Len(tokens) /\ tokens[i + 1] \in DOMAIN Lists

-----------------------------------------------------------------------------
(* FieldData: the alternative a value holds and the value; the alternatives   *)
(* are ordered before the values (string, bool, int).                         *)
AsText(t) == [type |-> 0, is |-> t]
Fails == "fails"
CannotConvert == [type |-> 3]        \* an exception
Asserts       == [type |-> 4]        \* a failed assertion, or memory that is not there

convert(t, type) ==
    IF type = "String" \/ t \in HoldsAnd \/ t \in DOMAIN Ranges THEN AsText(t)
    ELSE IF type = "Integer"
    THEN IF Readable(t) THEN [type |-> 2, is |-> Number[t]] ELSE CannotConvert
    ELSE IF t \in {"true", "false"} THEN [type |-> 1, is |-> IF t = "true" THEN 1 ELSE 0]
    ELSE Asserts

Rank(t) == CHOOSE i \in DOMAIN TextOrder : TextOrder[i] = t
Same(x, y) == x.type = y.type /\ x.is = y.is
Less(x, y) == \/ x.type < y.type
              \/ x.type = y.type /\ (IF x.type = 0 THEN Rank(x.is) < Rank(y.is) ELSE x.is < y.is)
\* Mutant: >= and <= without equality.
AtMostStrict(x, y) == Less(x, y)
AtMost(x, y) == ~Less(y, x)

\* Here a text that matches .*and.* is a text to no other type.
sameTypeAs(x, t) ==
    IF x.type = 2 THEN IF Readable(t) THEN [type |-> 2, is |-> Number[t]] ELSE CannotConvert
    ELSE IF x.type = 1 /\ t \in {"true", "false"}
    THEN [type |-> 1, is |-> IF t = "true" THEN 1 ELSE 0] ELSE AsText(t)

\* A side is the content of the field it names or the text itself, and an
\* empty text passes for a dotted field.  Of two fields one of which is dotted
\* the left path is read twice, the second time as an empty path.  A field on
\* the right alone gives its type, but its name in place of its content.
getLhsRhs(e, lhs, rhs) ==
    LET held(f) == f \in DOMAIN e \/ f = Empty
        contains(f) == f \in DOMAIN e \ Nested
        field(f) == IF f = Empty THEN Asserts ELSE convert(e[f], FieldType[f])
    IN  IF held(lhs) /\ held(rhs)
        THEN IF contains(lhs) /\ contains(rhs) THEN <<field(lhs), field(rhs)>>
             ELSE <<Asserts, Asserts>>
        ELSE IF held(lhs)
        THEN <<field(lhs), IF lhs = Empty THEN Asserts ELSE convert(rhs, FieldType[lhs])>>
        ELSE IF held(rhs)
        THEN IF rhs = Empty THEN <<Asserts, Asserts>>
             ELSE <<convert(lhs, FieldType[rhs]), convert(rhs, FieldType[rhs])>>
        ELSE <<AsText(lhs), AsText(rhs)>>

(* The static variables of In and Like: the list searched last (the text it   *)
(* came from is never kept), the last pattern and its regex.                  *)
Caches == [list : SUBSET Texts, pattern : Texts, regex : SUBSET Texts]
NoCaches == [list |-> {}, pattern |-> Empty, regex |-> {}]
ListFor(caches, lhs, rhs) == IF lhs # Empty THEN Lists[rhs] ELSE caches.list
Listing(caches, lhs, rhs) == [caches EXCEPT !.list = ListFor(caches, lhs, rhs)]
Matched(pattern) == IF pattern \in DOMAIN Patterns THEN Patterns[pattern] ELSE {pattern}
\* Mutant: a pattern is compiled only once.
CompilingOnce(caches, pattern) ==
    IF caches.pattern # Empty THEN caches
    ELSE [caches EXCEPT !.pattern = pattern, !.regex = Matched(pattern)]
\* A pattern that cannot be compiled is kept, and so is the regex before it.
Compiling(caches, pattern) ==
    IF caches.pattern = pattern THEN caches
    ELSE [caches EXCEPT !.pattern = pattern,
                        !.regex = IF pattern \in Malformed THEN @ ELSE Matched(pattern)]

Answer(holds, caches) == [is |-> IF holds THEN "yes" ELSE "no", caches |-> caches]
Failure(caches) == [is |-> Fails, caches |-> caches]
Abort           == Failure(NoCaches)     \* the process ends

Compare(op, x, y) ==
    IF op = "==" THEN Same(x, y)
    ELSE IF op = ">"  THEN Less(y, x)
    ELSE IF op = ">=" THEN AtMost(y, x)
    ELSE IF op = "<"  THEN Less(x, y) ELSE AtMost(x, y)

Within(x, range) ==
    LET low == sameTypeAs(x, range[1])
        high == sameTypeAs(x, range[2])
    IN  IF low.type >= 3 THEN Fails
        ELSE IF ~AtMost(low, x) THEN "no"
        ELSE IF high.type >= 3 THEN Fails
        ELSE IF AtMost(x, high) THEN "yes" ELSE "no"

Searching(x, y, caches) ==
    IF x.is # Empty /\ y.is \notin DOMAIN Lists THEN Failure(caches)
    ELSE LET listing == Listing(caches, x.is, y.is) IN Answer(x.is \in listing.list, listing)

Matching(x, y, caches) ==
    LET compiling == Compiling(caches, y.is)
    IN  IF y.is \in Malformed /\ caches.pattern # y.is THEN Failure(compiling)
        ELSE Answer(x.is \in compiling.regex, compiling)

evaluateBinaryExpression(term, e, caches) ==
    LET sides == getLhsRhs(e, term.lhs, term.rhs)
        x == sides[1]
        y == sides[2]
    IN  IF x.type = 4 \/ (x.type < 3 /\ y.type = 4) THEN Abort
        ELSE IF x.type = 3 \/ y.type = 3 THEN Failure(caches)
        ELSE IF term.op \in Compares THEN Answer(Compare(term.op, x, y), caches)
        ELSE IF y.type # 0 THEN Failure(caches)
        ELSE IF term.op = "between"
        THEN IF y.is \in DOMAIN Ranges THEN [is |-> Within(x, Ranges[y.is]), caches |-> caches]
             ELSE Failure(caches)
        ELSE IF x.type # 0 THEN Failure(caches)
        ELSE IF term.op = "in" THEN Searching(x, y, caches) ELSE Matching(x, y, caches)

\* What the groups of a lower depth evaluate to is in inner.
evaluateOperand(inner, item, e, caches) ==
    IF item.kind = "term" THEN evaluateBinaryExpression(item, e, caches) ELSE inner[item][caches]

\* A term after an operator joins the result; a group there replaces the
\* result, and the false of a term is joined to it.
Join(op, result, item, answer) ==
    LET left  == IF item.kind = "term" THEN result = "yes" ELSE answer.is = "yes"
        right == item.kind = "term" /\ answer.is = "yes"
    IN  IF op = "and" THEN left /\ right ELSE left \/ right

Operands(items) == {i \in DOMAIN items : items[i].kind # "op"}

JoinAt(inner, items, i, e, s) ==
    IF s.is = Fails THEN s
    ELSE IF i \notin Operands(items) \/ i - 1 \in Operands(items) THEN Abort
    ELSE LET answer == evaluateOperand(inner, items[i], e, s.caches)
         IN  IF answer.is = Fails THEN answer
             ELSE Answer(Join(items[i - 1].op, s.is, items[i], answer), answer.caches)

\* Every third item is taken with the operator before it.
Results(inner, items, e, caches) ==
    LET result[k \in 0 .. Len(items) \div 3] ==
          IF k = 0 THEN evaluateOperand(inner, items[1], e, caches)
          ELSE JoinAt(inner, items, 3 * k, e, result[k - 1])
    IN  result

evaluateBooleanExpression(inner, items, e, caches) ==
    IF 1 \notin Operands(items) THEN Abort
    ELSE Results(inner, items, e, caches)[Len(items) \div 3]

Evaluation(e) ==
    LET evaluate[n \in 0 .. Depth] ==
          IF n = 0 THEN <<>>
          ELSE [group \in Groups[n] |->
                  [c \in Caches |-> evaluateBooleanExpression(evaluate[n - 1], group.items, e, c)]]
    IN  evaluate
=============================================================================
