------------------------------- MODULE Queries -------------------------------
(* Queries with a where clause on a collection of documents: the scans of       *)
(* DocumentManager::select, deleteWhere and update, entry by entry, the clause   *)
(* each of them parses and evaluates, and the expression update solves.  The     *)
(* log and its undo are in DocumentWal; here the question is which documents a   *)
(* query takes and what it makes of them.                                        *)
EXTENDS WhereClause, FiniteSets, TLC

CONSTANTS Rids, Absent, Blank, None,
          Capitals,                  \* other ways to write true and false
          Entries,                   \* the objects of insert queries: fields and texts
          Requests                   \* the queries: kind, clause (a group) and
                                     \* for an update [field, expression]

Kinds == {"select", "delete", "update"}
Fields == DOMAIN FieldType
IsEntry(e) == \E fields \in SUBSET Fields : e \in [fields -> Texts]
Modifies == [field : Fields, expression : Seq(Texts) \ {<<>>}]

(* The clause a query has asked for, as it is parsed with what select and update  *)
(* have after it.  They throw when the clause has taken of that; a delete looks   *)
(* at nothing after its clause.                                                   *)
After(kind) == IF kind = "delete" THEN <<>> ELSE <<IF kind = "select" THEN "fields" ELSE "modify">>
Asked(request) == ParseGroup(Written(request.clause) \o After(request.kind))
Accepted(request) ==
    /\ Asked(request).ok
    /\ request.kind # "delete" => Asked(request).next = Len(Written(request.clause)) + 1

\* Texts has what the parser joins in a query it accepts.
ASSUME QueriesAssumption ==
    /\ \A e \in Entries : IsEntry(e)
    /\ Fields \cap ({"("} \cup Sums \cup Products) = {}
    /\ ~IsEntry(Absent) /\ ~IsEntry(Blank) /\ Absent # Blank
    /\ Requests \subseteq [kind : {"select", "delete"}, clause : Groups[Depth], modify : {None}]
                           \cup [kind : {"update"}, clause : Groups[Depth], modify : Modifies]
    /\ \A request \in Requests : Accepted(request) => Asked(request).group \in Groups[Depth]
    /\ None \notin [kind : Kinds, modify : Modifies \cup {None},
                    asked : Groups[Depth], clause : Groups[Depth]]
    /\ \A n \in Ints : to_string[n] \in Texts

VARIABLES
    rows,       \* [Rids -> Absent, Blank (an empty file) or an entry]
    caches,     \* the static variables of In and Like
    query,      \* None, or the query under way
    left,       \* the documents the scan has still to read
    chosen,     \* those it has taken
    before      \* the documents the query found

vars == <<rows, caches, query, left, chosen, before>>

Holds(t, type) == (type = "Integer" => Readable(t)) /\ (type = "Boolean" => t \in {"true", "false"})

Init == /\ rows = [r \in Rids |-> Absent]
        /\ caches = NoCaches
        /\ query = None
        /\ left = {} /\ chosen = {}
        /\ before = rows

\* Mutant: any text is stored.
jsonifyAny(e) == TRUE
\* jsonify refuses a text its field cannot hold before the file is opened; true
\* and false may be written in capitals.
jsonify(e) == \A f \in DOMAIN e :
    Holds(e[f], FieldType[f]) \/ (FieldType[f] = "Boolean" /\ e[f] \in Capitals)

Insert(r, e) ==
    /\ query = None /\ rows[r] = Absent
    /\ jsonify(e)
    /\ rows' = [rows EXCEPT ![r] = e]
    /\ UNCHANGED <<caches, query, left, chosen, before>>

\* A query that cannot be parsed changes nothing.
Ask(request) ==
    /\ query = None
    /\ Accepted(request)
    /\ query' = [kind |-> request.kind, modify |-> request.modify,
                  asked |-> request.clause, clause |-> Asked(request).group]
    /\ left' = {r \in Rids : rows[r] # Absent}
    /\ chosen' = {}
    /\ before' = rows
    /\ UNCHANGED <<rows, caches>>

(* What update makes of an entry.  A String field takes the expression as it   *)
(* stands; the case of a Boolean field has no break and goes on to read the    *)
(* text it has set as an Integer, which throws.                                *)
Solved(e, modify) ==
    LET f == modify.field
    IN  IF FieldType[f] = "String" THEN [is |-> "text", text |-> modify.expression[1]]
        ELSE IF FieldType[f] = "Integer" /\ f \in DOMAIN e
        THEN solveNumericExpression(modify.expression, f, Number[e[f]])
        ELSE Throws

SetField(e, f, t) == [g \in DOMAIN e \cup {f} |-> IF g = f THEN t ELSE e[g]]

\* The texts update may give the field; none when it throws.
NewTexts(e, modify) ==
    LET solved == Solved(e, modify)
    IN  IF solved.is = "text" THEN {solved.text}
        ELSE IF solved.is = "value" THEN {to_string[solved.value]}
        ELSE IF solved.is = "undefined" THEN {to_string[n] : n \in Ints}
        ELSE {}

Evaluated(r) == Evaluation(rows[r])[Depth][query.clause][caches]

Takes(r) ==
    /\ chosen' = chosen \cup {r}
    /\ \/ query.kind = "select" /\ UNCHANGED rows
       \/ query.kind = "delete" /\ rows' = [rows EXCEPT ![r] = Absent]
       \/ /\ query.kind = "update"
          /\ \E t \in NewTexts(rows[r], query.modify) :
               rows' = [rows EXCEPT ![r] = SetField(rows[r], query.modify.field, t)]

Examine(r) ==
    /\ query # None /\ r \in left
    /\ rows[r] # Blank
    /\ \E answer \in {Evaluated(r)} :
         /\ caches' = answer.caches
         /\ \/ answer.is = "yes" /\ Takes(r)
            \/ answer.is = "no" /\ UNCHANGED <<rows, chosen>>
    /\ left' = left \ {r}
    /\ UNCHANGED <<query, before>>

\* The scan throws: at an empty file, in the evaluation, or in an update,
\* which has truncated the file by then.  Undefined behaviour may end here too.
Breaks(r) ==
    \/ rows[r] = Blank /\ UNCHANGED <<rows, caches>>
    \/ /\ rows[r] # Blank
       /\ \E answer \in {Evaluated(r)} :
            /\ caches' = answer.caches
            /\ \/ answer.is = Fails /\ UNCHANGED rows
               \/ /\ answer.is = "yes" /\ query.kind = "update"
                  /\ Solved(rows[r], query.modify).is \in {"throws", "undefined"}
                  /\ rows' = [rows EXCEPT ![r] = Blank]

Idle == query' = None /\ left' = {} /\ chosen' = {} /\ before' = [r \in Rids |-> Absent]

Fail(r) == query # None /\ r \in left /\ Breaks(r) /\ Idle

End == query # None /\ left = {} /\ Idle /\ UNCHANGED <<rows, caches>>

\* A new process starts with empty statics.
Restart == query = None /\ caches' = NoCaches /\ UNCHANGED <<rows, query, left, chosen, before>>

Next == \/ \E r \in Rids, e \in Entries : Insert(r, e)
        \/ \E request \in Requests : Ask(request)
        \/ \E r \in Rids : Examine(r) \/ Fail(r)
        \/ End
        \/ Restart

Spec == Init /\ [][Next]_vars

-----------------------------------------------------------------------------
(* What a clause means.  A side is the content of the field it names, or the   *)
(* text itself; texts compare as numbers when the field is an Integer.          *)
Content(e, o) == IF o \in DOMAIN e THEN e[o] ELSE o
Measure(e, t, o) == IF FieldType[t.lhs] = "Integer" THEN Number[o] ELSE Rank(o)

Relates(op, x, y) ==
    \/ op \in {"==", ">=", "<="} /\ x = y
    \/ op \in {">", ">="} /\ x > y
    \/ op \in {"<", "<="} /\ x < y

MeetsTerm(e, t) ==
    LET lhs == Content(e, t.lhs)
        rhs == Content(e, t.rhs)
        side(o) == Measure(e, t, o)
    IN  IF t.op = "in" THEN lhs \in Lists[t.rhs]
        ELSE IF t.op = "like" THEN lhs \in Matched(rhs)
        ELSE IF t.op = "between"
        THEN side(lhs) >= side(Ranges[t.rhs][1]) /\ side(lhs) <= side(Ranges[t.rhs][2])
        ELSE Relates(t.op, side(lhs), side(rhs))

\* In inner are the groups of a lower depth the entry meets.
MeetsItem(inner, e, item) == IF item.kind = "term" THEN MeetsTerm(e, item) ELSE item \in inner

MeetsItems(inner, e, items) ==
    IF Len(items) = 1 THEN MeetsItem(inner, e, items[1])
    ELSE IF items[2].op = "and" THEN MeetsItem(inner, e, items[1]) /\ MeetsItem(inner, e, items[3])
    ELSE MeetsItem(inner, e, items[1]) \/ MeetsItem(inner, e, items[3])

Met(e) == LET met[n \in 0 .. Depth] ==
                IF n = 0 THEN {}
                ELSE {group \in Groups[n] : MeetsItems(met[n - 1], e, group.items)}
          IN  met

Meets(e, clause) == clause \in Met(e)[Depth]

(* The clauses this meaning is for: at most two items in a group and no          *)
(* negation, each term with a field the entry holds on its left and a side that   *)
(* can be compared with it on its right.  A number is one that convert takes for   *)
(* a number; the list of an empty text is the one searched last, and the pattern   *)
(* "" is never compiled.                                                           *)
IsNumber(t) == Readable(t) /\ t \notin HoldsAnd \cup DOMAIN Ranges

Comparable(e, t) ==
    /\ t.lhs \in DOMAIN e
    /\ FieldType[t.lhs] # "Boolean"
    /\ t.op = "like" => Content(e, t.rhs) \notin Malformed \cup {Empty}
    /\ t.op = "in" => e[t.lhs] # Empty
    /\ t.rhs \in DOMAIN e => /\ t.op \notin {"in", "between"}
                             /\ {t.lhs, t.rhs} \cap Nested = {}
                             /\ FieldType[t.lhs] = FieldType[t.rhs]
    /\ FieldType[t.lhs] = "Integer" =>
         /\ IsNumber(e[t.lhs])
         /\ IF t.op = "between" THEN \A i \in {1, 2} : Readable(Ranges[t.rhs][i])
            ELSE t.op \in Compares /\ IsNumber(Content(e, t.rhs))

\* With first, a group only where the evaluation keeps what it found before it.
PlainItem(inner, e, item) == IF item.kind = "term" THEN Comparable(e, item) ELSE item \in inner

PlainGroup(inner, e, first, group) ==
    /\ ~group.negated /\ Len(group.items) \in {1, 3}
    /\ PlainItem(inner, e, group.items[1])
    /\ Len(group.items) = 3 => /\ group.items[2].kind = "op"
                               /\ PlainItem(inner, e, group.items[3])
                               /\ first => group.items[3].kind = "term"

Plain(e, first) ==
    LET plain[n \in 0 .. Depth] ==
          IF n = 0 THEN {} ELSE {group \in Groups[n] : PlainGroup(plain[n - 1], e, first, group)}
    IN  plain

Judged(r, first) ==
    /\ Plainly(Written(query.asked))
    /\ before[r] \notin {Absent, Blank} /\ query.asked \in Plain(before[r], first)[Depth]

(* The parser rebuilds the clause as it was written, groups in groups and         *)
(* negations included, unless it has an empty text or an in without a list          *)
(* (recursiveParseBooleanExpression, Utils.cpp:201; extractWord, :63; In, :141).     *)
ParsedAsWritten ==
    query # None /\ Plainly(Written(query.asked)) => query.clause = query.asked

(* A document that a query takes - returns, removes or rewrites - meets the       *)
(* clause, whatever the statics hold from the entries and queries before          *)
(* (EvaluateWhereClause.cpp:306, 349).                                            *)
TakenMeet == query # None =>
    \A r \in chosen : Judged(r, FALSE) => Meets(before[r], query.asked)

(* A document a scan has passed without taking it does not meet the clause,       *)
(* when groups come first only (evaluateBooleanExpression lets a later group      *)
(* replace the result and joins a false to it, EvaluateWhereClause.cpp:419).      *)
PassedDoNotMeet == query # None =>
    \A r \in Rids \ (left \cup chosen) : Judged(r, TRUE) => ~Meets(before[r], query.asked)

(* An update of a document it has taken leaves the value its expression means     *)
(* by the usual rules, and the other documents as they were                       *)
(* (Calculus::solveNumericExpression, Common.inl:52).                             *)
UpdatedAsWritten == query # None /\ query.kind = "update" =>
    \A r \in Rids :
      IF r \notin chosen THEN rows[r] = before[r]
      ELSE LET m == query.modify
               meaning == Meaning(m.expression, m.field, Number[before[r][m.field]])
           IN  FieldType[m.field] = "Integer" /\ Arithmetic(m.expression, m.field)
                 /\ meaning.is = "value"
               => rows[r] = [before[r] EXCEPT ![m.field] = to_string[meaning.value]]

(* What an Integer field holds can be read back: no later scan throws on the       *)
(* conversion of its content (Common.cpp:61-77, update's std::to_string,              *)
(* DocumentManager.cpp:127).                                                          *)
StoredReadable == \A r \in Rids : rows[r] \notin {Absent, Blank} =>
    \A f \in DOMAIN rows[r] : FieldType[f] = "Integer" => Readable(rows[r][f])
=============================================================================
