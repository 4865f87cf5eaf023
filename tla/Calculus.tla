------------------------------ MODULE Calculus ------------------------------
(* Selenity's arithmetic (Collections/private/Common.inl, Common.cpp): the   *)
(* expression an update gives an Integer field, solved token by token with a  *)
(* stack of values and one of operations.  A token is a string; Number gives  *)
(* what std::stoi reads in it, NaN when it throws.  An int lies in            *)
(* -MaxInt-1 .. MaxInt: a token beyond it throws, and a result beyond it, a   *)
(* modulo whose quotient is no int and a value taken from an empty stack are  *)
(* undefined.                                                                 *)
EXTENDS Integers, Sequences, SequencesExt

CONSTANTS Number, NaN, MaxInt,
          Digits,                    \* tokens of digits alone
          Symbols,                   \* tokens of one character, digits apart
          to_string                  \* [int -> the text std::to_string makes of it]

Ints == -MaxInt-1 .. MaxInt
Sums == {"+", "-"}
Products == {"*", "/"}

ASSUME CalculusAssumption ==
    /\ MaxInt \in Nat
    /\ NaN \notin Int
    /\ \A t \in DOMAIN Number : Number[t] \in Int \cup {NaN}
    /\ \A t \in Digits : t \in DOMAIN Number /\ Number[t] \in Nat
    /\ Sums \cup Products \subseteq Symbols \ Digits /\ "(" \notin Digits
    /\ \A n \in Ints : to_string[n] \in DOMAIN Number /\ Number[to_string[n]] = n

Readable(t) == t \in DOMAIN Number /\ Number[t] # NaN /\ Number[t] \in Ints

Value(n)  == [is |-> "value", value |-> n]
Throws    == [is |-> "throws"]
Undefined == [is |-> "undefined"]

Magnitude(n) == IF n < 0 THEN -n ELSE n
Quotient(a, b) == LET q == Magnitude(a) \div Magnitude(b)
                  IN  IF (a < 0) = (b < 0) THEN q ELSE -q

Result(n) == IF n \in Ints THEN Value(n) ELSE Undefined

applyOperation(a, b, operation) ==
    CASE operation = "+" -> Result(a + b)
      [] operation = "-" -> Result(a - b)
      [] operation = "*" -> Result(a * b)
      [] operation = "/" -> IF b = 0 THEN Throws ELSE Result(Quotient(a, b))
      [] operation = "%" -> IF b = 0 \/ Quotient(a, b) \notin Ints THEN Undefined
                            ELSE Result(a - b * Quotient(a, b))
      [] OTHER -> Throws

\* Mutant: all operations bind alike.
precedenceFlat(operation) == IF operation \in Sums \cup Products THEN 1 ELSE 0
precedence(operation) == IF operation \in Sums THEN 1
                         ELSE IF operation \in Products THEN 2 ELSE 0

(* The machine: the stacks, top last, and whether it goes on.                 *)
Machine(values, operations) == [is |-> "value", values |-> values, operations |-> operations]

\* Takes two values and the last operation, and puts the result back.
Reduce(m) ==
    IF Len(m.values) < 2 THEN Undefined
    ELSE LET rest   == Front(Front(m.values))
             result == applyOperation(Last(Front(m.values)), Last(m.values), Last(m.operations))
         IN  IF result.is = "value" THEN Machine(Append(rest, result.value), Front(m.operations))
             ELSE result

Binds(m, least) ==
    m.is = "value" /\ m.operations # <<>> /\ precedence(Last(m.operations)) >= least

ReduceIf(m, least) == IF Binds(m, least) THEN Reduce(m) ELSE m

\* The loop of an operator token, and with least 0 the one of the end.  It
\* reduces at most as often as there are operations.
ReduceWhile(m, least) ==
    LET reduced[k \in 0 .. Len(m.operations)] ==
          IF k = 0 THEN m ELSE ReduceIf(reduced[k - 1], least)
    IN  reduced[Len(m.operations)]

\* The loop of a closing brace: its emplace() pushes the operation NUL and is
\* true of it, so the loop never looks for the opening brace.
CloseBrace(m) == Reduce(Machine(m.values, Append(m.operations, "NUL")))

Push(m, t) == IF Readable(t) THEN Machine(Append(m.values, Number[t]), m.operations) ELSE Throws
PushOperation(m, t) ==
    IF m.is = "value" THEN Machine(m.values, Append(m.operations, t)) ELSE m

Token(m, t, key, keyNumeric) ==
    IF m.is # "value" THEN m
    ELSE IF t = "(" THEN PushOperation(m, t)
    ELSE IF t = key THEN Machine(Append(m.values, keyNumeric), m.operations)
    ELSE IF t \in Digits THEN Push(m, t)
    ELSE IF t = ")" THEN CloseBrace(m)
    ELSE IF t \in Symbols THEN PushOperation(ReduceWhile(m, precedence(t)), t)
    ELSE m

\* The machine after each number of tokens.
Reads(expression, key, keyNumeric) ==
    LET read[i \in 0 .. Len(expression)] ==
          IF i = 0 THEN Machine(<<>>, <<>>) ELSE Token(read[i - 1], expression[i], key, keyNumeric)
    IN  read

solveNumericExpression(expression, key, keyNumeric) ==
    LET read == Reads(expression, key, keyNumeric)[Len(expression)]
        end  == IF read.is = "value" THEN ReduceWhile(read, 0) ELSE read
    IN  IF end.is # "value" THEN end
        ELSE IF end.values = <<>> THEN Undefined ELSE Value(Last(end.values))

-----------------------------------------------------------------------------
(* What such an expression means, by the usual rules: operands and + - * / in  *)
(* turn are a sum of products, either grouped from the left.                   *)
Arithmetic(expression, key) ==
    /\ Len(expression) % 2 = 1
    /\ \A i \in DOMAIN expression :
         IF i % 2 = 1 THEN expression[i] = key \/ expression[i] \in Digits
         ELSE expression[i] \in Sums \cup Products

Operand(t, key, keyNumeric) ==
    IF t = key THEN Value(keyNumeric)
    ELSE IF Readable(t) THEN Value(Number[t]) ELSE Throws

Combine(a, operation, b) ==
    IF a.is # "value" THEN a
    ELSE IF b.is # "value" THEN b ELSE applyOperation(a.value, b.value, operation)

\* The operand k, and the operation before it.
OperandAt(expression, k, key, keyNumeric) == Operand(expression[2 * k - 1], key, keyNumeric)
Before(expression, k) == expression[2 * k - 2]

(* What has been read up to an operand: a sum, the sign of the product that      *)
(* follows it, and this product so far.                                           *)
Partial(sum, sign, product) == [sum |-> sum, sign |-> sign, product |-> product]
Total(partial) == Combine(partial.sum, partial.sign, partial.product)
With(partial, operation, operand) ==
    IF operation \in Sums THEN Partial(Total(partial), operation, operand)
    ELSE Partial(partial.sum, partial.sign, Combine(partial.product, operation, operand))

Partials(expression, key, keyNumeric) ==
    LET partial[k \in 0 .. (Len(expression) - 1) \div 2] ==
          IF k = 0 THEN Partial(Value(0), "+", OperandAt(expression, 1, key, keyNumeric))
          ELSE With(partial[k - 1], Before(expression, k + 1),
                    OperandAt(expression, k + 1, key, keyNumeric))
    IN  partial

Meaning(expression, key, keyNumeric) ==
    Total(Partials(expression, key, keyNumeric)[(Len(expression) - 1) \div 2])
=============================================================================
