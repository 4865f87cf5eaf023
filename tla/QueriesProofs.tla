----------------------------- MODULE QueriesProofs -----------------------------
(* The queries take the documents that meet their clause and make of them what    *)
(* they ask for: the arithmetic gives what its expressions mean, for any number    *)
(* of tokens; the parser rebuilds the clause that was written, at any depth; its    *)
(* evaluation agrees with its meaning; and QInv, with these, is inductive.          *)
EXTENDS Queries, SequenceTheorems, TLAPS

-----------------------------------------------------------------------------
(* The recursive functions of the model, each an instance of Recursion.           *)
ReduceBase(p) == p[1]
ReduceStep(p, k, m) == ReduceIf(m, p[2])
Reductions == INSTANCE Recursion WITH Base <- ReduceBase, Step <- ReduceStep

ReadBase(p) == Machine(<<>>, <<>>)
ReadStep(p, k, m) == Token(m, p[1][k], p[2], p[3])
Readings == INSTANCE Recursion WITH Base <- ReadBase, Step <- ReadStep

PartialBase(p) == Partial(Value(0), "+", OperandAt(p[1], 1, p[2], p[3]))
PartialStep(p, k, partial) ==
    With(partial, Before(p[1], k + 1), OperandAt(p[1], k + 1, p[2], p[3]))
Sumsteps == INSTANCE Recursion WITH Base <- PartialBase, Step <- PartialStep

NestBase(p) == {}
NestStep(p, n, groups) == [kind : {"group"}, negated : BOOLEAN, items : Seq(Terms \cup Bools \cup groups)]
Nestings == INSTANCE Recursion WITH Base <- NestBase, Step <- NestStep

LineBase(p) == <<")">>
LineStep(p, j, line) == WrittenItem(p[1], p[2][Len(p[2]) + 1 - j]) \o line
Lines == INSTANCE Recursion WITH Base <- LineBase, Step <- LineStep

WriteBase(p) == <<>>
WriteStep(p, n, written) == [group \in Groups[n] |-> WrittenGroup(written, group)]
Writings == INSTANCE Recursion WITH Base <- WriteBase, Step <- WriteStep

JoinBase(p) == evaluateOperand(p[1], p[2][1], p[3], p[4])
JoinStep(p, k, result) == JoinAt(p[1], p[2], 3 * k, p[3], result)
Joins == INSTANCE Recursion WITH Base <- JoinBase, Step <- JoinStep

EvaluateBase(e) == <<>>
EvaluateStep(e, n, evaluate) ==
    [group \in Groups[n] |-> [c \in Caches |-> evaluateBooleanExpression(evaluate, group.items, e, c)]]
Evaluations == INSTANCE Recursion WITH Base <- EvaluateBase, Step <- EvaluateStep

MetBase(e) == {}
MetStep(e, n, met) == {group \in Groups[n] : MeetsItems(met, e, group.items)}
Meetings == INSTANCE Recursion WITH Base <- MetBase, Step <- MetStep

PlainBase(p) == {}
PlainStep(p, n, plain) == {group \in Groups[n] : PlainGroup(plain, p[1], p[2], group)}
Plains == INSTANCE Recursion WITH Base <- PlainBase, Step <- PlainStep

(* What the machine of the arithmetic holds, and what it gives.                  *)
Outcomes == {Undefined, Throws} \cup [is : {"value"}, value : Ints]
Operations == Texts \cup {"NUL"} \cup Sums \cup Products
Machines == {Undefined, Throws}
              \cup [is : {"value"}, values : Seq(Ints), operations : Seq(Operations)]

-----------------------------------------------------------------------------
(* Stacks.                                                                       *)
LEMMA AppendLast == ASSUME NEW S, NEW s \in Seq(S), NEW x \in S
                    PROVE  /\ Append(s, x) \in Seq(S) /\ Len(Append(s, x)) = Len(s) + 1
                           /\ Front(Append(s, x)) = s /\ Last(Append(s, x)) = x
<1>1. /\ Append(s, x) \in Seq(S) /\ Len(Append(s, x)) = Len(s) + 1
      /\ \A i \in 1 .. Len(s) : Append(s, x)[i] = s[i]
      /\ Append(s, x)[Len(s) + 1] = x
  OBVIOUS
<1>2. Last(Append(s, x)) = x
  BY <1>1 DEF Last
<1>3. Front(Append(s, x)) = s
  BY <1>1 DEF Front
<1>4. QED
  BY <1>1, <1>2, <1>3

\* What Front and Last leave of a stack that is not empty.
LEMMA FrontLast == ASSUME NEW S, NEW s \in Seq(S), s # <<>>
                   PROVE  Front(s) \in Seq(S) /\ Last(s) \in S /\ Len(Front(s)) = Len(s) - 1
<1>1. Len(s) \in Nat /\ Len(s) - 1 \in 0 .. Len(s) /\ Len(s) \in 1 .. Len(s)
  OBVIOUS
<1>2. Last(s) \in S
  BY <1>1 DEF Last
<1>3. Front(s) \in Seq(S) /\ Len(Front(s)) = Len(s) - 1
  <2>1. \A i \in 1 .. Len(s) - 1 : s[i] \in S
    BY <1>1
  <2>2. PICK n \in Int : n = Len(s) - 1
    BY <1>1
  <2>3. SubSeq(s, 1, n) \in Seq(S) /\ Len(SubSeq(s, 1, n)) = IF 1 <= n THEN n - 1 + 1 ELSE 0
    BY <2>1, <2>2, SubSeqProperties
  <2>4. QED
    BY <1>1, <2>2, <2>3 DEF Front
<1>4. QED
  BY <1>2, <1>3

-----------------------------------------------------------------------------
(* What the machine holds stays a number of its width.                           *)
LEMMA ResultTyped == ASSUME NEW n PROVE Result(n) \in Outcomes
BY DEF Result, Outcomes, Value

\* No operation gives a number beyond the width.
LEMMA ApplyTyped == ASSUME NEW a, NEW b, NEW operation PROVE applyOperation(a, b, operation) \in Outcomes
<1>1. \A n : Result(n) \in Outcomes
  BY ResultTyped
<1>2. {Undefined, Throws} \subseteq Outcomes
  BY DEF Outcomes
<1>3. QED
  BY <1>1, <1>2 DEF applyOperation

LEMMA MachineTyped == ASSUME NEW vs \in Seq(Ints), NEW os \in Seq(Operations)
                      PROVE  Machine(vs, os) \in Machines
BY DEF Machine, Machines

\* The stacks of a machine that goes on.
LEMMA MachineParts == ASSUME NEW m \in Machines, m.is = "value"
                      PROVE  m.values \in Seq(Ints) /\ m.operations \in Seq(Operations)
BY DEF Machines, Undefined, Throws

\* A reduction keeps the stacks typed, or ends.
LEMMA ReduceTyped == ASSUME NEW m \in Machines, m.is = "value", m.operations # <<>>
                     PROVE  Reduce(m) \in Machines
<1>1. m.values \in Seq(Ints) /\ m.operations \in Seq(Operations)
  BY MachineParts
<1>2. Undefined \in Machines /\ Throws \in Machines
  BY DEF Machines
<1>3. CASE Len(m.values) < 2
  BY <1>2, <1>3 DEF Reduce
<1>4. CASE ~(Len(m.values) < 2)
  <2>1. m.values # <<>> /\ Front(m.values) \in Seq(Ints) /\ Len(Front(m.values)) = Len(m.values) - 1
    BY <1>1, <1>4, FrontLast
  <2>2. Front(m.values) # <<>>
    BY <1>1, <1>4, <2>1
  <2>3. Front(Front(m.values)) \in Seq(Ints)
    BY <2>1, <2>2, FrontLast
  <2>4. Front(m.operations) \in Seq(Operations)
    BY <1>1, FrontLast
  <2>5. PICK r : r = applyOperation(Last(Front(m.values)), Last(m.values), Last(m.operations))
    OBVIOUS
  <2>6. r \in Outcomes
    BY <2>5, ApplyTyped
  <2>7. CASE r.is = "value"
    <3>1. r.value \in Ints
      BY <2>6, <2>7 DEF Outcomes, Undefined, Throws
    <3>2. Append(Front(Front(m.values)), r.value) \in Seq(Ints)
      BY <2>3, <3>1
    <3>3. Machine(Append(Front(Front(m.values)), r.value), Front(m.operations)) \in Machines
      BY <2>4, <3>2, MachineTyped
    <3>4. QED
      BY <1>4, <2>5, <2>7, <3>3 DEF Reduce
  <2>8. CASE r.is # "value"
    <3>1. r \in Machines
      BY <2>6, <2>8 DEF Outcomes, Machines
    <3>2. QED
      BY <1>4, <2>5, <2>8, <3>1 DEF Reduce
  <2>9. QED
    BY <2>7, <2>8
<1>5. QED
  BY <1>3, <1>4

\* So does one that is conditional.
LEMMA ReduceIfTyped == ASSUME NEW m \in Machines, NEW least PROVE ReduceIf(m, least) \in Machines
BY ReduceTyped DEF ReduceIf, Binds

\* The loop of reductions, as a recursion on the operations that wait.
LEMMA ReduceWhileDefined ==
    ASSUME NEW m, NEW least, Len(m.operations) \in Nat
    PROVE  \E f : /\ f = [k \in 0 .. Len(m.operations) |-> IF k = 0 THEN m ELSE ReduceIf(f[k - 1], least)]
                  /\ ReduceWhile(m, least) = f[Len(m.operations)]
<1>1. PICK N \in Nat : N = Len(m.operations)
  OBVIOUS
<1>2. PICK p : p = <<m, least>>
  OBVIOUS
<1>3. PICK f : Reductions!IsRecursion(f, p, N)
  BY Reductions!RecursionDefined
<1>4. f = [k \in 0 .. N |-> IF k = 0 THEN m ELSE ReduceIf(f[k - 1], least)]
  BY <1>2, <1>3 DEF Reductions!IsRecursion, ReduceBase, ReduceStep
<1>5. QED
  BY <1>1, <1>4 DEF ReduceWhile

\* The loop keeps the stacks typed.
LEMMA ReduceWhileTyped == ASSUME NEW m \in Machines, m.is = "value", NEW least
                          PROVE  ReduceWhile(m, least) \in Machines
<1>1. PICK N \in Nat : N = Len(m.operations)
  BY MachineParts
<1>2. PICK f : /\ f = [k \in 0 .. N |-> IF k = 0 THEN m ELSE ReduceIf(f[k - 1], least)]
               /\ ReduceWhile(m, least) = f[N]
  BY <1>1, ReduceWhileDefined
<1>3. PICK T : T = {k \in 0 .. N : f[k] \in Machines}
  OBVIOUS
<1>4. T \in SUBSET (0 .. N) /\ 0 \in T
  BY <1>2, <1>3
<1>5. ASSUME NEW k \in T, k < N PROVE k + 1 \in T
  <2>1. k \in 0 .. N /\ k + 1 \in 0 .. N /\ f[k + 1] = ReduceIf(f[k], least)
    BY <1>2, <1>3, <1>5
  <2>2. f[k] \in Machines
    BY <1>3
  <2>3. QED
    BY <1>3, <2>1, <2>2, ReduceIfTyped
<1>6. T = 0 .. N
  BY <1>4, <1>5, Reductions!RangeSet
<1>7. N \in T
  BY <1>6
<1>8. QED
  BY <1>2, <1>3, <1>7

\* So does each token,
LEMMA TokenTyped ==
    ASSUME NEW m \in Machines, NEW t \in Texts, NEW key, NEW keyNumeric \in Ints
    PROVE  Token(m, t, key, keyNumeric) \in Machines
<1>1. SUFFICES ASSUME m.is = "value" PROVE Token(m, t, key, keyNumeric) \in Machines
  BY DEF Token
<1>2. m.values \in Seq(Ints) /\ m.operations \in Seq(Operations)
  BY <1>1, MachineParts
<1>3. \A n \in Machines : PushOperation(n, t) \in Machines
  <2>1. SUFFICES ASSUME NEW n \in Machines, n.is = "value" PROVE PushOperation(n, t) \in Machines
    BY DEF PushOperation
  <2>2. n.values \in Seq(Ints) /\ n.operations \in Seq(Operations) /\ t \in Operations
    BY <2>1, MachineParts DEF Operations
  <2>3. Append(n.operations, t) \in Seq(Operations)
    BY <2>2
  <2>4. QED
    BY <2>1, <2>2, <2>3, MachineTyped DEF PushOperation
<1>4. Machine(Append(m.values, keyNumeric), m.operations) \in Machines
  <2>1. Append(m.values, keyNumeric) \in Seq(Ints)
    BY <1>2
  <2>2. QED
    BY <1>2, <2>1, MachineTyped
<1>5. Push(m, t) \in Machines
  <2>1. CASE Readable(t)
    <3>1. Append(m.values, Number[t]) \in Seq(Ints)
      BY <1>2, <2>1 DEF Readable
    <3>2. QED
      BY <1>2, <2>1, <3>1, MachineTyped DEF Push
  <2>2. CASE ~Readable(t)
    BY <2>2 DEF Push, Machines
  <2>3. QED
    BY <2>1, <2>2
<1>6. CloseBrace(m) \in Machines
  <2>1. Append(m.operations, "NUL") \in Seq(Operations) /\ Append(m.operations, "NUL") # <<>>
    <3>1. "NUL" \in Operations
      BY DEF Operations
    <3>2. QED
      BY <1>2, <3>1
  <2>2. PICK n : n = Machine(m.values, Append(m.operations, "NUL"))
    OBVIOUS
  <2>3. n \in Machines /\ n.is = "value" /\ n.operations # <<>>
    BY <1>2, <2>1, <2>2, MachineTyped DEF Machine
  <2>4. QED
    BY <2>2, <2>3, ReduceTyped DEF CloseBrace
<1>7. ReduceWhile(m, precedence(t)) \in Machines
  BY <1>1, ReduceWhileTyped
<1>8. QED
  BY <1>1, <1>3, <1>4, <1>5, <1>6, <1>7 DEF Token

\* and reading them, a recursion on the tokens,
LEMMA ReadsDefined ==
    ASSUME NEW expression \in Seq(Texts), NEW key, NEW keyNumeric
    PROVE  Reads(expression, key, keyNumeric) =
             [i \in 0 .. Len(expression) |->
                IF i = 0 THEN Machine(<<>>, <<>>)
                ELSE Token(Reads(expression, key, keyNumeric)[i - 1], expression[i], key, keyNumeric)]
<1>1. PICK N \in Nat : N = Len(expression)
  OBVIOUS
<1>2. PICK p : p = <<expression, key, keyNumeric>>
  OBVIOUS
<1>3. PICK f : Readings!IsRecursion(f, p, N)
  BY Readings!RecursionDefined
<1>4. f = [i \in 0 .. N |-> IF i = 0 THEN Machine(<<>>, <<>>)
                            ELSE Token(f[i - 1], expression[i], key, keyNumeric)]
  BY <1>2, <1>3 DEF Readings!IsRecursion, ReadBase, ReadStep
<1>5. QED
  BY <1>1, <1>4 DEF Reads

\* does so for each of them.
LEMMA ReadsTyped ==
    ASSUME NEW expression \in Seq(Texts), NEW key, NEW keyNumeric \in Ints
    PROVE  \A i \in 0 .. Len(expression) : Reads(expression, key, keyNumeric)[i] \in Machines
<1>1. PICK N \in Nat : N = Len(expression)
  OBVIOUS
<1>2. PICK f : f = Reads(expression, key, keyNumeric)
  OBVIOUS
<1>3. f = [i \in 0 .. N |-> IF i = 0 THEN Machine(<<>>, <<>>)
                            ELSE Token(f[i - 1], expression[i], key, keyNumeric)]
  BY <1>1, <1>2, ReadsDefined
<1>4. PICK T : T = {i \in 0 .. N : f[i] \in Machines}
  OBVIOUS
<1>5. T \in SUBSET (0 .. N) /\ 0 \in T
  <2>1. <<>> \in Seq(Ints) /\ <<>> \in Seq(Operations)
    OBVIOUS
  <2>2. Machine(<<>>, <<>>) \in Machines
    BY <2>1, MachineTyped
  <2>3. QED
    BY <1>3, <1>4, <2>2
<1>6. ASSUME NEW i \in T, i < N PROVE i + 1 \in T
  <2>1. i \in 0 .. N /\ i + 1 \in 0 .. N /\ f[i + 1] = Token(f[i], expression[i + 1], key, keyNumeric)
    BY <1>3, <1>4, <1>6
  <2>2. f[i] \in Machines /\ expression[i + 1] \in Texts
    BY <1>1, <1>4, <1>6, <2>1
  <2>3. f[i + 1] \in Machines
    <3>1. PICK m \in Machines, t \in Texts : m = f[i] /\ t = expression[i + 1]
      BY <2>2
    <3>2. Token(m, t, key, keyNumeric) \in Machines
      BY TokenTyped
    <3>3. QED
      BY <2>1, <3>1, <3>2
  <2>4. QED
    BY <1>4, <2>1, <2>3
<1>7. T = 0 .. N
  BY <1>5, <1>6, Reductions!RangeSet
<1>8. QED
  BY <1>1, <1>2, <1>4, <1>7

\* What an update solves is a number of its width, an exception or undefined.
LEMMA SolvedTyped ==
    ASSUME NEW expression \in Seq(Texts), NEW key, NEW keyNumeric \in Ints
    PROVE  solveNumericExpression(expression, key, keyNumeric) \in Outcomes
<1>1. PICK m : m = Reads(expression, key, keyNumeric)[Len(expression)]
  OBVIOUS
<1>2. m \in Machines
  <2>1. Len(expression) \in 0 .. Len(expression)
    OBVIOUS
  <2>2. QED
    BY <1>1, <2>1, ReadsTyped
<1>3. PICK end : end = IF m.is = "value" THEN ReduceWhile(m, 0) ELSE m
  OBVIOUS
<1>4. end \in Machines
  BY <1>2, <1>3, ReduceWhileTyped
<1>5. solveNumericExpression(expression, key, keyNumeric) =
        IF end.is # "value" THEN end
        ELSE IF end.values = <<>> THEN Undefined ELSE Value(Last(end.values))
  BY <1>1, <1>3 DEF solveNumericExpression
<1>6. CASE end.is # "value"
  BY <1>4, <1>5, <1>6 DEF Machines, Outcomes
<1>7. CASE end.is = "value" /\ end.values # <<>>
  <2>1. Last(end.values) \in Ints
    BY <1>4, <1>7, MachineParts, FrontLast
  <2>2. QED
    BY <1>5, <1>7, <2>1 DEF Outcomes, Value
<1>8. CASE end.is = "value" /\ end.values = <<>>
  BY <1>5, <1>8 DEF Outcomes
<1>9. QED
  BY <1>6, <1>7, <1>8

-----------------------------------------------------------------------------
(* The machine agrees with the meaning.  After each operand the stacks hold the  *)
(* sum so far with its sign, or neither at the start, and above them the product  *)
(* so far, or the two numbers and the operation it is still to be made of.         *)
Live(partial) == partial.sum.is = "value" /\ partial.product.is = "value"

HoldsSum(partial, vs, os) ==
    \/ vs = <<>> /\ os = <<>> /\ partial.sum = Value(0) /\ partial.sign = "+"
    \/ /\ \E s \in Ints : vs = Append(<<>>, s) /\ partial.sum = Value(s)
       /\ partial.sign \in Sums /\ os = Append(<<>>, partial.sign)

HoldsProduct(partial, vs, os, m) ==
    \/ \E a \in Ints : m = Machine(Append(vs, a), os) /\ partial.product = Value(a)
    \/ \E a, b \in Ints, o \in Products :
         /\ m = Machine(Append(Append(vs, a), b), Append(os, o))
         /\ partial.product = applyOperation(a, b, o)

Represents(m, partial) == \E vs \in Seq(Ints), os \in Seq(Operations) :
    HoldsSum(partial, vs, os) /\ HoldsProduct(partial, vs, os, m)

\* A value is a number of its width.
LEMMA OutcomeValue == ASSUME NEW r \in Outcomes, r.is = "value" PROVE r.value \in Ints /\ r = Value(r.value)
BY DEF Outcomes, Value, Undefined, Throws

\* What a reduction makes of the top of the stacks.
LEMMA ReduceTop ==
    ASSUME NEW vs \in Seq(Ints), NEW os \in Seq(Operations), NEW a \in Ints, NEW b \in Ints,
           NEW o \in Operations, NEW c \in Ints, applyOperation(a, b, o) = Value(c)
    PROVE  Reduce(Machine(Append(Append(vs, a), b), Append(os, o))) = Machine(Append(vs, c), os)
<1>1. PICK v1 : v1 = Append(vs, a)
  OBVIOUS
<1>2. PICK v2 : v2 = Append(v1, b)
  OBVIOUS
<1>3. v1 \in Seq(Ints) /\ Len(v1) = Len(vs) + 1 /\ Front(v1) = vs /\ Last(v1) = a
  BY <1>1, AppendLast
<1>4. v2 \in Seq(Ints) /\ Len(v2) = Len(v1) + 1 /\ Front(v2) = v1 /\ Last(v2) = b
  BY <1>2, <1>3, AppendLast
<1>5. PICK o1 : o1 = Append(os, o)
  OBVIOUS
<1>6. Front(o1) = os /\ Last(o1) = o
  BY <1>5, AppendLast
<1>7. PICK m : m = Machine(v2, o1)
  OBVIOUS
<1>8. m.values = v2 /\ m.operations = o1
  BY <1>7 DEF Machine
<1>9. ~(Len(m.values) < 2)
  <2>1. Len(vs) \in Nat
    OBVIOUS
  <2>2. QED
    BY <1>3, <1>4, <1>8, <2>1
<1>10. Reduce(m) = Machine(Append(vs, c), os)
  <2>1. applyOperation(Last(Front(m.values)), Last(m.values), Last(m.operations)) = Value(c)
    BY <1>3, <1>4, <1>6, <1>8
  <2>2. Front(Front(m.values)) = vs /\ Front(m.operations) = os
    BY <1>3, <1>4, <1>6, <1>8
  <2>3. Value(c).is = "value" /\ Value(c).value = c
    BY DEF Value
  <2>4. QED
    BY <1>9, <2>1, <2>2, <2>3 DEF Reduce
<1>11. QED
  BY <1>1, <1>2, <1>5, <1>7, <1>10

\* Up to two operations wait.
LEMMA ReduceWhileFew ==
    ASSUME NEW m, NEW least
    PROVE  /\ Len(m.operations) = 0 => ReduceWhile(m, least) = m
           /\ Len(m.operations) = 1 => ReduceWhile(m, least) = ReduceIf(m, least)
           /\ Len(m.operations) = 2 => ReduceWhile(m, least) = ReduceIf(ReduceIf(m, least), least)
<1>1. SUFFICES ASSUME Len(m.operations) \in {0, 1, 2}
               PROVE  /\ Len(m.operations) = 0 => ReduceWhile(m, least) = m
                      /\ Len(m.operations) = 1 => ReduceWhile(m, least) = ReduceIf(m, least)
                      /\ Len(m.operations) = 2 =>
                           ReduceWhile(m, least) = ReduceIf(ReduceIf(m, least), least)
  OBVIOUS
<1>2. PICK N \in Nat : N = Len(m.operations)
  BY <1>1
<1>3. PICK f : /\ f = [k \in 0 .. N |-> IF k = 0 THEN m ELSE ReduceIf(f[k - 1], least)]
               /\ ReduceWhile(m, least) = f[N]
  BY <1>2, ReduceWhileDefined
<1>4. f[0] = m
  BY <1>3
<1>5. N >= 1 => f[1] = ReduceIf(m, least)
  BY <1>3, <1>4
<1>6. N >= 2 => f[2] = ReduceIf(f[1], least)
  BY <1>3
<1>7. CASE N = 0
  BY <1>2, <1>3, <1>4, <1>7
<1>8. CASE N = 1
  BY <1>2, <1>3, <1>5, <1>8
<1>9. CASE N = 2
  BY <1>2, <1>3, <1>5, <1>6, <1>9
<1>10. QED
  BY <1>1, <1>2, <1>7, <1>8, <1>9

\* When the last operation binds.
LEMMA BindsTop ==
    ASSUME NEW vs \in Seq(Ints), NEW os \in Seq(Operations), NEW o \in Operations, NEW least \in Nat
    PROVE  /\ Len(Machine(vs, Append(os, o)).operations) = Len(os) + 1
           /\ Binds(Machine(vs, Append(os, o)), least) <=> precedence(o) >= least
<1>1. Last(Append(os, o)) = o /\ Len(Append(os, o)) = Len(os) + 1 /\ Append(os, o) # <<>>
  BY AppendLast
<1>2. QED
  BY <1>1 DEF Binds, Machine

\* Products bind closer than sums.
LEMMA Precedences == /\ \A o \in Sums : precedence(o) = 1 /\ o \in {"+", "-"}
                     /\ \A o \in Products : precedence(o) = 2
BY DEF precedence, Sums, Products

\* One waiting operation that binds and leaves a number.
LEMMA ReduceIfTop ==
    ASSUME NEW vs \in Seq(Ints), NEW os \in Seq(Operations), NEW a \in Ints, NEW b \in Ints,
           NEW o \in Operations, NEW c \in Ints, applyOperation(a, b, o) = Value(c),
           NEW least \in Nat, precedence(o) >= least
    PROVE  ReduceIf(Machine(Append(Append(vs, a), b), Append(os, o)), least) = Machine(Append(vs, c), os)
<1>1. PICK v2 \in Seq(Ints) : v2 = Append(Append(vs, a), b)
  <2>1. Append(vs, a) \in Seq(Ints)
    BY AppendLast
  <2>2. QED
    BY <2>1, AppendLast
<1>2. Binds(Machine(v2, Append(os, o)), least)
  BY BindsTop
<1>3. Reduce(Machine(v2, Append(os, o))) = Machine(Append(vs, c), os)
  BY <1>1, ReduceTop
<1>4. QED
  BY <1>1, <1>2, <1>3 DEF ReduceIf

\* The operators are operations the machine can hold.
LEMMA OperationTokens == Sums \subseteq Operations /\ Products \subseteq Operations
BY DEF Sums, Products, Operations

\* A product operator or a sum operator makes one number of the product.
LEMMA ReducesProduct ==
    ASSUME NEW partial, partial.product.is = "value", NEW vs \in Seq(Ints), NEW os \in Seq(Operations),
           NEW m, HoldsProduct(partial, vs, os, m), NEW least \in 0 .. 2
    PROVE  \E c \in Ints :
             /\ partial.product = Value(c)
             /\ \/ m = Machine(Append(vs, c), os)
                \/ /\ ReduceIf(m, least) = Machine(Append(vs, c), os)
                   /\ Len(m.operations) = Len(os) + 1
<1>1. CASE \E a \in Ints : m = Machine(Append(vs, a), os) /\ partial.product = Value(a)
  BY <1>1
<1>2. CASE \E a, b \in Ints, o \in Products :
             /\ m = Machine(Append(Append(vs, a), b), Append(os, o))
             /\ partial.product = applyOperation(a, b, o)
  <2>1. PICK a \in Ints, b \in Ints, o \in Products :
             /\ m = Machine(Append(Append(vs, a), b), Append(os, o))
             /\ partial.product = applyOperation(a, b, o)
    BY <1>2
  <2>2. PICK c \in Ints : partial.product = Value(c)
    BY <2>1, ApplyTyped, OutcomeValue
  <2>3. o \in Operations /\ precedence(o) = 2 /\ precedence(o) >= least /\ least \in Nat
    BY OperationTokens, Precedences
  <2>4. ReduceIf(m, least) = Machine(Append(vs, c), os)
    <3>1. applyOperation(a, b, o) = Value(c)
      BY <2>1, <2>2
    <3>2. ReduceIf(Machine(Append(Append(vs, a), b), Append(os, o)), least) = Machine(Append(vs, c), os)
      BY <2>3, <3>1, ReduceIfTop
    <3>3. QED
      BY <2>1, <3>2
  <2>5. Len(m.operations) = Len(os) + 1
    <3>1. Append(Append(vs, a), b) \in Seq(Ints)
      <4>1. Append(vs, a) \in Seq(Ints)
        BY AppendLast
      <4>2. QED
        BY <4>1, AppendLast
    <3>2. QED
      BY <2>1, <2>3, <3>1, BindsTop
  <2>6. QED
    BY <2>2, <2>4, <2>5
<1>3. QED
  BY <1>1, <1>2 DEF HoldsProduct

\* What the sum side holds waits for one operation at most, and with the
\* product it makes the total.
LEMMA ReducesSum ==
    ASSUME NEW partial, NEW vs \in Seq(Ints), NEW os \in Seq(Operations), HoldsSum(partial, vs, os),
           NEW c \in Ints, partial.product = Value(c), NEW n, n = Machine(Append(vs, c), os)
    PROVE  /\ Len(n.operations) = Len(os)
           /\ Len(os) \in {0, 1}
           /\ Len(os) = 1 => ReduceIf(n, 2) = n
           /\ \A d \in Ints, least \in {0, 1} : Total(partial) = Value(d) =>
                IF Len(os) = 0 THEN n = Machine(Append(<<>>, d), <<>>)
                ELSE ReduceIf(n, least) = Machine(Append(<<>>, d), <<>>)
<1>1. Len(n.operations) = Len(os)
  BY DEF Machine
<1>2. Append(vs, c) \in Seq(Ints)
  BY AppendLast
<1>3. CASE vs = <<>> /\ os = <<>> /\ partial.sum = Value(0) /\ partial.sign = "+"
  <2>1. Total(partial) = Result(0 + c)
    BY <1>3 DEF Total, Combine, Value, applyOperation
  <2>2. Total(partial) = Value(c)
    BY <2>1 DEF Result, Ints
  <2>3. \A d \in Ints : Total(partial) = Value(d) => d = c
    BY <2>2 DEF Value
  <2>4. Len(os) = 0
    BY <1>3
  <2>5. QED
    BY <1>1, <1>3, <2>3, <2>4
<1>4. CASE /\ \E s \in Ints : vs = Append(<<>>, s) /\ partial.sum = Value(s)
           /\ partial.sign \in Sums /\ os = Append(<<>>, partial.sign)
  <2>1. PICK s \in Ints : vs = Append(<<>>, s) /\ partial.sum = Value(s)
    BY <1>4
  <2>2. PICK o : o = partial.sign
    OBVIOUS
  <2>3. /\ o \in Sums /\ o \in Operations /\ precedence(o) = 1
        /\ <<>> \in Seq(Operations) /\ <<>> \in Seq(Ints) /\ os = Append(<<>>, o)
    BY <1>4, <2>2, OperationTokens, Precedences
  <2>4. Len(os) = 1
    BY <2>3
  <2>5. ReduceIf(n, 2) = n
    <3>1. Binds(n, 2) <=> precedence(o) >= 2
      BY <1>2, <2>3, BindsTop
    <3>2. QED
      BY <2>3, <3>1 DEF ReduceIf
  <2>6. ASSUME NEW d \in Ints, NEW least \in {0, 1}, Total(partial) = Value(d)
        PROVE  ReduceIf(n, least) = Machine(Append(<<>>, d), <<>>)
    <3>1. applyOperation(s, c, o) = Value(d)
      BY <2>1, <2>2, <2>6 DEF Total, Combine, Value
    <3>2. least \in Nat /\ precedence(o) >= least
      BY <2>3
    <3>3. PICK v \in Seq(Ints), q \in Seq(Operations) : v = <<>> /\ q = <<>>
      BY <2>3
    <3>4. ReduceIf(Machine(Append(Append(v, s), c), Append(q, o)), least) = Machine(Append(v, d), q)
      BY <2>3, <3>1, <3>2, ReduceIfTop
    <3>5. QED
      BY <2>1, <2>3, <3>3, <3>4
  <2>7. QED
    BY <1>1, <2>4, <2>5, <2>6
<1>5. QED
  BY <1>3, <1>4 DEF HoldsSum

\* Before the next product the machine has the product so far as one number.
LEMMA ForProduct ==
    ASSUME NEW m, NEW partial, Live(partial), Represents(m, partial)
    PROVE  \E vs \in Seq(Ints), os \in Seq(Operations), c \in Ints :
             /\ HoldsSum(partial, vs, os) /\ partial.product = Value(c)
             /\ ReduceWhile(m, 2) = Machine(Append(vs, c), os)
<1>1. PICK vs \in Seq(Ints), os \in Seq(Operations) :
        HoldsSum(partial, vs, os) /\ HoldsProduct(partial, vs, os, m)
  BY DEF Represents
<1>2. PICK c \in Ints :
        /\ partial.product = Value(c)
        /\ \/ m = Machine(Append(vs, c), os)
           \/ ReduceIf(m, 2) = Machine(Append(vs, c), os) /\ Len(m.operations) = Len(os) + 1
  BY <1>1, ReducesProduct DEF Live
<1>3. PICK n : n = Machine(Append(vs, c), os)
  OBVIOUS
<1>4. Len(n.operations) = Len(os) /\ Len(os) \in {0, 1} /\ (Len(os) = 1 => ReduceIf(n, 2) = n)
  BY <1>1, <1>2, <1>3, ReducesSum
<1>5. CASE m = n
  <2>1. ReduceWhile(m, 2) = n
    BY <1>4, <1>5, ReduceWhileFew
  <2>2. QED
    BY <1>1, <1>2, <1>3, <2>1
<1>6. CASE ReduceIf(m, 2) = n /\ Len(m.operations) = Len(os) + 1
  <2>1. ReduceWhile(m, 2) = n
    <3>1. CASE Len(os) = 0
      BY <1>6, <3>1, ReduceWhileFew
    <3>2. CASE Len(os) = 1
      BY <1>4, <1>6, <3>2, ReduceWhileFew
    <3>3. QED
      BY <1>4, <3>1, <3>2
  <2>2. QED
    BY <1>1, <1>2, <1>3, <2>1
<1>7. QED
  BY <1>2, <1>3, <1>5, <1>6

\* Before the next sum, and at the end, it has one number.
LEMMA ForSum ==
    ASSUME NEW m, NEW partial, Live(partial), Represents(m, partial),
           NEW d \in Ints, Total(partial) = Value(d), NEW least \in {0, 1}
    PROVE  ReduceWhile(m, least) = Machine(Append(<<>>, d), <<>>)
<1>1. PICK vs \in Seq(Ints), os \in Seq(Operations) :
        HoldsSum(partial, vs, os) /\ HoldsProduct(partial, vs, os, m)
  BY DEF Represents
<1>2. PICK c \in Ints :
        /\ partial.product = Value(c)
        /\ \/ m = Machine(Append(vs, c), os)
           \/ ReduceIf(m, least) = Machine(Append(vs, c), os) /\ Len(m.operations) = Len(os) + 1
  <2>1. least \in 0 .. 2
    OBVIOUS
  <2>2. QED
    BY <1>1, <2>1, ReducesProduct DEF Live
<1>3. PICK n : n = Machine(Append(vs, c), os)
  OBVIOUS
<1>4. PICK end : end = Machine(Append(<<>>, d), <<>>)
  OBVIOUS
<1>5. /\ Len(n.operations) = Len(os) /\ Len(os) \in {0, 1}
      /\ IF Len(os) = 0 THEN n = end ELSE ReduceIf(n, least) = end
  <2>1. /\ Len(n.operations) = Len(os)
        /\ Len(os) \in {0, 1}
        /\ Len(os) = 1 => ReduceIf(n, 2) = n
        /\ \A d0 \in Ints, least0 \in {0, 1} : Total(partial) = Value(d0) =>
             IF Len(os) = 0 THEN n = Machine(Append(<<>>, d0), <<>>)
             ELSE ReduceIf(n, least0) = Machine(Append(<<>>, d0), <<>>)
    BY <1>1, <1>2, <1>3, ReducesSum
  <2>2. IF Len(os) = 0 THEN n = Machine(Append(<<>>, d), <<>>)
        ELSE ReduceIf(n, least) = Machine(Append(<<>>, d), <<>>)
    BY <2>1
  <2>3. QED
    BY <1>4, <2>1, <2>2
<1>6. CASE m = n
  <2>1. CASE Len(os) = 0
    BY <1>4, <1>5, <1>6, <2>1, ReduceWhileFew
  <2>2. CASE Len(os) = 1
    BY <1>4, <1>5, <1>6, <2>2, ReduceWhileFew
  <2>3. QED
    BY <1>5, <2>1, <2>2
<1>7. CASE ReduceIf(m, least) = n /\ Len(m.operations) = Len(os) + 1
  <2>1. CASE Len(os) = 0
    BY <1>4, <1>5, <1>7, <2>1, ReduceWhileFew
  <2>2. CASE Len(os) = 1
    BY <1>4, <1>5, <1>7, <2>2, ReduceWhileFew
  <2>3. QED
    BY <1>5, <2>1, <2>2
<1>8. QED
  BY <1>2, <1>3, <1>6, <1>7

\* A number, or the key, goes on the values,
LEMMA OperandToken ==
    ASSUME CalculusAssumption, NEW vs, NEW os, NEW key, key # "(", NEW keyNumeric,
           NEW t, t = key \/ t \in Digits, NEW c, Operand(t, key, keyNumeric) = Value(c)
    PROVE  Token(Machine(vs, os), t, key, keyNumeric) = Machine(Append(vs, c), os)
<1>1. t # "("
  BY DEF CalculusAssumption
<1>2. Machine(vs, os).is = "value" /\ Machine(vs, os).values = vs /\ Machine(vs, os).operations = os
  BY DEF Machine
<1>3. \A x, y : Value(x) = Value(y) => x = y
  BY DEF Value
<1>4. CASE t = key
  <2>1. c = keyNumeric
    BY <1>3, <1>4 DEF Operand
  <2>2. QED
    BY <1>1, <1>2, <1>4, <2>1 DEF Token
<1>5. CASE t # key
  <2>1. Value(c).is # Throws.is
    BY DEF Value, Throws
  <2>2. Readable(t) /\ c = Number[t]
    BY <1>3, <1>5, <2>1 DEF Operand
  <2>3. QED
    BY <1>1, <1>2, <1>5, <2>2 DEF Token, Push
<1>6. QED
  BY <1>4, <1>5

\* and an operator on the operations once those that bind are done.
LEMMA OperationToken ==
    ASSUME CalculusAssumption, NEW m, m.is = "value", NEW t \in Sums \cup Products,
           NEW key, key # t, NEW keyNumeric, NEW vs, NEW os,
           ReduceWhile(m, precedence(t)) = Machine(vs, os)
    PROVE  Token(m, t, key, keyNumeric) = Machine(vs, Append(os, t))
<1>1. t # "(" /\ t # ")"
  BY DEF Sums, Products
<1>2. t \notin Digits /\ t \in Symbols
  BY DEF CalculusAssumption
<1>3. Token(m, t, key, keyNumeric) = PushOperation(Machine(vs, os), t)
  BY <1>1, <1>2 DEF Token
<1>4. QED
  BY <1>3 DEF PushOperation, Machine

\* The meaning, as a recursion on the operands.
LEMMA PartialsDefined ==
    ASSUME NEW expression \in Seq(Texts), Len(expression) % 2 = 1, NEW key, NEW keyNumeric,
           NEW K, K = (Len(expression) - 1) \div 2
    PROVE  /\ K \in Nat /\ Len(expression) = 2 * K + 1
           /\ Partials(expression, key, keyNumeric) =
                [k \in 0 .. K |->
                   IF k = 0 THEN Partial(Value(0), "+", OperandAt(expression, 1, key, keyNumeric))
                   ELSE With(Partials(expression, key, keyNumeric)[k - 1], Before(expression, k + 1),
                             OperandAt(expression, k + 1, key, keyNumeric))]
<1>1. K \in Nat /\ Len(expression) = 2 * K + 1
  OBVIOUS
<1>2. PICK p : p = <<expression, key, keyNumeric>>
  OBVIOUS
<1>3. PICK f : Sumsteps!IsRecursion(f, p, K)
  BY <1>1, Sumsteps!RecursionDefined
<1>4. f = [k \in 0 .. K |->
             IF k = 0 THEN Partial(Value(0), "+", OperandAt(expression, 1, key, keyNumeric))
             ELSE With(f[k - 1], Before(expression, k + 1), OperandAt(expression, k + 1, key, keyNumeric))]
  BY <1>2, <1>3 DEF Sumsteps!IsRecursion, PartialBase, PartialStep
<1>5. QED
  BY <1>1, <1>4 DEF Partials

\* One more operation and operand.
LEMMA RepresentsWith ==
    ASSUME CalculusAssumption, NEW m, NEW partial, NEW o \in Sums \cup Products, NEW t,
           NEW key, key # "(", key # o, t = key \/ t \in Digits, NEW keyNumeric \in Ints,
           Live(With(partial, o, Operand(t, key, keyNumeric))), Live(partial) => Represents(m, partial)
    PROVE  Represents(Token(Token(m, o, key, keyNumeric), t, key, keyNumeric),
                      With(partial, o, Operand(t, key, keyNumeric)))
<1>a. PICK next : next = With(partial, o, Operand(t, key, keyNumeric))
  OBVIOUS
<1>b. PICK m1 : m1 = Token(m, o, key, keyNumeric)
  OBVIOUS
<1>c. PICK m2 : m2 = Token(m1, t, key, keyNumeric)
  OBVIOUS
<1>d. Live(next)
  BY <1>a
<1>1. \A a, b : Combine(a, o, b).is = "value" =>
        a.is = "value" /\ b.is = "value" /\ Combine(a, o, b) = applyOperation(a.value, b.value, o)
  BY DEF Combine
<1>2. Operand(t, key, keyNumeric) \in Outcomes
  BY DEF Operand, Outcomes, Readable, Value, Throws
<1>3. CASE o \in Sums
  <2>1. next = Partial(Total(partial), o, Operand(t, key, keyNumeric))
    BY <1>a, <1>3 DEF With
  <2>2. Total(partial).is = "value" /\ Operand(t, key, keyNumeric).is = "value"
    BY <1>d, <2>1 DEF Live, Partial
  <2>3. PICK b \in Ints : Operand(t, key, keyNumeric) = Value(b)
    BY <1>2, <2>2, OutcomeValue
  <2>4. /\ Live(partial)
        /\ Total(partial) = applyOperation(partial.sum.value, partial.product.value, partial.sign)
    BY <2>2 DEF Total, Combine, Live
  <2>5. PICK d \in Ints : Total(partial) = Value(d)
    BY <2>2, <2>4, ApplyTyped, OutcomeValue
  <2>6. Represents(m, partial)
    BY <2>4
  <2>7. precedence(o) = 1
    BY <1>3, Precedences
  <2>8. ReduceWhile(m, precedence(o)) = Machine(Append(<<>>, d), <<>>)
    <3>1. ReduceWhile(m, 1) = Machine(Append(<<>>, d), <<>>)
      BY <2>4, <2>5, <2>6, ForSum
    <3>2. QED
      BY <2>7, <3>1
  <2>9. m.is = "value"
    BY <2>6 DEF Represents, HoldsProduct, Machine
  <2>10. m1 = Machine(Append(<<>>, d), Append(<<>>, o))
    <3>1. key # o
      OBVIOUS
    <3>2. PICK vs, os : vs = Append(<<>>, d) /\ os = <<>>
      OBVIOUS
    <3>3. ReduceWhile(m, precedence(o)) = Machine(vs, os)
      BY <2>8, <3>2
    <3>4. Token(m, o, key, keyNumeric) = Machine(vs, Append(os, o))
      BY <2>9, <3>1, <3>3, OperationToken
    <3>5. QED
      BY <1>b, <3>2, <3>4
  <2>11. m2 = Machine(Append(Append(<<>>, d), b), Append(<<>>, o))
    BY <1>c, <2>3, <2>10, OperandToken
  <2>12. PICK vs \in Seq(Ints), os \in Seq(Operations) : vs = Append(<<>>, d) /\ os = Append(<<>>, o)
    <3>1. <<>> \in Seq(Ints) /\ <<>> \in Seq(Operations) /\ o \in Operations
      BY OperationTokens
    <3>2. QED
      BY <3>1, AppendLast
  <2>13. HoldsSum(next, vs, os)
    BY <1>3, <2>1, <2>5, <2>12 DEF HoldsSum, Partial
  <2>14. HoldsProduct(next, vs, os, m2)
    BY <2>1, <2>3, <2>11, <2>12 DEF HoldsProduct, Partial
  <2>15. QED
    BY <1>a, <1>b, <1>c, <2>13, <2>14 DEF Represents
<1>4. CASE o \in Products
  <2>1. o \notin Sums
    BY <1>4 DEF Sums, Products
  <2>2. next = Partial(partial.sum, partial.sign, Combine(partial.product, o, Operand(t, key, keyNumeric)))
    BY <1>a, <2>1 DEF With
  <2>3. /\ next.sum = partial.sum /\ next.sign = partial.sign
        /\ next.product = Combine(partial.product, o, Operand(t, key, keyNumeric))
    BY <2>2 DEF Partial
  <2>4. /\ partial.sum.is = "value" /\ partial.product.is = "value"
        /\ Operand(t, key, keyNumeric).is = "value"
        /\ next.product = applyOperation(partial.product.value, Operand(t, key, keyNumeric).value, o)
    BY <1>1, <1>d, <2>3 DEF Live
  <2>5. PICK b \in Ints : Operand(t, key, keyNumeric) = Value(b)
    BY <1>2, <2>4, OutcomeValue
  <2>6. Live(partial) /\ Represents(m, partial)
    BY <2>4 DEF Live
  <2>7. PICK vs \in Seq(Ints), os \in Seq(Operations), c \in Ints :
          /\ HoldsSum(partial, vs, os) /\ partial.product = Value(c)
          /\ ReduceWhile(m, 2) = Machine(Append(vs, c), os)
    BY <2>6, ForProduct
  <2>8. m.is = "value"
    BY <2>6 DEF Represents, HoldsProduct, Machine
  <2>9. m1 = Machine(Append(vs, c), Append(os, o))
    <3>1. key # o /\ precedence(o) = 2
      BY <1>4, Precedences
    <3>2. ReduceWhile(m, precedence(o)) = Machine(Append(vs, c), os)
      BY <2>7, <3>1
    <3>3. Token(m, o, key, keyNumeric) = Machine(Append(vs, c), Append(os, o))
      BY <2>8, <3>1, <3>2, CalculusAssumption, OperationToken
    <3>4. QED
      BY <1>b, <3>3
  <2>10. m2 = Machine(Append(Append(vs, c), b), Append(os, o))
    BY <1>c, <2>5, <2>9, OperandToken
  <2>11. next.product = applyOperation(c, b, o)
    BY <2>4, <2>5, <2>7 DEF Value
  <2>12. HoldsSum(next, vs, os)
    BY <2>3, <2>7 DEF HoldsSum
  <2>13. HoldsProduct(next, vs, os, m2)
    BY <1>4, <2>10, <2>11 DEF HoldsProduct
  <2>14. QED
    BY <1>a, <1>b, <1>c, <2>12, <2>13 DEF Represents
<1>5. QED
  BY <1>3, <1>4

\* What an update solves is what the expression means, where it means a number.
LEMMA SolvedAsMeant ==
    ASSUME CalculusAssumption, NEW expression \in Seq(Texts),
           NEW key, key \notin {"("} \cup Sums \cup Products, NEW keyNumeric \in Ints,
           Arithmetic(expression, key), Meaning(expression, key, keyNumeric).is = "value"
    PROVE  solveNumericExpression(expression, key, keyNumeric) = Meaning(expression, key, keyNumeric)
<1>1. PICK K : K = (Len(expression) - 1) \div 2
  OBVIOUS
<1>2. PICK P : P = Partials(expression, key, keyNumeric)
  OBVIOUS
<1>3. /\ K \in Nat /\ Len(expression) = 2 * K + 1
      /\ P = [k \in 0 .. K |->
               IF k = 0 THEN Partial(Value(0), "+", OperandAt(expression, 1, key, keyNumeric))
               ELSE With(P[k - 1], Before(expression, k + 1),
                         OperandAt(expression, k + 1, key, keyNumeric))]
  <2>1. Len(expression) % 2 = 1
    BY DEF Arithmetic
  <2>2. QED
    BY <1>1, <1>2, <2>1, PartialsDefined
<1>4. PICK R : R = Reads(expression, key, keyNumeric)
  OBVIOUS
<1>5. R = [i \in 0 .. Len(expression) |->
             IF i = 0 THEN Machine(<<>>, <<>>) ELSE Token(R[i - 1], expression[i], key, keyNumeric)]
  BY <1>4, ReadsDefined
<1>6. \A i \in 1 .. 2 * K + 1 :
        IF i % 2 = 1 THEN expression[i] = key \/ expression[i] \in Digits
        ELSE expression[i] \in Sums \cup Products
  <2>1. \A i \in DOMAIN expression :
          IF i % 2 = 1 THEN expression[i] = key \/ expression[i] \in Digits
          ELSE expression[i] \in Sums \cup Products
    BY DEF Arithmetic
  <2>2. DOMAIN expression = 1 .. 2 * K + 1
    BY <1>3
  <2>3. QED
    BY <2>1, <2>2
<1>7. PICK T : T = {k \in 0 .. K : Live(P[k]) => Represents(R[2 * k + 1], P[k])}
  OBVIOUS
<1>8. T \in SUBSET (0 .. K) /\ 0 \in T
  <2>1. SUFFICES ASSUME Live(P[0]) PROVE Represents(R[1], P[0])
    BY <1>3, <1>7
  <2>2. PICK t : t = expression[1]
    OBVIOUS
  <2>3. P[0] = Partial(Value(0), "+", Operand(t, key, keyNumeric))
    BY <1>3, <2>2 DEF OperandAt
  <2>4. t = key \/ t \in Digits
    BY <1>3, <1>6, <2>2
  <2>5. Operand(t, key, keyNumeric) \in Outcomes
    BY DEF Operand, Outcomes, Readable, Value, Throws
  <2>6. PICK b \in Ints : Operand(t, key, keyNumeric) = Value(b)
    BY <2>1, <2>3, <2>5, OutcomeValue DEF Live, Partial
  <2>7. R[1] = Token(Machine(<<>>, <<>>), t, key, keyNumeric)
    BY <1>3, <1>5, <2>2
  <2>8. R[1] = Machine(Append(<<>>, b), <<>>)
    <3>1. key # "("
      OBVIOUS
    <3>2. PICK vs, os : vs = <<>> /\ os = <<>>
      OBVIOUS
    <3>3. Token(Machine(vs, os), t, key, keyNumeric) = Machine(Append(vs, b), os)
      BY <2>4, <2>6, <3>1, OperandToken
    <3>4. QED
      BY <2>7, <3>2, <3>3
  <2>9. PICK vs \in Seq(Ints), os \in Seq(Operations) : vs = <<>> /\ os = <<>>
    <3>1. <<>> \in Seq(Ints) /\ <<>> \in Seq(Operations)
      OBVIOUS
    <3>2. QED
      BY <3>1
  <2>10. HoldsSum(P[0], vs, os)
    BY <2>3, <2>9 DEF HoldsSum, Partial
  <2>11. HoldsProduct(P[0], vs, os, R[1])
    BY <2>3, <2>6, <2>8, <2>9 DEF HoldsProduct, Partial
  <2>12. QED
    BY <2>10, <2>11 DEF Represents
<1>9. ASSUME NEW k \in T, k < K PROVE k + 1 \in T
  <2>1. k \in 0 .. K /\ k \in Nat /\ k + 1 \in 0 .. K /\ (Live(P[k]) => Represents(R[2 * k + 1], P[k]))
    BY <1>3, <1>7, <1>9
  <2>2. SUFFICES ASSUME Live(P[k + 1]) PROVE Represents(R[2 * (k + 1) + 1], P[k + 1])
    BY <1>7, <2>1
  <2>3. PICK o : o = expression[2 * k + 2]
    OBVIOUS
  <2>4. PICK t : t = expression[2 * k + 3]
    OBVIOUS
  <2>5. o \in Sums \cup Products /\ (t = key \/ t \in Digits)
    <3>1. /\ 2 * k + 2 \in 1 .. 2 * K + 1 /\ ~((2 * k + 2) % 2 = 1)
          /\ 2 * k + 3 \in 1 .. 2 * K + 1 /\ (2 * k + 3) % 2 = 1
      BY <1>3, <1>9, <2>1
    <3>2. QED
      BY <1>6, <2>3, <2>4, <3>1
  <2>6. P[k + 1] = With(P[k], o, Operand(t, key, keyNumeric))
    <3>1. P[k + 1] = With(P[k], Before(expression, k + 2), OperandAt(expression, k + 2, key, keyNumeric))
      BY <1>3, <2>1
    <3>2. 2 * (k + 2) - 2 = 2 * k + 2 /\ 2 * (k + 2) - 1 = 2 * k + 3
      BY <2>1
    <3>3. QED
      BY <2>3, <2>4, <3>1, <3>2 DEF Before, OperandAt
  <2>7. PICK m : m = R[2 * k + 1]
    OBVIOUS
  <2>8. PICK m1 : m1 = R[2 * k + 2]
    OBVIOUS
  <2>9. PICK m2 : m2 = R[2 * k + 3]
    OBVIOUS
  <2>10. m1 = Token(m, o, key, keyNumeric) /\ m2 = Token(m1, t, key, keyNumeric)
    <3>1. /\ 2 * k + 2 \in 0 .. Len(expression) /\ 2 * k + 2 # 0 /\ (2 * k + 2) - 1 = 2 * k + 1
          /\ 2 * k + 3 \in 0 .. Len(expression) /\ 2 * k + 3 # 0 /\ (2 * k + 3) - 1 = 2 * k + 2
      BY <1>3, <1>9, <2>1
    <3>2. /\ R[2 * k + 2] = Token(R[2 * k + 1], expression[2 * k + 2], key, keyNumeric)
          /\ R[2 * k + 3] = Token(R[2 * k + 2], expression[2 * k + 3], key, keyNumeric)
      BY <1>5, <3>1
    <3>3. QED
      BY <2>3, <2>4, <2>7, <2>8, <2>9, <3>2
  <2>11. key \notin {"(", o}
    BY <2>5
  <2>12. PICK next : next = P[k + 1]
    OBVIOUS
  <2>13. PICK partial : partial = P[k]
    OBVIOUS
  <2>14. /\ next = With(partial, o, Operand(t, key, keyNumeric)) /\ Live(next)
         /\ Live(partial) => Represents(m, partial)
    BY <2>1, <2>2, <2>6, <2>7, <2>12, <2>13
  <2>15. Represents(m2, next)
    <3>1. key # "(" /\ key # o
      BY <2>11
    <3>2. Live(With(partial, o, Operand(t, key, keyNumeric))) /\ (Live(partial) => Represents(m, partial))
      BY <2>14
    <3>3. Represents(Token(Token(m, o, key, keyNumeric), t, key, keyNumeric),
                     With(partial, o, Operand(t, key, keyNumeric)))
      BY <2>5, <3>1, <3>2, CalculusAssumption, RepresentsWith
    <3>4. QED
      BY <2>10, <2>14, <3>3
  <2>16. 2 * (k + 1) + 1 = 2 * k + 3
    BY <2>1
  <2>17. QED
    BY <2>9, <2>12, <2>15, <2>16
<1>10. T = 0 .. K
  BY <1>3, <1>8, <1>9, Reductions!RangeSet
<1>11. PICK m : m = R[2 * K + 1]
  OBVIOUS
<1>12. PICK partial : partial = P[K]
  OBVIOUS
<1>13. Meaning(expression, key, keyNumeric) = Total(partial)
  BY <1>1, <1>2, <1>12 DEF Meaning
<1>14. /\ Live(partial)
       /\ Total(partial) = applyOperation(partial.sum.value, partial.product.value, partial.sign)
  BY <1>13 DEF Total, Combine, Live
<1>15. PICK d \in Ints : Total(partial) = Value(d)
  BY <1>13, <1>14, ApplyTyped, OutcomeValue
<1>16. Represents(m, partial)
  <2>1. K \in T
    BY <1>3, <1>10
  <2>2. Live(P[K]) => Represents(R[2 * K + 1], P[K])
    BY <1>7, <2>1
  <2>3. QED
    BY <1>11, <1>12, <1>14, <2>2
<1>17. m.is = "value"
  BY <1>16 DEF Represents, HoldsProduct, Machine
<1>18. ReduceWhile(m, 0) = Machine(Append(<<>>, d), <<>>)
  BY <1>14, <1>15, <1>16, ForSum
<1>19. m = Reads(expression, key, keyNumeric)[Len(expression)]
  BY <1>3, <1>4, <1>11
<1>20. PICK vs : vs = Append(<<>>, d)
  OBVIOUS
<1>21. vs # <<>> /\ Last(vs) = d
  <2>1. <<>> \in Seq(Ints)
    OBVIOUS
  <2>2. PICK empty \in Seq(Ints) : empty = <<>>
    BY <2>1
  <2>3. vs \in Seq(Ints) /\ Len(vs) = Len(empty) + 1 /\ Last(vs) = d
    BY <1>20, <2>2, AppendLast
  <2>4. Len(vs) # 0
    BY <2>2, <2>3
  <2>5. QED
    BY <2>3, <2>4
<1>22. solveNumericExpression(expression, key, keyNumeric) = Value(d)
  <2>1. PICK end : end = ReduceWhile(m, 0)
    OBVIOUS
  <2>2. end.is = "value" /\ end.values = vs
    BY <1>18, <1>20, <2>1 DEF Machine
  <2>3. QED
    BY <1>17, <1>19, <1>21, <2>1, <2>2 DEF solveNumericExpression
<1>23. QED
  BY <1>13, <1>15, <1>22

-----------------------------------------------------------------------------
(* The groups of each depth, and the tokens they are written with.               *)
LEMMA GroupsDefined ==
    ASSUME Depth \in Nat
    PROVE  Groups = [n \in 0 .. Depth |->
             IF n = 0 THEN {}
             ELSE [kind : {"group"}, negated : BOOLEAN, items : Seq(Terms \cup Bools \cup Groups[n - 1])]]
<1>1. PICK p : p = <<>>
  OBVIOUS
<1>2. PICK f : Nestings!IsRecursion(f, p, Depth)
  BY Nestings!RecursionDefined
<1>3. f = [n \in 0 .. Depth |->
             IF n = 0 THEN {}
             ELSE [kind : {"group"}, negated : BOOLEAN, items : Seq(Terms \cup Bools \cup f[n - 1])]]
  BY <1>2 DEF Nestings!IsRecursion, NestBase, NestStep
<1>4. QED
  BY <1>3 DEF Groups

\* What a group of a depth is made of.
LEMMA InGroups ==
    ASSUME Depth \in Nat, NEW n \in 0 .. Depth, NEW x \in Groups[n]
    PROVE  /\ n # 0 /\ n - 1 \in 0 .. Depth
           /\ x.kind = "group" /\ x.negated \in BOOLEAN /\ x = Group(x.negated, x.items)
           /\ x.items \in Seq(Terms \cup Bools \cup Groups[n - 1])
<1>1. Groups[n] = IF n = 0 THEN {}
                  ELSE [kind : {"group"}, negated : BOOLEAN, items : Seq(Terms \cup Bools \cup Groups[n - 1])]
  BY GroupsDefined
<1>2. n # 0 /\ n - 1 \in 0 .. Depth
  BY <1>1
<1>3. PICK S : S = Seq(Terms \cup Bools \cup Groups[n - 1])
  OBVIOUS
<1>4. x \in [kind : {"group"}, negated : BOOLEAN, items : S]
  BY <1>1, <1>2, <1>3
<1>5. x.kind = "group" /\ x.negated \in BOOLEAN /\ x.items \in S
  BY <1>4
<1>6. x = Group(x.negated, x.items)
  BY <1>4 DEF Group
<1>7. QED
  BY <1>2, <1>3, <1>5, <1>6

\* What a term is made of,
LEMMA InTerms == ASSUME NEW x \in Terms
                 PROVE  /\ x.kind = "term" /\ x.lhs \in Texts \ Marks /\ x.op \in BinaryOperators
                        /\ x.rhs \in Texts /\ x = Term(x.lhs, x.op, x.rhs)
                        /\ x.op = "between" => x.rhs \in DOMAIN Ranges
<1>1. /\ x \in [kind : {"term"}, lhs : Texts \ (Marks \cup DOMAIN Lists),
                op : BinaryOperators, rhs : Texts]
      /\ x.op = "between" => x.rhs \in DOMAIN Ranges
  BY DEF Terms
<1>2. QED
  BY <1>1 DEF Term

\* and an operator between two items.
LEMMA InBools == ASSUME NEW x \in Bools
                 PROVE  x.kind = "op" /\ x.op \in BooleanOperators /\ x = Bool(x.op)
BY DEF Bools, Bool

\* The items of a group are written from the last to the first.
LEMMA LineDefined ==
    ASSUME NEW inner, NEW items, Len(items) \in Nat
    PROVE  WrittenItems(inner, items) =
             [j \in 0 .. Len(items) |->
                IF j = 0 THEN <<")">>
                ELSE WrittenItem(inner, items[Len(items) + 1 - j]) \o WrittenItems(inner, items)[j - 1]]
<1>1. PICK p : p = <<inner, items>>
  OBVIOUS
<1>2. PICK N \in Nat : N = Len(items)
  OBVIOUS
<1>3. PICK f : Lines!IsRecursion(f, p, N)
  BY Lines!RecursionDefined
<1>4. f = [j \in 0 .. N |->
             IF j = 0 THEN <<")">>
             ELSE WrittenItem(inner, items[Len(items) + 1 - j]) \o f[j - 1]]
  BY <1>1, <1>3 DEF Lines!IsRecursion, LineBase, LineStep
<1>5. QED
  BY <1>2, <1>4 DEF WrittenItems

\* A group is written from the groups within it.
LEMMA WrittenDefined ==
    ASSUME Depth \in Nat
    PROVE  WrittenGroups =
             [n \in 0 .. Depth |->
                IF n = 0 THEN <<>>
                ELSE [group \in Groups[n] |-> WrittenGroup(WrittenGroups[n - 1], group)]]
<1>1. PICK p : p = <<>>
  OBVIOUS
<1>2. PICK f : Writings!IsRecursion(f, p, Depth)
  BY Writings!RecursionDefined
<1>3. f = [n \in 0 .. Depth |->
             IF n = 0 THEN <<>> ELSE [group \in Groups[n] |-> WrittenGroup(f[n - 1], group)]]
  BY <1>2 DEF Writings!IsRecursion, WriteBase, WriteStep
<1>4. QED
  BY <1>3 DEF WrittenGroups

(* What is written is a sequence of tokens.                                      *)
Tokens == Texts \cup BinaryOperators \cup BooleanOperators \cup {"(", ")", "!"}

WrittenTyped(n) == \A x \in Groups[n] : WrittenGroups[n][x] \in Seq(Tokens)

\* An item is written as tokens,
LEMMA WrittenItemTyped ==
    ASSUME Depth \in Nat, NEW n \in 0 .. Depth, WrittenTyped(n),
           NEW item \in Terms \cup Bools \cup Groups[n]
    PROVE  WrittenItem(WrittenGroups[n], item) \in Seq(Tokens)
<1>1. CASE item \in Terms
  <2>1. item.kind = "term" /\ item.lhs \in Tokens /\ item.op \in Tokens /\ item.rhs \in Tokens
    BY <1>1, InTerms DEF Tokens
  <2>2. <<item.lhs, item.op, item.rhs>> \in Seq(Tokens)
    BY <2>1
  <2>3. QED
    BY <2>1, <2>2 DEF WrittenItem
<1>2. CASE item \in Bools
  <2>1. item.kind = "op" /\ item.op \in Tokens
    BY <1>2, InBools DEF Tokens
  <2>2. <<item.op>> \in Seq(Tokens)
    BY <2>1
  <2>3. QED
    BY <2>1, <2>2 DEF WrittenItem
<1>3. CASE item \in Groups[n]
  <2>1. item.kind = "group"
    BY <1>3, InGroups
  <2>2. WrittenGroups[n][item] \in Seq(Tokens)
    BY <1>3 DEF WrittenTyped
  <2>3. QED
    BY <2>1, <2>2 DEF WrittenItem
<1>4. QED
  BY <1>1, <1>2, <1>3

\* and so are the items of a group, with the brace after them,
LEMMA LineTyped ==
    ASSUME Depth \in Nat, NEW n \in 0 .. Depth, WrittenTyped(n),
           NEW items \in Seq(Terms \cup Bools \cup Groups[n])
    PROVE  \A j \in 0 .. Len(items) : /\ WrittenItems(WrittenGroups[n], items)[j] \in Seq(Tokens)
                                      /\ WrittenItems(WrittenGroups[n], items)[j] # <<>>
<1>1. PICK N \in Nat : N = Len(items)
  OBVIOUS
<1>2. PICK inner : inner = WrittenGroups[n]
  OBVIOUS
<1>3. PICK f : f = WrittenItems(inner, items)
  OBVIOUS
<1>4. f = [j \in 0 .. N |-> IF j = 0 THEN <<")">>
                            ELSE WrittenItem(inner, items[N + 1 - j]) \o f[j - 1]]
  <2>1. Len(items) \in Nat
    OBVIOUS
  <2>2. WrittenItems(inner, items) =
          [j \in 0 .. Len(items) |->
             IF j = 0 THEN <<")">>
             ELSE WrittenItem(inner, items[Len(items) + 1 - j]) \o WrittenItems(inner, items)[j - 1]]
    BY <2>1, LineDefined
  <2>3. QED
    BY <1>1, <1>3, <2>2
<1>5. PICK T : T = {j \in 0 .. N : f[j] \in Seq(Tokens) /\ f[j] # <<>>}
  OBVIOUS
<1>6. T \in SUBSET (0 .. N) /\ 0 \in T
  <2>1. ")" \in Tokens
    BY DEF Tokens
  <2>2. <<")">> \in Seq(Tokens) /\ <<")">> # <<>>
    BY <2>1
  <2>3. QED
    BY <1>4, <1>5, <2>2
<1>7. ASSUME NEW j \in T, j < N PROVE j + 1 \in T
  <2>1. /\ j \in 0 .. N /\ j + 1 \in 0 .. N /\ N + 1 - (j + 1) \in 1 .. N
        /\ f[j] \in Seq(Tokens) /\ f[j] # <<>>
        /\ j + 1 # 0 /\ (j + 1) - 1 = j
    BY <1>5, <1>7
  <2>2. PICK item \in Terms \cup Bools \cup Groups[n] : item = items[N + 1 - (j + 1)]
    <3>1. PICK S : S = Terms \cup Bools \cup Groups[n]
      OBVIOUS
    <3>2. items \in Seq(S) /\ N + 1 - (j + 1) \in 1 .. Len(items)
      BY <1>1, <2>1, <3>1
    <3>3. items[N + 1 - (j + 1)] \in S
      BY <3>2
    <3>4. QED
      BY <3>1, <3>3
  <2>3. WrittenItem(inner, item) \in Seq(Tokens)
    BY <1>2, WrittenItemTyped
  <2>4. f[j + 1] = WrittenItem(inner, item) \o f[j]
    <3>1. f[j + 1] = WrittenItem(inner, items[N + 1 - (j + 1)]) \o f[(j + 1) - 1]
      BY <1>4, <2>1
    <3>2. QED
      BY <2>1, <2>2, <3>1
  <2>5. f[j + 1] \in Seq(Tokens) /\ f[j + 1] # <<>>
    <3>1. PICK u \in Seq(Tokens), v \in Seq(Tokens) : u = WrittenItem(inner, item) /\ v = f[j]
      BY <2>1, <2>3
    <3>2. Len(v) # 0 /\ Len(u \o v) = Len(u) + Len(v) /\ Len(u) \in Nat /\ Len(v) \in Nat
      BY <2>1, <3>1
    <3>3. u \o v # <<>> /\ u \o v \in Seq(Tokens)
      BY <3>1, <3>2
    <3>4. QED
      BY <2>4, <3>1, <3>3
  <2>6. QED
    BY <1>5, <2>1, <2>5
<1>8. T = 0 .. N
  BY <1>6, <1>7, Lines!RangeSet
<1>9. QED
  BY <1>1, <1>2, <1>3, <1>5, <1>8

\* the group,
LEMMA WrittenGroupTyped ==
    ASSUME Depth \in Nat, NEW n \in 0 .. Depth, n < Depth, WrittenTyped(n)
    PROVE  WrittenTyped(n + 1)
<1>1. n + 1 \in 0 .. Depth /\ n + 1 # 0 /\ (n + 1) - 1 = n
  OBVIOUS
<1>2. SUFFICES ASSUME NEW x \in Groups[n + 1] PROVE WrittenGroups[n + 1][x] \in Seq(Tokens)
  BY DEF WrittenTyped
<1>3. x.items \in Seq(Terms \cup Bools \cup Groups[n])
  BY <1>1, InGroups
<1>4. PICK line : line = WrittenItems(WrittenGroups[n], x.items)[Len(x.items)]
  OBVIOUS
<1>5. line \in Seq(Tokens)
  <2>1. Len(x.items) \in 0 .. Len(x.items)
    BY <1>3
  <2>2. QED
    BY <1>3, <1>4, <2>1, LineTyped
<1>6. WrittenGroups[n + 1][x] = WrittenGroup(WrittenGroups[n], x)
  BY <1>1, WrittenDefined
<1>7. <<"!">> \in Seq(Tokens) /\ <<>> \in Seq(Tokens) /\ <<"(">> \in Seq(Tokens)
  BY DEF Tokens
<1>8. QED
  BY <1>4, <1>5, <1>6, <1>7 DEF WrittenGroup

\* and groups of any depth.
LEMMA AllWrittenTyped == ASSUME Depth \in Nat PROVE \A n \in 0 .. Depth : WrittenTyped(n)
<1>1. PICK T : T = {n \in 0 .. Depth : WrittenTyped(n)}
  OBVIOUS
<1>2. T \in SUBSET (0 .. Depth) /\ 0 \in T
  <2>1. ASSUME NEW x \in Groups[0] PROVE FALSE
    <3>1. 0 \in 0 .. Depth
      OBVIOUS
    <3>2. QED
      BY <3>1, InGroups
  <2>2. QED
    BY <1>1, <2>1 DEF WrittenTyped
<1>3. \A n \in T : n < Depth => n + 1 \in T
  BY <1>1, WrittenGroupTyped
<1>4. T = 0 .. Depth
  BY <1>2, <1>3, Lines!RangeSet
<1>5. QED
  BY <1>1, <1>4

-----------------------------------------------------------------------------
(* The parser.  What it finds at a token depends on what it finds at later ones   *)
(* only, so that there is one table of it.                                        *)
Reaches(found, from, L) == found.ok => found.next \in from .. L + 1

\* A group depends on the items after its brace only.
LEMMA GroupAtLocal ==
    ASSUME NEW tokens, NEW L \in Nat, L = Len(tokens), NEW i \in 1 .. L, NEW f, NEW g,
           \A j \in i + 1 .. L + 1 : f[j] = g[j] /\ Reaches(f[j], j, L)
    PROVE  /\ GroupAt(f, tokens, i) = GroupAt(g, tokens, i)
           /\ Reaches(GroupAt(f, tokens, i), i + 1, L)
<1>1. PICK open : open = IF i <= Len(tokens) /\ tokens[i] = "!" THEN i + 1 ELSE i
  OBVIOUS
<1>2. open \in {i, i + 1}
  BY <1>1
<1>3. CASE open >= Len(tokens) \/ tokens[open] # "("
  BY <1>1, <1>3 DEF GroupAt, NotParsed, Reaches
<1>4. CASE ~(open >= Len(tokens) \/ tokens[open] # "(")
  <2>1. open + 1 \in i + 1 .. L + 1
    BY <1>2, <1>4
  <2>2. f[open + 1] = g[open + 1] /\ Reaches(f[open + 1], open + 1, L)
    BY <2>1
  <2>3. PICK negated : negated = (i <= Len(tokens) /\ tokens[i] = "!")
    OBVIOUS
  <2>4. /\ GroupAt(f, tokens, i) = Grouped(negated, f[open + 1])
        /\ GroupAt(g, tokens, i) = Grouped(negated, g[open + 1])
    BY <1>1, <1>4, <2>3 DEF GroupAt
  <2>5. Reaches(Grouped(negated, f[open + 1]), i + 1, L)
    BY <2>1, <2>2 DEF Grouped, Parsed, NotParsed, Reaches
  <2>6. QED
    BY <2>2, <2>4, <2>5
<1>5. QED
  BY <1>3, <1>4

\* An item put before others starts before them.
LEMMA ThenReaches ==
    ASSUME NEW item, NEW more, NEW L \in Nat, NEW i \in 1 .. L + 1, NEW j \in i .. L + 1, Reaches(more, j, L)
    PROVE  Reaches(Then(item, more), i, L)
BY DEF Reaches, Then, Items, NotParsed

\* Some numbers have a least one.
LEMMA LeastIn == ASSUME NEW L \in Nat, NEW S \in SUBSET (1 .. L), S # {} PROVE Least(S) \in S
<1>1. PICK T : T = {n \in 0 .. L : \A k \in S : n < k}
  OBVIOUS
<1>2. T \in SUBSET (0 .. L) /\ 0 \in T
  BY <1>1
<1>3. T # 0 .. L
  <2>1. PICK k \in S : TRUE
    OBVIOUS
  <2>2. k \in 0 .. L /\ ~(k < k)
    BY <2>1
  <2>3. QED
    BY <1>1, <2>1, <2>2
<1>4. PICK n \in T : n < L /\ n + 1 \notin T
  BY <1>2, <1>3, Lines!RangeSet
<1>5. n \in 0 .. L /\ \A k \in S : n < k
  BY <1>1
<1>6. n + 1 \in 0 .. L
  BY <1>4, <1>5
<1>7. PICK k \in S : ~(n + 1 < k)
  BY <1>1, <1>4, <1>6
<1>8. k = n + 1
  BY <1>5, <1>7
<1>9. \A other \in S : k <= other
  BY <1>5, <1>8
<1>10. QED
  BY <1>9 DEF Least

\* A word ends before the next,
LEMMA WordReaches ==
    ASSUME NEW tokens, NEW L \in Nat, L = Len(tokens), NEW i \in 1 .. L + 1
    PROVE  Word(tokens, i).next \in i .. L + 1 /\ (i <= L => Word(tokens, i).next \in i + 1 .. L + 1)
BY DEF Word, Taken

\* and a right hand side within the tokens.
LEMMA ExtractReaches ==
    ASSUME NEW tokens, NEW L \in Nat, L = Len(tokens), NEW i \in 1 .. L + 1, NEW op, Extract(op, tokens, i).ok
    PROVE  Extract(op, tokens, i).next \in i .. L + 1
<1>1. PICK ends : ends = {k \in i .. Len(tokens) : tokens[k] \in DOMAIN Lists}
  OBVIOUS
<1>2. PICK end : end = Least(ends)
  OBVIOUS
<1>3. CASE op = "in"
  <2>1. ends # {}
    BY <1>1, <1>3 DEF Extract, NotParsed
  <2>2. ends \in SUBSET (1 .. L)
    BY <1>1
  <2>3. end \in i .. L
    BY <1>1, <1>2, <2>1, <2>2, LeastIn
  <2>4. Extract(op, tokens, i).next = end + 1
    BY <1>1, <1>2, <1>3, <2>1 DEF Extract, Taken
  <2>5. QED
    BY <2>3, <2>4
<1>4. CASE op # "in"
  <2>1. Extract(op, tokens, i) = Word(tokens, i)
    BY <1>4 DEF Extract, NotParsed
  <2>2. QED
    BY <2>1, WordReaches
<1>5. QED
  BY <1>3, <1>4

\* What is found at a token depends on later tokens only.
LEMMA ItemsAtLocal ==
    ASSUME NEW tokens, NEW L \in Nat, L = Len(tokens), NEW i \in 1 .. L + 1, NEW f, NEW g,
           \A j \in i + 1 .. L + 1 : f[j] = g[j] /\ Reaches(f[j], j, L)
    PROVE  /\ ItemsAt(f, tokens, i) = ItemsAt(g, tokens, i)
           /\ Reaches(ItemsAt(f, tokens, i), i, L)
<1>1. CASE i > Len(tokens)
  BY <1>1 DEF ItemsAt, Items, Reaches
<1>2. CASE i <= Len(tokens) /\ tokens[i] = ")"
  BY <1>2 DEF ItemsAt, Items, Reaches
<1>3. CASE i <= Len(tokens) /\ tokens[i] # ")" /\ tokens[i] \in {"!", "("}
  <2>1. PICK inner : inner = GroupAt(f, tokens, i)
    OBVIOUS
  <2>2. i \in 1 .. L
    BY <1>3
  <2>3. inner = GroupAt(g, tokens, i) /\ Reaches(inner, i + 1, L)
    BY <2>1, <2>2, GroupAtLocal
  <2>4. CASE inner.ok
    <3>1. inner.next \in i + 1 .. L + 1
      BY <2>3, <2>4 DEF Reaches
    <3>2. f[inner.next] = g[inner.next] /\ Reaches(f[inner.next], inner.next, L)
      BY <3>1
    <3>3. /\ ItemsAt(f, tokens, i) = Then(inner.group, f[inner.next])
          /\ ItemsAt(g, tokens, i) = Then(inner.group, g[inner.next])
      BY <1>3, <2>1, <2>3, <2>4 DEF ItemsAt
    <3>4. inner.next \in i .. L + 1
      BY <3>1
    <3>5. Reaches(Then(inner.group, f[inner.next]), i, L)
      BY <3>2, <3>4, ThenReaches
    <3>6. QED
      BY <3>2, <3>3, <3>5
  <2>5. CASE ~inner.ok
    <3>1. ItemsAt(f, tokens, i) = NotParsed /\ ItemsAt(g, tokens, i) = NotParsed
      BY <1>3, <2>1, <2>3, <2>5 DEF ItemsAt
    <3>2. QED
      BY <3>1 DEF NotParsed, Reaches
  <2>6. QED
    BY <2>4, <2>5
<1>4. CASE i <= Len(tokens) /\ tokens[i] \notin {")", "!", "("}
  <2>1. PICK word : word = Word(tokens, i)
    OBVIOUS
  <2>2. word.next \in i + 1 .. L + 1
    BY <1>4, <2>1, WordReaches
  <2>3. PICK n \in i + 1 .. L + 1 : n = word.next
    BY <2>2
  <2>4. /\ ItemsAt(f, tokens, i) = IF word.is \in BooleanOperators THEN Then(Bool(word.is), f[n])
                                  ELSE TermAt(f, tokens, word.is, n)
        /\ ItemsAt(g, tokens, i) = IF word.is \in BooleanOperators THEN Then(Bool(word.is), g[n])
                                  ELSE TermAt(g, tokens, word.is, n)
    BY <1>4, <2>1, <2>3 DEF ItemsAt
  <2>5. CASE word.is \in BooleanOperators
    <3>1. f[n] = g[n] /\ Reaches(f[n], n, L) /\ n \in i .. L + 1
      BY <2>3
    <3>2. Reaches(Then(Bool(word.is), f[n]), i, L)
      BY <3>1, ThenReaches
    <3>3. QED
      BY <2>4, <2>5, <3>1, <3>2
  <2>6. CASE word.is \notin BooleanOperators
    <3>1. PICK rhs : rhs = Extract(tokens[n], tokens, n + 1)
      OBVIOUS
    <3>2. PICK term : term = Term(word.is, tokens[n], rhs.is)
      OBVIOUS
    <3>3. CASE n <= Len(tokens) /\ tokens[n] \in BinaryOperators /\ rhs.ok
      <4>1. n + 1 \in 1 .. L + 1
        BY <2>3, <3>3
      <4>2. rhs.next \in n + 1 .. L + 1
        BY <3>1, <3>3, <4>1, ExtractReaches
      <4>3. PICK m \in n + 1 .. L + 1 : m = rhs.next
        BY <4>2
      <4>4. f[m] = g[m] /\ Reaches(f[m], m, L) /\ m \in i .. L + 1
        BY <2>3, <4>3
      <4>5. TermAt(f, tokens, word.is, n) = Then(term, f[m]) /\ TermAt(g, tokens, word.is, n) = Then(term, g[m])
        BY <3>1, <3>2, <3>3, <4>3 DEF TermAt
      <4>6. Reaches(Then(term, f[m]), i, L)
        BY <4>4, ThenReaches
      <4>7. QED
        BY <2>4, <2>6, <4>4, <4>5, <4>6
    <3>4. CASE ~(n <= Len(tokens) /\ tokens[n] \in BinaryOperators /\ rhs.ok)
      <4>1. TermAt(f, tokens, word.is, n) = NotParsed /\ TermAt(g, tokens, word.is, n) = NotParsed
        BY <3>1, <3>4 DEF TermAt
      <4>2. QED
        BY <2>4, <2>6, <4>1 DEF NotParsed, Reaches
    <3>5. QED
      BY <3>3, <3>4
  <2>7. QED
    BY <2>5, <2>6
<1>5. QED
  BY <1>1, <1>2, <1>3, <1>4

IsTable(f, tokens, L, n) ==
    /\ f = [i \in n .. L + 1 |-> f[i]]
    /\ \A i \in n .. L + 1 : f[i] = ItemsAt(f, tokens, i) /\ Reaches(f[i], i, L)

\* There is one table of what the parser finds at each token.
LEMMA ParseDefined ==
    ASSUME NEW tokens, Len(tokens) \in Nat
    PROVE  /\ ParseItems(tokens) = [i \in 1 .. Len(tokens) + 1 |-> ParseItems(tokens)[i]]
           /\ \A i \in 1 .. Len(tokens) + 1 :
                ParseItems(tokens)[i] = ItemsAt(ParseItems(tokens), tokens, i)
<1>1. PICK L \in Nat : L = Len(tokens)
  OBVIOUS
<1>2. PICK T : T = {k \in 0 .. L : \E f : IsTable(f, tokens, L, L + 1 - k)}
  OBVIOUS
<1>3. T \in SUBSET (0 .. L) /\ 0 \in T
  <2>1. PICK f : f = [i \in L + 1 .. L + 1 |-> Items(<<>>, L + 1)]
    OBVIOUS
  <2>2. f = [i \in L + 1 .. L + 1 |-> f[i]] /\ \A i \in L + 1 .. L + 1 : i = L + 1 /\ f[i] = Items(<<>>, L + 1)
    BY <2>1
  <2>3. ItemsAt(f, tokens, L + 1) = Items(<<>>, L + 1) /\ Reaches(Items(<<>>, L + 1), L + 1, L)
    BY <1>1 DEF ItemsAt, Items, Reaches
  <2>4. IsTable(f, tokens, L, L + 1)
    BY <2>2, <2>3 DEF IsTable
  <2>5. L + 1 - 0 = L + 1
    OBVIOUS
  <2>6. QED
    BY <1>2, <2>4, <2>5
<1>4. ASSUME NEW k \in T, k < L PROVE k + 1 \in T
  <2>1. PICK n \in 1 .. L : n = L - k
    BY <1>2, <1>4
  <2>2. L + 1 - k = n + 1 /\ L + 1 - (k + 1) = n /\ k + 1 \in 0 .. L
    BY <1>2, <1>4, <2>1
  <2>3. PICK f : IsTable(f, tokens, L, n + 1)
    BY <1>2, <2>2
  <2>4. PICK g : g = [i \in n .. L + 1 |-> IF i = n THEN ItemsAt(f, tokens, n) ELSE f[i]]
    OBVIOUS
  <2>5. \A j \in n + 1 .. L + 1 : f[j] = g[j] /\ Reaches(f[j], j, L)
    <3>1. SUFFICES ASSUME NEW j \in n + 1 .. L + 1 PROVE f[j] = g[j] /\ Reaches(f[j], j, L)
      OBVIOUS
    <3>2. Reaches(f[j], j, L)
      BY <2>3 DEF IsTable
    <3>3. j \in n .. L + 1 /\ j # n
      OBVIOUS
    <3>4. QED
      BY <2>4, <3>2, <3>3
  <2>6. ASSUME NEW i \in n .. L + 1
        PROVE  g[i] = ItemsAt(g, tokens, i) /\ Reaches(g[i], i, L)
    <3>1. g[i] = ItemsAt(f, tokens, i)
      <4>1. CASE i = n
        BY <2>4, <4>1
      <4>2. CASE i # n
        <5>1. i \in n + 1 .. L + 1
          BY <4>2
        <5>2. QED
          BY <2>3, <2>5, <5>1 DEF IsTable
      <4>3. QED
        BY <4>1, <4>2
    <3>2. \A j \in i + 1 .. L + 1 : f[j] = g[j] /\ Reaches(f[j], j, L)
      BY <2>5
    <3>3. i \in 1 .. L + 1
      OBVIOUS
    <3>4. ItemsAt(f, tokens, i) = ItemsAt(g, tokens, i) /\ Reaches(ItemsAt(f, tokens, i), i, L)
      BY <1>1, <3>2, <3>3, ItemsAtLocal, SMTT(60)
    <3>5. QED
      BY <3>1, <3>4
  <2>7. g = [i \in n .. L + 1 |-> g[i]]
    BY <2>4
  <2>8. IsTable(g, tokens, L, n)
    BY <2>6, <2>7 DEF IsTable
  <2>9. QED
    BY <1>2, <2>2, <2>8
<1>5. T = 0 .. L
  BY <1>3, <1>4, Lines!RangeSet
<1>6. PICK f : IsTable(f, tokens, L, 1)
  <2>1. L \in T /\ L + 1 - L = 1
    BY <1>5
  <2>2. QED
    BY <1>2, <2>1
<1>7. f = [i \in 1 .. L + 1 |-> ItemsAt(f, tokens, i)]
  BY <1>6 DEF IsTable
<1>8. ParseItems(tokens) = [i \in 1 .. L + 1 |-> ItemsAt(ParseItems(tokens), tokens, i)]
  BY <1>1, <1>7 DEF ParseItems
<1>9. PICK P : P = ParseItems(tokens)
  OBVIOUS
<1>10. P = [i \in 1 .. L + 1 |-> ItemsAt(P, tokens, i)]
  BY <1>8, <1>9
<1>11. P = [i \in 1 .. L + 1 |-> P[i]] /\ \A i \in 1 .. L + 1 : P[i] = ItemsAt(P, tokens, i)
  BY <1>10
<1>12. QED
  BY <1>1, <1>9, <1>11

-----------------------------------------------------------------------------
(* The parser rebuilds what was written, wherever it stands among the tokens.     *)
Stands(w, tokens, i) == \A k \in 1 .. Len(w) : i + k - 1 \in 1 .. Len(tokens) /\ tokens[i + k - 1] = w[k]

\* Where two sequences stand together, each of them stands.
LEMMA StandsBoth ==
    ASSUME NEW S, NEW u \in Seq(S), NEW v \in Seq(S), NEW tokens, NEW i \in Nat, Stands(u \o v, tokens, i)
    PROVE  Stands(u, tokens, i) /\ Stands(v, tokens, i + Len(u)) /\ Len(u \o v) = Len(u) + Len(v)
<1>1. /\ Len(u) \in Nat /\ Len(v) \in Nat /\ Len(u \o v) = Len(u) + Len(v)
      /\ \A k \in 1 .. Len(u) + Len(v) : (u \o v)[k] = IF k <= Len(u) THEN u[k] ELSE v[k - Len(u)]
  OBVIOUS
<1>2. ASSUME NEW k \in 1 .. Len(u)
      PROVE  i + k - 1 \in 1 .. Len(tokens) /\ tokens[i + k - 1] = u[k]
  <2>1. k \in 1 .. Len(u \o v) /\ (u \o v)[k] = u[k]
    BY <1>1
  <2>2. QED
    BY <2>1 DEF Stands
<1>3. ASSUME NEW k \in 1 .. Len(v)
      PROVE  i + Len(u) + k - 1 \in 1 .. Len(tokens) /\ tokens[i + Len(u) + k - 1] = v[k]
  <2>1. PICK h : h = Len(u) + k
    OBVIOUS
  <2>2. /\ h \in 1 .. Len(u \o v) /\ h \in 1 .. Len(u) + Len(v) /\ ~(h <= Len(u)) /\ h - Len(u) = k
        /\ i + h - 1 = i + Len(u) + k - 1
    BY <1>1, <2>1
  <2>3. (u \o v)[h] = v[k]
    BY <1>1, <2>2
  <2>4. i + h - 1 \in 1 .. Len(tokens) /\ tokens[i + h - 1] = (u \o v)[h]
    BY <2>2 DEF Stands
  <2>5. QED
    BY <2>2, <2>3, <2>4
<1>4. Stands(u, tokens, i)
  BY <1>2 DEF Stands
<1>5. Stands(v, tokens, i + Len(u))
  BY <1>3 DEF Stands
<1>6. QED
  BY <1>1, <1>4, <1>5

\* The first token stands where the sequence does.
LEMMA StandsFirst ==
    ASSUME NEW S, NEW u \in Seq(S), u # <<>>, NEW tokens, Len(tokens) \in Nat, NEW i \in Nat, Stands(u, tokens, i)
    PROVE  i \in 1 .. Len(tokens) /\ tokens[i] = u[1]
<1>1. 1 \in 1 .. Len(u) /\ i + 1 - 1 = i
  OBVIOUS
<1>2. QED
  BY <1>1 DEF Stands

\* What the parser finds where the group x is written.
Rebuilds(tokens, n) == \A x \in Groups[n], i \in Nat :
    Stands(WrittenGroups[n][x], tokens, i) =>
      /\ i \in 1 .. Len(tokens) /\ tokens[i] \in {"!", "("}
      /\ GroupAt(ParseItems(tokens), tokens, i) = Parsed(x, i + Len(WrittenGroups[n][x]))

\* An item put before what was found.
LEMMA ThenFinds ==
    ASSUME NEW item, NEW more, NEW items, NEW next, more = Items(items, next)
    PROVE  Then(item, more) = Items(<<item>> \o items, next)
<1>1. more.ok /\ more.items = items /\ more.next = next
  BY DEF Items
<1>2. QED
  BY <1>1 DEF Then

\* A word that is no empty text is one token.
LEMMA WordPlain ==
    ASSUME NEW tokens, NEW i, ~(i > Len(tokens)), tokens[i] # Empty
    PROVE  Word(tokens, i).is = tokens[i] /\ Word(tokens, i).next = i + 1 /\ Word(tokens, i).ok
BY DEF Word, Taken

\* Among plain tokens the right hand side of a term is one.
LEMMA ExtractPlain ==
    ASSUME NEW tokens, Len(tokens) \in Nat, Plainly(tokens), NEW i \in Nat,
           i + 1 \in 1 .. Len(tokens), i + 2 \in 1 .. Len(tokens),
           NEW op, op = tokens[i + 1], op = "between" => tokens[i + 2] \in DOMAIN Ranges,
           NEW rhs, rhs = Extract(op, tokens, i + 2)
    PROVE  rhs.ok /\ rhs.is = tokens[i + 2] /\ rhs.next = i + 3
<1>1. PICK j \in 1 .. Len(tokens) : j = i + 2
  OBVIOUS
<1>2. j + 1 = i + 3
  BY <1>1
<1>3. CASE op = "in"
  <2>1. tokens[j] \in DOMAIN Lists
    <3>1. i + 1 + 1 = j
      BY <1>1
    <3>2. QED
      BY <1>3, <3>1 DEF Plainly
  <2>2. PICK ends : ends = {k \in j .. Len(tokens) : tokens[k] \in DOMAIN Lists}
    OBVIOUS
  <2>3. j \in ends /\ ends \in SUBSET (1 .. Len(tokens)) /\ \A k \in ends : j <= k
    BY <2>1, <2>2
  <2>4. Least(ends) = j
    <3>1. PICK end : end = CHOOSE k \in ends : \A other \in ends : k <= other
      OBVIOUS
    <3>2. end \in ends /\ end <= j
      BY <2>3, <3>1
    <3>3. end = j
      BY <2>3, <3>2
    <3>4. QED
      BY <3>1, <3>3 DEF Least
  <2>5. rhs = Taken(tokens[j], j + 1)
    BY <1>1, <1>3, <2>2, <2>3, <2>4 DEF Extract
  <2>6. QED
    BY <1>1, <1>2, <2>5 DEF Taken
<1>4. CASE op # "in"
  <2>1. rhs = Word(tokens, j)
    BY <1>1, <1>4 DEF Extract
  <2>2. ~(j > Len(tokens)) /\ tokens[j] # Empty
    BY <1>1 DEF Plainly
  <2>3. QED
    BY <1>1, <1>2, <2>1, <2>2, WordPlain
<1>5. QED
  BY <1>3, <1>4

\* The parser finds an item where it stands.
LEMMA FindsItem ==
    ASSUME Depth \in Nat, NEW tokens, Len(tokens) \in Nat, Plainly(tokens),
           NEW n \in 0 .. Depth, Rebuilds(tokens, n),
           NEW item \in Terms \cup Bools \cup Groups[n], NEW i \in Nat,
           NEW w, w = WrittenItem(WrittenGroups[n], item), Stands(w, tokens, i)
    PROVE  \A items, next : ParseItems(tokens)[i + Len(w)] = Items(items, next) =>
             ParseItems(tokens)[i] = Items(<<item>> \o items, next)
<1> SUFFICES ASSUME NEW items, NEW next, ParseItems(tokens)[i + Len(w)] = Items(items, next)
             PROVE  ParseItems(tokens)[i] = Items(<<item>> \o items, next)
  OBVIOUS
<1>1. PICK P : P = ParseItems(tokens)
  OBVIOUS
<1>2. w \in Seq(Tokens)
  BY AllWrittenTyped, WrittenItemTyped
<1>3. CASE item \in Terms
  <2>1. /\ item.kind = "term" /\ item.lhs \in Texts \ Marks /\ item.op \in BinaryOperators
        /\ item = Term(item.lhs, item.op, item.rhs)
    BY <1>3, InTerms
  <2>2. w = <<item.lhs, item.op, item.rhs>>
    BY <2>1 DEF WrittenItem
  <2>3. Len(w) = 3 /\ w[1] = item.lhs /\ w[2] = item.op /\ w[3] = item.rhs
    BY <2>2
  <2>4. /\ i \in 1 .. Len(tokens) /\ i + 1 \in 1 .. Len(tokens) /\ i + 2 \in 1 .. Len(tokens)
        /\ tokens[i] = item.lhs /\ tokens[i + 1] = item.op /\ tokens[i + 2] = item.rhs
    <3>1. \A k \in 1 .. 3 : i + k - 1 \in 1 .. Len(tokens) /\ tokens[i + k - 1] = w[k]
      BY <2>3 DEF Stands
    <3>2. i + 1 - 1 = i /\ i + 2 - 1 = i + 1 /\ i + 3 - 1 = i + 2
      OBVIOUS
    <3>3. 1 \in 1 .. 3 /\ 2 \in 1 .. 3 /\ 3 \in 1 .. 3
      OBVIOUS
    <3>4. QED
      BY <2>3, <3>1, <3>2, <3>3
  <2>5. tokens[i] \notin {")", "!", "("} /\ tokens[i] \notin BooleanOperators
    BY <2>1, <2>4 DEF Marks
  <2>6. Word(tokens, i).is = item.lhs /\ Word(tokens, i).next = i + 1
    <3>1. ~(i > Len(tokens)) /\ tokens[i] # Empty
      BY <2>4 DEF Plainly
    <3>2. QED
      BY <2>4, <3>1, WordPlain
  <2>7. P[i] = TermAt(P, tokens, item.lhs, i + 1)
    <3>1. i \in 1 .. Len(tokens) + 1 /\ ~(i > Len(tokens))
      BY <2>4
    <3>2. P[i] = ItemsAt(P, tokens, i)
      BY <1>1, <3>1, ParseDefined
    <3>3. QED
      BY <2>4, <2>5, <2>6, <3>1, <3>2 DEF ItemsAt
  <2>8. PICK rhs : rhs = Extract(item.op, tokens, i + 2)
    OBVIOUS
  <2>9. rhs.ok /\ rhs.is = item.rhs /\ rhs.next = i + 3
    <3>1. item.op = "between" => tokens[i + 2] \in DOMAIN Ranges
      BY <1>3, <2>4, InTerms
    <3>2. QED
      BY <2>4, <2>8, <3>1, ExtractPlain
  <2>10. P[i] = Then(item, P[i + 3])
    <3>1. i + 1 <= Len(tokens) /\ i + 1 + 1 = i + 2
      BY <2>4
    <3>2. QED
      BY <2>1, <2>4, <2>7, <2>8, <2>9, <3>1 DEF TermAt
  <2>11. Then(item, P[i + 3]) = Items(<<item>> \o items, next)
    BY <1>1, <2>3, ThenFinds
  <2>12. QED
    BY <1>1, <2>10, <2>11
<1>4. CASE item \in Bools
  <2>1. item.kind = "op" /\ item.op \in BooleanOperators /\ item = Bool(item.op)
    BY <1>4, InBools
  <2>2. w = <<item.op>>
    BY <2>1 DEF WrittenItem
  <2>3. Len(w) = 1 /\ w # <<>> /\ w[1] = item.op
    BY <2>2
  <2>4. i \in 1 .. Len(tokens) /\ tokens[i] = item.op
    BY <1>2, <2>3, StandsFirst
  <2>5. tokens[i] \notin {")", "!", "("}
    BY <2>1, <2>4 DEF BooleanOperators
  <2>6. P[i] = Then(item, P[i + 1])
    <3>1. i \in 1 .. Len(tokens) + 1 /\ ~(i > Len(tokens))
      BY <2>4
    <3>2. P[i] = ItemsAt(P, tokens, i)
      BY <1>1, <3>1, ParseDefined
    <3>3. tokens[i] # Empty
      BY <2>4 DEF Plainly
    <3>4. Word(tokens, i).is = item.op /\ Word(tokens, i).next = i + 1
      BY <2>4, <3>1, <3>3, WordPlain
    <3>5. QED
      BY <2>1, <2>4, <2>5, <3>1, <3>2, <3>4 DEF ItemsAt
  <2>7. QED
    BY <1>1, <2>3, <2>6, ThenFinds
<1>5. CASE item \in Groups[n]
  <2>1. item.kind = "group"
    BY <1>5, InGroups
  <2>2. w = WrittenGroups[n][item]
    BY <2>1 DEF WrittenItem
  <2>3. PICK inner : inner = GroupAt(P, tokens, i)
    OBVIOUS
  <2>4. i \in 1 .. Len(tokens) /\ tokens[i] \in {"!", "("} /\ inner = Parsed(item, i + Len(w))
    BY <1>1, <1>5, <2>2, <2>3 DEF Rebuilds
  <2>5. P[i] = IF inner.ok THEN Then(inner.group, P[inner.next]) ELSE NotParsed
    <3>1. i \in 1 .. Len(tokens) + 1 /\ ~(i > Len(tokens))
      BY <2>4
    <3>2. P[i] = ItemsAt(P, tokens, i)
      BY <1>1, <3>1, ParseDefined
    <3>3. tokens[i] # ")"
      BY <2>4
    <3>4. QED
      BY <2>3, <2>4, <3>1, <3>2, <3>3 DEF ItemsAt
  <2>6. P[i] = Then(item, P[i + Len(w)])
    BY <2>4, <2>5 DEF Parsed
  <2>7. Then(item, P[i + Len(w)]) = Items(<<item>> \o items, next)
    BY <1>1, ThenFinds
  <2>8. QED
    BY <1>1, <2>6, <2>7
<1>6. QED
  BY <1>3, <1>4, <1>5

\* The items of a group, from the last to the first.
LEMMA FindsAllItems ==
    ASSUME Depth \in Nat, NEW tokens, Len(tokens) \in Nat, Plainly(tokens),
           NEW n \in 0 .. Depth, Rebuilds(tokens, n),
           NEW S, S = Terms \cup Bools \cup Groups[n], NEW items \in Seq(S), NEW line,
           line = WrittenItems(WrittenGroups[n], items)
    PROVE  \A i \in Nat : Stands(line[Len(items)], tokens, i) =>
             ParseItems(tokens)[i] = Items(items, i + Len(line[Len(items)]))
<1>1. PICK P : P = ParseItems(tokens)
  OBVIOUS
<1>2. PICK N \in Nat : N = Len(items)
  OBVIOUS
<1>3. PICK inner : inner = WrittenGroups[n]
  OBVIOUS
<1>4. line = [j \in 0 .. N |-> IF j = 0 THEN <<")">>
                               ELSE WrittenItem(inner, items[N + 1 - j]) \o line[j - 1]]
  <2>1. WrittenItems(inner, items) =
          [j \in 0 .. Len(items) |->
             IF j = 0 THEN <<")">>
             ELSE WrittenItem(inner, items[Len(items) + 1 - j]) \o WrittenItems(inner, items)[j - 1]]
    BY <1>2, LineDefined
  <2>2. QED
    BY <1>2, <1>3, <2>1
<1>5. \A j \in 0 .. N : line[j] \in Seq(Tokens)
  BY <1>2, AllWrittenTyped, LineTyped
<1>6. PICK T : T = {j \in 0 .. N :
        \A i \in Nat : Stands(line[j], tokens, i) =>
          P[i] = Items(SubSeq(items, N + 1 - j, N), i + Len(line[j]))}
  OBVIOUS
<1>7. T \in SUBSET (0 .. N) /\ 0 \in T
  <2>1. line[0] = <<")">>
    BY <1>4
  <2>2. Len(line[0]) = 1 /\ line[0] # <<>> /\ line[0][1] = ")" /\ 0 \in 0 .. N
    BY <2>1
  <2>3. SUFFICES ASSUME NEW i \in Nat, Stands(line[0], tokens, i)
                 PROVE  P[i] = Items(SubSeq(items, N + 1 - 0, N), i + 1)
    BY <1>6, <2>2
  <2>4. i \in 1 .. Len(tokens) /\ tokens[i] = ")"
    BY <1>5, <2>2, <2>3, StandsFirst
  <2>5. i \in 1 .. Len(tokens) + 1 /\ ~(i > Len(tokens))
    BY <2>4
  <2>6. P[i] = ItemsAt(P, tokens, i)
    BY <1>1, <2>5, ParseDefined
  <2>7. P[i] = Items(<<>>, i + 1)
    BY <2>4, <2>5, <2>6 DEF ItemsAt
  <2>8. SubSeq(items, N + 1 - 0, N) = <<>>
    BY SubSeqEmpty
  <2>9. QED
    BY <2>7, <2>8
<1>8. ASSUME NEW j \in T, j < N PROVE j + 1 \in T
  <2>1. j \in 0 .. N /\ j + 1 \in 0 .. N /\ j + 1 # 0 /\ (j + 1) - 1 = j
    BY <1>6, <1>8
  <2>2. PICK h \in 1 .. N : h = N - j
    BY <2>1, <1>8
  <2>3. N + 1 - (j + 1) = h /\ N + 1 - j = h + 1
    BY <2>1, <2>2
  <2>4. PICK item \in Terms \cup Bools \cup Groups[n] : item = items[h]
    <3>1. h \in 1 .. Len(items)
      BY <1>2
    <3>2. items[h] \in S
      BY <3>1
    <3>3. QED
      BY <3>2
  <2>5. PICK w \in Seq(Tokens) : w = WrittenItem(inner, item)
    BY <1>3, AllWrittenTyped, WrittenItemTyped
  <2>6. line[j + 1] = w \o line[j]
    <3>1. line[j + 1] = WrittenItem(inner, items[N + 1 - (j + 1)]) \o line[(j + 1) - 1]
      BY <1>4, <2>1
    <3>2. QED
      BY <2>1, <2>3, <2>4, <2>5, <3>1
  <2>7. line[j] \in Seq(Tokens)
    BY <1>5, <2>1
  <2>8. SUFFICES ASSUME NEW i \in Nat, Stands(w \o line[j], tokens, i)
                 PROVE  P[i] = Items(SubSeq(items, h, N), i + Len(w \o line[j]))
    BY <1>6, <2>1, <2>3, <2>6
  <2>9. Stands(w, tokens, i) /\ Stands(line[j], tokens, i + Len(w)) /\ Len(w \o line[j]) = Len(w) + Len(line[j])
    BY <2>7, <2>8, StandsBoth
  <2>10. PICK m \in Nat : m = i + Len(w)
    BY <2>5
  <2>11. P[m] = Items(SubSeq(items, h + 1, N), m + Len(line[j]))
    BY <1>6, <2>3, <2>9, <2>10
  <2>12. Len(w) \in Nat /\ Len(line[j]) \in Nat /\ m + Len(line[j]) = i + Len(w \o line[j])
    <3>1. Len(w) \in Nat /\ Len(line[j]) \in Nat
      BY <2>5, <2>7
    <3>2. PICK a \in Nat, b \in Nat : a = Len(w) /\ b = Len(line[j])
      BY <3>1
    <3>3. m = i + a /\ Len(w \o line[j]) = a + b
      BY <2>9, <2>10, <3>2
    <3>4. (i + a) + b = i + (a + b)
      OBVIOUS
    <3>5. QED
      BY <3>1, <3>2, <3>3, <3>4
  <2>14. P[i] = Items(<<item>> \o SubSeq(items, h + 1, N), m + Len(line[j]))
    <3>1. w = WrittenItem(WrittenGroups[n], item)
      BY <1>3, <2>5
    <3>2. Stands(w, tokens, i)
      BY <2>9
    <3>3. \A rest, next : ParseItems(tokens)[i + Len(w)] = Items(rest, next) =>
            ParseItems(tokens)[i] = Items(<<item>> \o rest, next)
      BY <3>1, <3>2, FindsItem
    <3>4. P[i + Len(w)] = Items(SubSeq(items, h + 1, N), m + Len(line[j]))
      BY <2>10, <2>11
    <3>5. QED
      BY <1>1, <3>3, <3>4
  <2>15. <<item>> \o SubSeq(items, h + 1, N) = SubSeq(items, h, N)
    <3>1. h \in 1 .. Len(items) /\ N \in h .. Len(items)
      BY <1>2
    <3>2. SubSeq(items, h, N) = <<items[h]>> \o SubSeq(items, h + 1, N)
      BY <3>1, SubSeqRecursiveFirst
    <3>3. QED
      BY <2>4, <3>2
  <2>16. QED
    BY <2>12, <2>14, <2>15
<1>9. T = 0 .. N
  BY <1>7, <1>8, Lines!RangeSet
<1>10. N \in T /\ N + 1 - N = 1 /\ SubSeq(items, 1, N) = items
  BY <1>2, <1>9, SubSeqFull
<1>11. QED
  BY <1>1, <1>2, <1>6, <1>10

\* A group is found where it stands when those within it are,
LEMMA RebuildsNext ==
    ASSUME Depth \in Nat, NEW tokens, Len(tokens) \in Nat, Plainly(tokens),
           NEW n \in 0 .. Depth, n < Depth, Rebuilds(tokens, n)
    PROVE  Rebuilds(tokens, n + 1)
<1>1. n + 1 \in 0 .. Depth /\ n + 1 # 0 /\ (n + 1) - 1 = n
  OBVIOUS
<1>2. SUFFICES ASSUME NEW x \in Groups[n + 1], NEW i \in Nat, Stands(WrittenGroups[n + 1][x], tokens, i)
               PROVE  /\ i \in 1 .. Len(tokens) /\ tokens[i] \in {"!", "("}
                      /\ GroupAt(ParseItems(tokens), tokens, i) = Parsed(x, i + Len(WrittenGroups[n + 1][x]))
  BY DEF Rebuilds
<1>3. PICK S : S = Terms \cup Bools \cup Groups[n]
  OBVIOUS
<1>4. x.negated \in BOOLEAN /\ x = Group(x.negated, x.items) /\ x.items \in Seq(S)
  BY <1>1, <1>3, InGroups
<1>5. PICK items \in Seq(S) : items = x.items
  BY <1>4
<1>6. PICK lines : lines = WrittenItems(WrittenGroups[n], items)
  OBVIOUS
<1>7. PICK line : line = lines[Len(items)]
  OBVIOUS
<1>8. line \in Seq(Tokens) /\ line # <<>>
  <2>1. Len(items) \in 0 .. Len(items) /\ WrittenTyped(n)
    BY AllWrittenTyped
  <2>2. \A j \in 0 .. Len(items) : /\ WrittenItems(WrittenGroups[n], items)[j] \in Seq(Tokens)
                                  /\ WrittenItems(WrittenGroups[n], items)[j] # <<>>
    BY <1>3, <2>1, LineTyped
  <2>3. QED
    BY <1>6, <1>7, <2>1, <2>2
<1>9. PICK mark \in Seq(Tokens) : mark = IF x.negated THEN <<"!">> ELSE <<>>
  <2>1. <<"!">> \in Seq(Tokens) /\ <<>> \in Seq(Tokens)
    BY DEF Tokens
  <2>2. QED
    BY <2>1
<1>10. PICK brace \in Seq(Tokens) : brace = <<"(">>
  <2>1. <<"(">> \in Seq(Tokens)
    BY DEF Tokens
  <2>2. QED
    BY <2>1
<1>11. PICK start \in Seq(Tokens) : start = mark \o brace
  <2>1. mark \o brace \in Seq(Tokens)
    OBVIOUS
  <2>2. QED
    BY <2>1
<1>12. PICK w : w = WrittenGroups[n + 1][x]
  OBVIOUS
<1>13. w = start \o line
  <2>1. w = WrittenGroup(WrittenGroups[n], x)
    BY <1>1, <1>12, WrittenDefined
  <2>2. QED
    BY <1>5, <1>6, <1>7, <1>9, <1>10, <1>11, <2>1 DEF WrittenGroup
<1>14. /\ Stands(start, tokens, i) /\ Stands(line, tokens, i + Len(start))
       /\ Len(w) = Len(start) + Len(line)
  BY <1>2, <1>8, <1>12, <1>13, StandsBoth
<1>15. /\ Stands(mark, tokens, i) /\ Stands(brace, tokens, i + Len(mark))
       /\ Len(start) = Len(mark) + Len(brace)
  BY <1>11, <1>14, StandsBoth
<1>16. /\ Len(brace) = 1 /\ brace # <<>> /\ brace[1] = "("
       /\ Len(mark) = IF x.negated THEN 1 ELSE 0
  BY <1>9, <1>10
<1>17. PICK open \in Nat : open = i + Len(mark)
  BY <1>16
<1>18. open \in 1 .. Len(tokens) /\ tokens[open] = "("
  BY <1>15, <1>16, <1>17, StandsFirst
<1>19. IF x.negated THEN i \in 1 .. Len(tokens) /\ tokens[i] = "!" /\ open = i + 1
       ELSE open = i
  <2>1. CASE x.negated
    <3>1. mark # <<>> /\ mark[1] = "!"
      BY <1>9, <2>1
    <3>2. i \in 1 .. Len(tokens) /\ tokens[i] = "!"
      BY <1>15, <3>1, StandsFirst
    <3>3. QED
      BY <1>16, <1>17, <2>1, <3>2
  <2>2. CASE ~x.negated
    BY <1>16, <1>17, <2>2
  <2>3. QED
    BY <2>1, <2>2
<1>20. i \in 1 .. Len(tokens) /\ tokens[i] \in {"!", "("}
  BY <1>18, <1>19
<1>21. PICK P : P = ParseItems(tokens)
  OBVIOUS
<1>22. PICK m \in Nat : m = open + 1
  OBVIOUS
<1>23. m = i + Len(start)
  BY <1>15, <1>16, <1>17, <1>22
<1>24. P[m] = Items(items, m + Len(line))
  <2>1. Stands(lines[Len(items)], tokens, m)
    BY <1>7, <1>14, <1>23
  <2>2. \A k \in Nat : Stands(lines[Len(items)], tokens, k) =>
          ParseItems(tokens)[k] = Items(items, k + Len(lines[Len(items)]))
    BY <1>3, <1>6, FindsAllItems
  <2>3. QED
    BY <1>7, <1>21, <2>1, <2>2
<1>25. m \in 1 .. Len(tokens)
  BY <1>8, <1>14, <1>23, StandsFirst
<1>26. GroupAt(P, tokens, i) = Grouped(x.negated, P[m])
  <2>1. ~(open >= Len(tokens))
    BY <1>18, <1>22, <1>25
  <2>2. CASE x.negated
    <3>1. tokens[i] = "!" /\ i <= Len(tokens) /\ open = i + 1 /\ m = i + 1 + 1
      BY <1>19, <1>22, <2>2
    <3>2. QED
      BY <1>18, <2>1, <2>2, <3>1 DEF GroupAt
  <2>3. CASE ~x.negated
    <3>1. tokens[i] # "!" /\ open = i /\ m = i + 1
      BY <1>18, <1>19, <1>22, <2>3
    <3>2. x.negated = FALSE
      BY <1>4, <2>3
    <3>3. QED
      BY <1>18, <2>1, <3>1, <3>2 DEF GroupAt
  <2>4. QED
    BY <2>2, <2>3
<1>27. GroupAt(P, tokens, i) = Parsed(x, i + Len(w))
  <2>1. Grouped(x.negated, P[m]) = Parsed(Group(x.negated, items), m + Len(line))
    BY <1>24 DEF Grouped, Items
  <2>2. m + Len(line) = i + Len(w)
    BY <1>8, <1>11, <1>14, <1>23
  <2>3. QED
    BY <1>4, <1>5, <1>26, <2>1, <2>2
<1>28. QED
  BY <1>12, <1>20, <1>21, <1>27

\* so all of them are.
LEMMA AllRebuilds ==
    ASSUME Depth \in Nat, NEW tokens, Len(tokens) \in Nat, Plainly(tokens)
    PROVE  \A n \in 0 .. Depth : Rebuilds(tokens, n)
<1>1. PICK T : T = {n \in 0 .. Depth : Rebuilds(tokens, n)}
  OBVIOUS
<1>2. T \in SUBSET (0 .. Depth) /\ 0 \in T
  <2>1. ASSUME NEW x \in Groups[0] PROVE FALSE
    <3>1. 0 \in 0 .. Depth
      OBVIOUS
    <3>2. QED
      BY <3>1, InGroups
  <2>2. QED
    BY <1>1, <2>1 DEF Rebuilds
<1>3. \A n \in T : n < Depth => n + 1 \in T
  BY <1>1, RebuildsNext
<1>4. T = 0 .. Depth
  BY <1>2, <1>3, Lines!RangeSet
<1>5. QED
  BY <1>1, <1>4

(* The parser gives back every clause that is written plainly, whatever comes     *)
(* after it, and stops after it (recursiveParseBooleanExpression, Utils.cpp:201). *)
THEOREM ParsesPlainClauses ==
    ASSUME NEW clause \in Groups[Depth], Plainly(Written(clause)), NEW kind \in Kinds
    PROVE  ParseGroup(Written(clause) \o After(kind)) = Parsed(clause, Len(Written(clause)) + 1)
<1>1. PICK w : w = Written(clause)
  OBVIOUS
<1>2. Depth \in Nat /\ Depth \in 0 .. Depth
  BY WhereClauseAssumption DEF WhereClauseAssumption
<1>3. w \in Seq(Tokens) /\ w = WrittenGroups[Depth][clause]
  BY <1>1, <1>2, AllWrittenTyped DEF Written, WrittenTyped
<1>4. PICK T : T = Tokens \cup {"fields", "modify"}
  OBVIOUS
<1>5. PICK after \in Seq(T) : after = After(kind)
  <2>1. "fields" \in T /\ "modify" \in T
    BY <1>4
  <2>2. <<>> \in Seq(T) /\ <<"fields">> \in Seq(T) /\ <<"modify">> \in Seq(T)
    BY <2>1
  <2>3. QED
    BY <2>2 DEF After
<1>6. \A k \in 1 .. Len(after) : after[k] # Empty /\ after[k] # "in"
  <2>1. "fields" # Empty /\ "modify" # Empty
    BY Zenon DEF Empty
  <2>2. "fields" # "in" /\ "modify" # "in"
    OBVIOUS
  <2>3. after \in {<<>>, <<"fields">>, <<"modify">>}
    BY <1>5 DEF After
  <2>4. CASE after = <<>>
    BY <2>4
  <2>5. CASE after = <<"fields">>
    BY <2>1, <2>2, <2>5
  <2>6. CASE after = <<"modify">>
    BY <2>1, <2>2, <2>6
  <2>7. QED
    BY <2>3, <2>4, <2>5, <2>6
<1>7. w \in Seq(T)
  BY <1>3, <1>4
<1>8. PICK tokens \in Seq(T) : tokens = w \o after
  <2>1. PICK u \in Seq(T) : u = w
    BY <1>7
  <2>2. u \o after \in Seq(T)
    OBVIOUS
  <2>3. QED
    BY <2>1, <2>2
<1>9. /\ Len(w) \in Nat /\ Len(after) \in Nat /\ Len(tokens) = Len(w) + Len(after)
      /\ \A k \in 1 .. Len(w) : tokens[k] = w[k]
      /\ \A k \in 1 .. Len(tokens) : k > Len(w) => tokens[k] = after[k - Len(w)]
  BY <1>5, <1>7, <1>8
<1>10. Plainly(tokens)
  <2>1. SUFFICES ASSUME NEW k \in 1 .. Len(tokens)
                 PROVE  /\ tokens[k] # Empty
                        /\ tokens[k] = "in" => k < Len(tokens) /\ tokens[k + 1] \in DOMAIN Lists
    BY DEF Plainly
  <2>2. CASE k > Len(w)
    <3>1. k - Len(w) \in 1 .. Len(after)
      BY <1>9, <2>2
    <3>2. tokens[k] # Empty /\ tokens[k] # "in"
      BY <1>6, <1>9, <2>2, <3>1
    <3>3. QED
      BY <3>2
  <2>3. CASE ~(k > Len(w))
    <3>1. k \in 1 .. Len(w)
      BY <1>9, <2>3
    <3>2. w[k] # Empty /\ (w[k] = "in" => k < Len(w) /\ w[k + 1] \in DOMAIN Lists)
      BY <1>1, <3>1 DEF Plainly
    <3>3. k < Len(w) => k + 1 \in 1 .. Len(w) /\ k < Len(tokens)
      BY <1>9, <3>1
    <3>4. QED
      BY <1>9, <3>1, <3>2, <3>3
  <2>4. QED
    BY <2>2, <2>3
<1>11. Stands(w, tokens, 1)
  BY <1>9 DEF Stands
<1>12. Rebuilds(tokens, Depth)
  BY <1>2, <1>8, <1>10, AllRebuilds
<1>13. ParseGroup(tokens) = Parsed(clause, 1 + Len(w))
  BY <1>3, <1>11, <1>12 DEF Rebuilds, ParseGroup
<1>14. QED
  BY <1>1, <1>5, <1>8, <1>9, <1>13

-----------------------------------------------------------------------------
(* A term.  Its sides are texts, bools and numbers, or an exception.             *)
CacheOK(c) == c \in Caches /\ (c.pattern \notin Malformed \cup {Empty} => c.regex = Matched(c.pattern))

Data == [type : {0}, is : Texts] \cup [type : {1, 2}, is : Int] \cup {CannotConvert, Asserts}

\* The alternatives a side may hold.
LEMMA DataTypes == ASSUME NEW x \in Data PROVE x.type \in 0 .. 4 /\ (x.type = 0 => x.is \in Texts)
BY DEF Data, CannotConvert, Asserts

\* A text that can be read gives a number.
LEMMA ReadableInt == ASSUME CalculusAssumption, NEW t, Readable(t) PROVE Number[t] \in Int
BY DEF Readable, CalculusAssumption

\* A conversion gives a text, a number, a bool or an exception,
LEMMA ConvertTyped ==
    ASSUME CalculusAssumption, NEW t \in Texts, NEW type PROVE convert(t, type) \in Data
<1>1. AsText(t) \in Data
  BY DEF AsText, Data
<1>2. Readable(t) => [type |-> 2, is |-> Number[t]] \in Data
  BY ReadableInt DEF Data
<1>3. CannotConvert \in Data /\ Asserts \in Data
  BY DEF Data
<1>4. [type |-> 1, is |-> IF t = "true" THEN 1 ELSE 0] \in Data
  BY DEF Data
<1>5. QED
  BY <1>1, <1>2, <1>3, <1>4 DEF convert

\* and each side of a term is one of them.
LEMMA SidesTyped ==
    ASSUME CalculusAssumption, NEW e, \A f \in DOMAIN e : e[f] \in Texts,
           NEW lhs \in Texts, NEW rhs \in Texts
    PROVE  \E x, y \in Data : getLhsRhs(e, lhs, rhs) = <<x, y>>
<1> DEFINE held(f) == f \in DOMAIN e \/ f = Empty
           field(f) == IF f = Empty THEN Asserts ELSE convert(e[f], FieldType[f])
<1>1. Asserts \in Data /\ AsText(lhs) \in Data /\ AsText(rhs) \in Data
  BY DEF Data, AsText
<1>2. \A type : convert(lhs, type) \in Data /\ convert(rhs, type) \in Data
  BY ConvertTyped
<1>3. \A f : held(f) => field(f) \in Data
  BY <1>1, ConvertTyped
<1>4. CASE held(lhs) /\ held(rhs)
  <2>1. getLhsRhs(e, lhs, rhs) \in {<<field(lhs), field(rhs)>>, <<Asserts, Asserts>>}
    BY <1>4 DEF getLhsRhs
  <2>2. QED
    BY <1>1, <1>3, <1>4, <2>1
<1>5. CASE held(lhs) /\ ~held(rhs)
  <2>1. PICK y \in Data : y = IF lhs = Empty THEN Asserts ELSE convert(rhs, FieldType[lhs])
    BY <1>1, <1>2
  <2>2. getLhsRhs(e, lhs, rhs) = <<field(lhs), y>>
    BY <1>5, <2>1 DEF getLhsRhs
  <2>3. QED
    BY <1>3, <1>5, <2>2
<1>6. CASE ~held(lhs) /\ held(rhs)
  <2>1. getLhsRhs(e, lhs, rhs) = IF rhs = Empty THEN <<Asserts, Asserts>>
          ELSE <<convert(lhs, FieldType[rhs]), convert(rhs, FieldType[rhs])>>
    BY <1>6 DEF getLhsRhs
  <2>2. QED
    BY <1>1, <1>2, <2>1
<1>7. CASE ~held(lhs) /\ ~held(rhs)
  <2>1. getLhsRhs(e, lhs, rhs) = <<AsText(lhs), AsText(rhs)>>
    BY <1>7 DEF getLhsRhs
  <2>2. QED
    BY <1>1, <2>1
<1>8. QED
  BY <1>4, <1>5, <1>6, <1>7

Answers == {"yes", "no", Fails}
Fine(answer) == answer.is \in Answers /\ CacheOK(answer.caches)

\* Each way a term may end leaves statics that agree.
LEMMA AbortFine == ASSUME WhereClauseAssumption PROVE Fine(Abort) /\ Abort.is = Fails
<1>1. NoCaches \in Caches /\ NoCaches.pattern = Empty
  BY DEF WhereClauseAssumption, Caches, NoCaches
<1>2. QED
  BY <1>1 DEF Abort, Failure, Fine, Answers, CacheOK

LEMMA FailureFine == ASSUME NEW c, CacheOK(c) PROVE Fine(Failure(c)) /\ Failure(c).is = Fails
BY DEF Fine, Failure, Answers

LEMMA AnswerFine == ASSUME NEW c, CacheOK(c), NEW holds
                    PROVE  /\ Fine(Answer(holds, c)) /\ Answer(holds, c).caches = c
                           /\ Answer(holds, c).is = IF holds THEN "yes" ELSE "no"
BY DEF Fine, Answer, Answers

\* The list searched last becomes the one of the term,
LEMMA ListingFine ==
    ASSUME WhereClauseAssumption, NEW c, CacheOK(c), NEW lhs, NEW rhs, lhs # Empty => rhs \in DOMAIN Lists
    PROVE  CacheOK(Listing(c, lhs, rhs)) /\ Listing(c, lhs, rhs).list = ListFor(c, lhs, rhs)
<1>1. ListFor(c, lhs, rhs) \in SUBSET Texts
  BY DEF ListFor, WhereClauseAssumption, CacheOK, Caches
<1>2. QED
  BY <1>1 DEF Listing, CacheOK, Caches

\* and the regex that of the pattern, when it compiles.
LEMMA CompilingFine ==
    ASSUME WhereClauseAssumption, NEW c, CacheOK(c), NEW pattern \in Texts
    PROVE  /\ CacheOK(Compiling(c, pattern))
           /\ pattern \notin Malformed \cup {Empty} => Compiling(c, pattern).regex = Matched(pattern)
<1>1. Matched(pattern) \in SUBSET Texts
  BY DEF Matched, WhereClauseAssumption
<1>2. CASE c.pattern = pattern
  BY <1>2 DEF Compiling, CacheOK
<1>3. CASE c.pattern # pattern
  <2>1. PICK d : d = Compiling(c, pattern)
    OBVIOUS
  <2>2. /\ d \in Caches /\ d.pattern = pattern
        /\ pattern \notin Malformed => d.regex = Matched(pattern)
    BY <1>1, <1>3, <2>1 DEF Compiling, CacheOK, Caches
  <2>3. QED
    BY <2>1, <2>2 DEF CacheOK
<1>4. QED
  BY <1>2, <1>3

\* A range answers, or fails.
LEMMA WithinTyped == ASSUME NEW x, NEW range PROVE Within(x, range) \in Answers
BY DEF Within, Answers

\* What the evaluation of a term leaves in the statics.
LEMMA TermFine ==
    ASSUME CalculusAssumption, WhereClauseAssumption, NEW e, \A f \in DOMAIN e : e[f] \in Texts,
           NEW t \in Terms, NEW c, CacheOK(c)
    PROVE  Fine(evaluateBinaryExpression(t, e, c))
<1>1. PICK x \in Data, y \in Data : getLhsRhs(e, t.lhs, t.rhs) = <<x, y>>
  <2>1. PICK lhs \in Texts, rhs \in Texts : lhs = t.lhs /\ rhs = t.rhs
    BY InTerms
  <2>2. \E x, y \in Data : getLhsRhs(e, lhs, rhs) = <<x, y>>
    BY SidesTyped
  <2>3. QED
    BY <2>1, <2>2
<1>2. <<x, y>>[1] = x /\ <<x, y>>[2] = y
  OBVIOUS
<1>3. /\ Fine(Abort) /\ Fine(Failure(c))
      /\ Fine(Answer(Compare(t.op, x, y), c))
  <2>1. Fine(Abort)
    BY AbortFine
  <2>2. Fine(Failure(c))
    BY FailureFine
  <2>3. Fine(Answer(Compare(t.op, x, y), c))
    BY AnswerFine
  <2>4. QED
    BY <2>1, <2>2, <2>3
<1>4. \A range : Fine([is |-> Within(x, range), caches |-> c])
  BY WithinTyped DEF Fine
<1>5. Fine(Searching(x, y, c))
  <2>1. CASE x.is # Empty /\ y.is \notin DOMAIN Lists
    BY <1>3, <2>1 DEF Searching
  <2>2. CASE ~(x.is # Empty /\ y.is \notin DOMAIN Lists)
    <3>1. PICK d : d = Listing(c, x.is, y.is)
      OBVIOUS
    <3>2. CacheOK(d)
      BY <2>2, <3>1, ListingFine
    <3>3. Fine(Answer(x.is \in d.list, d))
      BY <3>2, AnswerFine
    <3>4. Searching(x, y, c) = Answer(x.is \in d.list, d)
      BY <2>2, <3>1 DEF Searching
    <3>5. QED
      BY <3>3, <3>4
  <2>3. QED
    BY <2>1, <2>2
<1>6. y.type = 0 => Fine(Matching(x, y, c))
  <2>1. SUFFICES ASSUME y.type = 0 PROVE Fine(Matching(x, y, c))
    OBVIOUS
  <2>2. PICK d : d = Compiling(c, y.is)
    OBVIOUS
  <2>3. CacheOK(d)
    BY <2>1, <2>2, DataTypes, CompilingFine
  <2>4. Fine(Failure(d)) /\ Fine(Answer(x.is \in d.regex, d))
    BY <2>3, FailureFine, AnswerFine
  <2>5. QED
    BY <2>2, <2>4 DEF Matching
<1>7. QED
  BY <1>1, <1>2, <1>3, <1>4, <1>5, <1>6 DEF evaluateBinaryExpression

-----------------------------------------------------------------------------
(* A term that can be compared is answered by what it means.                     *)
LEMMA RankDefined ==
    ASSUME WhereClauseAssumption, NEW t \in Texts
    PROVE  Rank(t) \in Nat /\ TextOrder[Rank(t)] = t
<1>1. \E i \in DOMAIN TextOrder : TextOrder[i] = t
  BY DEF Texts
<1>2. Rank(t) \in DOMAIN TextOrder /\ TextOrder[Rank(t)] = t
  BY <1>1 DEF Rank
<1>3. DOMAIN TextOrder \subseteq Nat
  BY DEF WhereClauseAssumption
<1>4. QED
  BY <1>2, <1>3

AsNumber(n) == [type |-> 2, is |-> n]

LEMMA AsTextHas == ASSUME NEW t PROVE AsText(t).type = 0 /\ AsText(t).is = t
BY DEF AsText

LEMMA AsNumberHas == ASSUME NEW n PROVE AsNumber(n).type = 2 /\ AsNumber(n).is = n
BY DEF AsNumber

\* Texts compare by their rank, numbers by their value.
LEMMA ComparesText ==
    ASSUME WhereClauseAssumption, NEW a \in Texts, NEW b \in Texts
    PROVE  /\ Same(AsText(a), AsText(b)) <=> Rank(a) = Rank(b)
           /\ Less(AsText(a), AsText(b)) <=> Rank(a) < Rank(b)
<1>1. PICK m \in Nat, n \in Nat : /\ m = Rank(a) /\ n = Rank(b)
                                  /\ TextOrder[m] = a /\ TextOrder[n] = b
  BY RankDefined
<1>2. PICK x, y : x = AsText(a) /\ y = AsText(b)
  OBVIOUS
<1>3. x.type = 0 /\ x.is = a /\ y.type = 0 /\ y.is = b
  BY <1>2, AsTextHas
<1>4. Same(x, y) <=> m = n
  BY <1>1, <1>3 DEF Same
<1>5. Less(x, y) <=> m < n
  <2>1. Less(x, y) <=> (0 < 0 \/ (0 = 0 /\ (IF 0 = 0 THEN m < n ELSE a < b)))
    BY <1>1, <1>3, Zenon DEF Less
  <2>2. m \in Nat /\ n \in Nat /\ ~(0 < 0)
    BY <1>1
  <2>3. QED
    BY <2>1, <2>2
<1>6. QED
  BY <1>1, <1>2, <1>4, <1>5

LEMMA ComparesNumber ==
    ASSUME NEW a \in Int, NEW b \in Int
    PROVE  /\ Same(AsNumber(a), AsNumber(b)) <=> a = b
           /\ Less(AsNumber(a), AsNumber(b)) <=> a < b
<1>1. PICK x, y : x = AsNumber(a) /\ y = AsNumber(b)
  OBVIOUS
<1>2. x.type = 2 /\ x.is = a /\ y.type = 2 /\ y.is = b
  BY <1>1, AsNumberHas
<1>3. QED
  BY <1>1, <1>2 DEF Same, Less

\* An operator compares as it relates what the sides measure.
LEMMA ComparesAsRelates ==
    ASSUME NEW op \in Compares, NEW x, NEW y, NEW m \in Int, NEW n \in Int,
           Same(x, y) <=> m = n, Less(x, y) <=> m < n, Less(y, x) <=> n < m
    PROVE  Compare(op, x, y) <=> Relates(op, m, n)
<1>1. CASE op = "=="
  BY <1>1 DEF Compare, Relates, AtMost
<1>2. CASE op = ">"
  BY <1>2 DEF Compare, Relates, AtMost
<1>3. CASE op = ">="
  BY <1>3 DEF Compare, Relates, AtMost
<1>4. CASE op = "<"
  BY <1>4 DEF Compare, Relates, AtMost
<1>5. CASE op = "<="
  BY <1>5 DEF Compare, Relates, AtMost
<1>6. QED
  BY <1>1, <1>2, <1>3, <1>4, <1>5 DEF Compares

\* The sides of a term are what the field holds and what it is compared with,
\* unless the evaluation ends there.
LEMMA SidesMean ==
    ASSUME NEW e, NEW t, t.lhs \in DOMAIN e,
           t.rhs \in DOMAIN e => FieldType[t.lhs] = FieldType[t.rhs]
    PROVE  \/ getLhsRhs(e, t.lhs, t.rhs)[1] = Asserts
           \/ getLhsRhs(e, t.lhs, t.rhs)[2] = Asserts
           \/ getLhsRhs(e, t.lhs, t.rhs) =
                <<convert(e[t.lhs], FieldType[t.lhs]), convert(Content(e, t.rhs), FieldType[t.lhs])>>
<1>1. PICK lhs, rhs : lhs = t.lhs /\ rhs = t.rhs
  OBVIOUS
<1> DEFINE held(f) == f \in DOMAIN e \/ f = Empty
           contains(f) == f \in DOMAIN e \ Nested
           field(f) == IF f = Empty THEN Asserts ELSE convert(e[f], FieldType[f])
<1>2. CASE held(rhs) /\ contains(lhs) /\ contains(rhs)
  <2>1. getLhsRhs(e, lhs, rhs) = <<field(lhs), field(rhs)>>
    BY <1>1, <1>2 DEF getLhsRhs
  <2>2. PICK a, b : a = field(lhs) /\ b = field(rhs)
    OBVIOUS
  <2>3. <<a, b>>[1] = a /\ <<a, b>>[2] = b
    OBVIOUS
  <2>4. rhs \in DOMAIN e /\ Content(e, rhs) = e[rhs] /\ FieldType[lhs] = FieldType[rhs]
    BY <1>1, <1>2 DEF Content
  <2>5. /\ a = Asserts \/ a = convert(e[lhs], FieldType[lhs])
        /\ b = Asserts \/ b = convert(Content(e, rhs), FieldType[lhs])
    BY <2>2, <2>4
  <2>6. getLhsRhs(e, lhs, rhs) = <<a, b>>
    BY <2>1, <2>2
  <2>7. QED
    BY <1>1, <2>3, <2>5, <2>6
<1>3. CASE held(rhs) /\ ~(contains(lhs) /\ contains(rhs))
  <2>1. getLhsRhs(e, lhs, rhs) = <<Asserts, Asserts>>
    BY <1>1, <1>3 DEF getLhsRhs
  <2>2. PICK a : a = Asserts
    OBVIOUS
  <2>3. <<a, a>>[1] = a
    OBVIOUS
  <2>4. QED
    BY <1>1, <2>1, <2>2, <2>3
<1>4. CASE ~held(rhs)
  <2>1. getLhsRhs(e, lhs, rhs) =
          <<field(lhs), IF lhs = Empty THEN Asserts ELSE convert(rhs, FieldType[lhs])>>
    BY <1>1, <1>4 DEF getLhsRhs
  <2>2. CASE lhs = Empty
    <3>1. PICK a : a = Asserts
      OBVIOUS
    <3>2. getLhsRhs(e, lhs, rhs) = <<a, a>> /\ <<a, a>>[1] = a
      BY <2>1, <2>2, <3>1
    <3>3. QED
      BY <1>1, <3>1, <3>2
  <2>3. CASE lhs # Empty
    <3>1. rhs \notin DOMAIN e
      BY <1>4
    <3>2. QED
      BY <1>1, <2>1, <2>3, <3>1 DEF Content
  <2>4. QED
    BY <2>2, <2>3
<1>5. QED
  BY <1>2, <1>3, <1>4

Means(answer, meets) == (answer.is = "yes" => meets) /\ (answer.is = "no" => ~meets)

\* An answer that holds where the term is met means it; a failure says nothing.
LEMMA AnswerMeans == ASSUME NEW holds \in BOOLEAN, NEW c, NEW meets \in BOOLEAN, holds <=> meets
                     PROVE  Means(Answer(holds, c), meets)
BY DEF Means, Answer

LEMMA FailureMeans == ASSUME NEW c, NEW meets PROVE Means(Failure(c), meets)
BY DEF Means, Failure, Fails

LEMMA AbortMeans == ASSUME NEW meets PROVE Means(Abort, meets)
BY DEF Means, Abort, Failure, Fails

\* A range, in the order of its texts or of its numbers.
LEMMA WithinTexts ==
    ASSUME WhereClauseAssumption, NEW a \in Texts, NEW low \in Texts, NEW high \in Texts
    PROVE  /\ Within(AsText(a), <<low, high>>) \in {"yes", "no"}
           /\ Within(AsText(a), <<low, high>>) = "yes" <=> Rank(a) >= Rank(low) /\ Rank(a) <= Rank(high)
<1>1. sameTypeAs(AsText(a), low) = AsText(low) /\ sameTypeAs(AsText(a), high) = AsText(high)
  <2>1. PICK x : x = AsText(a)
    OBVIOUS
  <2>2. x.type = 0
    BY <2>1, AsTextHas
  <2>3. x.type # 2 /\ x.type # 1
    BY <2>2
  <2>4. QED
    BY <2>1, <2>3 DEF sameTypeAs
<1>2. AsText(low).type = 0 /\ AsText(high).type = 0
  BY AsTextHas
<1>3. <<low, high>>[1] = low /\ <<low, high>>[2] = high
  OBVIOUS
<1>4. Rank(a) \in Nat /\ Rank(low) \in Nat /\ Rank(high) \in Nat
  BY RankDefined
<1>5. Less(AsText(a), AsText(low)) <=> Rank(a) < Rank(low)
  BY ComparesText
<1>6. Less(AsText(high), AsText(a)) <=> Rank(high) < Rank(a)
  BY ComparesText
<1>7. PICK x, l, h : x = AsText(a) /\ l = AsText(low) /\ h = AsText(high)
  OBVIOUS
<1>8. (AtMost(l, x) <=> Rank(a) >= Rank(low)) /\ (AtMost(x, h) <=> Rank(a) <= Rank(high))
  <2>1. (Less(x, l) <=> Rank(a) < Rank(low)) /\ (Less(h, x) <=> Rank(high) < Rank(a))
    BY <1>5, <1>6, <1>7
  <2>2. PICK m \in Nat, n \in Nat, k \in Nat : m = Rank(a) /\ n = Rank(low) /\ k = Rank(high)
    BY <1>4
  <2>3. (Less(x, l) <=> m < n) /\ (Less(h, x) <=> k < m)
    BY <2>1, <2>2
  <2>4. (AtMost(l, x) <=> m >= n) /\ (AtMost(x, h) <=> m <= k)
    BY <2>2, <2>3 DEF AtMost
  <2>5. QED
    BY <2>2, <2>4
<1>9. Within(x, <<low, high>>) = IF ~AtMost(l, x) THEN "no" ELSE IF AtMost(x, h) THEN "yes" ELSE "no"
  <2>1. l.type = 0 /\ h.type = 0
    BY <1>2, <1>7
  <2>2. QED
    BY <1>1, <1>3, <1>7, <2>1 DEF Within
<1>10. QED
  BY <1>7, <1>8, <1>9

LEMMA WithinNumbers ==
    ASSUME CalculusAssumption, NEW a \in Int, NEW low, Readable(low), NEW high, Readable(high)
    PROVE  /\ Within(AsNumber(a), <<low, high>>) \in {"yes", "no"}
           /\ Within(AsNumber(a), <<low, high>>) = "yes" <=> a >= Number[low] /\ a <= Number[high]
<1>1. PICK l \in Int, h \in Int : l = Number[low] /\ h = Number[high]
  BY ReadableInt
<1>2. sameTypeAs(AsNumber(a), low) = AsNumber(l) /\ sameTypeAs(AsNumber(a), high) = AsNumber(h)
  BY <1>1 DEF sameTypeAs, AsNumber
<1>3. AsNumber(l).type = 2 /\ AsNumber(h).type = 2
  BY DEF AsNumber
<1>4. <<low, high>>[1] = low /\ <<low, high>>[2] = high
  OBVIOUS
<1>5. (AtMost(AsNumber(l), AsNumber(a)) <=> a >= l) /\ (AtMost(AsNumber(a), AsNumber(h)) <=> a <= h)
  BY ComparesNumber DEF AtMost
<1>6. PICK x, u, v : x = AsNumber(a) /\ u = AsNumber(l) /\ v = AsNumber(h)
  OBVIOUS
<1>7. Within(x, <<low, high>>) = IF ~AtMost(u, x) THEN "no" ELSE IF AtMost(x, v) THEN "yes" ELSE "no"
  BY <1>2, <1>3, <1>4, <1>6 DEF Within
<1>8. QED
  BY <1>1, <1>5, <1>6, <1>7

\* What a text of each kind of field is converted to.
LEMMA ConvertString == ASSUME NEW t PROVE convert(t, "String") = AsText(t)
BY DEF convert

LEMMA ConvertNumber ==
    ASSUME NEW t, IsNumber(t) PROVE convert(t, "Integer") = AsNumber(Number[t])
BY DEF convert, IsNumber, AsNumber

\* Two texts of a String field.
LEMMA TextsMean ==
    ASSUME WhereClauseAssumption, NEW e, \A f \in DOMAIN e : e[f] \in Texts,
           NEW t \in Terms, NEW c, CacheOK(c), Comparable(e, t), FieldType[t.lhs] = "String",
           getLhsRhs(e, t.lhs, t.rhs) = <<AsText(e[t.lhs]), AsText(Content(e, t.rhs))>>
    PROVE  Means(evaluateBinaryExpression(t, e, c), MeetsTerm(e, t))
<1>1. PICK op \in BinaryOperators, a \in Texts, b \in Texts :
        op = t.op /\ a = e[t.lhs] /\ b = Content(e, t.rhs)
  <2>1. t.op \in BinaryOperators /\ t.rhs \in Texts /\ t.lhs \in DOMAIN e
    BY InTerms DEF Comparable
  <2>2. QED
    BY <2>1 DEF Content
<1>2. PICK x, y : x = AsText(a) /\ y = AsText(b)
  OBVIOUS
<1>3. x.type = 0 /\ x.is = a /\ y.type = 0 /\ y.is = b
  BY <1>2, AsTextHas
<1>4. PICK sides : sides = <<x, y>>
  OBVIOUS
<1>5. getLhsRhs(e, t.lhs, t.rhs) = sides /\ sides[1] = x /\ sides[2] = y
  BY <1>1, <1>2, <1>4
<1>6. x.type # 4 /\ x.type # 3 /\ y.type # 4 /\ y.type # 3
  BY <1>3
<1>7. evaluateBinaryExpression(t, e, c) =
        IF op \in Compares THEN Answer(Compare(op, x, y), c)
        ELSE IF op = "between"
        THEN IF b \in DOMAIN Ranges THEN [is |-> Within(x, Ranges[b]), caches |-> c] ELSE Failure(c)
        ELSE IF op = "in" THEN Searching(x, y, c) ELSE Matching(x, y, c)
  BY <1>1, <1>3, <1>5, <1>6 DEF evaluateBinaryExpression
<1>8. Content(e, t.lhs) = a /\ Content(e, t.rhs) = b
  BY <1>1 DEF Content, Comparable
<1>9. \A o : Measure(e, t, o) = Rank(o)
  BY DEF Measure
<1>10. t.op \in {"in", "between"} => b = t.rhs
  BY <1>1 DEF Comparable, Content
<1>11. CASE op \in Compares
  <2>1. Compare(op, x, y) <=> Relates(op, Rank(a), Rank(b))
    <3>1. PICK m \in Nat, n \in Nat : m = Rank(a) /\ n = Rank(b)
      BY RankDefined
    <3>2. (Same(x, y) <=> m = n) /\ (Less(x, y) <=> m < n) /\ (Less(y, x) <=> n < m)
      BY <1>2, <3>1, ComparesText
    <3>3. m \in Int /\ n \in Int
      BY <3>1
    <3>4. Compare(op, x, y) <=> Relates(op, m, n)
      BY <1>11, <3>2, <3>3, ComparesAsRelates
    <3>5. QED
      BY <3>1, <3>4
  <2>2. MeetsTerm(e, t) <=> Relates(op, Rank(a), Rank(b))
    BY <1>1, <1>8, <1>9, <1>11 DEF MeetsTerm, Compares
  <2>3. Compare(op, x, y) \in BOOLEAN /\ MeetsTerm(e, t) \in BOOLEAN
    BY <1>1, <1>11 DEF Compare, MeetsTerm, Compares, Same, AtMost, Less, Relates
  <2>4. QED
    BY <1>7, <1>11, <2>1, <2>2, <2>3, AnswerMeans
<1>12. CASE op = "between"
  <2>1. CASE b \notin DOMAIN Ranges
    BY <1>7, <1>12, <2>1, FailureMeans DEF Compares
  <2>2. CASE b \in DOMAIN Ranges
    <3>1. PICK low \in Texts, high \in Texts : Ranges[b] = <<low, high>>
      BY <2>2 DEF WhereClauseAssumption
    <3>2. <<low, high>>[1] = low /\ <<low, high>>[2] = high
      OBVIOUS
    <3>3. MeetsTerm(e, t) <=> Rank(a) >= Rank(low) /\ Rank(a) <= Rank(high)
      BY <1>1, <1>8, <1>9, <1>10, <1>12, <3>1, <3>2 DEF MeetsTerm
    <3>4. PICK w : w = Within(x, <<low, high>>)
      OBVIOUS
    <3>5. w \in {"yes", "no"} /\ (w = "yes" <=> MeetsTerm(e, t))
      BY <1>2, <3>3, <3>4, WithinTexts
    <3>6. evaluateBinaryExpression(t, e, c) = [is |-> w, caches |-> c]
      BY <1>7, <1>12, <2>2, <3>1, <3>4 DEF Compares
    <3>7. QED
      BY <3>5, <3>6 DEF Means
  <2>3. QED
    BY <2>1, <2>2
<1>13. CASE op = "in"
  <2>1. a # Empty
    BY <1>1, <1>13 DEF Comparable
  <2>2. evaluateBinaryExpression(t, e, c) = Searching(x, y, c)
    BY <1>7, <1>13 DEF Compares
  <2>3. CASE b \notin DOMAIN Lists
    BY <1>3, <2>1, <2>2, <2>3, FailureMeans DEF Searching
  <2>4. CASE b \in DOMAIN Lists
    <3>1. PICK d : d = Listing(c, a, b)
      OBVIOUS
    <3>2. d.list = Lists[b]
      <4>1. Listing(c, a, b).list = ListFor(c, a, b)
        BY <2>4, ListingFine
      <4>2. QED
        BY <2>1, <3>1, <4>1 DEF ListFor
    <3>3. Searching(x, y, c) = Answer(a \in d.list, d)
      BY <1>3, <2>4, <3>1 DEF Searching
    <3>4. MeetsTerm(e, t) <=> a \in Lists[b]
      BY <1>1, <1>8, <1>10, <1>13 DEF MeetsTerm
    <3>5. MeetsTerm(e, t) \in BOOLEAN /\ (a \in d.list) \in BOOLEAN
      BY <1>1, <1>13 DEF MeetsTerm
    <3>6. QED
      BY <2>2, <3>2, <3>3, <3>4, <3>5, AnswerMeans
  <2>5. QED
    BY <2>3, <2>4
<1>14. CASE op = "like"
  <2>1. b \notin Malformed \cup {Empty}
    BY <1>1, <1>14 DEF Comparable
  <2>2. evaluateBinaryExpression(t, e, c) = Matching(x, y, c)
    BY <1>7, <1>14 DEF Compares
  <2>3. PICK d : d = Compiling(c, b)
    OBVIOUS
  <2>4. d.regex = Matched(b)
    BY <2>1, <2>3, CompilingFine
  <2>5. Matching(x, y, c) = Answer(a \in d.regex, d)
    BY <1>3, <2>1, <2>3 DEF Matching
  <2>6. MeetsTerm(e, t) <=> a \in Matched(b)
    BY <1>1, <1>8, <1>14 DEF MeetsTerm
  <2>7. MeetsTerm(e, t) \in BOOLEAN /\ (a \in d.regex) \in BOOLEAN
    BY <1>1, <1>14 DEF MeetsTerm
  <2>8. QED
    BY <2>2, <2>4, <2>5, <2>6, <2>7, AnswerMeans
<1>15. QED
  <2>1. op \in Compares \cup {"in", "between", "like"}
    BY <1>1, InTerms DEF BinaryOperators
  <2>2. QED
    BY <1>11, <1>12, <1>13, <1>14, <2>1

\* A number of an Integer field, compared with a number or put in a range.
LEMMA NumbersMean ==
    ASSUME CalculusAssumption, WhereClauseAssumption, NEW e, \A f \in DOMAIN e : e[f] \in Texts,
           NEW t \in Terms, NEW c, CacheOK(c), Comparable(e, t), FieldType[t.lhs] = "Integer",
           getLhsRhs(e, t.lhs, t.rhs) =
             <<convert(e[t.lhs], "Integer"), convert(Content(e, t.rhs), "Integer")>>
    PROVE  Means(evaluateBinaryExpression(t, e, c), MeetsTerm(e, t))
<1>1. PICK op \in BinaryOperators, a \in Texts, b \in Texts :
        op = t.op /\ a = e[t.lhs] /\ b = Content(e, t.rhs)
  <2>1. t.op \in BinaryOperators /\ t.rhs \in Texts /\ t.lhs \in DOMAIN e
    BY InTerms DEF Comparable
  <2>2. QED
    BY <2>1 DEF Content
<1>2. IsNumber(a)
  BY <1>1 DEF Comparable
<1>3. PICK m \in Int : m = Number[a]
  BY <1>2, ReadableInt DEF IsNumber
<1>4. PICK x, y : x = AsNumber(m) /\ y = convert(b, "Integer")
  OBVIOUS
<1>5. x.type = 2 /\ x.is = m
  BY <1>4, AsNumberHas
<1>6. PICK sides : sides = <<x, y>>
  OBVIOUS
<1>7. getLhsRhs(e, t.lhs, t.rhs) = sides /\ sides[1] = x /\ sides[2] = y
  BY <1>1, <1>2, <1>3, <1>4, <1>6, ConvertNumber
<1>8. Content(e, t.lhs) = a /\ Content(e, t.rhs) = b
  BY <1>1 DEF Content, Comparable
<1>9. \A o : Measure(e, t, o) = Number[o]
  BY DEF Measure
<1>10. CASE op \in Compares
  <2>1. op # "between" /\ IsNumber(b)
    BY <1>1, <1>10 DEF Comparable, Compares
  <2>2. PICK n \in Int : n = Number[b]
    BY <2>1, ReadableInt DEF IsNumber
  <2>3. y = AsNumber(n)
    BY <1>4, <2>1, <2>2, ConvertNumber
  <2>4. y.type = 2
    BY <2>3, AsNumberHas
  <2>5. x.type # 4 /\ x.type # 3 /\ y.type # 4 /\ y.type # 3
    BY <1>5, <2>4
  <2>6. evaluateBinaryExpression(t, e, c) = Answer(Compare(op, x, y), c)
    BY <1>1, <1>7, <1>10, <2>5 DEF evaluateBinaryExpression
  <2>7. (Same(x, y) <=> m = n) /\ (Less(x, y) <=> m < n) /\ (Less(y, x) <=> n < m)
    BY <1>4, <2>3, ComparesNumber
  <2>8. Compare(op, x, y) <=> Relates(op, m, n)
    BY <1>10, <2>7, ComparesAsRelates
  <2>9. MeetsTerm(e, t) <=> Relates(op, m, n)
    BY <1>1, <1>3, <1>8, <1>9, <1>10, <2>2 DEF MeetsTerm, Compares
  <2>10. Compare(op, x, y) \in BOOLEAN /\ MeetsTerm(e, t) \in BOOLEAN
    BY <1>1, <1>10 DEF Compare, MeetsTerm, Compares, Same, AtMost, Less, Relates
  <2>11. QED
    BY <2>6, <2>8, <2>9, <2>10, AnswerMeans
<1>11. CASE op = "between"
  <2>1. b = t.rhs
    BY <1>1, <1>11 DEF Comparable, Content
  <2>2. y \in Data
    BY <1>4, ConvertTyped
  <2>3. x.type # 4 /\ x.type # 3 /\ x.type < 3
    BY <1>5
  <2>4. op \notin Compares
    BY <1>11 DEF Compares
  <2>5. CASE y.type = 4
    BY <1>7, <2>3, <2>5, AbortMeans DEF evaluateBinaryExpression
  <2>6. CASE y.type # 4 /\ y.type # 0
    <3>1. evaluateBinaryExpression(t, e, c) = Failure(c)
      BY <1>1, <1>7, <2>3, <2>4, <2>6 DEF evaluateBinaryExpression
    <3>2. QED
      BY <3>1, FailureMeans
  <2>7. CASE y.type = 0
    <3>1. y = AsText(b)
      <4>1. b \in HoldsAnd \/ b \in DOMAIN Ranges \/ Readable(b) \/ y = CannotConvert
        BY <1>4 DEF convert
      <4>2. CASE b \in HoldsAnd \/ b \in DOMAIN Ranges
        BY <1>4, <4>2 DEF convert
      <4>3. CASE b \notin HoldsAnd /\ b \notin DOMAIN Ranges
        <5>1. y = AsNumber(Number[b]) \/ y = CannotConvert
          BY <1>4, <4>3 DEF convert, AsNumber
        <5>2. y.type = 2 \/ y.type = 3
          BY <5>1, AsNumberHas DEF CannotConvert
        <5>3. QED
          BY <2>7, <5>2
      <4>4. QED
        BY <4>2, <4>3
    <3>2. y.type # 4 /\ y.type # 3 /\ y.is = b
      BY <2>7, <3>1, AsTextHas
    <3>3. evaluateBinaryExpression(t, e, c) =
            IF b \in DOMAIN Ranges THEN [is |-> Within(x, Ranges[b]), caches |-> c] ELSE Failure(c)
      BY <1>1, <1>7, <1>11, <2>3, <2>4, <2>7, <3>2 DEF evaluateBinaryExpression
    <3>4. CASE b \notin DOMAIN Ranges
      BY <3>3, <3>4, FailureMeans
    <3>5. CASE b \in DOMAIN Ranges
      <4>1. PICK low \in Texts, high \in Texts : Ranges[b] = <<low, high>>
        BY <3>5 DEF WhereClauseAssumption
      <4>2. <<low, high>>[1] = low /\ <<low, high>>[2] = high
        OBVIOUS
      <4>3. Readable(low) /\ Readable(high)
        <5>1. \A i \in {1, 2} : Readable(Ranges[t.rhs][i])
          BY <1>1, <1>11 DEF Comparable
        <5>2. QED
          BY <2>1, <4>1, <4>2, <5>1
      <4>4. MeetsTerm(e, t) <=> m >= Number[low] /\ m <= Number[high]
        BY <1>1, <1>3, <1>8, <1>9, <1>11, <2>1, <4>1, <4>2 DEF MeetsTerm
      <4>5. PICK w : w = Within(x, <<low, high>>)
        OBVIOUS
      <4>6. w \in {"yes", "no"} /\ (w = "yes" <=> MeetsTerm(e, t))
        BY <1>4, <4>3, <4>4, <4>5, WithinNumbers
      <4>7. evaluateBinaryExpression(t, e, c) = [is |-> w, caches |-> c]
        BY <3>3, <3>5, <4>1, <4>5
      <4>8. QED
        BY <4>6, <4>7 DEF Means
    <3>6. QED
      BY <3>4, <3>5
  <2>8. QED
    BY <2>5, <2>6, <2>7
<1>12. QED
  <2>1. op \in Compares \cup {"between"}
    BY <1>1 DEF Comparable
  <2>2. QED
    BY <1>10, <1>11, <2>1

\* Any term that can be compared.
LEMMA TermMeans ==
    ASSUME CalculusAssumption, WhereClauseAssumption, NEW e, DOMAIN e \subseteq Fields,
           \A f \in DOMAIN e : e[f] \in Texts,
           NEW t \in Terms, NEW c, CacheOK(c), Comparable(e, t)
    PROVE  Means(evaluateBinaryExpression(t, e, c), MeetsTerm(e, t))
<1>1. PICK type : type = FieldType[t.lhs]
  OBVIOUS
<1>2. type \in {"String", "Integer"}
  BY <1>1 DEF Comparable, WhereClauseAssumption, Fields
<1>3. PICK x \in Data, y \in Data : getLhsRhs(e, t.lhs, t.rhs) = <<x, y>>
  <2>1. PICK lhs \in Texts, rhs \in Texts : lhs = t.lhs /\ rhs = t.rhs
    BY InTerms
  <2>2. \E x, y \in Data : getLhsRhs(e, lhs, rhs) = <<x, y>>
    BY SidesTyped
  <2>3. QED
    BY <2>1, <2>2
<1>4. <<x, y>>[1] = x /\ <<x, y>>[2] = y
  OBVIOUS
<1>5. \/ x = Asserts
      \/ y = Asserts
      \/ getLhsRhs(e, t.lhs, t.rhs) = <<convert(e[t.lhs], type), convert(Content(e, t.rhs), type)>>
  <2>1. t.lhs \in DOMAIN e /\ (t.rhs \in DOMAIN e => FieldType[t.lhs] = FieldType[t.rhs])
    BY DEF Comparable
  <2>2. QED
    BY <1>1, <1>3, <1>4, <2>1, SidesMean
<1>6. CASE x = Asserts \/ y = Asserts
  <2>1. x.type \in 0 .. 4
    BY DataTypes
  <2>2. x.type = 4 \/ y.type = 4
    BY <1>6 DEF Asserts
  <2>3. evaluateBinaryExpression(t, e, c) \in {Abort, Failure(c)}
    BY <1>3, <1>4, <2>1, <2>2 DEF evaluateBinaryExpression
  <2>4. QED
    BY <2>3, AbortMeans, FailureMeans
<1>7. CASE type = "String" /\ ~(x = Asserts \/ y = Asserts)
  <2>1. FieldType[t.lhs] = "String"
    BY <1>1, <1>7
  <2>2. getLhsRhs(e, t.lhs, t.rhs) = <<AsText(e[t.lhs]), AsText(Content(e, t.rhs))>>
    BY <1>5, <1>7, ConvertString
  <2>3. QED
    BY <2>1, <2>2, TextsMean
<1>8. CASE type = "Integer" /\ ~(x = Asserts \/ y = Asserts)
  BY <1>1, <1>5, <1>8, NumbersMean
<1>9. QED
  BY <1>2, <1>6, <1>7, <1>8

-----------------------------------------------------------------------------
(* A group.  What its items are evaluated to, one after the other.               *)
Entry(e) == DOMAIN e \subseteq Fields /\ \A f \in DOMAIN e : e[f] \in Texts

\* The results of the items, a recursion on every third of them.
LEMMA ResultsDefined ==
    ASSUME NEW inner, NEW items, Len(items) \in Nat, NEW e, NEW c
    PROVE  /\ Len(items) \div 3 \in Nat
           /\ Results(inner, items, e, c)[0] = evaluateOperand(inner, items[1], e, c)
           /\ \A k \in 0 .. Len(items) \div 3 : k # 0 =>
                Results(inner, items, e, c)[k] =
                  JoinAt(inner, items, 3 * k, e, Results(inner, items, e, c)[k - 1])
<1>1. PICK p : p = <<inner, items, e, c>>
  OBVIOUS
<1>2. PICK N \in Nat : N = Len(items) \div 3
  OBVIOUS
<1>3. PICK f : Joins!IsRecursion(f, p, N)
  BY Joins!RecursionDefined
<1>4. f = [k \in 0 .. N |->
             IF k = 0 THEN evaluateOperand(inner, items[1], e, c)
             ELSE JoinAt(inner, items, 3 * k, e, f[k - 1])]
  BY <1>1, <1>3 DEF Joins!IsRecursion, JoinBase, JoinStep
<1>5. Results(inner, items, e, c) =
        [k \in 0 .. N |->
           IF k = 0 THEN evaluateOperand(inner, items[1], e, c)
           ELSE JoinAt(inner, items, 3 * k, e, Results(inner, items, e, c)[k - 1])]
  BY <1>2, <1>4 DEF Results
<1>6. 0 \in 0 .. N
  OBVIOUS
<1>7. QED
  BY <1>2, <1>5, <1>6

\* A group is evaluated from the groups within it;
LEMMA EvaluationDefined ==
    ASSUME Depth \in Nat, NEW e
    PROVE  Evaluation(e) =
             [n \in 0 .. Depth |->
                IF n = 0 THEN <<>>
                ELSE [group \in Groups[n] |->
                        [c \in Caches |->
                           evaluateBooleanExpression(Evaluation(e)[n - 1], group.items, e, c)]]]
<1>1. PICK f : Evaluations!IsRecursion(f, e, Depth)
  BY Evaluations!RecursionDefined
<1>2. f = [n \in 0 .. Depth |->
             IF n = 0 THEN <<>>
             ELSE [group \in Groups[n] |->
                     [c \in Caches |-> evaluateBooleanExpression(f[n - 1], group.items, e, c)]]]
  BY <1>1 DEF Evaluations!IsRecursion, EvaluateBase, EvaluateStep
<1>3. QED
  BY <1>2 DEF Evaluation

\* so is it met,
LEMMA MetDefined ==
    ASSUME Depth \in Nat, NEW e
    PROVE  Met(e) = [n \in 0 .. Depth |->
                       IF n = 0 THEN {}
                       ELSE {group \in Groups[n] : MeetsItems(Met(e)[n - 1], e, group.items)}]
<1>1. PICK f : Meetings!IsRecursion(f, e, Depth)
  BY Meetings!RecursionDefined
<1>2. f = [n \in 0 .. Depth |->
             IF n = 0 THEN {} ELSE {group \in Groups[n] : MeetsItems(f[n - 1], e, group.items)}]
  BY <1>1 DEF Meetings!IsRecursion, MetBase, MetStep
<1>3. QED
  BY <1>2 DEF Met

\* and plain.
LEMMA PlainDefined ==
    ASSUME Depth \in Nat, NEW e, NEW first
    PROVE  Plain(e, first) =
             [n \in 0 .. Depth |->
                IF n = 0 THEN {}
                ELSE {group \in Groups[n] : PlainGroup(Plain(e, first)[n - 1], e, first, group)}]
<1>1. PICK p : p = <<e, first>>
  OBVIOUS
<1>2. PICK f : Plains!IsRecursion(f, p, Depth)
  BY Plains!RecursionDefined
<1>3. f = [n \in 0 .. Depth |->
             IF n = 0 THEN {} ELSE {group \in Groups[n] : PlainGroup(f[n - 1], e, first, group)}]
  BY <1>1, <1>2 DEF Plains!IsRecursion, PlainBase, PlainStep
<1>4. QED
  BY <1>3 DEF Plain

\* The evaluation ends in an answer, and leaves statics that agree.
EvaluatesFine(e, n) == \A x \in Groups[n] : \A c : CacheOK(c) => Fine(Evaluation(e)[n][x][c])

\* An operand ends in an answer when the groups of its depth do,
LEMMA OperandFine ==
    ASSUME CalculusAssumption, WhereClauseAssumption, NEW e, Entry(e), NEW n \in 0 .. Depth,
           EvaluatesFine(e, n), NEW item \in Terms \cup Bools \cup Groups[n], item.kind # "op",
           NEW c, CacheOK(c)
    PROVE  Fine(evaluateOperand(Evaluation(e)[n], item, e, c))
<1>1. item \notin Bools
  BY InBools
<1>2. CASE item \in Terms
  <2>1. Fine(evaluateBinaryExpression(item, e, c))
    BY <1>2, TermFine DEF Entry
  <2>2. QED
    BY <1>2, <2>1, InTerms DEF evaluateOperand
<1>3. CASE item \in Groups[n]
  <2>1. Depth \in Nat
    BY DEF WhereClauseAssumption
  <2>2. item.kind = "group"
    BY <1>3, <2>1, InGroups
  <2>3. Fine(Evaluation(e)[n][item][c])
    BY <1>3 DEF EvaluatesFine
  <2>4. QED
    BY <2>2, <2>3 DEF evaluateOperand
<1>4. QED
  BY <1>1, <1>2, <1>3

\* the join of a result with the next one does,
LEMMA JoinFine ==
    ASSUME CalculusAssumption, WhereClauseAssumption, NEW e, Entry(e), NEW n \in 0 .. Depth,
           EvaluatesFine(e, n), NEW S, S = Terms \cup Bools \cup Groups[n], NEW items \in Seq(S),
           NEW i, NEW s, Fine(s)
    PROVE  Fine(JoinAt(Evaluation(e)[n], items, i, e, s))
<1>1. CASE s.is = Fails
  BY <1>1 DEF JoinAt
<1>2. CASE s.is # Fails /\ (i \notin Operands(items) \/ i - 1 \in Operands(items))
  BY <1>2, AbortFine DEF JoinAt
<1>3. CASE s.is # Fails /\ i \in Operands(items) /\ i - 1 \notin Operands(items)
  <2>1. items[i] \in S /\ items[i].kind # "op"
    BY <1>3 DEF Operands
  <2>2. PICK item \in S : item = items[i] /\ item.kind # "op"
    BY <2>1
  <2>3. PICK c : c = s.caches
    OBVIOUS
  <2>4. CacheOK(c)
    BY <2>3 DEF Fine
  <2>5. PICK answer : answer = evaluateOperand(Evaluation(e)[n], item, e, c)
    OBVIOUS
  <2>6. Fine(answer)
    BY <2>2, <2>4, <2>5, OperandFine
  <2>7. JoinAt(Evaluation(e)[n], items, i, e, s) =
          IF answer.is = Fails THEN answer
          ELSE Answer(Join(items[i - 1].op, s.is, items[i], answer), answer.caches)
    BY <1>3, <2>2, <2>3, <2>5 DEF JoinAt
  <2>8. PICK d : d = answer.caches
    OBVIOUS
  <2>9. CacheOK(d)
    BY <2>6, <2>8 DEF Fine
  <2>10. Fine(Answer(Join(items[i - 1].op, s.is, items[i], answer), d))
    BY <2>9, AnswerFine
  <2>11. QED
    BY <2>6, <2>7, <2>8, <2>10
<1>4. QED
  BY <1>1, <1>2, <1>3

\* so does a group of them,
LEMMA ItemsFine ==
    ASSUME CalculusAssumption, WhereClauseAssumption, NEW e, Entry(e), NEW n \in 0 .. Depth,
           EvaluatesFine(e, n), NEW S, S = Terms \cup Bools \cup Groups[n], NEW items \in Seq(S),
           NEW c, CacheOK(c)
    PROVE  Fine(evaluateBooleanExpression(Evaluation(e)[n], items, e, c))
<1>1. CASE 1 \notin Operands(items)
  BY <1>1, AbortFine DEF evaluateBooleanExpression
<1>2. CASE 1 \in Operands(items)
  <2>1. PICK inner : inner = Evaluation(e)[n]
    OBVIOUS
  <2>2. PICK f : f = Results(inner, items, e, c)
    OBVIOUS
  <2>3. Len(items) \in Nat
    OBVIOUS
  <2>4. PICK N \in Nat : N = Len(items) \div 3
    BY <2>3
  <2>5. /\ f[0] = evaluateOperand(inner, items[1], e, c)
        /\ \A k \in 0 .. N : k # 0 => f[k] = JoinAt(inner, items, 3 * k, e, f[k - 1])
    BY <2>2, <2>3, <2>4, ResultsDefined
  <2>6. PICK T : T = {k \in 0 .. N : Fine(f[k])}
    OBVIOUS
  <2>7. T \in SUBSET (0 .. N) /\ 0 \in T
    <3>1. PICK item \in S : item = items[1] /\ item.kind # "op"
      BY <1>2 DEF Operands
    <3>2. Fine(evaluateOperand(inner, item, e, c))
      BY <2>1, <3>1, OperandFine
    <3>3. QED
      BY <2>5, <2>6, <3>1, <3>2
  <2>8. ASSUME NEW k \in T, k < N PROVE k + 1 \in T
    <3>1. k + 1 \in 0 .. N /\ k + 1 # 0 /\ (k + 1) - 1 = k /\ Fine(f[k])
      BY <2>6, <2>8
    <3>2. f[k + 1] = JoinAt(inner, items, 3 * (k + 1), e, f[k])
      BY <2>5, <3>1
    <3>3. PICK s, i : s = f[k] /\ i = 3 * (k + 1)
      OBVIOUS
    <3>4. Fine(JoinAt(inner, items, i, e, s))
      BY <2>1, <3>1, <3>3, JoinFine
    <3>5. QED
      BY <2>6, <3>1, <3>2, <3>3, <3>4
  <2>9. T = 0 .. N
    BY <2>7, <2>8, Joins!RangeSet
  <2>10. Fine(f[N])
    BY <2>6, <2>9
  <2>11. QED
    BY <1>2, <2>1, <2>2, <2>4, <2>10 DEF evaluateBooleanExpression
<1>3. QED
  BY <1>1, <1>2

\* and a group of any depth.
LEMMA AllEvaluatesFine ==
    ASSUME CalculusAssumption, WhereClauseAssumption, NEW e, Entry(e)
    PROVE  \A n \in 0 .. Depth : EvaluatesFine(e, n)
<1> Depth \in Nat
  BY DEF WhereClauseAssumption
<1>1. PICK T : T = {n \in 0 .. Depth : EvaluatesFine(e, n)}
  OBVIOUS
<1>2. T \in SUBSET (0 .. Depth) /\ 0 \in T
  <2>1. ASSUME NEW x \in Groups[0] PROVE FALSE
    <3>1. 0 \in 0 .. Depth
      OBVIOUS
    <3>2. QED
      BY <3>1, InGroups
  <2>2. QED
    BY <1>1, <2>1 DEF EvaluatesFine
<1>3. ASSUME NEW n \in T, n < Depth PROVE n + 1 \in T
  <2>1. n + 1 \in 0 .. Depth /\ n + 1 # 0 /\ (n + 1) - 1 = n /\ n \in 0 .. Depth /\ EvaluatesFine(e, n)
    BY <1>1, <1>3
  <2>2. ASSUME NEW x \in Groups[n + 1], NEW c, CacheOK(c)
        PROVE  Fine(Evaluation(e)[n + 1][x][c])
    <3>1. PICK S : S = Terms \cup Bools \cup Groups[n]
      OBVIOUS
    <3>2. PICK items \in Seq(S) : items = x.items
      BY <2>1, <3>1, InGroups
    <3>3. Fine(evaluateBooleanExpression(Evaluation(e)[n], items, e, c))
      BY <2>1, <2>2, <3>1, ItemsFine
    <3>4. c \in Caches
      BY <2>2 DEF CacheOK
    <3>5. Evaluation(e)[n + 1][x][c] = evaluateBooleanExpression(Evaluation(e)[n], items, e, c)
      BY <2>1, <3>2, <3>4, EvaluationDefined
    <3>6. QED
      BY <3>3, <3>5
  <2>3. EvaluatesFine(e, n + 1)
    BY <2>2 DEF EvaluatesFine
  <2>4. QED
    BY <1>1, <2>1, <2>3
<1>4. T = 0 .. Depth
  BY <1>2, <1>3, Joins!RangeSet
<1>5. QED
  BY <1>1, <1>4

\* A clause the meaning is for is met where the evaluation says yes, and, when its
\* groups come first, not met where it says no.
Agrees(answer, first, meets) == (answer.is = "yes" => meets) /\ (first /\ answer.is = "no" => ~meets)

Sound(e, first, n) == \A x \in Plain(e, first)[n] : \A c :
    CacheOK(c) => Agrees(Evaluation(e)[n][x][c], first, x \in Met(e)[n])

\* An evaluation that fails says nothing.
LEMMA FailsAgrees == ASSUME NEW answer, answer.is = Fails, NEW first, NEW meets
                     PROVE  Agrees(answer, first, meets)
BY DEF Agrees, Fails

\* The plain clauses are clauses.
LEMMA PlainGroups ==
    ASSUME Depth \in Nat, NEW e, NEW first, NEW n \in 0 .. Depth
    PROVE  Plain(e, first)[n] \subseteq Groups[n]
BY PlainDefined

\* An operand is answered as it is met when the groups of its depth are,
LEMMA OperandSound ==
    ASSUME CalculusAssumption, WhereClauseAssumption, NEW e, Entry(e), NEW first, NEW n \in 0 .. Depth,
           Sound(e, first, n), NEW item \in Terms \cup Bools \cup Groups[n],
           PlainItem(Plain(e, first)[n], e, item), NEW c, CacheOK(c)
    PROVE  /\ item.kind # "op"
           /\ Agrees(evaluateOperand(Evaluation(e)[n], item, e, c), first, MeetsItem(Met(e)[n], e, item))
<1> Depth \in Nat
  BY DEF WhereClauseAssumption
<1>1. CASE item.kind = "term"
  <2>1. item \in Terms /\ Comparable(e, item)
    BY <1>1, InBools, InGroups DEF PlainItem
  <2>2. Means(evaluateBinaryExpression(item, e, c), MeetsTerm(e, item))
    BY <2>1, TermMeans DEF Entry
  <2>3. QED
    BY <1>1, <2>2 DEF Means, Agrees, evaluateOperand, MeetsItem
<1>2. CASE item.kind # "term"
  <2>1. item \in Plain(e, first)[n]
    BY <1>2 DEF PlainItem
  <2>2. item.kind = "group"
    BY <2>1, PlainGroups, InGroups
  <2>3. Agrees(Evaluation(e)[n][item][c], first, item \in Met(e)[n])
    BY <2>1 DEF Sound
  <2>4. QED
    BY <1>2, <2>2, <2>3 DEF evaluateOperand, MeetsItem
<1>3. QED
  BY <1>1, <1>2

Both(op, a, b) == IF op = "and" THEN a /\ b ELSE a \/ b

\* so is a group of one or two operands,
LEMMA ItemsSound ==
    ASSUME CalculusAssumption, WhereClauseAssumption, NEW e, Entry(e), NEW first \in BOOLEAN,
           NEW n \in 0 .. Depth, Sound(e, first, n), NEW x,
           NEW S, S = Terms \cup Bools \cup Groups[n], x.items \in Seq(S),
           PlainGroup(Plain(e, first)[n], e, first, x), NEW c, CacheOK(c)
    PROVE  Agrees(evaluateBooleanExpression(Evaluation(e)[n], x.items, e, c), first,
                  MeetsItems(Met(e)[n], e, x.items))
<1> Depth \in Nat
  BY DEF WhereClauseAssumption
<1>1. PICK items, inner : items \in Seq(S) /\ items = x.items /\ inner = Evaluation(e)[n]
  OBVIOUS
<1> items \in Seq(S)
  BY <1>1
<1>2. Len(items) \in {1, 3} /\ Len(items) \in Nat
  BY <1>1 DEF PlainGroup
<1>3. PICK item1 \in S : item1 = items[1] /\ PlainItem(Plain(e, first)[n], e, item1)
  <2>1. items[1] \in S
    BY <1>2
  <2>2. QED
    BY <1>1, <2>1 DEF PlainGroup
<1>4. PICK s : s = evaluateOperand(inner, item1, e, c)
  OBVIOUS
<1>5. PICK meets1 : meets1 = MeetsItem(Met(e)[n], e, item1)
  OBVIOUS
<1>6. item1.kind # "op" /\ Agrees(s, first, meets1)
  BY <1>1, <1>3, <1>4, <1>5, OperandSound
<1>7. Fine(s)
  <2>1. EvaluatesFine(e, n)
    BY AllEvaluatesFine
  <2>2. QED
    BY <1>1, <1>4, <1>6, <2>1, OperandFine
<1>8. 1 \in Operands(items)
  BY <1>2, <1>3, <1>6 DEF Operands
<1>9. PICK f : f = Results(inner, items, e, c)
  OBVIOUS
<1>10. f[0] = s
  BY <1>2, <1>3, <1>4, <1>9, ResultsDefined
<1>11. CASE Len(items) = 1
  <2>1. Len(items) \div 3 = 0
    BY <1>11
  <2>2. evaluateBooleanExpression(inner, items, e, c) = s
    BY <1>8, <1>9, <1>10, <2>1 DEF evaluateBooleanExpression
  <2>3. MeetsItems(Met(e)[n], e, items) = meets1
    BY <1>3, <1>5, <1>11 DEF MeetsItems
  <2>4. QED
    BY <1>1, <1>6, <2>2, <2>3
<1>12. CASE Len(items) = 3
  <2>1. Len(items) \div 3 = 1 /\ 1 \in 0 .. 1 /\ 1 # 0 /\ 3 * 1 = 3 /\ 1 - 1 = 0 /\ 3 - 1 = 2
    BY <1>12
  <2>2. f[1] = JoinAt(inner, items, 3, e, s)
    <3>1. \A k \in 0 .. Len(items) \div 3 : k # 0 => f[k] = JoinAt(inner, items, 3 * k, e, f[k - 1])
      BY <1>2, <1>9, ResultsDefined
    <3>2. f[1] = JoinAt(inner, items, 3 * 1, e, f[1 - 1])
      BY <2>1, <3>1
    <3>3. QED
      BY <1>10, <2>1, <3>2
  <2>3. evaluateBooleanExpression(inner, items, e, c) = f[1]
    BY <1>8, <1>9, <2>1 DEF evaluateBooleanExpression
  <2>4. PICK item2 \in S : item2 = items[2] /\ item2.kind = "op"
    <3>1. items[2] \in S
      <4>1. 2 \in 1 .. Len(items)
        BY <1>12
      <4>2. QED
        BY <1>1, <4>1
    <3>2. QED
      BY <1>1, <1>12, <3>1 DEF PlainGroup
  <2>5. PICK op \in BooleanOperators : op = items[2].op
    <3>1. item2 \in Bools
      BY <1>1, <2>4, InTerms, InGroups
    <3>2. QED
      BY <2>4, <3>1, InBools
  <2>6. PICK item3 \in S : /\ item3 = items[3] /\ PlainItem(Plain(e, first)[n], e, item3)
                           /\ first => item3.kind = "term"
    <3>1. items[3] \in S
      <4>1. 3 \in 1 .. Len(items)
        BY <1>12
      <4>2. QED
        BY <1>1, <4>1
    <3>2. QED
      BY <1>1, <1>12, <3>1 DEF PlainGroup
  <2>7. CASE s.is = Fails
    <3>1. evaluateBooleanExpression(inner, items, e, c) = s
      BY <2>2, <2>3, <2>7 DEF JoinAt
    <3>2. QED
      BY <1>1, <2>7, <3>1, FailsAgrees
  <2>8. CASE s.is # Fails
    <3>1. PICK d : d = s.caches
      OBVIOUS
    <3>2. CacheOK(d) /\ s.is \in {"yes", "no"}
      BY <1>7, <2>8, <3>1 DEF Fine, Answers
    <3>3. PICK answer : answer = evaluateOperand(inner, item3, e, d)
      OBVIOUS
    <3>4. PICK meets3 : meets3 = MeetsItem(Met(e)[n], e, item3)
      OBVIOUS
    <3>5. item3.kind # "op" /\ Agrees(answer, first, meets3)
      BY <1>1, <2>6, <3>2, <3>3, <3>4, OperandSound
    <3>6. Fine(answer)
      <4>1. EvaluatesFine(e, n)
        BY AllEvaluatesFine
      <4>2. QED
        BY <1>1, <3>2, <3>3, <3>5, <4>1, OperandFine
    <3>7. 3 \in Operands(items) /\ 2 \notin Operands(items)
      BY <1>12, <2>4, <2>6, <3>5 DEF Operands
    <3>8. JoinAt(inner, items, 3, e, s) =
            IF answer.is = Fails THEN answer ELSE Answer(Join(op, s.is, item3, answer), answer.caches)
      BY <2>1, <2>5, <2>6, <2>8, <3>1, <3>3, <3>7 DEF JoinAt
    <3>9. CASE answer.is = Fails
      BY <1>1, <2>2, <2>3, <3>8, <3>9, FailsAgrees
    <3>10. CASE answer.is # Fails
      <4>1. answer.is \in {"yes", "no"}
        BY <3>6, <3>10 DEF Fine, Answers
      <4>2. first => item3.kind = "term"
        BY <2>6
      <4>3. PICK k : k = answer.caches
        OBVIOUS
      <4>4. Agrees(Answer(Join(op, s.is, item3, answer), k), first, Both(op, meets1, meets3))
        <5>1. PICK holds : holds = Join(op, s.is, item3, answer)
          OBVIOUS
        <5>2. Answer(holds, k).is = IF holds THEN "yes" ELSE "no"
          BY DEF Answer
        <5>3. CASE item3.kind = "term"
          <6>1. holds <=> IF op = "and" THEN s.is = "yes" /\ answer.is = "yes"
                          ELSE s.is = "yes" \/ answer.is = "yes"
            BY <5>1, <5>3 DEF Join
          <6>2. QED
            BY <1>6, <3>2, <3>5, <4>1, <5>1, <5>2, <6>1 DEF Agrees, Both
        <5>4. CASE item3.kind # "term"
          <6>1. holds <=> op # "and" /\ answer.is = "yes"
            BY <5>1, <5>4 DEF Join
          <6>2. QED
            BY <3>5, <4>2, <5>1, <5>2, <5>4, <6>1 DEF Agrees, Both
        <5>5. QED
          BY <5>3, <5>4
      <4>5. MeetsItems(Met(e)[n], e, items) <=> Both(op, meets1, meets3)
        BY <1>3, <1>5, <1>12, <2>5, <2>6, <3>4 DEF MeetsItems, Both
      <4>6. QED
        BY <1>1, <2>2, <2>3, <3>8, <3>10, <4>3, <4>4, <4>5 DEF Agrees
    <3>11. QED
      BY <3>9, <3>10
  <2>9. QED
    BY <2>7, <2>8
<1>13. QED
  BY <1>2, <1>11, <1>12

\* and a plain clause of any depth.
LEMMA AllSound ==
    ASSUME CalculusAssumption, WhereClauseAssumption, NEW e, Entry(e), NEW first \in BOOLEAN
    PROVE  \A n \in 0 .. Depth : Sound(e, first, n)
<1> Depth \in Nat
  BY DEF WhereClauseAssumption
<1>1. PICK T : T = {n \in 0 .. Depth : Sound(e, first, n)}
  OBVIOUS
<1>2. T \in SUBSET (0 .. Depth) /\ 0 \in T
  <2>1. 0 \in 0 .. Depth
    OBVIOUS
  <2>2. Plain(e, first)[0] = {}
    BY <2>1, PlainDefined
  <2>3. QED
    BY <1>1, <2>1, <2>2 DEF Sound
<1>3. ASSUME NEW n \in T, n < Depth PROVE n + 1 \in T
  <2>1. n + 1 \in 0 .. Depth /\ n + 1 # 0 /\ (n + 1) - 1 = n /\ n \in 0 .. Depth /\ Sound(e, first, n)
    BY <1>1, <1>3
  <2>2. ASSUME NEW x \in Plain(e, first)[n + 1], NEW c, CacheOK(c)
        PROVE  Agrees(Evaluation(e)[n + 1][x][c], first, x \in Met(e)[n + 1])
    <3>1. x \in Groups[n + 1] /\ PlainGroup(Plain(e, first)[n], e, first, x)
      BY <2>1, PlainDefined
    <3>2. PICK S : S = Terms \cup Bools \cup Groups[n]
      OBVIOUS
    <3>3. x.items \in Seq(S)
      BY <2>1, <3>1, <3>2, InGroups
    <3>4. Agrees(evaluateBooleanExpression(Evaluation(e)[n], x.items, e, c), first,
                 MeetsItems(Met(e)[n], e, x.items))
      BY <2>1, <2>2, <3>1, <3>2, <3>3, ItemsSound
    <3>5. c \in Caches
      BY <2>2 DEF CacheOK
    <3>6. Evaluation(e)[n + 1][x][c] = evaluateBooleanExpression(Evaluation(e)[n], x.items, e, c)
      BY <2>1, <3>1, <3>5, EvaluationDefined
    <3>7. x \in Met(e)[n + 1] <=> MeetsItems(Met(e)[n], e, x.items)
      BY <2>1, <3>1, MetDefined
    <3>8. QED
      BY <3>4, <3>6, <3>7 DEF Agrees
  <2>3. Sound(e, first, n + 1)
    BY <2>2 DEF Sound
  <2>4. QED
    BY <1>1, <2>1, <2>3
<1>4. T = 0 .. Depth
  BY <1>2, <1>3, Joins!RangeSet
<1>5. QED
  BY <1>1, <1>4

-----------------------------------------------------------------------------
(* The scans.  What the rows, the statics and the query under way keep.          *)
ReadsBack(e) == \A f \in DOMAIN e : FieldType[f] = "Integer" => Readable(e[f])
Row(x) == x \in {Absent, Blank} \/ (IsEntry(x) /\ ReadsBack(x))

RowsOK == DOMAIN rows = Rids /\ rows = [r \in Rids |-> rows[r]] /\ \A r \in Rids : Row(rows[r])

QueryOK == query # None =>
    /\ query.kind \in Kinds /\ query.asked \in Groups[Depth] /\ query.clause \in Groups[Depth]
    /\ Plainly(Written(query.asked)) => query.clause = query.asked
    /\ query.kind = "update" => query.modify \in Modifies

\* The documents the scan has not taken are as it found them.
ScanOK == query # None =>
    /\ left \subseteq Rids /\ chosen \subseteq Rids /\ left \cap chosen = {}
    /\ \A r \in Rids : Row(before[r])
    /\ \A r \in Rids \ chosen : rows[r] = before[r]
    /\ \A r \in left : before[r] # Absent

QInv == /\ RowsOK /\ CacheOK(caches) /\ QueryOK /\ ScanOK
        /\ TakenMeet /\ PassedDoNotMeet /\ UpdatedAsWritten

\* An entry has texts in fields.
LEMMA EntryTexts == ASSUME NEW e, IsEntry(e) PROVE Entry(e)
<1>1. PICK fields \in SUBSET Fields : e \in [fields -> Texts]
  BY DEF IsEntry
<1>2. QED
  BY <1>1 DEF Entry

\* What a query makes of an entry it has read is an entry that can be read again.
LEMMA SetFieldIsEntry ==
    ASSUME NEW e, IsEntry(e), ReadsBack(e), NEW f \in Fields, NEW t \in Texts,
           FieldType[f] = "Integer" => Readable(t)
    PROVE  Row(SetField(e, f, t))
<1>1. Entry(e)
  BY EntryTexts
<1>2. PICK fields : fields = DOMAIN e \cup {f}
  OBVIOUS
<1>3. PICK new : new = SetField(e, f, t)
  OBVIOUS
<1>4. new = [g \in fields |-> IF g = f THEN t ELSE e[g]]
  BY <1>2, <1>3 DEF SetField
<1>5. fields \in SUBSET Fields
  BY <1>1, <1>2 DEF Entry
<1>6. \A g \in fields : new[g] \in Texts
  BY <1>1, <1>2, <1>4 DEF Entry
<1>7. IsEntry(new)
  BY <1>4, <1>5, <1>6 DEF IsEntry
<1>8. ReadsBack(new)
  BY <1>2, <1>4 DEF ReadsBack
<1>9. QED
  BY <1>3, <1>7, <1>8 DEF Row

\* The text of a number of its width can be read back.
LEMMA ToStringReadable ==
    ASSUME CalculusAssumption, QueriesAssumption, NEW n \in Ints
    PROVE  to_string[n] \in Texts /\ Readable(to_string[n])
<1>1. to_string[n] \in DOMAIN Number /\ Number[to_string[n]] = n /\ to_string[n] \in Texts
  BY DEF CalculusAssumption, QueriesAssumption
<1>2. n \in Int
  BY DEF Ints, CalculusAssumption
<1>3. n # NaN
  BY <1>2 DEF CalculusAssumption
<1>4. QED
  BY <1>1, <1>3 DEF Readable

LEMMA ModifiesHas ==
    ASSUME NEW m \in Modifies
    PROVE  m.field \in Fields /\ m.expression \in Seq(Texts) /\ m.expression[1] \in Texts
<1>1. m.field \in Fields /\ m.expression \in Seq(Texts) /\ m.expression # <<>>
  BY DEF Modifies
<1>2. PICK s \in Seq(Texts) : s = m.expression
  BY <1>1
<1>3. Len(s) # 0 /\ Len(s) \in Nat
  BY <1>1, <1>2
<1>4. 1 \in 1 .. Len(s)
  BY <1>3
<1>5. QED
  BY <1>1, <1>2, <1>4

\* A text update gives an Integer field can be read back.
LEMMA NewTextsStored ==
    ASSUME CalculusAssumption, QueriesAssumption, NEW e, IsEntry(e), ReadsBack(e),
           NEW m \in Modifies, NEW t \in NewTexts(e, m)
    PROVE  t \in Texts /\ (FieldType[m.field] = "Integer" => Readable(t))
<1>1. m.field \in Fields /\ m.expression \in Seq(Texts) /\ m.expression[1] \in Texts
  BY ModifiesHas
<1>2. CASE FieldType[m.field] = "String"
  <2>1. Solved(e, m) = [is |-> "text", text |-> m.expression[1]]
    BY <1>2 DEF Solved
  <2>2. t = m.expression[1]
    BY <2>1 DEF NewTexts
  <2>3. QED
    BY <1>1, <1>2, <2>2
<1>3. CASE FieldType[m.field] = "Integer" /\ m.field \in DOMAIN e
  <2>1. PICK k : k = Number[e[m.field]]
    OBVIOUS
  <2>2. k \in Ints
    BY <1>3, <2>1 DEF ReadsBack, Readable
  <2>3. PICK s : s = solveNumericExpression(m.expression, m.field, k)
    OBVIOUS
  <2>4. s \in Outcomes
    BY <1>1, <2>2, <2>3, SolvedTyped
  <2>5. Solved(e, m) = s
    BY <1>3, <2>1, <2>3 DEF Solved
  <2>6. \E n \in Ints : t = to_string[n]
    BY <2>4, <2>5 DEF NewTexts, Outcomes, Undefined, Throws
  <2>7. QED
    BY <2>6, ToStringReadable
<1>4. CASE FieldType[m.field] # "String" /\ ~(FieldType[m.field] = "Integer" /\ m.field \in DOMAIN e)
  <2>1. Solved(e, m) = Throws
    BY <1>4 DEF Solved
  <2>2. NewTexts(e, m) = {}
    BY <2>1 DEF NewTexts, Throws
  <2>3. QED
    BY <2>2
<1>5. QED
  BY <1>2, <1>3, <1>4

\* An Integer field is given the text of what its expression means.
LEMMA NewTextsMean ==
    ASSUME CalculusAssumption, QueriesAssumption, NEW e, IsEntry(e), ReadsBack(e),
           NEW m \in Modifies, NEW t \in NewTexts(e, m), FieldType[m.field] = "Integer",
           Arithmetic(m.expression, m.field),
           Meaning(m.expression, m.field, Number[e[m.field]]).is = "value"
    PROVE  /\ m.field \in DOMAIN e
           /\ t = to_string[Meaning(m.expression, m.field, Number[e[m.field]]).value]
<1>1. m.field \in DOMAIN e
  <2>1. SUFFICES ASSUME m.field \notin DOMAIN e PROVE FALSE
    OBVIOUS
  <2>2. Solved(e, m) = Throws
    BY <2>1 DEF Solved
  <2>3. QED
    BY <2>2 DEF NewTexts, Throws
<1>2. m.field \in Fields /\ m.expression \in Seq(Texts)
  BY ModifiesHas
<1>3. PICK k \in Ints, s \in Seq(Texts), key \in Fields : key = m.field /\ k = Number[e[m.field]] /\ s = m.expression
  BY <1>1, <1>2 DEF ReadsBack, Readable
<1>4. key \notin {"("} \cup Sums \cup Products
  BY <1>2, <1>3 DEF QueriesAssumption
<1>5. PICK meaning : meaning = Meaning(s, key, k)
  OBVIOUS
<1>6. solveNumericExpression(s, key, k) = meaning
  BY <1>3, <1>4, <1>5, SolvedAsMeant
<1>7. Solved(e, m) = meaning
  BY <1>1, <1>3, <1>6 DEF Solved
<1>8. meaning.is = "value"
  BY <1>3, <1>5
<1>9. t = to_string[meaning.value]
  BY <1>7, <1>8 DEF NewTexts
<1>10. QED
  BY <1>1, <1>3, <1>5, <1>9

\* What the evaluation of the query's clause on an entry says.
LEMMA EvaluatedSound ==
    ASSUME CalculusAssumption, WhereClauseAssumption, NEW e, IsEntry(e), NEW clause \in Groups[Depth],
           NEW c, CacheOK(c), NEW answer, answer = Evaluation(e)[Depth][clause][c]
    PROVE  /\ CacheOK(answer.caches)
           /\ clause \in Plain(e, FALSE)[Depth] /\ answer.is = "yes" => Meets(e, clause)
           /\ clause \in Plain(e, TRUE)[Depth] /\ answer.is = "no" => ~Meets(e, clause)
<1>1. Depth \in 0 .. Depth
  BY DEF WhereClauseAssumption
<1>2. Entry(e)
  BY EntryTexts
<1>3. EvaluatesFine(e, Depth)
  BY <1>1, <1>2, AllEvaluatesFine
<1>4. Sound(e, FALSE, Depth)
  BY <1>1, <1>2, AllSound
<1>5. Sound(e, TRUE, Depth)
  BY <1>1, <1>2, AllSound
<1>6. CacheOK(answer.caches)
  BY <1>3 DEF EvaluatesFine, Fine
<1>7. clause \in Plain(e, FALSE)[Depth] => Agrees(answer, FALSE, clause \in Met(e)[Depth])
  BY <1>4 DEF Sound
<1>8. clause \in Plain(e, TRUE)[Depth] => Agrees(answer, TRUE, clause \in Met(e)[Depth])
  BY <1>5 DEF Sound
<1>9. QED
  BY <1>6, <1>7, <1>8 DEF Agrees, Meets

\* The invariant holds at the start, and each step keeps it.
LEMMA InitQInv == ASSUME WhereClauseAssumption, Init PROVE QInv
<1>1. RowsOK
  BY DEF Init, RowsOK, Row
<1>2. CacheOK(caches)
  <2>1. CacheOK(NoCaches)
    BY DEF WhereClauseAssumption, CacheOK, NoCaches, Caches
  <2>2. QED
    BY <2>1 DEF Init
<1>3. query = None
  BY DEF Init
<1>4. QED
  BY <1>1, <1>2, <1>3 DEF QInv, QueryOK, ScanOK, TakenMeet, PassedDoNotMeet, UpdatedAsWritten

\* Without a query under way only the rows and the statics count.
LEMMA NoQuery ==
    ASSUME RowsOK', CacheOK(caches'), query' = None PROVE QInv'
BY DEF QInv, QueryOK, ScanOK, TakenMeet, PassedDoNotMeet, UpdatedAsWritten

LEMMA InsertQInv ==
    ASSUME QueriesAssumption, QInv, NEW r \in Rids, NEW e \in Entries, Insert(r, e) PROVE QInv'
<1>1. IsEntry(e)
  BY DEF QueriesAssumption
<1>2. ReadsBack(e)
  <2>1. SUFFICES ASSUME NEW f \in DOMAIN e, FieldType[f] = "Integer" PROVE Readable(e[f])
    BY DEF ReadsBack
  <2>2. Holds(e[f], FieldType[f]) \/ FieldType[f] = "Boolean"
    BY <2>1 DEF Insert, jsonify
  <2>3. QED
    BY <2>1, <2>2 DEF Holds
<1>3. RowsOK'
  BY <1>1, <1>2 DEF Insert, QInv, RowsOK, Row
<1>4. CacheOK(caches') /\ query' = None
  BY DEF Insert, QInv
<1>5. QED
  BY <1>3, <1>4, NoQuery

LEMMA AskQInv ==
    ASSUME QueriesAssumption, QInv, NEW request \in Requests, Ask(request)
    PROVE  QInv'
<1>1. /\ request.kind \in Kinds /\ request.clause \in Groups[Depth]
      /\ request.modify \in Modifies \cup {None}
      /\ request.kind = "update" => request.modify \in Modifies
  <2>1. CASE request \in [kind : {"select", "delete"}, clause : Groups[Depth], modify : {None}]
    BY <2>1 DEF Kinds
  <2>2. CASE request \in [kind : {"update"}, clause : Groups[Depth], modify : Modifies]
    BY <2>2 DEF Kinds
  <2>3. QED
    BY <2>1, <2>2 DEF QueriesAssumption
<1>3. PICK clause \in Groups[Depth] : clause = request.clause
  BY <1>1
<1>4. PICK parsed \in Groups[Depth] : parsed = Asked(request).group
  BY DEF Ask, QueriesAssumption
<1>5. Plainly(Written(clause)) => parsed = clause
  <2>1. SUFFICES ASSUME Plainly(Written(clause)) PROVE parsed = clause
    OBVIOUS
  <2>2. Asked(request) = Parsed(clause, Len(Written(clause)) + 1)
    BY <1>1, <1>3, <2>1, ParsesPlainClauses DEF Asked
  <2>3. QED
    BY <1>4, <2>2 DEF Parsed
<1>6. query' = [kind |-> request.kind, modify |-> request.modify, asked |-> clause, clause |-> parsed]
  BY <1>3, <1>4 DEF Ask
<1>7. QueryOK'
  BY <1>1, <1>3, <1>4, <1>5, <1>6 DEF QueryOK
<1>8. /\ rows' = rows /\ caches' = caches /\ chosen' = {} /\ before' = rows
      /\ left' = {r \in Rids : rows[r] # Absent}
  BY DEF Ask
<1>9. RowsOK' /\ CacheOK(caches')
  BY <1>8 DEF QInv, RowsOK
<1>10. ScanOK'
  BY <1>8 DEF ScanOK, QInv, RowsOK
<1>11. TakenMeet'
  BY <1>8 DEF TakenMeet
<1>12. PassedDoNotMeet'
  <2>1. SUFFICES ASSUME NEW r \in Rids, r \notin left', Judged(r, TRUE)' PROVE FALSE
    BY DEF PassedDoNotMeet
  <2>2. before'[r] # Absent
    BY <2>1 DEF Judged
  <2>3. QED
    BY <1>8, <2>1, <2>2
<1>13. UpdatedAsWritten'
  BY <1>8 DEF UpdatedAsWritten
<1>14. QED
  BY <1>7, <1>9, <1>10, <1>11, <1>12, <1>13 DEF QInv

\* A step that ends the query.
LEMMA IdleQInv == ASSUME RowsOK', CacheOK(caches'), Idle PROVE QInv'
BY NoQuery DEF Idle

LEMMA FailQInv ==
    ASSUME CalculusAssumption, WhereClauseAssumption, QInv, NEW r \in Rids, Fail(r) PROVE QInv'
<1>1. Row(rows[r]) /\ rows[r] # Absent
  BY DEF QInv, RowsOK, ScanOK, Fail
<1>2. CASE rows[r] = Blank
  <2>1. RowsOK' /\ CacheOK(caches')
    BY <1>2 DEF Fail, Breaks, QInv, RowsOK
  <2>2. QED
    BY <2>1, IdleQInv DEF Fail
<1>3. CASE rows[r] # Blank
  <2>1. PICK e : e = rows[r]
    OBVIOUS
  <2>2. IsEntry(e)
    BY <1>1, <1>3, <2>1 DEF Row
  <2>3. PICK clause \in Groups[Depth] : clause = query.clause
    BY DEF QInv, QueryOK, Fail
  <2>4. PICK answer : answer = Evaluated(r)
    OBVIOUS
  <2>5. answer = Evaluation(e)[Depth][clause][caches]
    BY <2>1, <2>3, <2>4 DEF Evaluated
  <2>6. CacheOK(answer.caches)
    BY <2>2, <2>5, EvaluatedSound DEF QInv
  <2>7. CacheOK(caches')
    BY <1>3, <2>4, <2>6 DEF Fail, Breaks
  <2>8. rows' = rows \/ rows' = [rows EXCEPT ![r] = Blank]
    BY <1>3 DEF Fail, Breaks
  <2>9. RowsOK'
    BY <2>8 DEF QInv, RowsOK, Row
  <2>10. QED
    BY <2>7, <2>9, IdleQInv DEF Fail
<1>4. QED
  BY <1>2, <1>3

LEMMA EndQInv == ASSUME QInv, End PROVE QInv'
<1>1. RowsOK' /\ CacheOK(caches')
  BY DEF End, QInv, RowsOK
<1>2. QED
  BY <1>1, IdleQInv DEF End

LEMMA RestartQInv == ASSUME WhereClauseAssumption, QInv, Restart PROVE QInv'
<1>1. CacheOK(NoCaches)
  BY DEF WhereClauseAssumption, CacheOK, NoCaches, Caches
<1>2. RowsOK' /\ CacheOK(caches') /\ query' = None
  BY <1>1 DEF Restart, QInv, RowsOK
<1>3. QED
  BY <1>2, NoQuery

\* The document under the scan is taken, or passed.
LEMMA ExamineQInv ==
    ASSUME CalculusAssumption, WhereClauseAssumption, QueriesAssumption,
           QInv, NEW r \in Rids, Examine(r)
    PROVE  QInv'
<1>1. /\ query # None /\ r \in left /\ rows[r] # Blank
      /\ left' = left \ {r} /\ query' = query /\ before' = before
  BY DEF Examine
<1>2. r \notin chosen /\ rows[r] = before[r] /\ before[r] # Absent
  BY <1>1 DEF QInv, ScanOK
<1>3. PICK e : e = rows[r]
  OBVIOUS
<1>4. IsEntry(e) /\ ReadsBack(e)
  BY <1>1, <1>2, <1>3 DEF QInv, RowsOK, Row
<1>5. PICK clause \in Groups[Depth] :
        clause = query.clause /\ (Plainly(Written(query.asked)) => clause = query.asked)
  BY <1>1 DEF QInv, QueryOK
<1>6. PICK answer : answer = Evaluated(r)
  OBVIOUS
<1>7. answer = Evaluation(e)[Depth][clause][caches]
  BY <1>3, <1>5, <1>6 DEF Evaluated
<1>8. /\ CacheOK(answer.caches)
      /\ clause \in Plain(e, FALSE)[Depth] /\ answer.is = "yes" => Meets(e, clause)
      /\ clause \in Plain(e, TRUE)[Depth] /\ answer.is = "no" => ~Meets(e, clause)
  BY <1>4, <1>7, EvaluatedSound DEF QInv
<1>9. CacheOK(caches')
  BY <1>6, <1>8 DEF Examine
<1>10. QueryOK'
  BY <1>1 DEF QInv, QueryOK
<1>11. CASE answer.is = "yes" /\ Takes(r)
  <2>1. chosen' = chosen \cup {r}
    BY <1>11 DEF Takes
  <2>2. /\ RowsOK' /\ (\A q \in Rids : q # r => rows'[q] = rows[q])
        /\ query.kind = "update" =>
             /\ query.modify \in Modifies
             /\ \E t \in NewTexts(e, query.modify) : rows'[r] = SetField(e, query.modify.field, t)
    <3>1. CASE query.kind = "select" /\ rows' = rows
      BY <3>1 DEF QInv, RowsOK
    <3>2. CASE query.kind = "delete" /\ rows' = [rows EXCEPT ![r] = Absent]
      BY <3>2 DEF QInv, RowsOK, Row
    <3>3. CASE query.kind = "update" /\ \E t \in NewTexts(e, query.modify) :
                  rows' = [rows EXCEPT ![r] = SetField(e, query.modify.field, t)]
      <4>1. PICK m \in Modifies : m = query.modify
        BY <1>1, <3>3 DEF QInv, QueryOK
      <4>2. PICK t \in NewTexts(e, m) : rows' = [rows EXCEPT ![r] = SetField(e, m.field, t)]
        BY <3>3, <4>1
      <4>3. t \in Texts /\ (FieldType[m.field] = "Integer" => Readable(t))
        BY <1>4, NewTextsStored
      <4>4. m.field \in Fields
        BY ModifiesHas
      <4>5. Row(SetField(e, m.field, t))
        BY <1>4, <4>3, <4>4, SetFieldIsEntry
      <4>6. PICK new : new = SetField(e, m.field, t)
        OBVIOUS
      <4>7. rows' = [rows EXCEPT ![r] = new] /\ Row(new)
        BY <4>2, <4>5, <4>6
      <4>8. RowsOK' /\ rows'[r] = new /\ (\A q \in Rids : q # r => rows'[q] = rows[q])
        BY <4>7 DEF QInv, RowsOK
      <4>9. QED
        BY <4>1, <4>6, <4>8
    <3>4. QED
      BY <1>3, <1>11, <3>1, <3>2, <3>3 DEF Takes
  <2>3. ScanOK'
    BY <1>1, <1>2, <2>1, <2>2 DEF QInv, ScanOK
  <2>4. TakenMeet'
    <3>1. SUFFICES ASSUME NEW q \in chosen', Judged(q, FALSE)' PROVE Meets(before[q], query.asked)
      BY <1>1 DEF TakenMeet
    <3>2. Judged(q, FALSE)
      BY <1>1, <3>1 DEF Judged
    <3>3. CASE q = r
      BY <1>2, <1>3, <1>5, <1>8, <1>11, <3>2, <3>3 DEF Judged
    <3>4. CASE q # r
      BY <1>1, <2>1, <3>1, <3>2, <3>4 DEF QInv, TakenMeet
    <3>5. QED
      BY <3>3, <3>4
  <2>5. PassedDoNotMeet'
    <3>1. SUFFICES ASSUME NEW q \in Rids, q \notin left', q \notin chosen', Judged(q, TRUE)'
                   PROVE  ~Meets(before[q], query.asked)
      BY <1>1 DEF PassedDoNotMeet
    <3>2. q \notin left /\ q \notin chosen /\ Judged(q, TRUE)
      BY <1>1, <2>1, <3>1 DEF Judged
    <3>3. QED
      BY <1>1, <3>2 DEF QInv, PassedDoNotMeet
  <2>6. UpdatedAsWritten'
    <3>1. SUFFICES ASSUME query.kind = "update", NEW q \in Rids
                   PROVE  IF q \notin chosen' THEN rows'[q] = before[q]
                          ELSE LET m == query.modify
                                   meaning == Meaning(m.expression, m.field, Number[before[q][m.field]])
                               IN  FieldType[m.field] = "Integer" /\ Arithmetic(m.expression, m.field)
                                     /\ meaning.is = "value"
                                   => rows'[q] = [before[q] EXCEPT ![m.field] = to_string[meaning.value]]
      BY <1>1 DEF UpdatedAsWritten
    <3>2. CASE q # r
      <4>1. rows'[q] = rows[q] /\ (q \in chosen' <=> q \in chosen)
        BY <2>1, <2>2, <3>2
      <4>2. QED
        BY <1>1, <3>1, <4>1 DEF QInv, UpdatedAsWritten
    <3>3. CASE q = r
      <4>1. PICK m \in Modifies : m = query.modify
        BY <2>2, <3>1
      <4>2. PICK t \in NewTexts(e, m) : rows'[r] = SetField(e, m.field, t)
        BY <2>2, <3>1, <4>1
      <4>3. PICK meaning : meaning = Meaning(m.expression, m.field, Number[e[m.field]])
        OBVIOUS
      <4>4. SUFFICES ASSUME FieldType[m.field] = "Integer", Arithmetic(m.expression, m.field),
                            meaning.is = "value"
                     PROVE  rows'[r] = [e EXCEPT ![m.field] = to_string[meaning.value]]
        BY <1>2, <1>3, <2>1, <3>3, <4>1, <4>3
      <4>5. m.field \in DOMAIN e /\ t = to_string[meaning.value]
        BY <1>4, <4>3, <4>4, NewTextsMean
      <4>6. e = [g \in DOMAIN e |-> e[g]]
        BY <1>4 DEF IsEntry
      <4>7. PICK f : f = m.field
        OBVIOUS
      <4>8. DOMAIN e \cup {f} = DOMAIN e
        <5>1. PICK fields : fields = DOMAIN e
          OBVIOUS
        <5>2. f \in fields
          BY <4>5, <4>7, <5>1
        <5>3. fields \cup {f} = fields
          BY <5>2
        <5>4. QED
          BY <5>1, <5>3
      <4>9. SetField(e, f, t) = [g \in DOMAIN e |-> IF g = f THEN t ELSE e[g]]
        BY <4>8 DEF SetField
      <4>10. SetField(e, f, t) = [e EXCEPT ![f] = t]
        BY <4>6, <4>9
      <4>11. QED
        BY <4>2, <4>5, <4>7, <4>10
    <3>4. QED
      BY <3>2, <3>3
  <2>7. QED
    BY <1>9, <1>10, <2>2, <2>3, <2>4, <2>5, <2>6 DEF QInv
<1>12. CASE answer.is = "no" /\ UNCHANGED <<rows, chosen>>
  <2>1. RowsOK'
    BY <1>12 DEF QInv, RowsOK
  <2>2. ScanOK'
    BY <1>1, <1>12 DEF QInv, ScanOK
  <2>3. TakenMeet'
    BY <1>1, <1>12 DEF QInv, TakenMeet, Judged
  <2>4. PassedDoNotMeet'
    <3>1. SUFFICES ASSUME NEW q \in Rids, q \notin left', q \notin chosen, Judged(q, TRUE)'
                   PROVE  ~Meets(before[q], query.asked)
      BY <1>1, <1>12 DEF PassedDoNotMeet
    <3>2. Judged(q, TRUE)
      BY <1>1, <3>1 DEF Judged
    <3>3. CASE q = r
      BY <1>2, <1>3, <1>5, <1>8, <1>12, <3>2, <3>3 DEF Judged
    <3>4. CASE q # r
      BY <1>1, <3>1, <3>2, <3>4 DEF QInv, PassedDoNotMeet
    <3>5. QED
      BY <3>3, <3>4
  <2>5. UpdatedAsWritten'
    BY <1>1, <1>12 DEF QInv, UpdatedAsWritten
  <2>6. QED
    BY <1>9, <1>10, <2>1, <2>2, <2>3, <2>4, <2>5 DEF QInv
<1>13. QED
  BY <1>6, <1>11, <1>12 DEF Examine

LEMMA NextQInv ==
    ASSUME CalculusAssumption, WhereClauseAssumption, QueriesAssumption, QInv, [Next]_vars
    PROVE  QInv'
<1>1. CASE UNCHANGED vars
  <2>1. /\ rows' = rows /\ caches' = caches /\ query' = query
        /\ left' = left /\ chosen' = chosen /\ before' = before
    BY <1>1 DEF vars
  <2>2. RowsOK' /\ CacheOK(caches') /\ QueryOK' /\ ScanOK'
    BY <2>1 DEF QInv, RowsOK, QueryOK, ScanOK
  <2>3. TakenMeet' /\ PassedDoNotMeet'
    BY <2>1 DEF QInv, TakenMeet, PassedDoNotMeet, Judged
  <2>4. UpdatedAsWritten'
    BY <2>1 DEF QInv, UpdatedAsWritten
  <2>5. QED
    BY <2>2, <2>3, <2>4 DEF QInv
<1>2. ASSUME NEW r \in Rids, NEW e \in Entries, Insert(r, e) PROVE QInv'
  BY <1>2, InsertQInv
<1>3. ASSUME NEW request \in Requests, Ask(request) PROVE QInv'
  BY <1>3, AskQInv
<1>4. ASSUME NEW r \in Rids, Examine(r) PROVE QInv'
  BY <1>4, ExamineQInv
<1>5. ASSUME NEW r \in Rids, Fail(r) PROVE QInv'
  BY <1>5, FailQInv
<1>6. CASE End
  BY <1>6, EndQInv
<1>7. CASE Restart
  BY <1>7, RestartQInv
<1>8. QED
  BY <1>1, <1>2, <1>3, <1>4, <1>5, <1>6, <1>7 DEF Next

\* The invariant of the scans.
THEOREM QueriesInvariant == Spec => []QInv
<1>1. Init => QInv
  BY InitQInv, WhereClauseAssumption
<1>2. QInv /\ [Next]_vars => QInv'
  BY NextQInv, CalculusAssumption, WhereClauseAssumption, QueriesAssumption
<1>3. QED
  BY <1>1, <1>2, PTL DEF Spec

(* What the parser rebuilds is what was written, for clauses that are written     *)
(* plainly (recursiveParseBooleanExpression, Utils.cpp:201).                      *)
THEOREM ParsesAsWritten == Spec => []ParsedAsWritten
<1>1. QInv => ParsedAsWritten
  BY DEF QInv, QueryOK, ParsedAsWritten
<1>2. QED
  BY <1>1, QueriesInvariant, PTL

(* Whatever the statics of In and Like hold, a document that a query takes meets  *)
(* its clause (EvaluateWhereClause.cpp:306, 349).                                 *)
THEOREM TakesWhatMeets == Spec => []TakenMeet
<1>1. QInv => TakenMeet
  BY DEF QInv
<1>2. QED
  BY <1>1, QueriesInvariant, PTL

(* A document the scan leaves does not meet a clause whose groups come first      *)
(* (evaluateBooleanExpression, EvaluateWhereClause.cpp:419).                      *)
THEOREM LeavesWhatDoesNot == Spec => []PassedDoNotMeet
<1>1. QInv => PassedDoNotMeet
  BY DEF QInv
<1>2. QED
  BY <1>1, QueriesInvariant, PTL

(* An update leaves in an Integer field what its expression means, whatever its    *)
(* length, and the other documents as they were (Common.inl:52).                  *)
THEOREM UpdatesAsWritten == Spec => []UpdatedAsWritten
<1>1. QInv => UpdatedAsWritten
  BY DEF QInv
<1>2. QED
  BY <1>1, QueriesInvariant, PTL

(* What an Integer field holds can always be read back (Common.cpp:61-77,         *)
(* DocumentManager.cpp:127).                                                       *)
THEOREM StoresReadable == Spec => []StoredReadable
<1>1. QInv => StoredReadable
  BY DEF QInv, RowsOK, Row, ReadsBack, StoredReadable
<1>2. QED
  BY <1>1, QueriesInvariant, PTL
================================================================================
