--------------------------- MODULE MCJamExpressions ---------------------------
(***************************************************************************)
(* Expressions of JamExpressions for TLC, and what they mean: the value in *)
(* the integers, defined without the parser's stack, its codes and its     *)
(* wrapping arithmetic.                                                    *)
(***************************************************************************)
EXTENDS JamExpressions

\* n and b are scalars, A and I arrays; nothing is named u.
MCSymbols ==
    [n   |-> [type |-> "INTEGER", dimension |-> 0, value |-> -3],
     low |-> [type |-> "INTEGER", dimension |-> 0, value |-> LowestLong],
     b   |-> [type |-> "BOOLEAN", dimension |-> 0, value |-> 1],
     A   |-> [type |-> "BOOLEAN_ARRAY_INITIALIZED", dimension |-> 5, value |-> <<0, 1, 1, 0, 1, 0>>],
     B   |-> [type |-> "BOOLEAN_ARRAY_WRITABLE", dimension |-> 3, value |-> <<1, 0, 0, 0, 0, 0>>],
     I   |-> [type |-> "INTEGER_ARRAY_WRITABLE", dimension |-> 2, value |-> <<9, -2>>]]

Zero == Number(<<0>>)
Two == Number(<<2>>)
Leaves == {Zero, Two, Number(<<6>>), Name("n"), Name("low"), Name("b")}
BinaryOps == TwoInts \cup TwoBools \cup Equalities
UnaryOps == OneInt \cup {"NOT", "CIEL", "FLOOR"}

OfArrays ==
    {Element(s, i) : s \in {"A", "I", "u"}, i \in Leaves} \cup
    {Slice(s, m, l) : s \in {"A", "I"}, m \in {Zero, Two, Number(<<5>>), Name("n")}, l \in {Zero, Two}} \cup
    {Slice("A", Element(s, Zero), Zero) : s \in {"A", "B", "I"}} \cup
    {Whole(s) : s \in {"A", "I", "u"}}
MarkedLiterals == {Marked("POUND", <<1, 0>>), Marked("POUND", <<2>>), Marked("DOLLAR", <<1, 2>>)}

Simple == {Unary(op, e) : op \in UnaryOps, e \in Leaves} \cup
          {Binary(op, l, r) : op \in BinaryOps, l \in Leaves, r \in Leaves} \cup
          OfArrays \cup MarkedLiterals

\* Operators above: of each kind one, on either side.
Above == {"ADD", "MULT", "DIV", "EQUALITY", "AND"}
MCExpressions ==
    Leaves \cup {Name("A"), Name("u")} \cup Simple \cup
    {Unary(op, e) : op \in {"UMINUS", "NOT", "CIEL"}, e \in Simple} \cup
    {Binary(op, e, r) : op \in Above, e \in Simple, r \in {Two, Name("n"), Name("b")}} \cup
    {Binary(op, l, e) : op \in Above, l \in {Two, Name("b")}, e \in Simple} \cup
    {Element("I", e) : e \in Simple}

\* What is in INT( ), and a name after it.
NamesAfterInt ==
    {Binary(op, e, Name(s)) : op \in BinaryOps, s \in {"n", "low"},
        e \in MarkedLiterals \cup {Whole("I"), Slice("I", Two, Zero)}}

-------------------------------------------------------------------------------
\* Nothing is claimed of an expression whose meaning is open: the program does
\* not say, the result is not a long, or the code does another thing (see
\* README: CEIL of a quotient, FLOOR, an element in the bounds of a range).
Exact(type, value) == IF value \in Longs THEN Answer("ok", value, type) ELSE Failed("open")

Wide == -(2^LongBits)..2^LongBits
BitAt(n, i) == BitOf(Unsigned(n), i)

MeantOfInts(otype, l, r) ==
    CASE otype = "ADD"  -> Exact("INTEGER", l + r)
      [] otype = "SUB"  -> Exact("INTEGER", l - r)
      [] otype = "MULT" -> Exact("INTEGER", l * r)
      [] otype \in {"DIV", "MOD"} /\ r = 0 -> Failed("wrong")
      \* Towards zero; the rest has the sign of what is divided.
      [] otype \in {"DIV", "MOD"} ->
            LET q == CHOOSE q \in Wide : LET m == l - q * r IN Magnitude(m) < Magnitude(r) /\ m * l >= 0
            IN  Exact("INTEGER", IF otype = "DIV" THEN q ELSE l - q * r)
      [] otype \in {"BITWISE_AND", "BITWISE_OR", "BITWISE_XOR"} ->
            Answer("ok", CHOOSE n \in Longs : \A i \in 0..(LongBits - 1) :
                LET sum == BitAt(l, i) + BitAt(r, i)
                IN  BitAt(n, i) = CASE otype = "BITWISE_AND" -> Truth(sum = 2)
                                    [] otype = "BITWISE_OR"  -> Truth(sum > 0)
                                    [] otype = "BITWISE_XOR" -> Truth(sum = 1), "INTEGER")
      [] otype \in {"LEFT_SHIFT", "RIGHT_SHIFT"} /\ r \notin 0..(LongBits - 1) -> Failed("open")
      [] otype = "LEFT_SHIFT"  -> Exact("INTEGER", l * 2^r)
      [] otype = "RIGHT_SHIFT" -> Exact("INTEGER", CHOOSE n \in Longs : n * 2^r <= l /\ l < (n + 1) * 2^r)
      [] otype = "GREATER_THAN"     -> Exact("BOOLEAN", Truth(l > r))
      [] otype = "LESS_THAN"        -> Exact("BOOLEAN", Truth(l < r))
      [] otype = "GREATER_OR_EQUAL" -> Exact("BOOLEAN", Truth(l >= r))
      [] otype = "LESS_OR_EQUAL"    -> Exact("BOOLEAN", Truth(l <= r))

MeantOfInt(otype, n) ==
    CASE otype = "UMINUS"      -> Exact("INTEGER", -n)
      [] otype = "ABS"         -> Exact("INTEGER", Magnitude(n))
      [] otype = "BITWISE_NOT" -> Exact("INTEGER", -n - 1)
      [] otype = "LOG2" /\ n > 0  -> Exact("INTEGER", Cardinality({k \in 0..LongBits : 2^k < n}))
      [] otype = "SQRT" /\ n >= 2^(LongBits - 2) -> Failed("open")
      [] otype = "SQRT" /\ n >= 0 -> Exact("INTEGER", Cardinality({k \in 1..n : k * k <= n}))
      [] OTHER -> Failed("wrong")

MeantOfElement(name, index) ==
    IF name \notin DOMAIN Symbols \/ index \notin 0..(Symbols[name].dimension - 1) THEN Failed("wrong")
    ELSE Answer("ok", Symbols[name].value[index + 1],
                IF Symbols[name].type \in ArraysOfIntegers THEN "INTEGER" ELSE "BOOLEAN")

MeantOfRange(name, msb, lsb) ==
    IF name \notin DOMAIN Symbols \/ Symbols[name].type \notin ArraysOfBooleans THEN Failed("wrong")
    ELSE IF ~({msb, lsb} \subseteq 0..(Len(Symbols[name].value) - 1)) THEN Failed("open")
    ELSE Answer("ok", CHOOSE n \in Longs : \A k \in 0..(LongBits - 1) :
            BitAt(n, k) = IF k > Magnitude(msb - lsb) THEN 0
                          ELSE Symbols[name].value[(IF msb > lsb THEN lsb + k ELSE lsb - k) + 1], "INTEGER")

InBase(digits, base) ==
    IF \E k \in DOMAIN digits : digits[k] >= base THEN Failed("wrong")
    ELSE LET value == MapThenSumSet(LAMBDA k : digits[k] * base^(Len(digits) - k), DOMAIN digits)
         IN  Exact(IF value < 2 THEN "INT_OR_BOOL" ELSE "INTEGER", value)

MeantOfName(name) ==
    IF name \in DOMAIN Symbols /\ Symbols[name].type \in {"INTEGER", "BOOLEAN"}
    THEN Answer("ok", Symbols[name].value, Symbols[name].type) ELSE Failed("wrong")

AreAll(args, types) == \A k \in DOMAIN args : args[k].type \in types
HasElement(e) == \E k \in DOMAIN e.args : e.args[k].op = "ARRAY"

MeantOfArguments(e, args) ==
    CASE e.op \in TwoInts /\ AreAll(args, OfIntegers) -> MeantOfInts(e.op, args[1].value, args[2].value)
      [] e.op \in OneInt /\ AreAll(args, OfIntegers)  -> MeantOfInt(e.op, args[1].value)
      [] e.op = "AND" /\ AreAll(args, OfBooleans) -> Exact("BOOLEAN", args[1].value * args[2].value)
      [] e.op = "OR" /\ AreAll(args, OfBooleans)  -> Exact("BOOLEAN", Truth(args[1].value + args[2].value > 0))
      [] e.op = "NOT" /\ AreAll(args, OfBooleans) -> Exact("BOOLEAN", 1 - args[1].value)
      [] e.op \in Equalities /\ (AreAll(args, OfIntegers) \/ AreAll(args, OfBooleans)) ->
            Exact("BOOLEAN", Truth((args[1].value = args[2].value) = (e.op = "EQUALITY")))
      [] e.op = "FLOOR" /\ AreAll(args, OfIntegers) -> Failed("open")
      [] e.op = "CIEL" /\ AreAll(args, OfIntegers) ->
            IF e.args[1].op = "DIV" THEN Failed("open") ELSE Answer("ok", args[1].value, "INTEGER")
      [] e.op = "ARRAY" /\ AreAll(args, OfIntegers) -> MeantOfElement(e.name, args[1].value)
      [] e.op = "ARRAY_RANGE" /\ AreAll(args, OfIntegers) -> MeantOfRange(e.name, args[1].value, args[2].value)
      [] e.op = "ARRAY_ALL" -> IF e.name \in DOMAIN Symbols
                               THEN MeantOfRange(e.name, Symbols[e.name].dimension - 1, 0) ELSE Failed("wrong")
      [] OTHER -> Failed("wrong")

RECURSIVE Meant(_)
Meant(e) ==
    IF e.op = "number" THEN InBase(e.digits, 10)
    ELSE IF e.op = "name" THEN MeantOfName(e.name)
    ELSE IF e.op \in Marks
    THEN LET literal == InBase(e.args[1].digits, IF e.op = "POUND" THEN 2 ELSE 16)
         IN  IF literal.status = "ok" THEN Answer("ok", literal.value, "INTEGER") ELSE literal
    ELSE LET args == [k \in DOMAIN e.args |-> Meant(e.args[k])]
             status == {args[k].status : k \in DOMAIN args}
         IN  IF "open" \in status \/ (e.op = "ARRAY_RANGE" /\ HasElement(e)) THEN Failed("open")
             ELSE IF "wrong" \in status THEN Failed("wrong")
             ELSE IF e.op = "CIEL" /\ e.args[1].op = "SQRT"
             THEN LET n == Meant(e.args[1].args[1]).value
                  IN  Exact("INTEGER", Cardinality({k \in 0..n : k * k < n}))
             ELSE MeantOfArguments(e, args)

\* INT( ) makes an Integer of what has no value; then a name that is read or an
\* element forgets what was wrong.
Forgets(e) ==
    \E i, j \in DOMAIN Work(e) :
       i < j /\ Work(e)[i].op = "INT" /\ Work(e)[j].op \in {"name", "array name", "ARRAY"}

\* An expression that has a value is evaluated to it and to its type, and one
\* that has none - of a type, a divisor, an index or a name that is wrong
\* anywhere in it - is never given a value: what went wrong below is still
\* seen above, although each name that is read resets jam_return_code.
ExpressionsMean ==
    answer # Unanswered =>
        LET meant == Meant(expression)
        IN  /\ meant.status = "ok" => answer = [meant EXCEPT !.status = "SUCCESS"]
            /\ (meant.status = "wrong" /\ ~Forgets(expression)) => answer.status # "SUCCESS"

\* jamexp.c:1308 says that the status tells whether the evaluation was
\* successful: an expression with a part that has no value is not one.
FailureIsReported ==
    answer # Unanswered => (Meant(expression).status = "wrong" => answer.status # "SUCCESS")
===============================================================================
