---------------------------- MODULE JamExpressions ----------------------------
(***************************************************************************)
(* The expressions of Jam programs (jamexp.c).  The parser works while it  *)
(* reads: it keeps a stack of operands, and what went wrong in one global  *)
(* variable, jam_return_code, which the lexer writes too.  The array of a  *)
(* range is in another, jam_array_symbol_rec, and the base of the next     *)
(* literal in a third, jam_expression_type.                                *)
(*                                                                         *)
(* An expression is its syntax tree; of the grammar's tables only the      *)
(* order in which they read and reduce is kept, see Work.                  *)
(***************************************************************************)
EXTENDS Integers, Sequences, SequencesExt, FiniteSetsExt
LOCAL INSTANCE Bitwise

CONSTANTS
    Expressions,  \* syntax trees of texts of the grammar
    Symbols,      \* the symbol table: name -> [type, dimension, value]; the
                  \* value of a Boolean array is its bits, in whole words
    LongBits      \* bits of a long: 32 in the code

ASSUME LongBitsAssumption == LongBits \in Nat \ {0, 1, 2}

VARIABLES
    expression,           \* what is evaluated
    todo,                 \* the tokens to read and the productions to reduce
    operands,             \* the parser's stack of values
    jam_return_code,
    jam_array_symbol_rec, \* the array named last
    jam_expression_type,  \* the base of the next literal
    answer                \* what jam_evaluate_expression gives, or Unanswered

exprVars == <<expression, todo, operands, jam_return_code, jam_array_symbol_rec,
              jam_expression_type, answer>>

OfIntegers == {"INTEGER", "INT_OR_BOOL"}
OfBooleans == {"BOOLEAN", "INT_OR_BOOL"}
ArraysOfBooleans == {"BOOLEAN_ARRAY_WRITABLE", "BOOLEAN_ARRAY_INITIALIZED"}
ArraysOfIntegers == {"INTEGER_ARRAY_WRITABLE", "INTEGER_ARRAY_INITIALIZED"}

LowestLong == -(2^(LongBits - 1))
Longs == LowestLong..(2^(LongBits - 1) - 1)

Answer(status, value, type) == [status |-> status, value |-> value, type |-> type]
Unanswered == Answer("none", 0, "ILLEGAL")
Failed(status) == Answer(status, 0, "ILLEGAL")

\* Syntax trees.  What is in brackets is an array's; a mark, # or $, is before
\* a literal.
Number(digits) == [op |-> "number", digits |-> digits]
Name(s) == [op |-> "name", name |-> s]
Element(s, index) == [op |-> "ARRAY", name |-> s, args |-> <<index>>]
Slice(s, msb, lsb) == [op |-> "ARRAY_RANGE", name |-> s, args |-> <<msb, lsb>>]
Whole(s) == [op |-> "ARRAY_ALL", name |-> s, args |-> <<>>]
Marked(mark, digits) == [op |-> mark, args |-> <<Number(digits)>>]
Unary(op, e) == [op |-> op, args |-> <<e>>]
Binary(op, left, right) == [op |-> op, args |-> <<left, right>>]

Marks == {"POUND", "DOLLAR"}
Ranges == {"ARRAY_RANGE", "ARRAY_ALL"}

\* What the parser does with an expression, in order: a mark or a name is read
\* before what follows it, an operator is reduced when its operands have been.
\* Ranges and marked literals are in INT( ).
RECURSIVE Work(_)
Work(e) ==
    IF e.op \in {"number", "name"} THEN <<e>>
    ELSE LET before == IF e.op \in Marks THEN <<[op |-> "mark", mark |-> e.op]>>
                       ELSE IF "name" \in DOMAIN e THEN <<[op |-> "array name", name |-> e.name]>> ELSE <<>>
             args   == FlattenSeq([k \in DOMAIN e.args |-> Work(e.args[k])])
             int    == IF e.op \in Marks \cup Ranges THEN <<[op |-> "INT"]>> ELSE <<>>
         IN  before \o args \o <<[op |-> e.op]>> \o int

Evaluates(e) ==
    /\ expression = e
    /\ todo = Work(e)
    /\ operands = <<>>
    /\ jam_return_code = "SUCCESS"
    /\ jam_array_symbol_rec = "none"
    /\ jam_expression_type = "none"
    /\ answer = Unanswered

ExprInit == \E e \in Expressions : Evaluates(e)

-------------------------------------------------------------------------------
(***************************************************************************)
(* Arithmetic                                                              *)
(***************************************************************************)
Wrapped(n) == ((n - LowestLong) % 2^LongBits) + LowestLong
Unsigned(n) == n % 2^LongBits
Magnitude(n) == IF n < 0 THEN -n ELSE n
\* The division of C.
Quotient(a, b) ==
    LET q == Magnitude(a) \div Magnitude(b) IN IF (a < 0) = (b < 0) THEN q ELSE -q
Remainder(a, b) == a - b * Quotient(a, b)

Truth(holds) == IF holds THEN 1 ELSE 0
BitOf(n, i) == (n \div 2^i) % 2

\* The loop of LOG2, which rounds up.
CeilingOfLog2(n) == CHOOSE k \in 0..LongBits : 2^k >= n /\ \A j \in 0..(k - 1) : 2^j < n

SquareRootOrder(n) == CHOOSE k \in 0..LongBits : n < 4^k /\ (k = 0 \/ n >= 4^(k - 1))

\* From the highest bit down, a bit stays in the root if the square is not too
\* large with it.  1 shifted by LongBits or more is undefined in C: that is
\* when n has one of its two highest bits.
jam_square_root(n) ==
    LET order == SquareRootOrder(n)
        root[k \in 0..(order + 1)] ==
            IF k = order + 1 THEN 0
            ELSE LET above == root[k + 1] IN IF (above + 2^k)^2 <= n THEN above + 2^k ELSE above
    IN  IF 2 * order >= LongBits THEN Longs ELSE {root[0]}

\* The bits from lsb to msb, up or down; nothing says what a bit is that the
\* array does not have, nor where the bits above a long go.
jam_convert_bool_to_int(data, msb, lsb) ==
    LET step   == IF msb > lsb THEN 1 ELSE -1
        length == Magnitude(msb - lsb) + 1
    IN  IF {msb, lsb} \subseteq 0..(Len(data) - 1) /\ length <= LongBits
        THEN {Wrapped(MapThenSumSet(LAMBDA k : data[lsb + step * k + 1] * 2^k, 0..(length - 1)))}
        ELSE Longs

\* A literal: a 0 or a 1 may be a Boolean.
LiteralBase == [none |-> 10, POUND |-> 2, DOLLAR |-> 16]
IsOfBase(digits, base) == \A k \in DOMAIN digits : digits[k] < LiteralBase[base]
jam_constant_value(digits, base) ==
    FoldLeft(LAMBDA value, digit : LiteralBase[base] * value + digit, 0, digits)
\* Variant: a mark holds for the literals that follow, too.
BaseKept(base) == base

BaseAfterLiteral(base) == "none"
LiteralType(value) == IF value \in {0, 1} THEN "INT_OR_BOOL" ELSE "INTEGER"

-------------------------------------------------------------------------------
(***************************************************************************)
(* jam_exp_eval: an outcome is the operand and the return code that is     *)
(* set, "kept" if none is.                                                 *)
(***************************************************************************)
Operand(type, val) == [type |-> type, val |-> val, child_otype |-> "ADD", loper |-> 0, roper |-> 0]
OperandOf(child, val, loper, roper) ==
    [type |-> "INTEGER", val |-> val, child_otype |-> child, loper |-> loper, roper |-> roper]
NULL_EXP == Operand("ILLEGAL", 0)

Outcome(rtn, code) == [rtn |-> rtn, code |-> code]
OfInt(val) == {Outcome(Operand("INTEGER", val), "kept")}
OfBool(holds) == {Outcome(Operand("BOOLEAN", Truth(holds)), "kept")}
Wrong(code) == {Outcome(NULL_EXP, code)}
AnyInt(vals) == UNION {OfInt(val) : val \in vals}

\* Overflow is undefined in C: the value wraps, and the compiler may or may not
\* have left the test that would see it.
Checked(val, seen) ==
    OfInt(Wrapped(val)) \cup
    (IF val \notin Longs /\ seen THEN {Outcome(Operand("INTEGER", Wrapped(val)), "INTEGER_OVERFLOW")} ELSE {})

\* The test of ADD looks for a sum of the other sign, that of SUB at operands
\* of two signs, neither at the lowest long: its double, and its negative.
Arithmetic(otype, l, r) ==
    CASE otype = "ADD"  -> Checked(l + r, l + r # 2 * LowestLong)
      [] otype = "SUB"  -> Checked(l - r, l # 0)
      [] otype = "MULT" -> Checked(l * r, TRUE)

\* CEIL and FLOOR want to know what was divided.  MOD does not look at the
\* divisor.
Division(otype, l, r) ==
    CASE otype = "DIV" /\ r # 0 -> {Outcome(OperandOf("DIV", Wrapped(Quotient(l, r)), l, r), "kept")}
      [] otype = "DIV" /\ r = 0 -> Wrong("DIVIDE_BY_ZERO")
      [] otype = "MOD" /\ r # 0 -> OfInt(Remainder(l, r))
      [] OTHER                  -> Wrong("KILLED")

BitwiseOf(otype, l, r) ==
    CASE otype = "BITWISE_AND" -> OfInt(Wrapped(Unsigned(l) & Unsigned(r)))
      [] otype = "BITWISE_OR"  -> OfInt(Wrapped(Unsigned(l) | Unsigned(r)))
      [] otype = "BITWISE_XOR" -> OfInt(Wrapped(Unsigned(l) ^^ Unsigned(r)))

\* Undefined for a count that is negative or LongBits or more.
Shift(otype, l, count) ==
    IF count \notin 0..(LongBits - 1) THEN AnyInt(Longs)
    ELSE OfInt(IF otype = "LEFT_SHIFT" THEN Wrapped(l * 2^count) ELSE l \div 2^count)

Comparison(otype, l, r) ==
    CASE otype = "GREATER_THAN"     -> OfBool(l > r)
      [] otype = "LESS_THAN"        -> OfBool(l < r)
      [] otype = "GREATER_OR_EQUAL" -> OfBool(l >= r)
      [] otype = "LESS_OR_EQUAL"    -> OfBool(l <= r)

\* Booleans are 0 or 1.
Equality(otype, op1, op2) ==
    IF {op1.type, op2.type} \subseteq OfIntegers \/ {op1.type, op2.type} \subseteq OfBooleans
    THEN OfBool((op1.val = op2.val) = (otype = "EQUALITY"))
    ELSE Wrong("TYPE_MISMATCH")

Logic(otype, l, r) ==
    CASE otype = "NOT" -> OfBool(l = 0)
      [] otype = "AND" -> OfBool(l # 0 /\ r # 0)
      [] otype = "OR"  -> OfBool(l # 0 \/ r # 0)

Function(otype, n) ==
    CASE otype = "UMINUS"      -> OfInt(Wrapped(-n))
      [] otype = "ABS"         -> OfInt(Wrapped(Magnitude(n)))
      [] otype = "BITWISE_NOT" -> OfInt(-n - 1)
      [] otype = "LOG2" /\ n > 0 -> {Outcome(OperandOf("LOG2", CeilingOfLog2(n), n, 0), "kept")}
      [] otype = "SQRT" /\ n >= 0 ->
            {Outcome(OperandOf("SQRT", root, n, 0), "kept") : root \in jam_square_root(n)}
      [] OTHER -> Wrong("INTEGER_OVERFLOW")

\* One more if the division was not perfect, which is tested by multiplying the
\* wrong numbers, or the root was not.
Ceiling(op) ==
    LET above == CASE op.child_otype = "DIV"  -> Wrapped(op.loper * op.roper) # op.val
                   [] op.child_otype = "SQRT" -> Wrapped(op.val * op.val) < op.loper
                   [] OTHER                   -> FALSE
    IN  OfInt(Wrapped(op.val + Truth(above)))

\* The array is the one of the operand.
ElementOf(array, index) ==
    LET symbol == Symbols[array]
    IN  IF index \notin 0..(symbol.dimension - 1) THEN Wrong("BOUNDS_ERROR")
        ELSE {Outcome(Operand(IF symbol.type \in ArraysOfIntegers THEN "INTEGER" ELSE "BOOLEAN",
                              symbol.value[index + 1]), "SUCCESS")}

\* The array is a Boolean one, or there is a mismatch.
BitsOfArray(array, msb, lsb) ==
    IF Symbols[array].type \in ArraysOfBooleans
    THEN AnyInt(jam_convert_bool_to_int(Symbols[array].value, msb, lsb))
    ELSE Wrong("TYPE_MISMATCH")

TwoInts == {"ADD", "SUB", "MULT", "DIV", "MOD", "BITWISE_AND", "BITWISE_OR", "BITWISE_XOR", "LEFT_SHIFT",
            "RIGHT_SHIFT", "GREATER_THAN", "LESS_THAN", "GREATER_OR_EQUAL", "LESS_OR_EQUAL"}
TwoBools == {"AND", "OR"}
OneInt == {"UMINUS", "ABS", "BITWISE_NOT", "LOG2", "SQRT"}
Equalities == {"EQUALITY", "INEQUALITY"}

OfTwoInts(otype, l, r) ==
    CASE otype \in {"ADD", "SUB", "MULT"}                             -> Arithmetic(otype, l, r)
      [] otype \in {"DIV", "MOD"}                                     -> Division(otype, l, r)
      [] otype \in {"BITWISE_AND", "BITWISE_OR", "BITWISE_XOR"}       -> BitwiseOf(otype, l, r)
      [] otype \in {"LEFT_SHIFT", "RIGHT_SHIFT"}                      -> Shift(otype, l, r)
      [] OTHER                                                        -> Comparison(otype, l, r)

\* The second operand of FLOOR is none, and never of the type it wants.
FitsTheTypes(otype, op1, op2) ==
    CASE otype \in TwoInts \cup {"ARRAY_RANGE", "FLOOR"} -> {op1.type, op2.type} \subseteq OfIntegers
      [] otype \in TwoBools                              -> {op1.type, op2.type} \subseteq OfBooleans
      [] otype = "NOT"                                   -> op1.type \in OfBooleans
      [] otype \in OneInt \cup {"CIEL"}                  -> op1.type \in OfIntegers
      [] otype = "ARRAY" -> op1.type = "ARRAY_REFERENCE" /\ op2.type \in OfIntegers
      [] otype = "ARRAY_ALL" -> op1.type = "ARRAY_REFERENCE"
      [] OTHER -> TRUE

jam_exp_eval(otype, op1, op2) ==
    CASE ~FitsTheTypes(otype, op1, op2)       -> Wrong("TYPE_MISMATCH")
      [] otype \in TwoInts                    -> OfTwoInts(otype, op1.val, op2.val)
      [] otype \in TwoBools \cup {"NOT"}      -> Logic(otype, op1.val, op2.val)
      [] otype \in Equalities                 -> Equality(otype, op1, op2)
      [] otype \in OneInt                     -> Function(otype, op1.val)
      [] otype = "CIEL"                       -> Ceiling(op1)
      [] otype = "ARRAY"                      -> ElementOf(op1.val, op2.val)
      [] otype = "ARRAY_RANGE"                -> BitsOfArray(jam_array_symbol_rec, op1.val, op2.val)
      [] otype = "ARRAY_ALL"                  -> BitsOfArray(op1.val, Symbols[op1.val].dimension - 1, 0)
      [] OTHER                                -> OfInt(op1.val)

-------------------------------------------------------------------------------
(***************************************************************************)
(* jam_yylex and jam_yyparse                                               *)
(***************************************************************************)
Lexes(op) == answer = Unanswered /\ todo # <<>> /\ Head(todo).op = op /\ todo' = Tail(todo)
Push(operand) == operands' = Append(operands, operand)

\* The parser gives up.
Abort(code) ==
    /\ jam_return_code' = code
    /\ answer' = Failed(code)
    /\ UNCHANGED <<expression, operands, jam_expression_type>>

LexMark ==
    /\ Lexes("mark")
    /\ jam_expression_type' = Head(todo).mark
    /\ UNCHANGED <<expression, operands, jam_return_code, jam_array_symbol_rec, answer>>

\* A literal of the base ends it; any other is an operand without a type.
LexLiteral ==
    /\ Lexes("number")
    /\ LET digits == Head(todo).digits
           value  == jam_constant_value(digits, jam_expression_type)
       IN  IF IsOfBase(digits, jam_expression_type)
           THEN /\ Push(Operand(LiteralType(value), value))
                /\ jam_expression_type' = BaseAfterLiteral(jam_expression_type)
                /\ UNCHANGED jam_return_code
           ELSE /\ Push(NULL_EXP)
                /\ jam_return_code' = "SYNTAX_ERROR"
                /\ UNCHANGED jam_expression_type
    /\ UNCHANGED <<expression, jam_array_symbol_rec, answer>>

\* The return code of the search is the return code of the evaluation.
LexName ==
    /\ Lexes("name")
    /\ LET name == Head(todo).name
       IN  \/ /\ name \notin DOMAIN Symbols
              /\ Abort("UNDEFINED_SYMBOL")
              /\ UNCHANGED jam_array_symbol_rec
           \/ /\ name \in DOMAIN Symbols /\ Symbols[name].type \in ArraysOfBooleans \cup ArraysOfIntegers
              /\ jam_array_symbol_rec' = name
              /\ Abort("SYNTAX_ERROR")
           \/ /\ name \in DOMAIN Symbols /\ Symbols[name].type \in {"INTEGER", "BOOLEAN"}
              /\ Push(Operand(Symbols[name].type, Symbols[name].value))
              /\ jam_return_code' = "SUCCESS"
              /\ UNCHANGED <<expression, jam_array_symbol_rec, jam_expression_type, answer>>

LexArray ==
    /\ Lexes("array name")
    /\ LET name == Head(todo).name
       IN  \/ /\ name \notin DOMAIN Symbols
              /\ Abort("UNDEFINED_SYMBOL")
              /\ UNCHANGED jam_array_symbol_rec
           \/ /\ name \in DOMAIN Symbols
              /\ Push(Operand("ARRAY_REFERENCE", name))
              /\ jam_array_symbol_rec' = name
              /\ jam_return_code' = "SUCCESS"
              /\ UNCHANGED <<expression, jam_expression_type, answer>>

\* How many operands an operator takes from the stack: of a range, the array
\* and the bounds.
Arity(otype) ==
    CASE otype = "ARRAY_RANGE" -> 3
      [] otype \in TwoInts \cup TwoBools \cup Equalities \cup {"ARRAY"} -> 2
      [] OTHER -> 1

Lexed == {"mark", "number", "name", "array name"}

Reduce ==
    /\ todo # <<>> /\ Head(todo).op \notin Lexed /\ Lexes(Head(todo).op)
    /\ LET otype == Head(todo).op
           n     == Arity(otype)
           left  == SubSeq(operands, 1, Len(operands) - n)
           args  == SubSeq(operands, Len(operands) - n + 1, Len(operands))
           op1   == IF n = 3 THEN args[2] ELSE args[1]
           op2   == IF n = 1 THEN NULL_EXP ELSE Last(args)
       IN  \E outcome \in jam_exp_eval(otype, op1, op2) :
              \/ /\ outcome.code = "KILLED"
                 /\ Abort("KILLED")
              \/ /\ outcome.code # "KILLED"
                 /\ operands' = Append(left, outcome.rtn)
                 /\ jam_return_code' = IF outcome.code = "kept" THEN jam_return_code ELSE outcome.code
                 /\ UNCHANGED <<expression, jam_expression_type, answer>>
    /\ UNCHANGED jam_array_symbol_rec

Finish ==
    /\ answer = Unanswered /\ todo = <<>>
    /\ answer' = IF jam_return_code = "SUCCESS"
                 THEN Answer("SUCCESS", Last(operands).val, Last(operands).type)
                 ELSE Failed(jam_return_code)
    /\ UNCHANGED <<expression, todo, operands, jam_return_code, jam_array_symbol_rec, jam_expression_type>>

ExprNext == LexMark \/ LexLiteral \/ LexName \/ LexArray \/ Reduce \/ Finish

ExprSpec == ExprInit /\ [][ExprNext]_exprVars
===============================================================================
