------------------------------ MODULE JamArrays ------------------------------
(***************************************************************************)
(* The data of Jam programs: declarations of arrays and scalars (jamexec.c *)
(* and jamsym.c), assignments of arrays, ranges and elements, and the      *)
(* arrays of DRSCAN and IRSCAN, which send bits, capture them and compare  *)
(* them.  The texts of arrays are in JamLiterals, what a scan does to the  *)
(* chain in JamTap and the order of statements in JamExec.                 *)
(*                                                                         *)
(* A program here is the statements that are executed, one after another;  *)
(* a loop and a procedure that is called twice execute one twice.  Indices *)
(* and counts are numbers: expressions are in JamExpressions.              *)
(***************************************************************************)
EXTENDS JamLiterals

CONSTANT Programs \* sets of programs: records of language, statements, order

VARIABLES
    program,     \* what is executed
    step,        \* the next of its order
    jam_version, \* 0 until a statement tells
    symbols,     \* name -> [type, position, dimension, value]; an array without
                 \* a heap record has the value <<>>
    status,
    sent,        \* the bits of the last scan
    tdo          \* and what the chain answered

dataVars == <<program, step, jam_version, symbols, status, sent, tdo>>

(***************************************************************************)
(* An order is a sequence of [at, phase]: which statement, and in which    *)
(* phase of a Jam 2.0 program, "none" for Jam 1.1.  Phase and block go     *)
(* together: PROCEDURE statements are in a procedure, DATA ones are not.   *)
(*                                                                         *)
(* A statement is a record with op and                                     *)
(*   Boolean, IntegerArray: name, dimension, text (<<>> for none), means   *)
(*   BooleanScalar:         name, value                                    *)
(*   Assignment:            let, name, to, from                            *)
(*   Scan:                  register, count, data, then, array, mask, name *)
(* means is what the language says of the text: [is, bits], see            *)
(* DeclarationsMean.  An argument is a literal, [text], or a part of an    *)
(* array, [name, range] with one, two or no numbers.                       *)
(***************************************************************************)
Current == program.order[step]
Statement == program.statements[Current.at]
Phase == Current.phase

WritableBooleans == "BOOLEAN_ARRAY_WRITABLE"
InitializedBooleans == "BOOLEAN_ARRAY_INITIALIZED"
BooleanArrays == {WritableBooleans, InitializedBooleans}
IntegerArrays == {"INTEGER_ARRAY_WRITABLE", "INTEGER_ARRAY_INITIALIZED"}

Begins(p) ==
    /\ program = p
    /\ step = 1
    /\ jam_version = IF program.language = 2 THEN 2 ELSE 0
    /\ symbols = <<>>
    /\ status = "SUCCESS"
    /\ sent = <<>>
    /\ tdo = <<>>

DataInit == \E programs \in Programs : \E p \in programs : Begins(p)

Executes(op) == status = "SUCCESS" /\ step <= Len(program.order) /\ Statement.op = op
Advance == step' = step + 1 /\ UNCHANGED program

\* An error ends the program; nobody looks at its symbols then.
Stop(code) == status' = code /\ UNCHANGED <<symbols, sent, tdo>>
Store(name, symbol) ==
    /\ symbols' = name :> symbol @@ symbols
    /\ UNCHANGED <<status, sent, tdo>>

InPhase(phases) == jam_version' = 2 => Phase \in phases
SetsVersion(version) == jam_version' = IF jam_version = 0 THEN version ELSE jam_version

-------------------------------------------------------------------------------
(***************************************************************************)
(* Declarations                                                            *)
(***************************************************************************)
Symbol(type, position, dimension, value) ==
    [type |-> type, position |-> position, dimension |-> dimension, value |-> value]

\* Not in a DATA block of Jam 2.0.
Redeclared(old, value) ==
    IF jam_version' # 2 \/ Phase = "PROCEDURE" THEN value ELSE old.value

\* In a DATA block an array that was given its value is the one declared.
DeclaredType(type, old, position) ==
    IF /\ old.position = position /\ Phase = "DATA"
       /\ <<type, old.type>> \in {<<"INTEGER_ARRAY_WRITABLE", "INTEGER_ARRAY_INITIALIZED">>,
                                  <<WritableBooleans, InitializedBooleans>>}
    THEN old.type ELSE type

\* jam_add_symbol: the symbol there is then, or REDEFINED_SYMBOL.
AddSymbol(name, type, value, position) ==
    LET old == symbols[name]
    IN  IF name \notin DOMAIN symbols
        THEN [status |-> "SUCCESS", symbol |-> Symbol(type, position, 0, value)]
        ELSE IF old.type = DeclaredType(type, old, position) /\ old.position = position
        THEN [status |-> "SUCCESS", symbol |-> [old EXCEPT !.value = Redeclared(old, value)]]
        ELSE [status |-> "REDEFINED_SYMBOL", symbol |-> old]

Zeros(n) == [i \in 1..n |-> 0]
\* jam_add_heap_record: whole words of zeros; what is read is written over them.
Words(bits, dimension) ==
    bits \o Zeros(WordBits * ((dimension + WordBits - 1) \div WordBits) - Len(bits))

StoreRead(type, added, read) ==
    IF read.status # "SUCCESS" THEN Stop(read.status)
    ELSE Store(Statement.name, Symbol(type, added.position, Statement.dimension, read.bits))

FromText(read, dimension) == [read EXCEPT !.bits = Words(@, dimension)]

\* A Boolean array: one that already has a value keeps it.
DeclareBooleans(added) ==
    LET s == Statement
    IN  IF added.type # WritableBooleans \/ added.value # <<>> THEN Store(s.name, added)
        ELSE IF s.text = <<>> THEN StoreRead(added.type, added, Result("SUCCESS", Words(<<>>, s.dimension)))
        ELSE StoreRead(InitializedBooleans, added,
                       FromText(BooleanArrayData(s.text, s.dimension, jam_version'), s.dimension))

\* An array of integers is never INITIALIZED, and may not be declared again
\* while it has a value.
DeclareIntegers(added) ==
    LET s == Statement
    IN  IF added.value # <<>> THEN Stop("SYNTAX_ERROR")
        ELSE StoreRead(added.type, added,
                IF s.text = <<>> THEN Result("SUCCESS", Zeros(s.dimension))
                ELSE IntegerArrayData(s.text, s.dimension, jam_version'))

Declared(type, value) == AddSymbol(Statement.name, type, value, Current.at)

Boolean ==
    /\ Executes("Boolean")
    /\ Advance /\ SetsVersion(1)
    /\ LET added == Declared(WritableBooleans, <<>>)
       IN  IF ~InPhase({"PROCEDURE", "DATA"}) THEN Stop("PHASE_ERROR")
           ELSE IF added.status # "SUCCESS" THEN Stop(added.status)
           ELSE DeclareBooleans(added.symbol)

IntegerArray ==
    /\ Executes("IntegerArray")
    /\ Advance /\ UNCHANGED jam_version
    /\ LET added == Declared("INTEGER_ARRAY_WRITABLE", <<>>)
       IN  IF ~InPhase({"PROCEDURE", "DATA"}) THEN Stop("PHASE_ERROR")
           ELSE IF added.status # "SUCCESS" THEN Stop(added.status)
           ELSE DeclareIntegers(added.symbol)

BooleanScalar ==
    /\ Executes("BooleanScalar")
    /\ Advance /\ SetsVersion(1)
    /\ LET added == Declared("BOOLEAN", Statement.value)
       IN  IF ~InPhase({"PROCEDURE", "DATA"}) THEN Stop("PHASE_ERROR")
           ELSE IF added.status # "SUCCESS" THEN Stop(added.status)
           ELSE Store(Statement.name, added.symbol)

-------------------------------------------------------------------------------
(***************************************************************************)
(* Arguments: where the bits are, from the lowest.                         *)
(***************************************************************************)
NoBits(code) == [status |-> code, name |-> "none", data |-> <<>>, from |-> 0, to |-> 0]

\* jam_get_array_subrange: Jam 2.0 has the highest index first, and the whole
\* array for nothing.
Subrange(range, dimension) ==
    CASE Len(range) = 2 /\ jam_version = 2 -> [status |-> "SUCCESS", from |-> range[2], to |-> range[1]]
      [] Len(range) = 2 /\ jam_version # 2 -> [status |-> "SUCCESS", from |-> range[1], to |-> range[2]]
      [] range = <<>> /\ jam_version = 2   -> [status |-> "SUCCESS", from |-> 0, to |-> dimension - 1]
      [] OTHER                             -> [status |-> "SYNTAX_ERROR", from |-> 0, to |-> 0]

NamedArgument(argument) ==
    LET symbol == symbols[argument.name]
        range  == Subrange(argument.range, symbol.dimension)
    IN  IF argument.name \notin DOMAIN symbols THEN NoBits("UNDEFINED_SYMBOL")
        ELSE IF symbol.type \notin BooleanArrays THEN NoBits("TYPE_MISMATCH")
        ELSE IF range.status # "SUCCESS" THEN NoBits(range.status)
        ELSE IF ~({range.from, range.to} \subseteq 0..(symbol.dimension - 1)) THEN NoBits("BOUNDS_ERROR")
        ELSE [status |-> "SUCCESS", name |-> argument.name, data |-> symbol.value,
              from |-> range.from, to |-> range.to]

IsLiteral(argument) == "text" \in DOMAIN argument

AllBitsOf(literal) ==
    [status |-> literal.status, name |-> "none", data |-> literal.bits,
     from |-> 0, to |-> Len(literal.bits) - 1]

\* jam_get_array_argument
Argument(argument) ==
    IF IsLiteral(argument) THEN AllBitsOf(ArgumentLiteral(argument.text, jam_version))
    ELSE NamedArgument(argument)

\* An argument of exactly count bits; a literal, which has no name, may have
\* more.
OfCount(a, count) ==
    IF a.status = "SUCCESS" /\ a.to # a.from + count - 1 /\ ~(a.name = "none" /\ a.to > count - 1)
    THEN NoBits("BOUNDS_ERROR") ELSE a

\* count bits of it.
Taken(a, count) == SubSeq(a.data, a.from + 1, a.from + count)

\* data with bits from index on.
Written(data, from, bits) ==
    [i \in DOMAIN data |-> IF i - from \in DOMAIN bits THEN bits[i - from] ELSE data[i]]

-------------------------------------------------------------------------------
(***************************************************************************)
(* Assignments                                                             *)
(***************************************************************************)
\* Variant: the bits are taken from the start of the source.
CopiedFromTheStart(source, from, dest, begin, length, same) ==
    Written(dest, begin, SubSeq(source, 1, length))

\* jam_copy_array_subrange, one bit after the other: within one array a bit may
\* have been written before it is read.
Copied(source, from, dest, begin, length, same) ==
    LET copy[k \in 0..length] ==
            IF k = 0 THEN dest
            ELSE LET now == copy[k - 1]
                 IN  [now EXCEPT ![begin + k] = IF same THEN now[from + k] ELSE source[from + k]]
    IN  copy[length]

\* The array that is assigned to: its range, or why there is none.
Destination(name, range) ==
    LET symbol == symbols[name]
        part   == IF range = <<>> THEN [status |-> "SUCCESS", from |-> 0, to |-> symbol.dimension - 1]
                  ELSE Subrange(range, symbol.dimension)
    IN  IF name \notin DOMAIN symbols THEN NoBits("UNDEFINED_SYMBOL")
        ELSE IF symbol.type \in {InitializedBooleans, "INTEGER_ARRAY_INITIALIZED"} THEN NoBits("ASSIGN_TO_CONST")
        ELSE IF symbol.type \notin {WritableBooleans, "INTEGER_ARRAY_WRITABLE"} THEN NoBits("TYPE_MISMATCH")
        ELSE IF Len(range) # 1 /\ symbol.type # WritableBooleans THEN NoBits("SYNTAX_ERROR")
        ELSE IF Len(range) = 1 THEN [NoBits("SUCCESS") EXCEPT !.name = name, !.from = range[1]]
        ELSE IF ~({part.from, part.to} \subseteq 0..(symbol.dimension - 1)) THEN NoBits("BOUNDS_ERROR")
        ELSE [status |-> "SUCCESS", name |-> name, data |-> symbol.value, from |-> part.from, to |-> part.to]

Shorter(a, b) == IF a.to - a.from < b.to - b.from THEN 1 + a.to - a.from ELSE 1 + b.to - b.from

\* To a range or a whole array: as many bits as both have.
AssignBits(to, source) ==
    LET length == Shorter(source, to)
    IN  IF source.status # "SUCCESS" THEN Stop(source.status)
        ELSE IF length <= 0 THEN Stop("BOUNDS_ERROR")
        ELSE Store(to.name, [symbols[to.name] EXCEPT !.value =
                Copied(source.data, source.from, to.data, to.from, length, source.name = to.name)])

\* To one element: a number, 0 or 1 for a Boolean.
AssignElement(to, value) ==
    LET symbol == symbols[to.name]
    IN  IF symbol.type = WritableBooleans /\ value \notin {0, 1} THEN Stop("TYPE_MISMATCH")
        ELSE IF to.from \notin 0..(symbol.dimension - 1) THEN Stop("BOUNDS_ERROR")
        ELSE Store(to.name, [symbol EXCEPT !.value = Written(symbol.value, to.from, <<value>>)])

Assignment ==
    /\ Executes("Assignment")
    /\ Advance
    /\ SetsVersion(IF Statement.let THEN 1 ELSE 2)
    /\ LET s  == Statement
           to == Destination(s.name, s.to)
       IN  IF s.let = (jam_version' = 2) THEN Stop("SYNTAX_ERROR")
           ELSE IF ~InPhase({"PROCEDURE"}) THEN Stop("PHASE_ERROR")
           ELSE IF to.status # "SUCCESS" THEN Stop(to.status)
           ELSE IF Len(s.to) = 1 THEN AssignElement(to, s.from)
           ELSE AssignBits(to, Argument(s.from))

-------------------------------------------------------------------------------
(***************************************************************************)
(* DRSCAN and IRSCAN.  The chain answers any bits.                         *)
(***************************************************************************)
Agrees(actual, expected, mask) ==
    \A i \in DOMAIN actual : mask[i] = 1 => actual[i] = expected[i]

\* The result is a Boolean scalar.
ResultStatus(name) ==
    IF name \notin DOMAIN symbols THEN "UNDEFINED_SYMBOL"
    ELSE IF symbols[name].type # "BOOLEAN" THEN "TYPE_MISMATCH" ELSE "SUCCESS"

FirstFailure(statuses) ==
    LET failures == {k \in DOMAIN statuses : statuses[k] # "SUCCESS"}
    IN  IF failures = {} THEN "SUCCESS" ELSE statuses[Min(failures)]

\* What COMPARE needs, in the order in which it looks.
CompareStatus(array, mask, name, count) ==
    FirstFailure(<<OfCount(array, count).status, OfCount(mask, count).status, ResultStatus(name)>>)

\* The symbols after COMPARE of what was read.
Compared(name, array, mask, actual) ==
    [symbols EXCEPT ![name].value =
        IF Agrees(actual, Taken(array, Len(actual)), Taken(mask, Len(actual))) THEN 1 ELSE 0]

\* The array of CAPTURE is not a literal.
CaptureStatus(array, count) ==
    IF array.status = "SUCCESS" /\ array.name = "none" THEN "SYNTAX_ERROR"
    ELSE OfCount(array, count).status

\* Variant: what was read is written at the start of the array.
CapturedAtTheStart(array, actual) == [symbols EXCEPT ![array.name].value = Written(@, 0, actual)]

\* Also into an INITIALIZED array.
Captured(array, actual) == [symbols EXCEPT ![array.name].value = Written(@, array.from, actual)]

DrCompared(name, array, mask, actual) == Compared(name, array, mask, actual)
IrCompared(name, array, mask, actual) == Compared(name, array, mask, actual)
DrCaptured(array, actual) == Captured(array, actual)
IrCaptured(array, actual) == Captured(array, actual)

\* Bits that the data argument does not have are not considered.
ScanBits(s, data, array, mask) ==
    LET refused == CASE s.then = "none"    -> "SUCCESS"
                     [] s.then = "CAPTURE" -> CaptureStatus(array, s.count)
                     [] s.then = "COMPARE" -> CompareStatus(array, mask, s.name, s.count)
    IN  IF ~InPhase({"PROCEDURE"}) THEN Stop("PHASE_ERROR")
        ELSE IF data.status # "SUCCESS" THEN Stop(data.status)
        ELSE IF refused # "SUCCESS" THEN Stop(refused)
        ELSE /\ tdo' \in [1..s.count -> {0, 1}]
             /\ sent' = Taken(data, s.count)
             /\ symbols' = CASE s.then = "none" -> symbols
                             [] s.then = "CAPTURE" /\ s.register = "DR" -> DrCaptured(array, tdo')
                             [] s.then = "CAPTURE" /\ s.register = "IR" -> IrCaptured(array, tdo')
                             [] s.then = "COMPARE" /\ s.register = "DR" -> DrCompared(s.name, array, mask, tdo')
                             [] s.then = "COMPARE" /\ s.register = "IR" -> IrCompared(s.name, array, mask, tdo')
             /\ UNCHANGED status

Scan(s) == ScanBits(s, Argument(s.data), Argument(s.array), Argument(s.mask))

DrScan == Executes("Scan") /\ Statement.register = "DR" /\ Advance /\ UNCHANGED jam_version /\ Scan(Statement)
IrScan == Executes("Scan") /\ Statement.register = "IR" /\ Advance /\ UNCHANGED jam_version /\ Scan(Statement)

DataNext == Boolean \/ IntegerArray \/ BooleanScalar \/ Assignment \/ DrScan \/ IrScan

DataSpec == DataInit /\ [][DataNext]_dataVars

-------------------------------------------------------------------------------
(***************************************************************************)
(* Properties.  What a text and a range mean is told by the program that   *)
(* is executed, not read from them: means of a declaration, bits of a      *)
(* literal argument (<<>> for none), and the order of a range's numbers.   *)
(***************************************************************************)
Allowed(phases) == program.language = 2 => Phase \in phases

Low(range) == IF program.language = 2 THEN range[2] ELSE range[1]
High(range) == IF program.language = 2 THEN range[1] ELSE range[2]
IsPart(range, dimension) ==
    Len(range) = 2 /\ 0 <= Low(range) /\ Low(range) <= High(range) /\ High(range) < dimension

\* An argument that names bits, and those bits, the lowest first.  Only
\* Jam 2.0 may leave the range out.
IsBits(argument) ==
    IF IsLiteral(argument) THEN argument.bits # <<>>
    ELSE /\ argument.name \in DOMAIN symbols
         /\ symbols[argument.name].type \in BooleanArrays
         /\ IF argument.range = <<>> THEN program.language = 2
            ELSE IsPart(argument.range, symbols[argument.name].dimension)
FirstIndex(argument) == IF IsLiteral(argument) \/ argument.range = <<>> THEN 0 ELSE Low(argument.range)
NamedBits(argument) ==
    IF IsLiteral(argument) THEN argument.bits
    ELSE LET symbol == symbols[argument.name]
         IN  IF argument.range = <<>> THEN SubSeq(symbol.value, 1, symbol.dimension)
             ELSE SubSeq(symbol.value, Low(argument.range) + 1, High(argument.range) + 1)

OthersKept(name) == \A other \in DOMAIN symbols \ {name} : symbols'[other] = symbols[other]
Changed(name) == [symbols EXCEPT ![name].value = symbols'[name].value] = symbols'

Starts(s) == s.op = "BooleanScalar" \/ s.text = <<>> \/ s.means.is = "ok"
IsOpen(s) == ~Starts(s) /\ s.means.is = "open"
StartValue(s) ==
    IF s.op = "BooleanScalar" THEN s.value
    ELSE IF s.text = <<>> THEN Zeros(s.dimension) ELSE s.means.bits
ValueOf(symbol) ==
    IF symbol.dimension = 0 THEN symbol.value ELSE SubSeq(symbol.value, 1, symbol.dimension)

\* A declaration gives an array or a scalar the value its text means - read
\* from the statement buffer or, if it was too long for it, found again in the
\* file - or zeros, and the same again when it is executed again, except that
\* a DATA block keeps what is there; a text that means nothing is refused.
DeclarationsMean ==
    [][(step' # step /\ Statement.op \in {"Boolean", "IntegerArray", "BooleanScalar"}) =>
        LET s     == Statement
            again == s.name \in DOMAIN symbols
        IN  /\ ~Allowed({"PROCEDURE", "DATA"}) => status' # "SUCCESS"
            /\ (again /\ symbols[s.name].position # Current.at) => status' # "SUCCESS"
            /\ (~again /\ Allowed({"PROCEDURE", "DATA"}) /\ ~IsOpen(s)) => (status' = "SUCCESS" <=> Starts(s))
            /\ (status' = "SUCCESS" /\ ~IsOpen(s)) =>
                  ValueOf(symbols'[s.name]) =
                      IF again /\ Phase = "DATA" THEN ValueOf(symbols[s.name]) ELSE StartValue(s)
            /\ OthersKept(s.name)]_dataVars

\* What is assigned can be, and is an element or as many bits as there are on
\* both sides.
CanBeAssigned(s) ==
    LET symbol == symbols[s.name]
    IN  /\ s.let = (program.language = 1) /\ Allowed({"PROCEDURE"})
        /\ s.name \in DOMAIN symbols
        /\ IF Len(s.to) = 1
           THEN /\ symbol.type \in {WritableBooleans, "INTEGER_ARRAY_WRITABLE"}
                /\ s.to[1] \in 0..(symbol.dimension - 1)
                /\ symbol.type = WritableBooleans => s.from \in {0, 1}
           ELSE /\ symbol.type = WritableBooleans
                /\ s.to = <<>> \/ IsPart(s.to, symbol.dimension)
                /\ IsBits(s.from)

AssignedBits(s) ==
    IF Len(s.to) = 1 THEN <<s.from>>
    ELSE LET room == IF s.to = <<>> THEN symbols[s.name].dimension ELSE High(s.to) - Low(s.to) + 1
         IN  Prefix(NamedBits(s.from), room)

AssignedFrom(s) == CASE Len(s.to) = 0 -> 0 [] Len(s.to) = 1 -> s.to[1] [] OTHER -> Low(s.to)

\* A copy within one array that moves bits up, over bits that are still to be
\* copied.
CopiesUpward(s) ==
    LET from == FirstIndex(s.from)
    IN  /\ Len(s.to) # 1 /\ ~IsLiteral(s.from) /\ s.from.name = s.name
        /\ from < AssignedFrom(s) /\ AssignedFrom(s) < from + Len(AssignedBits(s))

\* An assignment copies the source's bits as they were before, from its lowest
\* to the target's lowest, and changes nothing else; where the target is
\* INITIALIZED or a range is not one of its array it is refused.  Not claimed
\* of a copy upward within one array.
AssignedIsSource ==
    [][(step' # step /\ Statement.op = "Assignment") =>
        LET s    == Statement
            new  == symbols'[s.name].value
            bits == AssignedBits(s)
            at   == AssignedFrom(s)
        IN  /\ status' = "SUCCESS" <=> CanBeAssigned(s)
            /\ status' # "SUCCESS" => symbols' = symbols
            /\ status' = "SUCCESS" =>
                  /\ Changed(s.name)
                  /\ \A i \in DOMAIN new : i - at \notin DOMAIN bits => new[i] = symbols[s.name].value[i]
                  /\ ~CopiesUpward(s) => SubSeq(new, at + 1, at + Len(bits)) = bits]_dataVars

FitsCount(argument, count) ==
    IsBits(argument) /\ (Len(NamedBits(argument)) = count \/ (IsLiteral(argument) /\ Len(argument.bits) > count))
CanFollow(s, count) ==
    CASE s.then = "none"    -> TRUE
      [] s.then = "CAPTURE" -> ~IsLiteral(s.array) /\ FitsCount(s.array, count)
      [] s.then = "COMPARE" -> /\ FitsCount(s.array, count) /\ FitsCount(s.mask, count)
                               /\ s.name \in DOMAIN symbols /\ symbols[s.name].type = "BOOLEAN"

\* A scan sends the bits that its argument names, the lowest first, and only
\* they tell: CAPTURE puts the chain's answer into exactly the bits of its
\* range, COMPARE is true when the answer is what was expected wherever the
\* mask says so, and what does not fit the scan is refused before it.
ScansMoveTheNamedBits ==
    [][(step' # step /\ Statement.op = "Scan") =>
        LET s     == Statement
            array == s.array
            legal == Allowed({"PROCEDURE"}) /\ IsBits(s.data) /\ CanFollow(s, s.count)
        IN  /\ status' = "SUCCESS" <=> legal
            /\ (~legal \/ s.then = "none") => symbols' = symbols
            /\ legal => sent' = SubSeq(NamedBits(s.data), 1, s.count)
            /\ (legal /\ s.then = "CAPTURE") =>
                  /\ Changed(array.name)
                  /\ \A i \in DOMAIN symbols[array.name].value :
                        symbols'[array.name].value[i] =
                            IF i - FirstIndex(array) \in 1..s.count THEN tdo'[i - FirstIndex(array)]
                            ELSE symbols[array.name].value[i]
            /\ (legal /\ s.then = "COMPARE") =>
                  /\ Changed(s.name)
                  /\ symbols'[s.name].value = 1 <=>
                        \A k \in 1..s.count : NamedBits(s.mask)[k] = 1 => tdo'[k] = NamedBits(array)[k]]_dataVars
===============================================================================
