------------------------------- MODULE MCJamData -------------------------------
(***************************************************************************)
(* Programs for JamArrays and JamVectors: declarations of every            *)
(* representation, assignments between all ranges, scans and vectors; and  *)
(* the expressions of MCJamExpressions, which share no state with them.    *)
(***************************************************************************)
EXTENDS JamVectors, MCJamExpressions

VARIABLE concern \* "data" or "expressions"

-------------------------------------------------------------------------------
(***************************************************************************)
(* Texts: what is after the equals sign, and what it means.                *)
(***************************************************************************)
Text(dimension, text, is, bits) ==
    [dimension |-> dimension, text |-> text, means |-> [is |-> is, bits |-> bits]]
Means(text, bits) == Text(Len(bits), text, "ok", bits)

Spread(chars) == FlattenSeq([i \in DOMAIN chars |-> <<chars[i], Space>>])
Listed(chars) == Tail(FlattenSeq([i \in DOMAIN chars |-> <<Comma, chars[i]>>]))

Sum(bits) == MapThenSumSet(LAMBDA i : bits[i] * 2^(i - 1), DOMAIN bits)
\* Numbers of the bits taken n at a time, the lowest first.
Groups(bits, n) ==
    [k \in 1..((Len(bits) + n - 1) \div n) |-> Sum(SubSeq(bits, n * (k - 1) + 1, Min({n * k, Len(bits)})))]
InBits(number, n) == CHOOSE bits \in [1..n -> {0, 1}] : Sum(bits) = number
BytesInBits(bytes) == FlattenSeq([k \in DOMAIN bytes |-> InBits(bytes[k], 8)])

\* Runs of zeros and ones, each with its length in one character.
RunLengths(bits) ==
    FoldLeft(LAMBDA runs, bit :
                IF Len(runs) > 1 /\ runs[Len(runs) - 1] = 10 + 8 * bit THEN Front(runs) \o <<Last(runs) + 1>>
                ELSE runs \o <<10 + 8 * bit, 1>>, <<>>, bits)
\* The first two bits in runs, the rest as they are.
Mixed(bits) ==
    LET rest == SubSeq(bits, 3, Len(bits))
    IN  RunLengths(SubSeq(bits, 1, 2)) \o <<27, 0, Len(rest)>> \o Groups(rest, 6)

\* Compressed: the length, and literals or copies of [offset, n].  An offset
\* is one of as far as is allowed to look back.
Farthest(language) == IF language = 2 THEN MatchDataLength - 1 ELSE MatchDataLength
OffsetWidth(written, language) ==
    CHOOSE n \in 1..8 : LET far == Min({written, Farthest(language)}) IN far \in (2^(n - 1))..(2^n - 1)
Copy(offset, n, written, language) == <<1>> \o InBits(offset, OffsetWidth(written, language)) \o InBits(n, 8)
Compressed(length, bits) == Groups(BytesInBits(<<length, 0, 0, 0>>) \o bits, 6)
OneByte(byte) == Compressed(1, <<0>> \o InBits(byte, 8))
Three == <<0>> \o BytesInBits(<<1, 2, 3>>)
\* The first of three bytes once more, then four bytes from as far as is allowed.
EightBytes(language) == Compressed(8, Three \o Copy(3, 1, 3, language) \o Copy(Farthest(language), 4, 4, language))
OfEight(language) == BytesInBits(<<1, 2, 3, 1>> \o IF language = 2 THEN <<2, 3, 1, 2>> ELSE <<1, 2, 3, 1>>)
FiveBytes == Compressed(5, Three \o <<0>> \o BytesInBits(<<77, 88>>))

Fours == [1..4 -> {0, 1}]
Tens == {<<1, 1, 0, 1, 0, 0, 1, 0, 0, 0>>, <<0, 0, 0, 0, 0, 0, 0, 1, 1, 1>>, <<1, 0, 1, 1, 1, 1, 1, 1, 0, 1>>}
Fourteen == <<1, 1, 0, 1, 0, 0, 1, 0, 0, 0, 1, 1, 1, 0>>
Bits == Fours \cup Tens \cup {Fourteen}

\* In a language, with the keyword or the mark before the characters; a space
\* after the equals sign, or not.
InLanguage(language, rep, chars) ==
    LET mark == CASE rep = "BIN" -> Pound [] rep = "HEX" -> Dollar [] OTHER -> At
        word == CASE rep = "BIN" -> BIN [] rep = "HEX" -> HEX [] rep = "RLC" -> RLC [] rep = "ACA" -> ACA
    IN  (IF language = 2 THEN <<mark>> ELSE word \o <<Space>>) \o chars \o <<Semicolon>>
Ordered(language, chars) == IF language = 2 THEN Reverse(chars) ELSE chars

BinText(language, bits) == InLanguage(language, "BIN", Ordered(language, bits))
HexText(language, bits) == InLanguage(language, "HEX", Ordered(language, Groups(bits, 4)))

GoodTexts(language) ==
    UNION {{Means(<<Space>> \o text, bits) : text \in {
              BinText(language, bits), HexText(language, bits),
              InLanguage(language, "BIN", <<Remark>> \o Spread(Ordered(language, bits))),
              InLanguage(language, "HEX", Spread(Ordered(language, Groups(bits, 4))))}} : bits \in Bits} \cup
    {Means(<<Space, Space>> \o HexText(language, bits), bits) : bits \in Tens} \cup
    {Means(<<Space>> \o InLanguage(language, "ACA", OneByte(85)), InBits(85, 8)),
     Means(<<Space>> \o InLanguage(language, "ACA", FiveBytes), BytesInBits(<<1, 2, 3, 77, 88>>)),
     Means(<<Space>> \o InLanguage(language, "ACA", EightBytes(language)), OfEight(language))} \cup
    IF language = 2 THEN {}
    ELSE UNION {{Means(<<Space>> \o InLanguage(1, "RLC", RunLengths(bits)), bits),
                 Means(<<Space>> \o InLanguage(1, "RLC", Mixed(bits)), bits),
                 Means(<<Space>> \o Listed(bits) \o <<Semicolon>>, bits),
                 Means(<<Space, Remark, Space>> \o Spread(Listed(bits)) \o <<Semicolon>>, bits)} : bits \in Bits} \cup
         {Means(<<Space>> \o InLanguage(1, "RLC", <<11, 1, 6, 18, 2>>), [i \in 1..72 |-> IF i > 70 THEN 1 ELSE 0])}

\* Too few and too many bits, characters of no base, no representation, lengths
\* that are not the array's.
BadTexts(language) ==
    {Text(d, <<Space>> \o BinText(language, bits), "wrong", <<>>) : d \in {3, 5}, bits \in {<<1, 1, 0, 1>>}} \cup
    {Text(d, <<Space>> \o BinText(language, bits), "wrong", <<>>) : d \in {9, 11}, bits \in Tens} \cup
    {Text(8, <<Space>> \o HexText(language, <<1, 1, 0, 1>>), "wrong", <<>>),
     Text(4, <<Space>> \o InLanguage(language, "BIN", <<0, 2, 0, 1>>), "wrong", <<>>),
     Text(4, <<Space>> \o InLanguage(language, "HEX", <<16>>), "wrong", <<>>),
     Text(16, <<Space>> \o InLanguage(language, "ACA", OneByte(85)), "wrong", <<>>),
     Text(8, <<Space>> \o InLanguage(language, "ACA", FiveBytes), "wrong", <<>>),
     Text(8, <<Space>> \o InLanguage(language, "ACA", <<1, Comma>>), "wrong", <<>>),
     Text(4, <<Space, 25, Semicolon>>, "wrong", <<>>), Text(4, <<Space, Semicolon>>, "wrong", <<>>)} \cup
    IF language = 2 THEN {}
    ELSE {Text(4, <<Space>> \o InLanguage(1, "RLC", chars), "wrong", <<>>) :
             chars \in {<<10, 5>>, <<10, 3>>, <<25, 4>>, <<10, 4, 18, 1>>, <<26, 4>>}} \cup
         {Text(d, <<Space>> \o Listed(bits) \o <<Semicolon>>, "wrong", <<>>) : d \in {3, 5}, bits \in {<<1, 1, 0, 1>>}} \cup
         {Text(d, <<Space>> \o Listed(bits) \o <<Semicolon>>, "wrong", <<>>) : d \in {9, 11}, bits \in Tens} \cup
         {Text(2, <<Space, 1, Comma, 2, Semicolon>>, "wrong", <<>>)}

\* Read from the file, a text is looked for after a space, and the end of HEX
\* data is not looked for.
OpenTexts(language) ==
    {Text(10, text, "open", <<>>) : text \in {BinText(language, bits) : bits \in Tens}} \cup
    {Text(4, <<Space>> \o InLanguage(language, "HEX", Spread(Groups(Fourteen, 4)) \o <<1, 1>>), "open", <<>>)}

IntegerTexts(language) ==
    {Means(chars \o <<Semicolon>>, Ordered(language, <<5, 7>>)) :
        chars \in {<<Space, 5, Comma, 7>>, <<5, Space, Comma, 0, 7, Comma>>}} \cup
    {Text(d, <<Space, 5, Comma, 7, Semicolon>>, "wrong", <<>>) : d \in {1, 3}} \cup
    {Text(1, <<Space, 20, Semicolon>>, "wrong", <<>>)}

-------------------------------------------------------------------------------
(***************************************************************************)
(* Programs                                                                *)
(***************************************************************************)
Declare(name, t) == [op |-> "Boolean", name |-> name, dimension |-> t.dimension, text |-> t.text, means |-> t.means]
Plain(n) == Text(n, <<>>, "ok", <<>>)
Integers2(t) == [Declare("I", t) EXCEPT !.op = "IntegerArray"]
Scalar(value) == [op |-> "BooleanScalar", name |-> "b", value |-> value]
Assign(language, name, to, from) ==
    [op |-> "Assignment", let |-> language = 1, name |-> name, to |-> to, from |-> from]
Of(name, range) == [name |-> name, range |-> range]
Part(language, name, low, high) == Of(name, IF language = 2 THEN <<high, low>> ELSE <<low, high>>)
Literal(text, bits) == [text |-> text, bits |-> bits]
\* Literals have the lowest digit last.
HexMark(language) == IF language = 2 THEN <<Dollar>> ELSE <<>>
HexArgument(language, bits) ==
    Literal(HexMark(language) \o Reverse(Groups(bits, 4)),
            bits \o [i \in 1..((4 - (Len(bits) % 4)) % 4) |-> 0])
BinaryArgument(bits) == Literal(<<Pound>> \o Spread(Reverse(bits)), bits)

In(phase, places) == [k \in DOMAIN places |-> [at |-> places[k], phase |-> phase]]
Program(language, statements, order) == [language |-> language, statements |-> statements, order |-> order]
\* The statements, one after the other.
InOrder(language, statements) ==
    Program(language, statements,
            In(IF language = 2 THEN "PROCEDURE" ELSE "none", [k \in DOMAIN statements |-> k]))

\* Orders of three statements: once, the first twice, the second between, and
\* in blocks.
Orders(language) ==
    IF language = 1 THEN {In("none", places) : places \in {<<1, 2, 3>>, <<1, 1>>, <<1, 2, 1>>}}
    ELSE {In("PROCEDURE", places) : places \in {<<1, 2, 3>>, <<1, 1>>, <<1, 2, 1>>}} \cup
         {In("DATA", <<1>>) \o In("PROCEDURE", <<2>>) \o In("DATA", <<1>>), In("DATA", <<1, 1>>), In("NOTE", <<1>>)}

WholeOf(language, name, n) == Part(language, name, 0, n - 1)

Declarations(language) ==
    {{Program(language, <<Declare("A", t), Declare("B", Plain(t.dimension)),
                         Assign(language, "B", <<>>, WholeOf(language, "A", t.dimension))>>, order) :
        t \in GoodTexts(language) \cup BadTexts(language) \cup OpenTexts(language), order \in Orders(language)},
     {Program(language, <<first, second, first>>, order) :
        first \in {Declare("A", Plain(4)), Integers2(Plain(4)), Scalar(1)},
        second \in {Assign(language, name, <<1>>, 1) : name \in {"A", "I"}}, order \in Orders(language)},
     {Program(language, <<Integers2(t), Assign(language, "I", <<1>>, 3), Integers2(t)>>, order) :
        t \in IntegerTexts(language), order \in Orders(language)},
     {Program(language, <<Scalar(1), Declare("A", Plain(1)),
                         [op |-> "Scan", register |-> "DR", count |-> 1, data |-> WholeOf(language, "A", 1),
                          then |-> "COMPARE", array |-> one, mask |-> one, name |-> "b"], Scalar(1)>>,
             In(IF language = 2 THEN "PROCEDURE" ELSE "none", <<1, 2, 3>>) \o last) :
        one \in {HexArgument(language, <<1>>)},
        last \in IF language = 2 THEN {In("DATA", <<1>>), In("PROCEDURE", <<1>>)} ELSE {In("none", <<1>>)}}}

\* A of five bits, C that keeps its five, B of three, integers I and b.
Five == <<1, 1, 0, 1, 0>>
Declared5(language) ==
    <<Declare("C", Means(<<Space>> \o BinText(language, Five), Five)), Declare("A", Plain(5)), Declare("B", Plain(3)),
      Integers2(Plain(3)), Scalar(0), Assign(language, "A", <<>>, WholeOf(language, "C", 5))>>

Bounds == {<<0, 4>>, <<0, 2>>, <<1, 3>>, <<2, 4>>, <<1, 2>>, <<3, 3>>, <<2, 1>>, <<3, 0>>, <<3, 5>>}
Parts(name) == {Of(name, range) : range \in Bounds \cup {<<b[2], b[1]>> : b \in Bounds}}
Arguments(language) ==
    Parts("A") \cup Parts("C") \cup {Of("A", <<>>), Of("I", <<0, 0>>), Of("u", <<0, 0>>), Of("A", <<1>>)} \cup
    {HexArgument(language, <<1, 0, 1, 1, 0, 1>>), Literal(HexMark(language) \o <<9, 20>>, <<>>)} \cup
    IF language = 2
    THEN {BinaryArgument(<<1, 0, 0>>), Literal(<<Pound, 1, 2>>, <<>>), Literal(<<At>> \o OneByte(85), InBits(85, 8)),
          Literal(<<11, 24, 24, 21, 6>>, InBits(6, WordBits))}
    ELSE {}

Assignments(language) ==
    {{InOrder(language, Append(Declared5(language), Assign(language, "A", a.range, argument))) :
        a \in Parts("A") \cup {Of("A", <<>>)}, argument \in Arguments(language)},
     {InOrder(language, Append(Declared5(language), Assign(language, name, to, Part(language, "C", 1, 3)))) :
        name \in {"B", "C", "I", "b"}, to \in {<<>>, <<0, 2>>, <<2, 0>>}},
     {InOrder(language, Append(Declared5(language), Assign(language, name, <<i>>, value))) :
        name \in {"A", "C", "I", "b"}, i \in {0, 2, 4, 5}, value \in {0, 1, 2}},
     {Program(language, Append(Declared5(language), Assign(3 - language, "A", <<1>>, 1)),
             InOrder(language, [k \in 1..7 |-> k]).order)}}

\* Scans.
ScanOf(register, count, data, then, array, mask, name) ==
    [op |-> "Scan", register |-> register, count |-> count, data |-> data, then |-> then,
     array |-> array, mask |-> mask, name |-> name]
SomeArguments(language) ==
    {Part(language, "A", 1, 3), Part(language, "C", 2, 4), Part(language, "B", 0, 2), Part(language, "A", 0, 4),
     Of("u", <<0, 0>>), HexArgument(language, <<1, 0, 1>>)}
Masks(language) == {Part(language, "C", 1, 3), HexArgument(language, <<0, 0, 0>>), HexArgument(language, <<1, 1>>),
                    Part(language, "A", 3, 1), Part(language, "I", 0, 2)}
Scans(language) ==
    LET data == {Part(language, "A", 1, 3), Part(language, "C", 2, 4), HexArgument(language, <<1, 1, 0>>)}
        none == Of("u", <<>>)
    IN  {{InOrder(language, Append(Declared5(language), scan)) : scan \in
            {ScanOf(r, 3, d, "none", none, none, "b") : r \in {"DR", "IR"}, d \in data \cup {Of("u", <<0, 0>>)}} \cup
            {ScanOf(r, 3, d, "CAPTURE", a, none, "b") : r \in {"DR", "IR"}, d \in data, a \in SomeArguments(language)} \cup
            {ScanOf(r, 3, d, "COMPARE", a, m, name) : r \in {"DR", "IR"}, d \in data,
                a \in SomeArguments(language), m \in Masks(language), name \in {"b", "A", "u"}}}}

\* Vectors, over pins that can be written (TCK, DATA) and read (NSTATUS, TDO).
MCVectorSignals ==
    <<[name |-> "TCK", bit |-> 0], [name |-> "TDO", bit |-> 7], [name |-> "DCLK", bit |-> 0],
      [name |-> "DATA", bit |-> 6], [name |-> "TCK", bit |-> 0], [name |-> "NSTATUS", bit |-> 4]>>
VectorOf(dir, data, then, array, mask) ==
    [op |-> "Vector", dir |-> dir, data |-> data, then |-> then, array |-> array, mask |-> mask, name |-> "b"]
VmapOf(names) == [op |-> "Vmap", names |-> names]
NameLists == {<<"TCK", "NSTATUS", "DATA">>, <<"DATA", "TDO", "NSTATUS">>, <<"TCK", "TCK", "TDO">>, <<"DCLK", "TCK", "NSTATUS">>}
BadNames == {<<"TCK", "TMS">>, <<"TCK", "TCK", "TCK">>, <<"TCK", "">>}
VectorBits(language) == {HexArgument(language, bits) : bits \in [1..3 -> {0, 1}]}
Captures(language) ==
    {Part(language, "A", 0, 2), Part(language, "C", 0, 2), Part(language, "A", 0, 3), HexArgument(language, <<1, 0, 1>>)}

Vectors(language) ==
    {{InOrder(language, Declared5(language) \o <<VmapOf(names), VectorOf(dir, data, "none", data, data)>>) :
        names \in NameLists, dir \in VectorBits(language), data \in VectorBits(language) \cup {WholeOf(language, "C", 5)}},
     {InOrder(language, Declared5(language) \o <<VmapOf(names), VectorOf(dir, data, "CAPTURE", array, data)>>) :
        names \in NameLists, dir \in VectorBits(language), data \in {HexArgument(language, <<1, 0, 0>>)},
        array \in Captures(language)},
     {InOrder(language, Declared5(language) \o <<VmapOf(names), VectorOf(dir, data, "COMPARE", array, mask)>>) :
        names \in NameLists, dir \in VectorBits(language), data \in {Of("C", <<>>), HexArgument(language, <<1, 0, 0>>)},
        array \in Captures(language), mask \in VectorBits(language)},
     {InOrder(language, <<VmapOf(names)>>) : names \in BadNames},
     {Program(2, <<VmapOf(names)>>, In("NOTE", <<1>>)) : names \in NameLists},
     {Program(2, Declared5(2) \o <<VmapOf(names), VectorOf(data, data, "none", data, data)>>,
              In("PROCEDURE", [k \in 1..7 |-> k]) \o In("NOTE", <<8>>)) :
        names \in NameLists, data \in VectorBits(2)}}

MCPrograms ==
    UNION {Declarations(language) \cup Assignments(language) \cup Scans(language) \cup Vectors(language) :
              language \in {1, 2}}

MCFileStart == <<23, 24, 29, 14>>

-------------------------------------------------------------------------------
(***************************************************************************)
(* One behaviour is of one concern.                                        *)
(***************************************************************************)
jamDataVars == <<dataVars, vectorVars, exprVars, concern>>

DataStarts == concern = "data" /\ VectorInit /\ Evaluates(Zero)
ExpressionStarts ==
    /\ concern = "expressions" /\ ExprInit
    /\ Begins(Program(1, <<>>, <<>>)) /\ Unmapped /\ specified_com_port = FALSE
JamDataInit == DataStarts \/ ExpressionStarts

JamDataNext ==
    /\ UNCHANGED concern
    /\ \/ concern = "data" /\ VectorNext /\ UNCHANGED exprVars
       \/ concern = "expressions" /\ ExprNext /\ UNCHANGED <<dataVars, vectorVars>>

JamDataSpec == JamDataInit /\ [][JamDataNext]_jamDataVars
===============================================================================
