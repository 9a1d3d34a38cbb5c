----------------------------- MODULE JamLiterals -----------------------------
(***************************************************************************)
(* The texts of arrays in Jam programs (jamarray.c, jamcomp.c and the      *)
(* literals of jamexec.c): how the initial value of an array is found and  *)
(* read, in the statement buffer when it fits and else from the file, and  *)
(* how a literal argument is converted.                                    *)
(*                                                                         *)
(* A character is a number: 0..63 are the characters of jam_6bit_char      *)
(* (digits, upper case, lower case, underscore, at), the others follow.    *)
(* A text is what follows the equals sign, or the argument's text.  A      *)
(* comment is one character.  Bits are numbered from 1 in a text's value.  *)
(***************************************************************************)
EXTENDS Integers, Sequences, SequencesExt

CONSTANTS
    WordBits,      \* bits of an array are stored in whole words: 32 in the code
    Room,          \* characters of the statement buffer for what is after the
                   \* equals sign of a Boolean array: 1024 or more in the code
    FileStart,     \* the first characters of the file
    MatchDataLength \* how far back compressed data may look: 8192 in the code

ASSUME WordsAssumption == WordBits \in Nat \ {0} /\ WordBits % 4 = 0
ASSUME RoomAssumption == Room \in Nat \ {0} /\ MatchDataLength \in Nat \ {0, 1}

Space == 64
Comma == 65
Pound == 66
Dollar == 67
Semicolon == 68
Remark == 69
At == 63

DigitCodes == 0..9
Letters == 10..61

\* The keywords' letters.
BIN == <<11, 18, 23>>
HEX == <<17, 14, 33>>
RLC == <<27, 21, 12>>
ACA == <<10, 12, 10>>

Result(status, bits) == [status |-> status, bits |-> bits]
Failure(status) == Result(status, <<>>)
OrFail(holds, bits) == IF holds THEN Result("SUCCESS", bits) ELSE Failure("SYNTAX_ERROR")

\* The low n bits of a number, lowest first.
BitsOf(number, n) == [i \in 1..n |-> (number \div 2^(i - 1)) % 2]
NumberOf(bits) == FoldRight(LAMBDA bit, sum : 2 * sum + bit, bits, 0)
Join(seqs) == FoldLeft(LAMBDA all, s : all \o s, <<>>, seqs)

Prefix(s, n) == SubSeq(s, 1, Min({n, Len(s)}))
Without(text, codes) == SelectSeq(text, LAMBDA c : c \notin codes)
\* What is before the semicolon, and the first place of one of codes.
FirstOf(text, from, codes) ==
    LET places == {i \in from..Len(text) : text[i] \in codes}
    IN  IF places = {} THEN Len(text) + 1 ELSE CHOOSE i \in places : \A j \in places : i <= j
UpToSemicolon(text) == SubSeq(text, 1, FirstOf(text, 1, {Semicolon}) - 1)

(***************************************************************************)
(* The statement buffer: no comments, one space for several, and nothing   *)
(* of what does not fit.                                                   *)
(***************************************************************************)
IsKept(text, i) == text[i] # Remark /\ ~(i > 1 /\ text[i] = Space /\ text[i - 1] = Space)

Collapsed(text) ==
    Join([i \in DOMAIN text |-> IF IsKept(text, i) THEN <<text[i]>> ELSE <<>>])

Buffer(text) == Prefix(Collapsed(text), Room)

\* data_complete
IsComplete(text) == Semicolon \in ToSet(Buffer(text))

\* The representation and where in the buffer its data begin.
Representation(text, version) ==
    LET buffer == Buffer(text)
        first  == FirstOf(buffer, 1, 0..69 \ {Space})
        char   == buffer[first]
        Is(keyword) == /\ first + 3 <= Len(buffer) /\ SubSeq(buffer, first, first + 2) = keyword
                       /\ buffer[first + 3] = Space
        Rep(name, offset) == [name |-> name, data |-> first + offset]
    IN  IF first > Len(buffer) THEN Rep("ILLEGAL", 0)
        ELSE IF version = 2
        THEN CASE char = Pound  -> Rep("BIN", 1)
               [] char = Dollar -> Rep("HEX", 1)
               [] char = At     -> Rep("ACA", 1)
               [] OTHER         -> Rep("ILLEGAL", 0)
        ELSE CASE char \in DigitCodes -> Rep("COMMA", 0)
               [] Is(BIN) -> Rep("BIN", 3)
               [] Is(HEX) -> Rep("HEX", 3)
               [] Is(RLC) -> Rep("RLC", 3)
               [] Is(ACA) -> Rep("ACA", 3)
               [] OTHER   -> Rep("ILLEGAL", 0)

\* Variant: the data are taken to begin after the mark's first space.
PositionAfterMark(text, rep, version) ==
    LET space == FirstOf(text, 1, {Space, Semicolon})
        mark  == FirstOf(text, space, {Semicolon} \cup
                    (IF rep = "COMMA" THEN DigitCodes
                     ELSE IF version = 2 THEN {Pound, Dollar, At} ELSE Letters))
    IN  IF text[mark] = Semicolon THEN 0 ELSE mark + 1

\* The search in the file: the first space after the equals sign, then a mark
\* of the representation, then the data.  0, the start of the file, if the
\* statement ends before.
DataPosition(text, rep, version) ==
    LET space == FirstOf(text, 1, {Space, Semicolon})
        mark  == FirstOf(text, space, {Semicolon} \cup
                    (IF rep = "COMMA" THEN DigitCodes
                     ELSE IF version = 2 THEN {Pound, Dollar, At} ELSE Letters))
        after == FirstOf(text, mark, {Space, Semicolon})
    IN  IF text[mark] = Semicolon THEN 0
        ELSE IF rep = "COMMA" THEN mark
        ELSE IF version = 2 THEN mark + 1
        ELSE IF text[after] = Semicolon THEN 0 ELSE after

\* jam_get_real_char, over and over.
RealChars(text, position) ==
    Without(IF position = 0 THEN FileStart ELSE SubSeq(text, position, Len(text)), {Space, Remark})

(***************************************************************************)
(* The readers.  Those of the buffer and of the file differ for lists and  *)
(* in what they ask of the end of HEX data.  The readers of the buffer     *)
(* leave out the spaces between data.                                      *)
(***************************************************************************)
\* The elements of a list.
Elements(list) ==
    FoldLeft(LAMBDA elements, c : IF c = Comma THEN Append(elements, <<>>)
                                  ELSE Front(elements) \o <<Append(Last(elements), c)>>,
             << <<>> >>, list)

Trim(chars) ==
    LET inside == {i \in DOMAIN chars : chars[i] # Space}
    IN  IF inside = {} THEN <<>> ELSE SubSeq(chars, Min(inside), Max(inside))

\* jam_evaluate_expression, of numbers.
Evaluated(chars) ==
    IF chars # <<>> /\ ToSet(chars) \subseteq DigitCodes
    THEN [status |-> "SUCCESS", value |-> FoldLeft(LAMBDA n, c : 10 * n + c, 0, chars)]
    ELSE [status |-> "SYNTAX_ERROR", value |-> 0]

\* An element is a number, and for a Boolean 0 or 1.
ElementStatus(element, isBool) ==
    LET e == Evaluated(element)
    IN  IF e.status # "SUCCESS" THEN e.status
        ELSE IF isBool /\ e.value \notin {0, 1} THEN "TYPE_MISMATCH" ELSE "SUCCESS"

List(elements, dimension, isBool) ==
    LET bad == {k \in 1..dimension : k > Len(elements) \/ ElementStatus(elements[k], isBool) # "SUCCESS"}
    IN  IF bad = {} THEN Result("SUCCESS", [k \in 1..dimension |-> Evaluated(elements[k]).value])
        ELSE Failure(IF Min(bad) > Len(elements) THEN "SYNTAX_ERROR"
                     ELSE ElementStatus(elements[Min(bad)], isBool))

\* From the buffer: a comma may follow the last element.
ExtractList(data, dimension, isBool) ==
    LET pieces   == Elements(UpToSemicolon(data))
        elements == [k \in DOMAIN pieces |-> Trim(pieces[k])]
        list     == List(elements, dimension, isBool)
    IN  IF list.status = "SUCCESS" /\ Len(elements) > dimension /\ elements # Append(SubSeq(elements, 1, dimension), <<>>)
        THEN Failure("SYNTAX_ERROR") ELSE list

\* From the file: a comma after the last element belongs to it, and a list that
\* is too short goes on in the next statement.
ReadList(chars, dimension) ==
    LET elements == Elements(UpToSemicolon(chars))
    IN  IF Len(elements) > dimension THEN
            LET list == List(elements, dimension - 1, TRUE)
            IN  IF list.status = "SUCCESS" THEN Failure("SYNTAX_ERROR") ELSE list
        ELSE List(elements, dimension, TRUE)

ReadBinary(chars, dimension) ==
    LET bits == Prefix(chars, dimension)
    IN  OrFail(/\ Len(bits) = dimension /\ ToSet(bits) \subseteq {0, 1}
               /\ Len(chars) > dimension /\ chars[dimension + 1] = Semicolon, bits)

IsHex(c) == c \in 0..15 \cup 36..41
HexValue(c) == IF c > 15 THEN c - 26 ELSE c
Nibbles(dimension) == (dimension + 3) \div 4

HexBits(chars, nibbles) == Join([i \in 1..nibbles |-> BitsOf(HexValue(chars[i]), 4)])

\* The semicolon is looked for in the buffer only.
ReadHex(chars, dimension, fromBuffer) ==
    LET n == Nibbles(dimension)
    IN  IF Len(chars) <= n \/ \E i \in 1..n : ~IsHex(chars[i]) THEN Failure("SYNTAX_ERROR")
        ELSE OrFail(fromBuffer => chars[n + 1] = Semicolon, HexBits(chars, n))

\* jam_rlc_key_char: what a block's key says, and in how many characters its
\* count follows.
Key(c) ==
    CASE c \in 10..14 -> [type |-> "ZEROS", size |-> c - 9]
      [] c \in 18..22 -> [type |-> "ONES", size |-> c - 17]
      [] c \in 26..30 -> [type |-> "RANDOM", size |-> c - 25]
      [] OTHER        -> [type |-> "NONE", size |-> 0]

SixBits(chars) == Join([i \in DOMAIN chars |-> BitsOf(chars[i], 6)])
AreSixBit(chars, n) == Len(chars) >= n /\ \A i \in 1..n : chars[i] \in 0..63

\* One block: its bits and the characters after it.  Counts have the highest
\* character first, data the lowest bit.
Block(chars) ==
    LET key   == Key(Head(chars))
        rest  == Tail(chars)
        count == FoldLeft(LAMBDA n, c : 64 * n + c, 0, SubSeq(rest, 1, key.size))
        data  == SubSeq(rest, key.size + 1, Len(rest))
        width == IF key.type = "RANDOM" THEN (count + 5) \div 6 ELSE 0
    IN  IF key.type = "NONE" \/ ~AreSixBit(rest, key.size) \/ ~AreSixBit(data, width)
        THEN [good |-> FALSE, bits |-> <<>>, rest |-> <<>>]
        ELSE [good |-> TRUE,
              bits |-> CASE key.type = "ZEROS" -> [i \in 1..count |-> 0]
                         [] key.type = "ONES"  -> [i \in 1..count |-> 1]
                         [] OTHER              -> SubSeq(SixBits(SubSeq(data, 1, width)), 1, count),
              rest |-> SubSeq(data, width + 1, Len(data))]

RECURSIVE Blocks(_, _, _)
Blocks(chars, bits, dimension) ==
    IF Len(bits) >= dimension \/ chars = <<>> THEN [bits |-> bits, rest |-> chars]
    ELSE LET block == Block(chars)
         IN  IF block.good THEN Blocks(block.rest, bits \o block.bits, dimension)
             ELSE [bits |-> bits, rest |-> <<>>]

\* A block may run over the end of the array before that is seen.
ReadRunLength(chars, dimension) ==
    LET read == Blocks(chars, <<>>, dimension)
    IN  OrFail(read.rest # <<>> /\ Head(read.rest) = Semicolon /\ Len(read.bits) = dimension, read.bits)

(***************************************************************************)
(* jam_uncompress.  input is the sequence of the bits, in whole bytes; a   *)
(* state of the work is the number of bits read and the bytes written.     *)
(***************************************************************************)
Packed(input, at, bits) == NumberOf(SubSeq(input, at + 1, at + bits))
HasBits(input, at, bits) == at + bits <= Len(input)

jam_bits_required(n) == CHOOSE b \in 1..16 : n < 2^b /\ (b > 1 => n >= 2^(b - 1))

\* A copy of what is offset bytes before, byte by byte; offset 0 is the zero
\* that is there.  (An offset beyond the start is not in the texts considered.)
RECURSIVE CopyBytes(_, _, _, _)
CopyBytes(out, offset, n, length) ==
    IF n = 0 \/ Len(out) = length THEN out
    ELSE CopyBytes(Append(out, IF offset \in 1..Len(out) THEN out[Len(out) + 1 - offset] ELSE 0),
                   offset, n - 1, length)

OffsetBits(written, version) ==
    LET most == IF version = 2 THEN MatchDataLength - 1 ELSE MatchDataLength
    IN  jam_bits_required(IF written > most THEN most ELSE written)

\* Nothing says what is read behind the end of the input: such a text is
\* outside the model.  Literals come in threes, or as many as are left.
RECURSIVE Inflate(_, _, _, _, _)
Inflate(input, at, out, length, version) ==
    LET width    == OffsetBits(Len(out), version)
        literal  == HasBits(input, at, 1) /\ Packed(input, at, 1) = 0
        literals == IF length - Len(out) < 3 THEN length - Len(out) ELSE 3
        needed   == IF literal THEN 1 + 8 * literals ELSE 1 + width + 8
    IN  IF Len(out) >= length THEN [defined |-> TRUE, out |-> out]
        ELSE IF ~HasBits(input, at, needed) THEN [defined |-> FALSE, out |-> out]
        ELSE IF literal
        THEN Inflate(input, at + needed,
                     out \o [i \in 1..literals |-> Packed(input, at + 1 + 8 * (i - 1), 8)], length, version)
        ELSE Inflate(input, at + needed,
                     CopyBytes(out, Packed(input, at + 1, width), Packed(input, at + 1 + width, 8), length),
                     length, version)

\* The first four bytes are the length; a wrong one is -1.
jam_uncompress(input, outLength, version) ==
    LET length == NumberOf(Prefix(input, 32))
    IN  IF Len(input) < 32 \/ length > outLength THEN Result("SUCCESS", <<>>)
        ELSE LET work == Inflate(input, 32, <<>>, length, version)
             IN  IF work.defined THEN Result("SUCCESS", Join([i \in DOMAIN work.out |-> BitsOf(work.out[i], 8)]))
                 ELSE Failure("UNDEFINED")

\* The bits of characters, in whole bytes.
Bytes(chars) ==
    LET bits == SixBits(chars)
    IN  bits \o [i \in 1..((8 - (Len(bits) % 8)) % 8) |-> 0]

\* All the bits that were expected.
AllOf(read, count) ==
    IF read.status # "SUCCESS" THEN read ELSE OrFail(Len(read.bits) = count, read.bits)

ReadCompressed(chars, dimension, version) ==
    LET data == UpToSemicolon(chars)
        size == (dimension + 7) \div 8
    IN  IF ~AreSixBit(data, Len(data)) THEN Failure("SYNTAX_ERROR")
        ELSE AllOf(jam_uncompress(Bytes(data), size, version), 8 * size)

(***************************************************************************)
(* jam_read_boolean_array_data                                             *)
(***************************************************************************)
\* As Jam 2.0 has it, the highest bit first.
Reversed(rep, bits, dimension) ==
    CASE rep = "BIN" -> Reverse(bits)
      [] rep = "HEX" -> Join([i \in 1..Nibbles(dimension) |->
                                SubSeq(bits, Len(bits) - 4 * i + 1, Len(bits) - 4 * i + 4)])
      [] OTHER       -> bits

InOrderOf(version, rep, dimension, read) ==
    IF read.status = "SUCCESS" /\ version = 2
    THEN Result("SUCCESS", Reversed(rep, read.bits, dimension)) ELSE read

ReadFrom(rep, chars, dimension, version, fromBuffer) ==
    CASE rep = "BIN" -> ReadBinary(chars, dimension)
      [] rep = "HEX" -> ReadHex(chars, dimension, fromBuffer)
      [] rep = "RLC" -> ReadRunLength(chars, dimension)
      [] rep = "ACA" -> ReadCompressed(chars, dimension, version)
      [] OTHER       -> ReadList(chars, dimension)

FromBuffer(text, rep, dimension, version) ==
    LET data == SubSeq(Buffer(text), rep.data, Len(Buffer(text)))
    IN  IF rep.name = "COMMA" THEN ExtractList(data, dimension, TRUE)
        ELSE ReadFrom(rep.name, Without(data, {Space}), dimension, version, TRUE)

DataOf(rep, text, dimension, version) ==
    IF rep.name = "ILLEGAL" THEN Failure("SYNTAX_ERROR")
    ELSE IF IsComplete(text) THEN FromBuffer(text, rep, dimension, version)
    ELSE ReadFrom(rep.name, RealChars(text, DataPosition(text, rep.name, version)), dimension, version, FALSE)

BooleanArrayData(text, dimension, version) ==
    LET rep == Representation(text, version)
    IN  InOrderOf(version, rep.name, dimension, DataOf(rep, text, dimension, version))

\* Of integers: always in the buffer, which has room for every statement that
\* is not a Boolean array.
IntegerArrayData(text, dimension, version) ==
    LET list == ExtractList(Collapsed(text), dimension, FALSE)
    IN  IF list.status = "SUCCESS" /\ version = 2 THEN Result("SUCCESS", Reverse(list.bits)) ELSE list

(***************************************************************************)
(* Literal arguments: the last character is the lowest in both versions.   *)
(***************************************************************************)
BinaryLiteral(chars) == OrFail(ToSet(chars) \subseteq {0, 1}, Reverse(chars))

HexLiteral(chars) ==
    IF \E i \in DOMAIN chars : ~IsHex(chars[i]) THEN Failure("SYNTAX_ERROR")
    ELSE Result("SUCCESS", HexBits(Reverse(chars), Len(chars)))

\* As long as its first bytes say.
CompressedLiteral(chars, version) ==
    LET input == Bytes(chars)
    IN  IF ~AreSixBit(chars, Len(chars)) THEN Failure("SYNTAX_ERROR")
        ELSE jam_uncompress(input, NumberOf(Prefix(input, 32)), version)

\* A literal of jam_get_array_argument.  BOOL( ) of a number, here without the
\* brackets, is a word of bits.
ArgumentLiteral(text, version) ==
    LET chars == Without(text, {Space})
    IN  IF version # 2 THEN HexLiteral(chars)
        ELSE CASE Head(chars) = Pound  -> BinaryLiteral(Tail(chars))
               [] Head(chars) = Dollar -> HexLiteral(Tail(chars))
               [] Head(chars) = At     -> CompressedLiteral(Tail(chars), version)
               [] OTHER -> Result("SUCCESS", BitsOf(Evaluated(SubSeq(chars, 5, Len(chars))).value, WordBits))
===============================================================================
