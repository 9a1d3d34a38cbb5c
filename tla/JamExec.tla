------------------------------- MODULE JamExec -------------------------------
(***************************************************************************)
(* The interpreter of the Jam player (jamexec.c, jamsym.c, jamstack.c):    *)
(* how it finds its way through a program.  A program is a text of         *)
(* statements, maybe labelled; a position in the file is the number of a   *)
(* statement.  In Jam 2.0 an ACTION calls procedures, a procedure names    *)
(* the blocks it USES, data blocks are executed once, before the first     *)
(* procedure that uses them; in Jam 1.x statements CALL labels.            *)
(*                                                                         *)
(* The interpreter is recursive: every procedure that is called and every  *)
(* data block runs in a loop of its own, on top of the loop that called    *)
(* it.  frames holds these C calls, stack the program's own stack (CALL,   *)
(* FOR and PUSH records), and both have to agree on where to go back to.   *)
(*                                                                         *)
(* Expressions, arrays and the statements that drive the JTAG port or      *)
(* print are left out; none of them moves the position, the stack or the   *)
(* blocks.  When a statement fails every loop ends and the position of     *)
(* the statement is reported: status is then the error.                    *)
(***************************************************************************)
EXTENDS Integers, Sequences, SequencesExt

CONSTANTS
    Sources,          \* names for the programs
    ProgramOf(_),     \* [text, action, init]: the statements, the action that
                      \* is asked for, the initialisation list
    None,             \* no label, no block, no action, no statement
    MaxNestingDepth   \* JAMC_MAX_NESTING_DEPTH, 128 in the code

ASSUME DepthAssumption == MaxNestingDepth \in Nat \ {0}

\* What is after the THEN of an IF, or the statement itself
Inner(s) == IF s.op = "IF" THEN s.then ELSE s

Names(text, ops) ==
    {Inner(text[i].statement).name : i \in {j \in DOMAIN text : Inner(text[j].statement).op \in ops}}

Labels(text) == {text[i].label : i \in DOMAIN text} \ {None}

Actions(text) ==
    {text[i].statement : i \in {j \in DOMAIN text : text[j].statement.op = "ACTION"}}

\* What is called is a procedure, or a label of Jam 1.x, if it is anything:
\* the value of another symbol would be taken for the address of a list.  A
\* block does not end in an IF.
ASSUME ProgramAssumption ==
    \A s \in Sources :
        LET text == ProgramOf(s).text
            listed == {item.name : item \in UNION {ToSet(a.procedures) : a \in Actions(text)}}
        IN  /\ (Names(text, {"CALL"}) \cup listed) \cap Names(text, {"DATA", "INTEGER"}) = {}
            /\ listed \cap Labels(text) = {}
            /\ \A i \in DOMAIN text :
                 text[i].statement.op = "IF" =>
                   text[i].statement.then.op \notin {"IF", "ENDPROC", "ENDDATA"}

\* A text is a list of statements, and so is what a procedure uses one of
\* blocks.
ASSUME TextAssumption ==
    \A s \in Sources :
        LET text == ProgramOf(s).text
        IN  /\ text \in Seq(ToSet(text))
            /\ \A i \in DOMAIN text :
                 LET inner == Inner(text[i].statement)
                 IN  inner.op = "PROCEDURE" => inner.uses \in Seq(ToSet(inner.uses))

VARIABLES
    program,    \* the program that is executed
    position,   \* jam_current_file_position, jam_current_statement_position
                \* and jam_next_statement_position
    version,    \* jam_version: 0 as long as it is not known
    phase,      \* jam_phase
    block,      \* jam_current_block
    checking,   \* jam_checking_uses_list
    symbols,    \* the symbol table, by name
    stack,      \* jam_stack
    frames,     \* the C calls under way
    done,       \* an EXIT or the end of the action was executed
    exitCode,
    status,
    ran         \* how often each data block was executed

context == <<program, version, phase, block, checking>>
outcome == <<done, exitCode, status>>
vars == <<context, position, symbols, stack, frames, outcome, ran>>

Text == program.text
Top == Last(frames)
SetTop(frame) == [frames EXCEPT ![Len(frames)] = frame]

\* A C call on top of frames.  It remembers the stack, the block and the
\* phase it found.
Frame(fn, pc, name, todo, ret) ==
    [fn |-> fn, pc |-> pc, name |-> name, todo |-> todo, ret |-> ret,
     stack |-> stack, block |-> block, phase |-> phase, buffer |-> None]

Init ==
    /\ \E s \in Sources : program = ProgramOf(s)
    /\ position = [file |-> 1, current |-> 1, next |-> 1]
    /\ version = 0
    /\ phase = "UNKNOWN"
    /\ block = None
    /\ checking = FALSE
    /\ symbols = <<>>
    /\ stack = <<>>
    /\ frames = <<[fn |-> "execute", pc |-> "loop", name |-> None, todo |-> <<>>,
                   ret |-> 1, stack |-> <<>>, block |-> None,
                   phase |-> "UNKNOWN", buffer |-> None]>>
    /\ done = FALSE
    /\ exitCode = 0
    /\ status = "SUCCESS"
    /\ ran = [d \in Names(Text, {"DATA"}) |-> 0]

(***************************************************************************)
(* The symbol table.                                                       *)
(***************************************************************************)
UsesOf(table, b) ==
    IF b # None /\ table[b].type = "PROCEDURE" THEN ToSet(table[b].uses) ELSE {}

\* The scope rules of Jam 2.0: a symbol is seen where it was declared, by
\* those who use the block it was declared in, and everywhere if it was
\* declared outside of all blocks; a procedure by those who use it.
InScope(table, name) ==
    LET symbol == table[name]
        owner == IF symbol.type = "PROCEDURE" THEN name ELSE symbol.parent
    IN  \/ version # 2
        \/ checking /\ symbol.type \in {"PROCEDURE", "DATA"}
        \/ symbol.parent \in {None, block}
        \/ name = block
        \/ owner \in UsesOf(table, block)

Lookup(table, name) ==
    IF name \notin DOMAIN table THEN "UNDEFINED_SYMBOL"
    ELSE IF InScope(table, name) THEN "SUCCESS" ELSE "SCOPE_ERROR"

\* A symbol may be met again where it was declared, and nowhere else.
Redefined(table, type, name, at) ==
    name \in DOMAIN table /\ (table[name].type # type \/ table[name].position # at)

InitialValue(type, name, value) ==
    IF type = "INTEGER" /\ version # 2 /\ name \in DOMAIN program.init
    THEN program.init[name] ELSE value

\* Meeting a symbol again assigns its value, but in Jam 2.0 only in a
\* procedure and not to a block.
AddSymbol(table, type, name, value, at) ==
    IF name \notin DOMAIN table
    THEN [n \in DOMAIN table \cup {name} |->
            IF n = name
            THEN [type |-> type, value |-> InitialValue(type, name, value),
                  position |-> at, parent |-> block, uses |-> <<>>]
            ELSE table[n]]
    ELSE IF \/ version # 2
            \/ /\ type \notin {"PROCEDURE", "DATA"}
               /\ block # None
               /\ table[block].type = "PROCEDURE"
         THEN [table EXCEPT ![name].value = value]
         ELSE table

\* PROCEDURE and DATA statements declare a block; nothing in it is executed.
AddBlock(table, s, at) ==
    LET added == AddSymbol(table, s.op, s.name, 0, at)
    IN  IF s.op = "DATA" THEN added ELSE [added EXCEPT ![s.name].uses = s.uses]

BlockError(table, s, at) ==
    IF version = 1 THEN "SYNTAX_ERROR"
    ELSE IF phase = "ACTION" THEN "ACTION_NOT_FOUND"
    ELSE IF phase # "PROCEDURE" /\ ~(s.op = "DATA" /\ phase = "DATA") THEN "PHASE_ERROR"
    ELSE IF Redefined(table, s.op, s.name, at) THEN "REDEFINED_SYMBOL"
    ELSE Lookup(AddBlock(table, s, at), s.name)

(***************************************************************************)
(* The stack.  The last record there is room for can be pushed, but a full *)
(* stack has no top: it can be neither seen nor popped.                    *)
(***************************************************************************)
Full == Len(stack) = MaxNestingDepth
Peek(s) == IF Len(s) \in 1 .. MaxNestingDepth - 1 THEN Len(s) ELSE 0
TopIs(type) == Peek(stack) # 0 /\ Last(stack).type = type

CallRecord(ret) == [type |-> "CALL", ret |-> ret]

(***************************************************************************)
(* The loops of jam_execute, jam_call_procedure and jam_process_uses_item: *)
(* a statement is read and executed.  An IF leaves the statement behind    *)
(* its THEN in the buffer, which is then not read.  The loop over a data   *)
(* block has a done of its own.                                            *)
(***************************************************************************)
At(pc) == frames # <<>> /\ status = "SUCCESS" /\ Top.pc = pc
Looping == At("loop") /\ (done => Top.fn = "uses")

Buffered == Top.buffer # None
EndOfFile == position.file > Len(Text)
Line == IF Buffered THEN Top.buffer ELSE Text[position.file].statement
Label == IF Buffered THEN None ELSE Text[position.file].label
Here == IF Buffered THEN position.current ELSE position.file

\* Variant: the way back is to the statement itself.
ReadStays == [file |-> position.file + 1, current |-> position.file,
              next |-> position.file]

Read == [file |-> position.file + 1, current |-> position.file,
         next |-> position.file + 1]
After == IF Buffered THEN position ELSE Read
Consumed == SetTop([Top EXCEPT !.buffer = None])

\* The symbol table once the statement's label is in it.
Labelled ==
    IF Label = None THEN symbols ELSE AddSymbol(symbols, "LABEL", Label, 0, Here)

IsLabel(name) == name \in DOMAIN Labelled /\ Labelled[name].type = "LABEL"
LabelCall(s) == s.op = "GOTO" \/ (s.op = "CALL" /\ version # 2)

(***************************************************************************)
(* What is wrong with the statement, in the order in which it is found.    *)
(***************************************************************************)
ProcedureStatements == {"CALL", "GOTO", "EXIT", "FOR", "NEXT", "IF", "PUSH", "POP"}

ActionError ==
    IF program.action = None THEN "ACTION_NOT_FOUND"
    ELSE IF version = 1 THEN "SYNTAX_ERROR"
    ELSE IF phase \notin {"UNKNOWN", "NOTE", "ACTION"} THEN "PHASE_ERROR"
    ELSE "SUCCESS"

\* A label may still be found further on.  In Jam 2.0 a procedure may call
\* itself and those it uses.
CallError(s) ==
    IF LabelCall(s)
    THEN CASE Lookup(Labelled, s.name) = "SCOPE_ERROR" -> "SCOPE_ERROR"
           [] s.op = "CALL" /\ IsLabel(s.name) /\ Full -> "OUT_OF_MEMORY"
           [] OTHER -> "SUCCESS"
    ELSE IF s.name \in {block} \cup UsesOf(Labelled, block) THEN "SUCCESS"
    ELSE "SCOPE_ERROR"

ReturnError(s) ==
    IF version = 2 /\ s.op = "RETURN" THEN "SYNTAX_ERROR"
    ELSE IF ~TopIs("CALL") THEN "RETURN_UNEXPECTED" ELSE "SUCCESS"

VariableError(name) ==
    IF Lookup(Labelled, name) # "SUCCESS" THEN Lookup(Labelled, name)
    ELSE IF Labelled[name].type # "INTEGER" THEN "TYPE_MISMATCH" ELSE "SUCCESS"

ForError(s) ==
    IF VariableError(s.name) = "SUCCESS" /\ Full THEN "OUT_OF_MEMORY"
    ELSE VariableError(s.name)

NextError(s) ==
    IF VariableError(s.name) # "SUCCESS" THEN VariableError(s.name)
    ELSE IF TopIs("FOR") /\ Last(stack).iterator = s.name THEN "SUCCESS"
    ELSE "NEXT_UNEXPECTED"

\* The record is popped even if there is no variable for its value.
PopError(s) ==
    IF ~TopIs("PUSH") THEN "POP_UNEXPECTED"
    ELSE IF VariableError(s.name) # "SUCCESS" THEN "TYPE_MISMATCH" ELSE "SUCCESS"

IntegerError(s) ==
    IF version = 2 /\ phase \notin {"PROCEDURE", "DATA"} THEN "PHASE_ERROR"
    ELSE IF Redefined(Labelled, "INTEGER", s.name, Here) THEN "REDEFINED_SYMBOL"
    ELSE "SUCCESS"

NoteError == IF version = 2 /\ phase \notin {"UNKNOWN", "NOTE"} THEN "PHASE_ERROR"
             ELSE "SUCCESS"

StatementError(s) ==
    IF s.op \in ProcedureStatements /\ version = 2 /\ phase # "PROCEDURE"
    THEN "PHASE_ERROR"
    ELSE CASE s.op = "ACTION"                           -> ActionError
           [] s.op \in {"PROCEDURE", "DATA"}            -> BlockError(Labelled, s, Here)
           [] s.op \in {"CALL", "GOTO"}                 -> CallError(s)
           [] s.op \in {"RETURN", "ENDPROC", "ENDDATA"} -> ReturnError(s)
           [] s.op = "FOR"                              -> ForError(s)
           [] s.op = "NEXT"                             -> NextError(s)
           [] s.op = "PUSH"                             -> IF Full THEN "OUT_OF_MEMORY"
                                                           ELSE "SUCCESS"
           [] s.op = "POP"                              -> PopError(s)
           [] s.op = "IF"                               -> VariableError(s.name)
           [] s.op = "INTEGER"                          -> IntegerError(s)
           [] s.op = "NOTE"                             -> NoteError
           [] OTHER                                     -> "SUCCESS"

Error ==
    IF ~Buffered /\ EndOfFile THEN "UNEXPECTED_END"
    ELSE IF Label # None /\ Redefined(symbols, "LABEL", Label, Here)
    THEN "REDEFINED_SYMBOL"
    ELSE StatementError(Line)

\* An error ends everything; the frames are left to tell where it happened.
Stop(error) ==
    /\ status' = error
    /\ UNCHANGED <<context, position, symbols, stack, frames, done, exitCode, ran>>

Fail == Looping /\ Error # "SUCCESS" /\ Stop(Error)

\* A statement that is of one of ops and right.
Executes(ops) == Looping /\ Error = "SUCCESS" /\ Line.op \in ops

(***************************************************************************)
(* The statements.                                                         *)
(***************************************************************************)
Version(v) == IF version = 0 THEN v ELSE version

\* The action asked for calls its procedures (Listed); others are skipped.
Action ==
    /\ Executes({"ACTION"})
    /\ version' = Version(2)
    /\ IF Line.name = program.action
       THEN /\ phase' = "PROCEDURE"
            /\ frames' = IF Line.procedures = <<>> THEN Consumed
                         ELSE Append(Consumed, Frame("action", "listed", Line.name,
                                                     Line.procedures, 0))
       ELSE /\ phase' = "ACTION"
            /\ frames' = Consumed
    /\ position' = After
    /\ symbols' = Labelled
    /\ UNCHANGED <<program, block, checking, stack, outcome, ran>>

Declaration ==
    /\ Executes({"PROCEDURE", "DATA"})
    /\ symbols' = AddBlock(Labelled, Line, Here)
    /\ position' = After
    /\ frames' = Consumed
    /\ UNCHANGED <<context, stack, outcome, ran>>

Integer ==
    /\ Executes({"INTEGER"})
    /\ symbols' = AddSymbol(Labelled, "INTEGER", Line.name, Line.value, Here)
    /\ position' = After
    /\ frames' = Consumed
    /\ UNCHANGED <<context, stack, outcome, ran>>

\* CALL in Jam 2.0
CallBlock ==
    /\ Executes({"CALL"}) /\ ~LabelCall(Line)
    /\ frames' = Append(Consumed, Frame("call", "enter", Line.name, <<>>, After.next))
    /\ position' = After
    /\ symbols' = Labelled
    /\ UNCHANGED <<context, stack, outcome, ran>>

\* GOTO, and CALL in Jam 1.x: to a label that is known, or else to one that
\* the rest of the file is searched for (SearchLabel).  To what is not a label
\* it does nothing.
CallOrGoto ==
    /\ Executes({"CALL", "GOTO"}) /\ LabelCall(Line)
    /\ version' = Version(1)
    /\ symbols' = Labelled
    /\ IF Line.name \in DOMAIN Labelled
       THEN /\ position' = IF IsLabel(Line.name)
                           THEN [After EXCEPT !.file = Labelled[Line.name].position]
                           ELSE After
            /\ stack' = IF Line.op = "CALL" /\ IsLabel(Line.name)
                        THEN Append(stack, CallRecord(After.next)) ELSE stack
            /\ frames' = Consumed
       ELSE /\ position' = After
            /\ stack' = stack
            /\ frames' = Append(Consumed, Frame(Line.op, "search", Line.name, <<>>,
                                                After.next))
    /\ UNCHANGED <<program, phase, block, checking, outcome, ran>>

\* RETURN, ENDPROC and ENDDATA pop a CALL record and go back to where it
\* says.  If that brings the stack back to where the loop found it, the loop
\* of the procedure or data block is over.
Return ==
    /\ Executes({"RETURN", "ENDPROC", "ENDDATA"})
    /\ version' = Version(IF Line.op = "RETURN" THEN 1 ELSE 2)
    /\ position' = [After EXCEPT !.file = Last(stack).ret]
    /\ stack' = Front(stack)
    /\ LET ends == /\ \/ Top.fn = "call" /\ Line.op = "ENDPROC"
                      \/ Top.fn = "uses" /\ Line.op = "ENDDATA"
                   /\ Peek(stack') = Peek(Top.stack)
       IN  IF ends
           THEN /\ frames' = Front(frames)
                /\ block' = Top.block
                /\ phase' = Top.phase
                /\ symbols' = IF Top.fn = "uses"
                              THEN [Labelled EXCEPT ![Top.name].value = 1] ELSE Labelled
           ELSE /\ frames' = Consumed
                /\ symbols' = Labelled
                /\ UNCHANGED <<block, phase>>
    /\ UNCHANGED <<program, checking, outcome, ran>>

\* The body of a FOR is executed at least once, whatever the values.
For ==
    /\ Executes({"FOR"})
    /\ symbols' = [Labelled EXCEPT ![Line.name].value = Line.from]
    /\ stack' = Append(stack, [type |-> "FOR", iterator |-> Line.name, to |-> Line.to,
                               step |-> Line.step, for |-> After.next])
    /\ position' = After
    /\ frames' = Consumed
    /\ UNCHANGED <<context, outcome, ran>>

NextStatement ==
    /\ Executes({"NEXT"})
    /\ LET loop == Last(stack)
           value == Labelled[Line.name].value
           over == IF loop.step > 0 THEN value >= loop.to ELSE value <= loop.to
       IN  IF over
           THEN /\ stack' = Front(stack)
                /\ symbols' = Labelled
                /\ position' = After
           ELSE /\ stack' = stack
                /\ symbols' = [Labelled EXCEPT ![Line.name].value = value + loop.step]
                /\ position' = [After EXCEPT !.file = loop.for]
    /\ frames' = Consumed
    /\ UNCHANGED <<context, outcome, ran>>

Push ==
    /\ Executes({"PUSH"})
    /\ stack' = Append(stack, [type |-> "PUSH", value |-> Line.value])
    /\ symbols' = Labelled
    /\ position' = After
    /\ frames' = Consumed
    /\ UNCHANGED <<context, outcome, ran>>

Pop ==
    /\ Executes({"POP"})
    /\ stack' = Front(stack)
    /\ symbols' = [Labelled EXCEPT ![Line.name].value = Last(stack).value]
    /\ position' = After
    /\ frames' = Consumed
    /\ UNCHANGED <<context, outcome, ran>>

If ==
    /\ Executes({"IF"})
    /\ frames' = SetTop([Top EXCEPT !.buffer =
                           IF Labelled[Line.name].value = Line.value THEN Line.then
                           ELSE None])
    /\ symbols' = Labelled
    /\ position' = After
    /\ UNCHANGED <<context, stack, outcome, ran>>

Exit ==
    /\ Executes({"EXIT"})
    /\ done' = TRUE
    /\ exitCode' = Line.code
    /\ symbols' = Labelled
    /\ position' = After
    /\ frames' = Consumed
    /\ UNCHANGED <<context, stack, status, ran>>

\* REM and NOTE; NOTEs come first.
Comment ==
    /\ Executes({"REM", "NOTE"})
    /\ phase' = IF Line.op = "NOTE" /\ phase = "UNKNOWN" THEN "NOTE" ELSE phase
    /\ symbols' = Labelled
    /\ position' = After
    /\ frames' = Consumed
    /\ UNCHANGED <<program, version, block, checking, stack, outcome, ran>>

(***************************************************************************)
(* The calls.                                                              *)
(***************************************************************************)
\* OPTIONAL procedures are called if the initialisation list asks for them,
\* RECOMMENDED ones unless it declines them.
Called(item) ==
    LET listed == item.name \in DOMAIN program.init
    IN  CASE item.keyword = "OPTIONAL"    -> listed /\ program.init[item.name] # 0
          [] item.keyword = "RECOMMENDED" -> ~listed \/ program.init[item.name] # 0
          [] OTHER                        -> TRUE

\* The action goes on with its list even after an EXIT: the loops of the
\* procedures then end at once.
Listed ==
    /\ At("listed") /\ Top.todo # <<>>
    /\ LET rest == SetTop([Top EXCEPT !.todo = Tail(@)])
           item == Head(Top.todo)
       IN  frames' = IF Called(item)
                     THEN Append(rest, Frame("call", "enter", item.name, <<>>,
                                             position.next))
                     ELSE rest
    /\ UNCHANGED <<context, position, symbols, stack, outcome, ran>>

\* At the end of its list the action ends the program.
ActionEnds ==
    /\ At("listed") /\ Top.todo = <<>>
    /\ done' = TRUE
    /\ exitCode' = IF done THEN exitCode ELSE 0
    /\ frames' = Front(frames)
    /\ UNCHANGED <<context, position, symbols, stack, status, ran>>

\* jam_call_procedure and jam_process_uses_item look for the block, in the
\* symbol table first ...
Enter ==
    /\ At("enter")
    /\ LET found == Lookup(symbols, Top.name)
       IN  IF found = "SCOPE_ERROR" THEN Stop(found)
           ELSE /\ frames' = SetTop([Top EXCEPT !.pc =
                                IF found = "SUCCESS" THEN "found" ELSE "search"])
                /\ UNCHANGED <<context, position, symbols, stack, outcome, ran>>

\* Variant: blocks on the way are not declared.
SearchBlockOnly ==
    /\ At("search") /\ Top.fn \in {"call", "uses"}
    /\ IF EndOfFile THEN Stop("UNDEFINED_SYMBOL")
       ELSE LET s == Text[position.file].statement
                declares == s.op \in {"PROCEDURE", "DATA"} /\ s.name = Top.name
                table == IF declares THEN AddBlock(symbols, s, position.file) ELSE symbols
                looks == s.op = "PROCEDURE" \/ (s.op = "DATA" /\ Top.fn = "uses")
                found == IF looks THEN Lookup(table, Top.name) ELSE "UNDEFINED_SYMBOL"
            IN  IF \/ declares /\ BlockError(symbols, s, position.file) # "SUCCESS"
                   \/ found = "SCOPE_ERROR"
                THEN Stop("UNDEFINED_SYMBOL")
                ELSE /\ symbols' = table
                     /\ position' = Read
                     /\ frames' = IF found = "SUCCESS"
                                  THEN SetTop([Top EXCEPT !.pc = "found"]) ELSE frames
                     /\ UNCHANGED <<context, stack, outcome, ran>>

\* ... and then in the rest of the file, declaring every block on the way.
SearchBlock ==
    /\ At("search") /\ Top.fn \in {"call", "uses"}
    /\ IF EndOfFile THEN Stop("UNDEFINED_SYMBOL")
       ELSE LET s == Text[position.file].statement
                declares == s.op \in {"PROCEDURE", "DATA"}
                table == IF declares THEN AddBlock(symbols, s, position.file) ELSE symbols
                looks == s.op = "PROCEDURE" \/ (s.op = "DATA" /\ Top.fn = "uses")
                found == IF looks THEN Lookup(table, Top.name) ELSE "UNDEFINED_SYMBOL"
            IN  IF \/ declares /\ BlockError(symbols, s, position.file) # "SUCCESS"
                   \/ found = "SCOPE_ERROR"
                THEN Stop("UNDEFINED_SYMBOL")
                ELSE /\ symbols' = table
                     /\ position' = Read
                     /\ frames' = IF found = "SUCCESS"
                                  THEN SetTop([Top EXCEPT !.pc = "found"]) ELSE frames
                     /\ UNCHANGED <<context, stack, outcome, ran>>

\* A procedure first sees to what it uses.
ProcedureFound ==
    /\ At("found") /\ Top.fn = "call"
    /\ checking' = (symbols[Top.name].uses # <<>>)
    /\ frames' = SetTop([Top EXCEPT !.pc = "uses", !.todo = symbols[Top.name].uses])
    /\ UNCHANGED <<program, version, phase, block, position, symbols, stack, outcome, ran>>

Used ==
    /\ At("uses") /\ Top.todo # <<>>
    /\ frames' = Append(SetTop([Top EXCEPT !.todo = Tail(@)]),
                        Frame("uses", "enter", Head(Top.todo), <<>>, position.next))
    /\ UNCHANGED <<context, position, symbols, stack, outcome, ran>>

\* The loop over a block begins: the way back is on the stack, the file at
\* the block's first statement.
Begin(ph) ==
    IF Full THEN Stop("OUT_OF_MEMORY")
    ELSE /\ stack' = Append(stack, CallRecord(Top.ret))
         /\ position' = [position EXCEPT !.file = symbols[Top.name].position]
         /\ block' = Top.name
         /\ phase' = ph
         /\ frames' = SetTop([Top EXCEPT !.pc = "loop", !.stack = stack])
         /\ ran' = IF ph = "DATA" THEN [ran EXCEPT ![Top.name] = @ + 1] ELSE ran
         /\ checking' = (checking /\ ph = "DATA")
         /\ UNCHANGED <<program, version, symbols, outcome>>

ProcedureBegins ==
    /\ At("uses") /\ Top.todo = <<>>
    /\ Begin("PROCEDURE")

\* Variant: data blocks are executed whenever they are used.
BlockFoundAgain ==
    /\ At("found") /\ Top.fn = "uses"
    /\ IF symbols[Top.name].type \notin {"PROCEDURE", "DATA"}
       THEN Stop("INTERNAL_ERROR")
       ELSE IF symbols[Top.name].type = "DATA"
       THEN Begin("DATA")
       ELSE /\ frames' = Front(frames)
            /\ UNCHANGED <<context, position, symbols, stack, outcome, ran>>

\* A used procedure is only known to be there; a data block is executed
\* unless it has been.
BlockFound ==
    /\ At("found") /\ Top.fn = "uses"
    /\ IF symbols[Top.name].type \notin {"PROCEDURE", "DATA"}
       THEN Stop("INTERNAL_ERROR")
       ELSE IF symbols[Top.name].type = "DATA" /\ symbols[Top.name].value = 0
       THEN Begin("DATA")
       ELSE /\ frames' = Front(frames)
            /\ UNCHANGED <<context, position, symbols, stack, outcome, ran>>

\* jam_process_call_or_goto searches for a label: in Jam 2.0 up to the end of
\* the procedure.
SearchLabel ==
    /\ At("search") /\ Top.fn \in {"CALL", "GOTO"}
    /\ IF EndOfFile THEN Stop("UNDEFINED_SYMBOL")
       ELSE LET at == position.file
                line == Text[at]
                found == line.label = Top.name
            IN  IF \/ line.label # None /\ Redefined(symbols, "LABEL", line.label, at)
                   \/ ~found /\ version = 2 /\ line.statement.op = "ENDPROC"
                THEN Stop("UNDEFINED_SYMBOL")
                ELSE IF found /\ Top.fn = "CALL" /\ Full THEN Stop("OUT_OF_MEMORY")
                ELSE /\ symbols' = IF line.label = None THEN symbols
                                   ELSE AddSymbol(symbols, "LABEL", line.label, 0, at)
                     /\ position' = IF found THEN [Read EXCEPT !.file = at] ELSE Read
                     /\ stack' = IF found /\ Top.fn = "CALL"
                                 THEN Append(stack, CallRecord(Top.ret)) ELSE stack
                     /\ frames' = IF found THEN Front(frames) ELSE frames
                     /\ UNCHANGED <<context, outcome, ran>>

\* After an EXIT every loop ends, but those over data blocks.
Leave ==
    /\ At("loop") /\ done /\ Top.fn # "uses"
    /\ frames' = Front(frames)
    /\ block' = Top.block
    /\ phase' = Top.phase
    /\ UNCHANGED <<program, version, checking, position, symbols, stack, outcome, ran>>

Statement ==
    \/ Action \/ Declaration \/ Integer \/ CallBlock \/ CallOrGoto \/ Return
    \/ For \/ NextStatement \/ Push \/ Pop \/ If \/ Exit \/ Comment \/ Fail

Call ==
    \/ Listed \/ ActionEnds \/ Enter \/ SearchBlock \/ ProcedureFound \/ Used
    \/ ProcedureBegins \/ BlockFound \/ SearchLabel \/ Leave

Next == Statement \/ Call

Spec == Init /\ [][Next]_vars

-----------------------------------------------------------------------------
(***************************************************************************)
(* Properties.                                                             *)
(***************************************************************************)
\* Position p is the one behind a call of the procedure name.
Behind(p, name) ==
    /\ p - 1 \in DOMAIN Text
    /\ LET call == Inner(Text[p - 1].statement)
       IN  call.op = "CALL" /\ call.name = name

\* A procedure that comes to its end leaves its caller as it found it: behind
\* the CALL, with the stack, the block and the phase it had -- through
\* recursion, loops, jumps and values left on the stack, and whatever blocks
\* were searched for and executed on the way.  A data block leaves the stack.
CallsReturn ==
    [][/\ Len(frames') < Len(frames)
       /\ Top.pc = "loop" /\ (done => Top.fn = "uses")
       => /\ stack' = Top.stack
          /\ block' = Top.block /\ phase' = Top.phase
          /\ Top.fn = "call" /\ block' # None => Behind(position'.file, Top.name)]_vars

\* A data block is executed once, however many procedures use it and from
\* wherever they are called, and before the first of them.
UsedDataIsReady ==
    /\ \A d \in DOMAIN ran : ran[d] <= 1
    /\ \A i \in DOMAIN frames :
         frames[i].fn = "call" /\ frames[i].pc = "loop" =>
           \A b \in UsesOf(symbols, frames[i].name) :
             b \in DOMAIN symbols /\ (symbols[b].type = "DATA" => ran[b] = 1)

\* The lines a label is searched in: the file, in Jam 2.0 the procedure.
Searched ==
    IF version = 2 THEN symbols[block].position .. position.file ELSE DOMAIN Text

\* ``Label was not found -- report undefined symbol'' (jamexec.c): looked for
\* in the table and then only forward, from wherever the program is, a block
\* or a label is found if it is there.  The exception is a procedure the
\* action calls after one that met blocks for the first time while it was
\* running: those are taken to belong to it.
UndefinedIsUndefined ==
    status \in {"UNDEFINED_SYMBOL", "SCOPE_ERROR"} /\ Top.pc # "loop" =>
      \/ IF Top.fn \in {"call", "uses"}
         THEN Top.name \notin Names(Text, {"PROCEDURE", "DATA"})
         ELSE \A i \in Searched : Text[i].label # Top.name
      \/ /\ Top.fn = "call" /\ block = None
         /\ \E n \in DOMAIN symbols :
              symbols[n].type \in {"PROCEDURE", "DATA"} /\ symbols[n].parent # None
=============================================================================
