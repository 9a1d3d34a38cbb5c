------------------------------ MODULE MCJamExec ------------------------------
(***************************************************************************)
(* Programs for JamExec: an action over three procedures and two data      *)
(* blocks in any of some orders, and programs of Jam 1.x.                  *)
(***************************************************************************)
EXTENDS JamExec

Plain(s) == [label |-> None, statement |-> s]
Marked(l, s) == [label |-> l, statement |-> s]
Op(op) == [op |-> op]
CallOf(n) == [op |-> "CALL", name |-> n]
GotoOf(n) == [op |-> "GOTO", name |-> n]
IfIs(v, s) == [op |-> "IF", name |-> "i", value |-> v, then |-> s]

ForI == [op |-> "FOR", name |-> "i", from |-> 1, to |-> 2, step |-> 1]
NextI == [op |-> "NEXT", name |-> "i"]
PushOne == [op |-> "PUSH", value |-> 1]
PopI == [op |-> "POP", name |-> "i"]
ExitOne == [op |-> "EXIT", code |-> 1]
IntegerOf(v) == [op |-> "INTEGER", name |-> v, value |-> 0]

Item(n, k) == [name |-> n, keyword |-> k]
ThreeItems ==
    <<Item("p", "RECOMMENDED"), Item("q", "OPTIONAL"), Item("r", "MANDATORY")>>
ActionOf(n, list) == Plain([op |-> "ACTION", name |-> n, procedures |-> list])
Procedure(n, uses, body) ==
    <<Plain([op |-> "PROCEDURE", name |-> n, uses |-> uses])>> \o body
    \o <<Plain(Op("ENDPROC"))>>
Data(n, v) ==
    <<Plain([op |-> "DATA", name |-> n]), Plain(IntegerOf(v)), Plain(Op("ENDDATA"))>>

\* The statements of a Jam 2.0 procedure p and those before the subroutine s
\* of a Jam 1.x program.
Statements ==
    <<Op("REM"), ForI, NextI, PushOne, PopI, ExitOne, IfIs(1, CallOf("p")),
      CallOf("q"), GotoOf("l"), IfIs(2, GotoOf("m"))>>
Statements1 ==
    <<Op("REM"), ForI, NextI, PushOne, PopI, ExitOne, IfIs(1, CallOf("s")),
      GotoOf("s"), GotoOf("t"), Op("RETURN")>>

\* What a program is made of: its statements and, in Jam 2.0, the list of what
\* p uses, what q does, the procedures of the action with the initialisation
\* list, and the order of the blocks.
MCSources ==
    [version : {1, 2}, a : 1 .. 10, b : 1 .. 10, c : 1 .. 10,
     uses : {<<"d", "q">>, <<"q", "d", "e">>},
     calls : {<<Plain(Op("REM"))>>, <<Plain(CallOf("r"))>>},
     asked : {[list |-> <<Item("p", "MANDATORY")>>, init |-> <<>>],
              [list |-> ThreeItems, init |-> <<>>],
              [list |-> ThreeItems, init |-> [q |-> 1]]},
     order : {<<"d", "p", "q", "r", "e">>, <<"e", "r", "q", "p", "d">>,
              <<"p", "d", "e", "r", "q">>}]

\* An action over three procedures and two data blocks.
Jam2(s) ==
    LET body == <<Plain(Statements[s.a]), Marked("l", Statements[s.b]),
                  Plain(Statements[s.c])>>
        blockOf == [p |-> Procedure("p", s.uses, body),
                    q |-> Procedure("q", <<"d", "r">>,
                                    <<Marked("m", Op("REM"))>> \o s.calls),
                    r |-> Procedure("r", <<"e">>, <<Plain(Op("REM"))>>),
                    d |-> Data("d", "i"), e |-> Data("e", "j")]
    IN  [text |-> <<Plain(Op("NOTE")), ActionOf("other", s.asked.list), ActionOf("run", s.asked.list)>>
                  \o FlattenSeq([i \in 1 .. 5 |-> blockOf[s.order[i]]]),
         action |-> "run", init |-> s.asked.init]

\* A subroutine s, and t to end the program.
Jam1(s) ==
    [text |-> <<Plain(IntegerOf("i")), Plain(Statements1[s.a]), Plain(CallOf("s")),
                Plain(Statements1[s.b]), Marked("s", Statements1[s.c]),
                Plain(Op("RETURN")), Marked("t", Op("REM")), Plain(ExitOne)>>,
     action |-> None, init |-> [i |-> 1]]

MCProgramOf(s) == IF s.version = 2 THEN Jam2(s) ELSE Jam1(s)
=============================================================================
