---------------------------- MODULE JamExecProofs ----------------------------
(***************************************************************************)
(* Used data is ready in JamExec, for every program and every depth of the *)
(* stack: programs of any length, whose statements are in any order, that  *)
(* jump from block to block and come to an end where they should not.  And *)
(* calls return, in those that come to no end of a block of another kind.  *)
(***************************************************************************)
EXTENDS JamExec, SequenceTheorems, TLAPS

Pos == Nat \ {0}
IsList(s) == s \in Seq(ToSet(s))

IsSymbol(r) ==
    /\ r = [type |-> r.type, value |-> r.value, position |-> r.position,
            parent |-> r.parent, uses |-> r.uses]
    /\ r.position \in Pos
    /\ IsList(r.uses)

\* A block is a symbol where the text declares it, and as it is declared.
DeclaredAs(r, n) ==
    r.type \in {"PROCEDURE", "DATA"} =>
      /\ r.position \in DOMAIN Text
      /\ LET s == Inner(Text[r.position].statement)
         IN  /\ s.op = r.type /\ s.name = n
             /\ r.type = "PROCEDURE" => r.uses = s.uses

IsTable(t) ==
    /\ t = [n \in DOMAIN t |-> t[n]]
    /\ \A n \in DOMAIN t : IsSymbol(t[n]) /\ DeclaredAs(t[n], n)

\* What the statements do to the symbol table: symbols are added, and stay
\* what they are.  No statement gives a data block a value.
Grows(t, u) ==
    /\ IsTable(u)
    /\ DOMAIN t \subseteq DOMAIN u
    /\ \A n \in DOMAIN t :
         /\ u[n].type = t[n].type /\ u[n].uses = t[n].uses
         /\ t[n].type = "DATA" => u[n].value = t[n].value
    /\ \A n \in DOMAIN u \ DOMAIN t : u[n].type = "DATA" => u[n].value = 0

IsRecord(r) ==
    /\ r.type = "CALL" => r.ret \in Pos
    /\ r.type = "FOR" => r.for \in Pos

StackOK == IsList(stack) /\ \A i \in 1 .. Len(stack) : IsRecord(stack[i])

\* The program, where it is, and what it keeps.
StateInv ==
    /\ position \in [file : Pos, current : Pos, next : Pos]
    /\ version \in {0, 1, 2}
    /\ phase \in {"PROCEDURE", "DATA"} => version = 2
    /\ IsTable(symbols)
    /\ StackOK

-----------------------------------------------------------------------------
(***************************************************************************)
(* The frames.  Data blocks and searches for labels are on top: nothing is *)
(* called from them.                                                       *)
(***************************************************************************)
Functions == {"execute", "action", "call", "uses", "CALL", "GOTO"}

IsFrame(f) ==
    /\ f = [fn |-> f.fn, pc |-> f.pc, name |-> f.name, todo |-> f.todo, ret |-> f.ret,
            stack |-> f.stack, block |-> f.block, phase |-> f.phase,
            buffer |-> f.buffer]
    /\ f.fn \in Functions
    /\ f.pc = "loop" => f.fn \in {"execute", "call", "uses"}
    /\ f.pc = "listed" => f.fn = "action"
    /\ f.pc = "uses" => f.fn = "call" /\ IsList(f.todo)
    /\ f.fn \notin {"execute", "action"} => f.ret \in Pos
    /\ f.phase \in {"PROCEDURE", "DATA"} \/ f.fn \in {"action", "call", "uses"} =>
         version = 2

\* A statement behind a THEN is in the buffer of the loop that runs.
BufferOK(i) ==
    frames[i].buffer # None =>
      /\ i = Len(frames) /\ frames[i].pc = "loop"
      /\ position.current \in DOMAIN Text
      /\ Text[position.current].statement.op = "IF"
      /\ Text[position.current].statement.then = frames[i].buffer
      /\ position.next = position.current + 1

Ready(b) == b \in DOMAIN symbols /\ (symbols[b].type = "DATA" => ran[b] = 1)

\* A procedure waits for the blocks it uses, one after the other.
Waits(i, b) ==
    \/ Ready(b)
    \/ b \in ToSet(frames[i].todo)
    \/ i < Len(frames) /\ frames[i + 1].fn = "uses" /\ frames[i + 1].name = b

UsedOK(i) ==
    /\ frames[i].fn \in {"uses", "CALL", "GOTO"} => i = Len(frames)
    /\ \/ frames[i].pc \in {"found", "uses"}
       \/ frames[i].fn \in {"call", "uses"} /\ frames[i].pc = "loop"
       => frames[i].name \in DOMAIN symbols
    /\ frames[i].pc = "uses" =>
         /\ i < Len(frames) => frames[i + 1].fn = "uses"
         /\ \A b \in UsesOf(symbols, frames[i].name) : Waits(i, b)
    /\ frames[i].fn = "call" /\ frames[i].pc = "loop" =>
         \A b \in UsesOf(symbols, frames[i].name) : Ready(b)
    /\ frames[i].fn = "uses" /\ frames[i].pc = "loop" =>
         /\ phase = "DATA"
         /\ symbols[frames[i].name].type = "DATA"
         /\ ran[frames[i].name] = 1

FramesInv ==
    /\ IsList(frames)
    /\ \A i \in 1 .. Len(frames) : IsFrame(frames[i]) /\ BufferOK(i) /\ UsedOK(i)

\* A data block has a value as soon as it is over.
InData(d) == frames # <<>> /\ Top.fn = "uses" /\ Top.pc = "loop" /\ Top.name = d

RanInv ==
    /\ ran \in [Names(Text, {"DATA"}) -> {0, 1}]
    /\ \A d \in DOMAIN ran :
         ran[d] = 1 => /\ d \in DOMAIN symbols /\ symbols[d].type = "DATA"
                       /\ symbols[d].value # 0 \/ InData(d)
    /\ \A d \in DOMAIN symbols :
         symbols[d].type = "DATA" /\ symbols[d].value # 0 => ran[d] = 1

Inv == (\E s \in Sources : program = ProgramOf(s)) /\ StateInv /\ FramesInv /\ RanInv

-----------------------------------------------------------------------------
(***************************************************************************)
(* Lists of anything.                                                      *)
(***************************************************************************)
LEMMA ListOf ==
  ASSUME NEW s, NEW S, s \in Seq(S)
  PROVE  IsList(s) /\ Len(s) \in Nat /\ DOMAIN s = 1 .. Len(s)
<1>1. Len(s) \in Nat /\ DOMAIN s = 1 .. Len(s) /\ \A i \in 1 .. Len(s) : s[i] \in S
  OBVIOUS
<1>2. \A i \in 1 .. Len(s) : s[i] \in ToSet(s)
  BY <1>1 DEF ToSet
<1>3. s = [i \in 1 .. Len(s) |-> s[i]]
  OBVIOUS
<1>4. s \in [1 .. Len(s) -> ToSet(s)]
  BY <1>2, <1>3
<1> QED
  BY <1>1, <1>4 DEF IsList

LEMMA ListAppends ==
  ASSUME NEW s, NEW x, IsList(s)
  PROVE  /\ IsList(Append(s, x))
         /\ Len(Append(s, x)) = Len(s) + 1
         /\ \A i \in 1 .. Len(s) : Append(s, x)[i] = s[i]
         /\ Append(s, x)[Len(s) + 1] = x
         /\ Last(Append(s, x)) = x
         /\ Append(s, x) # <<>>
<1> DEFINE S == ToSet(s) \cup {x}
<1>1. s \in Seq(S)
  BY DEF IsList
<1>2. Append(s, x) \in Seq(S) /\ x \in S
  BY <1>1
<1>3. IsList(Append(s, x))
  BY <1>2, ListOf
<1>4. /\ Len(s) \in Nat /\ Len(Append(s, x)) = Len(s) + 1
      /\ \A i \in 1 .. Len(s) : Append(s, x)[i] = s[i]
      /\ Append(s, x)[Len(s) + 1] = x
  BY <1>1, <1>2
<1>5. Append(s, x) # <<>>
  BY <1>2, <1>4
<1> QED
  BY <1>3, <1>4, <1>5 DEF Last

LEMMA ListFront ==
  ASSUME NEW s, IsList(s), s # <<>>
  PROVE  /\ IsList(Front(s))
         /\ Len(s) \in Nat \ {0}
         /\ Len(Front(s)) = Len(s) - 1
         /\ \A i \in 1 .. Len(s) - 1 : Front(s)[i] = s[i]
<1>1. s \in Seq(ToSet(s))
  BY DEF IsList
<1>2. Len(s) \in Nat \ {0}
  BY <1>1
<1>3. \A i \in 1 .. Len(s) - 1 : s[i] \in ToSet(s)
  BY <1>1, <1>2
<1>4. Front(s) \in Seq(ToSet(s))
  BY <1>1, <1>2, <1>3 DEF Front
<1>5. IsList(Front(s))
  BY <1>4, ListOf
<1>6. /\ Len(Front(s)) = Len(s) - 1
      /\ \A i \in 1 .. Len(s) - 1 : Front(s)[i] = s[i]
  <2> DEFINE m == Len(s) - 1
  <2>1. m \in Nat /\ Front(s) = SubSeq(s, 1, m) /\ \A i \in 1 .. m : s[i] \in ToSet(s)
    BY <1>2, <1>3 DEF Front
  <2> HIDE DEF m
  <2>2. /\ Len(SubSeq(s, 1, m)) = IF 1 <= m THEN m - 1 + 1 ELSE 0
        /\ \A i \in 1 .. m - 1 + 1 : SubSeq(s, 1, m)[i] = s[1 + i - 1]
    BY <2>1, SubSeqProperties
  <2>3. Len(SubSeq(s, 1, m)) = m /\ \A i \in 1 .. m : SubSeq(s, 1, m)[i] = s[i]
    BY <2>1, <2>2
  <2> QED
    BY <2>1, <2>3 DEF m
<1> QED
  BY <1>2, <1>5, <1>6

LEMMA ListTail ==
  ASSUME NEW s, IsList(s), s # <<>>
  PROVE  IsList(Tail(s)) /\ ToSet(s) = {Head(s)} \cup ToSet(Tail(s))
<1>1. s \in Seq(ToSet(s))
  BY DEF IsList
<1>2. Len(s) \in Nat \ {0} /\ Tail(s) \in Seq(ToSet(s)) /\ Len(Tail(s)) = Len(s) - 1
  BY <1>1
<1>3. /\ Head(s) = s[1]
      /\ \A i \in 1 .. Len(s) - 1 : Tail(s)[i] = s[i + 1]
  BY <1>1, <1>2
<1>4. DOMAIN s = 1 .. Len(s) /\ DOMAIN Tail(s) = 1 .. Len(s) - 1
  BY <1>1, <1>2
<1>5. ASSUME NEW x \in ToSet(s)
      PROVE  x = Head(s) \/ x \in ToSet(Tail(s))
  <2>1. PICK i \in 1 .. Len(s) : x = s[i]
    BY <1>4 DEF ToSet
  <2>2. CASE i = 1
    BY <2>1, <2>2, <1>3
  <2>3. CASE i # 1
    <3>1. i - 1 \in 1 .. Len(s) - 1 /\ (i - 1) + 1 = i
      BY <2>3, <1>2
    <3>2. Tail(s)[i - 1] = x
      BY <3>1, <1>3, <2>1
    <3> QED
      BY <3>1, <3>2, <1>4 DEF ToSet
  <2> QED
    BY <2>2, <2>3
<1>6. ASSUME NEW x \in ToSet(Tail(s))
      PROVE  x \in ToSet(s)
  <2>1. PICK i \in 1 .. Len(s) - 1 : x = Tail(s)[i]
    BY <1>4 DEF ToSet
  <2>2. i + 1 \in 1 .. Len(s) /\ x = s[i + 1]
    BY <2>1, <1>2, <1>3
  <2> QED
    BY <2>2, <1>4 DEF ToSet
<1>7. Head(s) \in ToSet(s)
  BY <1>2, <1>3, <1>4 DEF ToSet
<1> QED
  BY <1>2, <1>5, <1>6, <1>7, ListOf

\* The top frame is replaced.
LEMMA TopIsSet ==
  ASSUME NEW f, IsList(frames), frames # <<>>
  PROVE  /\ IsList(SetTop(f)) /\ SetTop(f) # <<>>
         /\ Len(frames) \in Nat \ {0} /\ Len(SetTop(f)) = Len(frames)
         /\ \A i \in 1 .. Len(frames) - 1 : SetTop(f)[i] = frames[i]
         /\ SetTop(f)[Len(frames)] = f
         /\ Last(SetTop(f)) = f
<1> DEFINE S == ToSet(frames) \cup {f}
<1>1. frames \in Seq(S) /\ f \in S
  BY DEF IsList
<1>2. Len(frames) \in Nat \ {0}
  BY <1>1
<1>3. SetTop(f) \in Seq(S)
  BY <1>1, <1>2 DEF SetTop
<1>4. /\ Len(SetTop(f)) = Len(frames)
      /\ \A i \in 1 .. Len(frames) - 1 : SetTop(f)[i] = frames[i]
      /\ SetTop(f)[Len(frames)] = f
  BY <1>1, <1>2 DEF SetTop
<1> QED
  BY <1>2, <1>3, <1>4, ListOf DEF Last

-----------------------------------------------------------------------------
(***************************************************************************)
(* The symbol table.                                                       *)
(***************************************************************************)
LEMMA GrowsNot ==
  ASSUME NEW t, IsTable(t)
  PROVE  Grows(t, t)
  BY DEF Grows

LEMMA GrowsMore ==
  ASSUME NEW t, NEW u, NEW v, Grows(t, u), Grows(u, v)
  PROVE  Grows(t, v)
<1>1. IsTable(v) /\ DOMAIN t \subseteq DOMAIN u /\ DOMAIN u \subseteq DOMAIN v
  BY DEF Grows
<1>2. ASSUME NEW n \in DOMAIN t
      PROVE  /\ v[n].type = t[n].type /\ v[n].uses = t[n].uses
             /\ t[n].type = "DATA" => v[n].value = t[n].value
  BY <1>1 DEF Grows
<1>3. ASSUME NEW n \in DOMAIN v \ DOMAIN t, v[n].type = "DATA"
      PROVE  v[n].value = 0
  BY <1>1, <1>3 DEF Grows
<1> QED
  BY <1>1, <1>2, <1>3 DEF Grows

LEMMA ValueIsSet ==
  ASSUME NEW t, NEW n, NEW v, IsTable(t), n \in DOMAIN t
  PROVE  LET u == [t EXCEPT ![n].value = v]
         IN  /\ IsTable(u) /\ DOMAIN u = DOMAIN t
             /\ \A m \in DOMAIN t \ {n} : u[m] = t[m]
             /\ u[n].type = t[n].type /\ u[n].uses = t[n].uses /\ u[n].value = v
<1> DEFINE u == [t EXCEPT ![n].value = v]
           r == [type |-> t[n].type, value |-> v, position |-> t[n].position,
                 parent |-> t[n].parent, uses |-> t[n].uses]
<1>1. t[n] = [type |-> t[n].type, value |-> t[n].value, position |-> t[n].position,
              parent |-> t[n].parent, uses |-> t[n].uses]
  BY DEF IsTable, IsSymbol
<1>2. [t[n] EXCEPT !.value = v] = r
  BY <1>1
<1>3. u = [m \in DOMAIN t |-> IF m = n THEN r ELSE t[m]]
  <2>1. t = [m \in DOMAIN t |-> t[m]]
    BY DEF IsTable
  <2>2. u = [t EXCEPT ![n] = [t[n] EXCEPT !.value = v]]
    OBVIOUS
  <2> QED
    BY <2>1, <2>2, <1>2
<1> HIDE DEF u
<1>4. DOMAIN u = DOMAIN t /\ u = [m \in DOMAIN u |-> u[m]]
  BY <1>3
<1>5. u[n] = r /\ \A m \in DOMAIN t \ {n} : u[m] = t[m]
  BY <1>3
<1>6. IsSymbol(u[n]) /\ DeclaredAs(u[n], n)
  <2>1. IsSymbol(t[n]) /\ DeclaredAs(t[n], n)
    BY DEF IsTable
  <2>2. u[n].type = t[n].type /\ u[n].position = t[n].position /\ u[n].uses = t[n].uses
    BY <1>5
  <2>3. u[n] = [type |-> u[n].type, value |-> u[n].value, position |-> u[n].position,
                parent |-> u[n].parent, uses |-> u[n].uses]
    BY <1>5
  <2> QED
    BY <2>1, <2>2, <2>3 DEF IsSymbol, DeclaredAs
<1>7. \A m \in DOMAIN u : IsSymbol(u[m]) /\ DeclaredAs(u[m], m)
  BY <1>4, <1>5, <1>6 DEF IsTable
<1>8. IsTable(u)
  BY <1>4, <1>7 DEF IsTable
<1> QED
  BY <1>4, <1>5, <1>8 DEF u

LEMMA OtherValueIsSet ==
  ASSUME NEW t, NEW n, NEW v, IsTable(t), n \in DOMAIN t, t[n].type # "DATA"
  PROVE  Grows(t, [t EXCEPT ![n].value = v])
<1> DEFINE u == [t EXCEPT ![n].value = v]
<1>1. /\ IsTable(u) /\ DOMAIN u = DOMAIN t
      /\ \A m \in DOMAIN t \ {n} : u[m] = t[m]
      /\ u[n].type = t[n].type /\ u[n].uses = t[n].uses
  BY ValueIsSet
<1> HIDE DEF u
<1>2. Grows(t, u)
  BY <1>1 DEF Grows
<1> QED
  BY <1>2 DEF u

LEMMA SymbolIsNew ==
  ASSUME NEW t, NEW n, NEW r, IsTable(t), n \notin DOMAIN t,
         IsSymbol(r), DeclaredAs(r, n), r.type = "DATA" => r.value = 0
  PROVE  Grows(t, [m \in DOMAIN t \cup {n} |-> IF m = n THEN r ELSE t[m]])
<1> DEFINE u == [m \in DOMAIN t \cup {n} |-> IF m = n THEN r ELSE t[m]]
<1>1. DOMAIN u = DOMAIN t \cup {n} /\ u = [m \in DOMAIN u |-> u[m]]
  OBVIOUS
<1>2. u[n] = r /\ \A m \in DOMAIN t : u[m] = t[m]
  OBVIOUS
<1> HIDE DEF u
<1>3. \A m \in DOMAIN u : IsSymbol(u[m]) /\ DeclaredAs(u[m], m)
  BY <1>1, <1>2 DEF IsTable
<1>4. IsTable(u)
  BY <1>1, <1>3 DEF IsTable
<1>5. Grows(t, u)
  BY <1>1, <1>2, <1>4 DEF Grows
<1> QED
  BY <1>5 DEF u

LEMMA EmptyIsList == IsList(<<>>)
<1>1. <<>> \in Seq({})
  OBVIOUS
<1> QED
  BY <1>1, ListOf

LEMMA SymbolIsAdded ==
  ASSUME NEW t, NEW type, NEW name, NEW value, NEW at \in Pos,
         IsTable(t), type \notin {"PROCEDURE", "DATA"}, ~Redefined(t, type, name, at)
  PROVE  LET u == AddSymbol(t, type, name, value, at)
         IN  Grows(t, u) /\ name \in DOMAIN u /\ u[name].type = type
<1>1. CASE name \notin DOMAIN t
  <2> DEFINE r == [type |-> type, value |-> InitialValue(type, name, value),
                   position |-> at, parent |-> block, uses |-> <<>>]
             u == [m \in DOMAIN t \cup {name} |-> IF m = name THEN r ELSE t[m]]
  <2>1. AddSymbol(t, type, name, value, at) = u
    BY <1>1 DEF AddSymbol
  <2>2. r.type = type /\ IsSymbol(r) /\ DeclaredAs(r, name)
    BY EmptyIsList DEF IsSymbol, DeclaredAs
  <2>3. u[name] = r /\ name \in DOMAIN u
    OBVIOUS
  <2> HIDE DEF r
  <2>4. Grows(t, u)
    BY <1>1, <2>2, SymbolIsNew
  <2> QED
    BY <2>1, <2>2, <2>3, <2>4
<1>2. CASE name \in DOMAIN t
  <2>1. t[name].type = type
    BY <1>2 DEF Redefined
  <2>2. AddSymbol(t, type, name, value, at) \in {t, [t EXCEPT ![name].value = value]}
    BY <1>2 DEF AddSymbol
  <2> DEFINE u == [t EXCEPT ![name].value = value]
  <2>3. Grows(t, u)
    BY <1>2, <2>1, OtherValueIsSet
  <2> HIDE DEF u
  <2>4. Grows(t, t)
    BY GrowsNot
  <2>5. \A v \in {t, u} : Grows(t, v) /\ name \in DOMAIN v /\ v[name].type = type
    BY <1>2, <2>1, <2>3, <2>4 DEF Grows
  <2> QED
    BY <2>2, <2>5 DEF u
<1> QED
  BY <1>1, <1>2

\* The version is known as soon as there are blocks.
LEMMA BlockIsAdded ==
  ASSUME StateInv, NEW t, IsTable(t), NEW at \in DOMAIN Text,
         at \in Pos, NEW s, s = Inner(Text[at].statement),
         s.op \in {"PROCEDURE", "DATA"}, s.op = "PROCEDURE" => IsList(s.uses),
         BlockError(t, s, at) = "SUCCESS"
  PROVE  Grows(t, AddBlock(t, s, at))
<1>1. version = 2 /\ ~Redefined(t, s.op, s.name, at)
  BY DEF StateInv, BlockError
<1> DEFINE a == AddSymbol(t, s.op, s.name, 0, at)
           u == AddBlock(t, s, at)
<1>2. u = IF s.op = "DATA" THEN a ELSE [a EXCEPT ![s.name].uses = s.uses]
  BY DEF AddBlock
<1>3. CASE s.name \notin DOMAIN t
  <2> DEFINE r == [type |-> s.op, value |-> InitialValue(s.op, s.name, 0),
                   position |-> at, parent |-> block, uses |-> <<>>]
             q == [type |-> s.op, value |-> InitialValue(s.op, s.name, 0),
                   position |-> at, parent |-> block,
                   uses |-> IF s.op = "PROCEDURE" THEN s.uses ELSE <<>>]
  <2>1. a = [m \in DOMAIN t \cup {s.name} |-> IF m = s.name THEN r ELSE t[m]]
    BY <1>3 DEF AddSymbol
  <2>2. InitialValue(s.op, s.name, 0) = 0
    BY DEF InitialValue
  <2>3. u = [m \in DOMAIN t \cup {s.name} |-> IF m = s.name THEN q ELSE t[m]]
    <3>1. CASE s.op = "DATA"
      BY <1>2, <2>1, <3>1
    <3>2. CASE s.op = "PROCEDURE"
      <4>1. a[s.name] = r /\ s.name \in DOMAIN a
        BY <2>1
      <4>2. [r EXCEPT !.uses = s.uses] = q
        BY <3>2
      <4>3. [a EXCEPT ![s.name].uses = s.uses] = [a EXCEPT ![s.name] = q]
        BY <4>1, <4>2
      <4> HIDE DEF r, q, a, u
      <4>4. [a EXCEPT ![s.name] = q]
            = [m \in DOMAIN t \cup {s.name} |-> IF m = s.name THEN q ELSE t[m]]
        BY <2>1
      <4> QED
        BY <4>3, <4>4, <1>2, <3>2
    <3> QED
      BY <3>1, <3>2
  <2>4. IsSymbol(q) /\ q.type = s.op /\ q.value = 0
    BY <2>2, EmptyIsList DEF IsSymbol
  <2>5. DeclaredAs(q, s.name)
    BY DEF DeclaredAs
  <2> HIDE DEF q, u
  <2>6. Grows(t, [m \in DOMAIN t \cup {s.name} |-> IF m = s.name THEN q ELSE t[m]])
    BY <1>3, <2>4, <2>5, SymbolIsNew
  <2> QED
    BY <2>3, <2>6 DEF u
<1>4. CASE s.name \in DOMAIN t
  <2>1. t[s.name].type = s.op /\ t[s.name].position = at
    BY <1>1, <1>4 DEF Redefined
  <2>2. a = t
    BY <1>1, <1>4 DEF AddSymbol
  <2>3. s.op = "PROCEDURE" => t[s.name].uses = s.uses
    BY <1>4, <2>1 DEF IsTable, DeclaredAs
  <2>4. u = t
    <3>1. CASE s.op = "DATA"
      BY <1>2, <2>2, <3>1
    <3>2. CASE s.op = "PROCEDURE"
      <4> DEFINE n == s.name
      <4>1. t[n] = [type |-> t[n].type, value |-> t[n].value, position |-> t[n].position,
                    parent |-> t[n].parent, uses |-> t[n].uses]
        BY <1>4 DEF IsTable, IsSymbol
      <4>2. [t[n] EXCEPT !.uses = s.uses] = t[n]
        BY <4>1, <2>3, <3>2
      <4>3. [t EXCEPT ![n] = t[n]] = t
        BY <1>4 DEF IsTable
      <4>4. [t EXCEPT ![n].uses = s.uses] = t
        BY <4>2, <4>3
      <4> QED
        BY <1>2, <2>2, <3>2, <4>4
    <3> QED
      BY <3>1, <3>2
  <2> QED
    BY <2>4, GrowsNot
<1> QED
  BY <1>3, <1>4

-----------------------------------------------------------------------------
(***************************************************************************)
(* A statement is read.                                                    *)
(***************************************************************************)
LEMMA TextIsRead ==
  ASSUME Inv
  PROVE  /\ Len(Text) \in Nat /\ DOMAIN Text = 1 .. Len(Text)
         /\ \A i \in DOMAIN Text :
              /\ Text[i].statement.op = "IF" => Text[i].statement.then.op # "IF"
              /\ Inner(Text[i].statement).op = "PROCEDURE" =>
                   IsList(Inner(Text[i].statement).uses)
<1>1. PICK s \in Sources : program = ProgramOf(s)
  BY DEF Inv
<1>2. Text = ProgramOf(s).text
  BY <1>1 DEF Text
<1>3. /\ Text \in Seq(ToSet(Text))
      /\ \A i \in DOMAIN Text :
           Inner(Text[i].statement).op = "PROCEDURE" =>
             Inner(Text[i].statement).uses \in Seq(ToSet(Inner(Text[i].statement).uses))
  BY <1>2, TextAssumption
<1>4. \A i \in DOMAIN Text :
        Text[i].statement.op = "IF" =>
          Text[i].statement.then.op \notin {"IF", "ENDPROC", "ENDDATA"}
  BY <1>2, ProgramAssumption
<1>5. Len(Text) \in Nat /\ DOMAIN Text = 1 .. Len(Text)
  BY <1>3, ListOf
<1> QED
  BY <1>3, <1>4, <1>5 DEF IsList

LEMMA TopIsThere ==
  ASSUME Inv, frames # <<>>
  PROVE  /\ Len(frames) \in Nat \ {0} /\ Len(frames) \in 1 .. Len(frames)
         /\ Top = frames[Len(frames)]
         /\ IsFrame(Top) /\ BufferOK(Len(frames)) /\ UsedOK(Len(frames))
<1>1. Len(frames) \in Nat \ {0}
  BY ListFront DEF Inv, FramesInv
<1> QED
  BY <1>1 DEF Inv, FramesInv, Top, Last

\* What is known of a statement that is right.
LEMMA LineIsRight ==
  ASSUME Inv, Looping, Error = "SUCCESS"
  PROVE  /\ StatementError(Line) = "SUCCESS"
         /\ Here \in DOMAIN Text /\ Here \in Pos
         /\ Line.op \in {"PROCEDURE", "DATA"} => Line = Inner(Text[Here].statement)
         /\ Label # None => ~Redefined(symbols, "LABEL", Label, Here)
         /\ After \in [file : Pos, current : Pos, next : Pos]
         /\ Line.op = "CALL" => Line = Inner(Text[Here].statement)
         /\ Line.op = "IF" => Line = Text[Here].statement
         /\ After.current = Here /\ After.next = Here + 1
<1>1. /\ StatementError(Line) = "SUCCESS" /\ (Buffered \/ ~EndOfFile)
      /\ Label # None => ~Redefined(symbols, "LABEL", Label, Here)
  BY DEF Error
<1>2. frames # <<>> /\ Top.pc = "loop"
  BY DEF Looping, At
<1>3. position \in [file : Pos, current : Pos, next : Pos]
  BY DEF Inv, StateInv
<1>4. position.file \in Pos /\ position.current \in Pos /\ position.next \in Pos
  BY <1>3
<1>5. CASE Buffered
  <2>1. /\ Top.buffer # None /\ Line = Top.buffer /\ Here = position.current
        /\ After = position
    BY <1>5 DEF Buffered, Line, Here, After
  <2>2. /\ Here \in DOMAIN Text
        /\ Text[Here].statement.op = "IF" /\ Text[Here].statement.then = Line
        /\ position.next = position.current + 1
    BY <1>2, <2>1, TopIsThere DEF BufferOK
  <2>3. Line = Inner(Text[Here].statement) /\ Line.op # "IF"
    BY <2>2, TextIsRead DEF Inner
  <2> QED
    BY <1>1, <1>3, <1>4, <2>1, <2>2, <2>3
<1>6. CASE ~Buffered
  <2>1. position.file \in DOMAIN Text
    BY <1>1, <1>4, <1>6, TextIsRead DEF EndOfFile, Pos
  <2>2. Line = Text[Here].statement /\ Here = position.file /\ After = Read
    BY <1>6 DEF Line, Here, After
  <2>3. Line.op # "IF" => Line = Inner(Text[Here].statement)
    BY <2>2 DEF Inner
  <2>4. /\ Read \in [file : Pos, current : Pos, next : Pos]
        /\ Read.current = position.file /\ Read.next = position.file + 1
    BY <1>4 DEF Read, Pos
  <2> QED
    BY <1>1, <1>4, <2>1, <2>2, <2>3, <2>4
<1> QED
  BY <1>5, <1>6

LEMMA LabelIsAdded ==
  ASSUME Inv, Looping, Error = "SUCCESS"
  PROVE  Grows(symbols, Labelled) /\ IsTable(Labelled)
<1>1. IsTable(symbols)
  BY DEF Inv, StateInv
<1>2. CASE Label = None
  BY <1>1, <1>2, GrowsNot DEF Labelled
<1>3. CASE Label # None
  <2>1. ~Redefined(symbols, "LABEL", Label, Here) /\ Here \in Pos
    BY <1>3, LineIsRight
  <2>2. Labelled = AddSymbol(symbols, "LABEL", Label, 0, Here)
    BY <1>3 DEF Labelled
  <2>3. Grows(symbols, AddSymbol(symbols, "LABEL", Label, 0, Here))
    BY <1>1, <2>1, SymbolIsAdded
  <2> QED
    BY <2>2, <2>3 DEF Grows
<1> QED
  BY <1>2, <1>3

\* In a data block nothing is executed but declarations and its end.
LEMMA DataIsPassive ==
  ASSUME Inv, Looping, Error = "SUCCESS", Top.fn = "uses"
  PROVE  Line.op \notin ProcedureStatements \cup {"ACTION", "NOTE"} /\ phase = "DATA"
<1>1. Top.pc = "loop" /\ frames # <<>>
  BY DEF Looping, At
<1>2. phase = "DATA" /\ version = 2
  BY <1>1, TopIsThere DEF UsedOK, IsFrame
<1>3. StatementError(Line) = "SUCCESS"
  BY LineIsRight
<1>4. Line.op \notin ProcedureStatements
  BY <1>2, <1>3 DEF StatementError
<1>5. Line.op # "ACTION"
  BY <1>2, <1>3 DEF StatementError, ActionError
<1>6. Line.op # "NOTE"
  BY <1>2, <1>3 DEF StatementError, NoteError
<1> QED
  BY <1>2, <1>4, <1>5, <1>6

-----------------------------------------------------------------------------
(***************************************************************************)
(* What every step does that begins no data block: the symbol table grows, *)
(* a data block may be given its value when it has been executed, and the  *)
(* frames that stay are what they were.                                    *)
(***************************************************************************)
Kept ==
    /\ DOMAIN symbols \subseteq DOMAIN symbols'
    /\ \A n \in DOMAIN symbols :
         /\ symbols'[n].type = symbols[n].type /\ symbols'[n].uses = symbols[n].uses
         /\ symbols[n].type = "DATA" =>
              \/ symbols'[n].value = symbols[n].value
              \/ symbols'[n].value = 1 /\ ran[n] = 1
    /\ \A n \in DOMAIN symbols' \ DOMAIN symbols :
         symbols'[n].type = "DATA" => symbols'[n].value = 0

Grown ==
    /\ program' = program
    /\ StateInv'
    /\ Kept
    /\ version = 2 => version' = 2

LEMMA GrowsIsKept ==
  ASSUME Grows(symbols, symbols')
  PROVE  Kept
  BY DEF Grows, Kept

\* What has been executed has been executed.
RanKept == \A d \in DOMAIN ran : ran[d] = 1 => ran'[d] = 1

LEMMA DataIsDeclared ==
  ASSUME Inv
  PROVE  \A d \in DOMAIN symbols : symbols[d].type = "DATA" => d \in DOMAIN ran
<1> SUFFICES ASSUME NEW d \in DOMAIN symbols, symbols[d].type = "DATA"
             PROVE  d \in Names(Text, {"DATA"})
  BY DEF Inv, RanInv
<1>1. /\ symbols[d].position \in DOMAIN Text
      /\ Inner(Text[symbols[d].position].statement).op = "DATA"
      /\ Inner(Text[symbols[d].position].statement).name = d
  BY DEF Inv, StateInv, IsTable, DeclaredAs
<1> QED
  BY <1>1 DEF Names

LEMMA ReadyStays ==
  ASSUME Inv, Grown, RanKept
  PROVE  \A b : Ready(b) => Ready(b)'
  BY DataIsDeclared DEF Grown, Kept, Ready, RanKept

LEMMA UsesStay ==
  ASSUME Inv, Grown
  PROVE  \A n \in DOMAIN symbols : UsesOf(symbols', n) = UsesOf(symbols, n)
  BY DEF Grown, Kept, UsesOf

LEMMA RanStays ==
  ASSUME Inv, Grown, ran' = ran,
         \A d \in DOMAIN symbols :
           InData(d) => InData(d)' \/ symbols'[d].value # 0
  PROVE  RanInv'
<1>1. ran' \in [Names(Text, {"DATA"})' -> {0, 1}]
  BY DEF Inv, RanInv, Grown, Text
<1>2. ASSUME NEW d \in DOMAIN ran', ran'[d] = 1
      PROVE  /\ d \in DOMAIN symbols' /\ symbols'[d].type = "DATA"
             /\ symbols'[d].value # 0 \/ InData(d)'
  <2>1. /\ d \in DOMAIN symbols /\ symbols[d].type = "DATA"
        /\ symbols[d].value # 0 \/ InData(d)
    BY <1>2 DEF Inv, RanInv
  <2>2. /\ d \in DOMAIN symbols' /\ symbols'[d].type = "DATA"
        /\ symbols'[d].value = symbols[d].value \/ symbols'[d].value = 1
    BY <2>1 DEF Grown, Kept
  <2> QED
    BY <2>1, <2>2
<1>3. ASSUME NEW d \in DOMAIN symbols', symbols'[d].type = "DATA", symbols'[d].value # 0
      PROVE  ran'[d] = 1
  <2>1. /\ d \in DOMAIN symbols /\ symbols[d].type = "DATA"
        /\ symbols[d].value # 0 \/ ran[d] = 1
    BY <1>3 DEF Grown, Kept
  <2> QED
    BY <2>1 DEF Inv, RanInv
<1> QED
  BY <1>1, <1>2, <1>3 DEF RanInv

\* f is g, but for what is left to do and the buffer.
Alike(f, g) == f.fn = g.fn /\ f.pc = g.pc /\ f.name = g.name

LEMMA UsedStays ==
  ASSUME Inv, Grown, RanKept,
         NEW i \in 1 .. Len(frames), Alike(frames'[i], frames[i]),
         frames[i].fn \in {"uses", "CALL", "GOTO"} => i = Len(frames'),
         frames[i].pc = "uses" =>
           /\ i < Len(frames') => frames'[i + 1].fn = "uses"
           /\ \A b : Waits(i, b) => Waits(i, b)',
         frames[i].fn = "uses" => phase' = phase
  PROVE  UsedOK(i)'
<1>1. UsedOK(i)
  BY DEF Inv, FramesInv
<1> DEFINE f == frames[i]
           g == frames'[i]
<1>2. g.fn = f.fn /\ g.pc = f.pc /\ g.name = f.name
  BY DEF Alike
<1>3. g.fn \in {"uses", "CALL", "GOTO"} => i = Len(frames')
  BY <1>2
<1>4. \/ g.pc \in {"found", "uses"}
      \/ g.fn \in {"call", "uses"} /\ g.pc = "loop"
      => g.name \in DOMAIN symbols /\ g.name \in DOMAIN symbols'
  BY <1>1, <1>2 DEF UsedOK, Grown, Kept
<1>5. ASSUME g.pc = "uses"
      PROVE  \A b \in UsesOf(symbols', g.name) : Waits(i, b)'
  BY <1>1, <1>2, <1>4, <1>5, UsesStay DEF UsedOK
<1>6. ASSUME g.fn = "call", g.pc = "loop"
      PROVE  \A b \in UsesOf(symbols', g.name) : Ready(b)'
  BY <1>1, <1>2, <1>4, <1>6, UsesStay, ReadyStays DEF UsedOK
<1>7. ASSUME g.fn = "uses", g.pc = "loop"
      PROVE  /\ phase' = "DATA" /\ symbols'[g.name].type = "DATA"
             /\ ran'[g.name] = 1
  BY <1>1, <1>2, <1>4, <1>7, DataIsDeclared DEF UsedOK, Grown, Kept, RanKept
<1> HIDE DEF f, g
<1> QED
  BY <1>2, <1>3, <1>4, <1>5, <1>6, <1>7 DEF UsedOK, f, g

LEMMA FrameStays ==
  ASSUME Inv, Grown, NEW i \in 1 .. Len(frames), frames'[i] = frames[i]
  PROVE  IsFrame(frames[i])' /\ (i # Len(frames) => BufferOK(i)')
  BY DEF Inv, FramesInv, IsFrame, Grown, BufferOK

\* A frame that goes on, in its function, where that function may be.
LEMMA FrameGoesOn ==
  ASSUME NEW f, NEW g, IsFrame(f), version = 2 => version' = 2,
         g = [fn |-> g.fn, pc |-> g.pc, name |-> g.name, todo |-> g.todo, ret |-> g.ret,
              stack |-> g.stack, block |-> g.block, phase |-> g.phase,
              buffer |-> g.buffer],
         g.fn = f.fn, g.ret = f.ret, g.phase = f.phase,
         g.pc = "loop" => g.fn \in {"execute", "call", "uses"},
         g.pc = "listed" => g.fn = "action",
         g.pc = "uses" => g.fn = "call" /\ IsList(g.todo)
  PROVE  IsFrame(g)'
<1>1. /\ f.fn \in Functions
      /\ f.fn \notin {"execute", "action"} => f.ret \in Pos
      /\ f.phase \in {"PROCEDURE", "DATA"} \/ f.fn \in {"action", "call", "uses"} =>
           version = 2
  BY Zenon DEF IsFrame
<1>2. /\ g.fn \in Functions
      /\ g.fn \notin {"execute", "action"} => g.ret \in Pos
      /\ g.phase \in {"PROCEDURE", "DATA"} \/ g.fn \in {"action", "call", "uses"} =>
           version' = 2
  BY <1>1
<1> QED
  BY <1>2, Zenon DEF IsFrame

With(f, pc, todo, found, buffer) ==
    [fn |-> f.fn, pc |-> pc, name |-> f.name, todo |-> todo, ret |-> f.ret,
     stack |-> found, block |-> f.block, phase |-> f.phase, buffer |-> buffer]

LEMMA TopFields ==
  ASSUME NEW f, IsFrame(f), NEW x, NEW y
  PROVE  /\ [f EXCEPT !.buffer = x] = With(f, f.pc, f.todo, f.stack, x)
         /\ [f EXCEPT !.todo = x] = With(f, f.pc, x, f.stack, f.buffer)
         /\ [f EXCEPT !.pc = x] = With(f, x, f.todo, f.stack, f.buffer)
         /\ [f EXCEPT !.pc = x, !.todo = y] = With(f, x, y, f.stack, f.buffer)
         /\ [f EXCEPT !.pc = x, !.stack = y] = With(f, x, f.todo, y, f.buffer)
<1> DEFINE r == With(f, f.pc, f.todo, f.stack, f.buffer)
<1>1. f = r
  BY DEF IsFrame, With
<1>2. [r EXCEPT !.buffer = x] = With(f, f.pc, f.todo, f.stack, x)
  BY DEF With
<1>3. [r EXCEPT !.todo = x] = With(f, f.pc, x, f.stack, f.buffer)
  BY DEF With
<1>4. [r EXCEPT !.pc = x] = With(f, x, f.todo, f.stack, f.buffer)
  BY DEF With
<1>5. [[r EXCEPT !.pc = x] EXCEPT !.todo = y] = With(f, x, y, f.stack, f.buffer)
  <2>1. [With(f, x, f.todo, f.stack, f.buffer) EXCEPT !.todo = y]
        = With(f, x, y, f.stack, f.buffer)
    BY DEF With
  <2> QED
    BY <1>4, <2>1
<1>6. [[r EXCEPT !.pc = x] EXCEPT !.stack = y] = With(f, x, f.todo, y, f.buffer)
  <2>1. [With(f, x, f.todo, f.stack, f.buffer) EXCEPT !.stack = y]
        = With(f, x, f.todo, y, f.buffer)
    BY DEF With
  <2> QED
    BY <1>4, <2>1
<1> HIDE DEF r
<1>7. [f EXCEPT !.buffer = x] = With(f, f.pc, f.todo, f.stack, x)
  BY <1>1, <1>2
<1>8. [f EXCEPT !.todo = x] = With(f, f.pc, x, f.stack, f.buffer)
  BY <1>1, <1>3
<1>9. [f EXCEPT !.pc = x] = With(f, x, f.todo, f.stack, f.buffer)
  BY <1>1, <1>4
<1>10. [f EXCEPT !.pc = x, !.todo = y] = [[f EXCEPT !.pc = x] EXCEPT !.todo = y]
  OBVIOUS
<1>11. [f EXCEPT !.pc = x, !.stack = y] = [[f EXCEPT !.pc = x] EXCEPT !.stack = y]
  OBVIOUS
<1>12. [f EXCEPT !.pc = x, !.todo = y] = With(f, x, y, f.stack, f.buffer)
  BY <1>1, <1>5, <1>10
<1>13. [f EXCEPT !.pc = x, !.stack = y] = With(f, x, f.todo, y, f.buffer)
  BY <1>1, <1>6, <1>11
<1> QED
  BY <1>7, <1>8, <1>9, <1>12, <1>13

\* Field by field.
LEMMA BufferIsSet ==
  ASSUME NEW f, IsFrame(f), NEW x
  PROVE  [f EXCEPT !.buffer = x] = With(f, f.pc, f.todo, f.stack, x)
  BY TopFields, Zenon

LEMMA TodoIsSet ==
  ASSUME NEW f, IsFrame(f), NEW x
  PROVE  [f EXCEPT !.todo = x] = With(f, f.pc, x, f.stack, f.buffer)
  BY TopFields, Zenon

LEMMA PcIsSet ==
  ASSUME NEW f, IsFrame(f), NEW x
  PROVE  [f EXCEPT !.pc = x] = With(f, x, f.todo, f.stack, f.buffer)
  BY TopFields, Zenon

LEMMA PcTodoIsSet ==
  ASSUME NEW f, IsFrame(f), NEW x, NEW y
  PROVE  [f EXCEPT !.pc = x, !.todo = y] = With(f, x, y, f.stack, f.buffer)
  BY TopFields, Zenon

LEMMA PcStackIsSet ==
  ASSUME NEW f, IsFrame(f), NEW x, NEW y
  PROVE  [f EXCEPT !.pc = x, !.stack = y] = With(f, x, f.todo, y, f.buffer)
  BY TopFields, Zenon

\* The top frame is another.
LEMMA TopChanges ==
  ASSUME Inv, Grown, RanKept, frames # <<>>, NEW n, n = Len(frames),
         NEW g, frames' = SetTop(g), g.fn = Top.fn, g.name = Top.name,
         IsFrame(g)', BufferOK(n)', UsedOK(n)'
  PROVE  FramesInv' /\ Top' = g /\ frames' # <<>>
<1>1. n \in Nat \ {0} /\ n \in 1 .. n /\ Top = frames[n]
  BY TopIsThere
<1>2. /\ IsList(frames') /\ frames' # <<>> /\ Len(frames') = n
      /\ \A i \in 1 .. n - 1 : frames'[i] = frames[i]
      /\ frames'[n] = g /\ Top' = g
  BY TopIsSet DEF Inv, FramesInv, Top
<1>3. ASSUME NEW i \in 1 .. n - 1
      PROVE  IsFrame(frames[i])' /\ BufferOK(i)' /\ UsedOK(i)'
  <2>1. i \in 1 .. n /\ i # n /\ i < n /\ i + 1 \in 1 .. n /\ frames'[i] = frames[i]
    BY <1>1, <1>2
  <2>2. frames'[i + 1].fn = frames[i + 1].fn /\ frames'[i + 1].name = frames[i + 1].name
    BY <1>1, <1>2, <2>1
  <2>3. UsedOK(i) /\ i < Len(frames)
    BY <2>1 DEF Inv, FramesInv
  <2>4. \A b : Waits(i, b) => Waits(i, b)'
    BY <1>2, <2>1, <2>2, ReadyStays DEF Waits
  <2>5. frames[i].fn \notin {"uses", "CALL", "GOTO"}
    BY <2>1, <2>3 DEF UsedOK
  <2>6. frames[i].pc = "uses" => frames'[i + 1].fn = "uses"
    BY <2>2, <2>3 DEF UsedOK
  <2>7. Alike(frames'[i], frames[i])
    BY <2>1 DEF Alike
  <2>8. UsedOK(i)'
    BY <2>1, <2>4, <2>5, <2>6, <2>7, UsedStays
  <2>9. IsFrame(frames[i])' /\ BufferOK(i)'
    BY <2>1, FrameStays DEF Inv, FramesInv
  <2> QED
    BY <2>8, <2>9
<1>4. \A i \in 1 .. n : i = n \/ i \in 1 .. n - 1
  BY <1>1
<1> QED
  BY <1>2, <1>3, <1>4 DEF FramesInv

\* The top frame goes on.
LEMMA TopGoesOn ==
  ASSUME Inv, Grown, ran' = ran, frames # <<>>,
         NEW n, n = Len(frames), NEW todo, NEW x,
         NEW g, g = With(Top, Top.pc, todo, Top.stack, x), frames' = SetTop(g),
         Top.pc = "uses" => todo = Top.todo,
         x = None \/ BufferOK(n)',
         Top.fn = "uses" => phase' = phase
  PROVE  FramesInv' /\ RanInv'
<1> RanKept
  BY DEF RanKept
<1>1. /\ n \in Nat \ {0} /\ n \in 1 .. n /\ Top = frames[n]
      /\ IsFrame(Top) /\ UsedOK(n)
  BY TopIsThere
<1>2. Len(frames') = n /\ frames'[n] = g
  BY TopIsSet DEF Inv, FramesInv
<1>3. /\ g.fn = Top.fn /\ g.pc = Top.pc /\ g.name = Top.name /\ g.ret = Top.ret
      /\ g.phase = Top.phase /\ g.todo = todo /\ g.buffer = x
      /\ g = [fn |-> g.fn, pc |-> g.pc, name |-> g.name, todo |-> g.todo, ret |-> g.ret,
              stack |-> g.stack, block |-> g.block, phase |-> g.phase,
              buffer |-> g.buffer]
  BY DEF With
<1>4. IsFrame(g)'
  <2>1. /\ Top.pc = "loop" => Top.fn \in {"execute", "call", "uses"}
        /\ Top.pc = "listed" => Top.fn = "action"
        /\ Top.pc = "uses" => Top.fn = "call" /\ IsList(Top.todo)
    BY <1>1, Zenon DEF IsFrame
  <2>2. /\ g.pc = "loop" => g.fn \in {"execute", "call", "uses"}
        /\ g.pc = "listed" => g.fn = "action"
        /\ g.pc = "uses" => g.fn = "call" /\ IsList(g.todo)
    BY <1>3, <2>1
  <2>3. version = 2 => version' = 2
    BY DEF Grown
  <2> QED
    BY <1>1, <1>3, <2>2, <2>3, FrameGoesOn
<1>5. BufferOK(n)'
  BY <1>2, <1>3 DEF BufferOK
<1>6. UsedOK(n)'
  <2>1. Alike(frames'[n], frames[n])
    BY <1>1, <1>2, <1>3 DEF Alike
  <2>2. ~(n < Len(frames'))
    BY <1>1, <1>2
  <2>3. \A b : Waits(n, b) /\ g.pc = "uses" => Waits(n, b)'
    BY <1>1, <1>2, <1>3, ReadyStays DEF Waits
  <2>4. /\ frames[n].fn \in {"uses", "CALL", "GOTO"} => n = Len(frames')
        /\ frames[n].pc = "uses" => \A b : Waits(n, b) => Waits(n, b)'
        /\ frames[n].fn = "uses" => phase' = phase
    BY <1>1, <1>2, <1>3, <2>3
  <2> QED
    BY <1>1, <2>1, <2>2, <2>4, UsedStays
<1>7. FramesInv' /\ Top' = g /\ frames' # <<>>
  BY <1>3, <1>4, <1>5, <1>6, TopChanges
<1>8. \A d : InData(d) => InData(d)'
  BY <1>3, <1>7 DEF InData
<1> QED
  BY <1>7, <1>8, RanStays

\* A call is made.
LEMMA TopCalls ==
  ASSUME Inv, Grown, ran' = ran, frames # <<>>,
         NEW n, n = Len(frames), NEW todo, NEW h,
         NEW g, g = With(Top, Top.pc, todo, Top.stack, None),
         frames' = Append(SetTop(g), h),
         Top.pc \in {"loop", "listed", "uses"}, Top.fn # "uses",
         Top.pc = "uses" =>
           /\ Top.todo # <<>> /\ todo = Tail(Top.todo)
           /\ h.fn = "uses" /\ h.name = Head(Top.todo),
         IsFrame(h)', h.pc \in {"enter", "search", "listed"}, h.buffer = None
  PROVE  FramesInv' /\ RanInv'
<1> RanKept
  BY DEF RanKept
<1> DEFINE s == SetTop(g)
<1>1. /\ n \in Nat \ {0} /\ n \in 1 .. n /\ Top = frames[n]
      /\ IsFrame(Top) /\ BufferOK(n) /\ UsedOK(n)
  BY TopIsThere
<1>2. /\ IsList(s) /\ Len(s) = n
      /\ \A i \in 1 .. n - 1 : s[i] = frames[i]
      /\ s[n] = g
  BY TopIsSet DEF Inv, FramesInv
<1>3. /\ g.fn = Top.fn /\ g.pc = Top.pc /\ g.name = Top.name /\ g.ret = Top.ret
      /\ g.phase = Top.phase /\ g.todo = todo /\ g.buffer = None
      /\ g = [fn |-> g.fn, pc |-> g.pc, name |-> g.name, todo |-> g.todo, ret |-> g.ret,
              stack |-> g.stack, block |-> g.block, phase |-> g.phase,
              buffer |-> g.buffer]
  BY DEF With
<1> HIDE DEF s
<1>4. /\ IsList(frames') /\ frames' # <<>> /\ Len(frames') = n + 1
      /\ \A i \in 1 .. n - 1 : frames'[i] = frames[i]
      /\ frames'[n] = g /\ frames'[n + 1] = h /\ Top' = h
  <2>1. frames' = Append(s, h)
    BY DEF s
  <2>2. /\ IsList(Append(s, h)) /\ Len(Append(s, h)) = Len(s) + 1
        /\ \A i \in 1 .. Len(s) : Append(s, h)[i] = s[i]
        /\ Append(s, h)[Len(s) + 1] = h
        /\ Last(Append(s, h)) = h /\ Append(s, h) # <<>>
    BY <1>2, ListAppends
  <2>3. Top' = Last(frames')
    BY DEF Top
  <2>4. PICK q : q = Append(s, h)
    OBVIOUS
  <2>5. /\ IsList(q) /\ Len(q) = n + 1 /\ q # <<>> /\ Last(q) = h
        /\ \A i \in 1 .. n : q[i] = s[i]
        /\ q[n + 1] = h
    BY <1>2, <2>2, <2>4
  <2>6. frames' = q
    BY <2>1, <2>4
  <2>7. Top' = h
    BY <2>3, <2>5, <2>6
  <2>8. \A i \in 1 .. n - 1 : frames'[i] = frames[i]
    <3>1. \A i \in 1 .. n - 1 : i \in 1 .. n
      BY <1>1
    <3> QED
      BY <1>2, <2>5, <2>6, <3>1
  <2>9. frames'[n] = g /\ frames'[n + 1] = h
    BY <1>1, <1>2, <2>5, <2>6
  <2> QED
    BY <2>5, <2>6, <2>7, <2>8, <2>9
<1>5. Top.fn \notin {"uses", "CALL", "GOTO"}
  BY <1>1 DEF IsFrame
<1>6. Top.pc = "uses" =>
        /\ IsList(todo)
        /\ ToSet(Top.todo) = {h.name} \cup ToSet(todo)
  <2>1. ASSUME Top.pc = "uses"
        PROVE  IsList(Top.todo) /\ Top.todo # <<>> /\ todo = Tail(Top.todo)
               /\ h.name = Head(Top.todo)
    BY <1>1, <2>1 DEF IsFrame
  <2> QED
    BY <2>1, ListTail
<1>7. IsFrame(g)'
  <2>1. IsFrame(Top) /\ (version = 2 => version' = 2)
    BY <1>1 DEF Grown
  <2>2. g.pc = "uses" => IsList(g.todo)
    BY <1>3, <1>6
  <2>3. /\ g.fn \in Functions
        /\ g.pc = "loop" => g.fn \in {"execute", "call", "uses"}
        /\ g.pc = "listed" => g.fn = "action"
        /\ g.pc = "uses" => g.fn = "call"
        /\ g.fn \notin {"execute", "action"} => g.ret \in Pos
        /\ g.phase \in {"PROCEDURE", "DATA"} \/ g.fn \in {"action", "call", "uses"} =>
             version = 2
    BY <1>3, <2>1 DEF IsFrame
  <2> QED
    BY <1>3, <2>1, <2>2, <2>3 DEF IsFrame
<1>8. BufferOK(n)'
  BY <1>3, <1>4 DEF BufferOK
<1>9. UsedOK(n)'
  <2>1. Alike(frames'[n], frames[n])
    <3>1. frames'[n] = g /\ frames[n] = Top
      BY <1>1, <1>4, Zenon
    <3>2. g.fn = Top.fn /\ g.pc = Top.pc /\ g.name = Top.name
      BY <1>3
    <3> QED
      BY <3>1, <3>2 DEF Alike
  <2>2. n < Len(frames')
    BY <1>1, <1>4
  <2>3. frames[n].pc = "uses" =>
          frames'[n + 1].fn = "uses" /\ \A b : Waits(n, b) => Waits(n, b)'
    <3> SUFFICES ASSUME frames[n].pc = "uses"
                 PROVE  frames'[n + 1].fn = "uses" /\ \A b : Waits(n, b) => Waits(n, b)'
      OBVIOUS
    <3>1. h = frames'[n + 1] /\ frames'[n].todo = todo /\ Len(frames) = n
      BY <1>3, <1>4
    <3>2. ToSet(frames[n].todo) = {h.name} \cup ToSet(todo)
      BY <1>1, <1>6
    <3>3. frames'[n + 1].fn = "uses"
      <4>1. Top.pc = "uses"
        BY <1>1
      <4>2. h.fn = "uses"
        BY <4>1
      <4> QED
        BY <3>1, <4>2, Zenon
    <3>4. ASSUME NEW b, Waits(n, b)
          PROVE  Waits(n, b)'
      <4>1. \/ Ready(b)
            \/ b \in ToSet(frames[n].todo)
        BY <1>1, <3>1, <3>4 DEF Waits
      <4>2. Ready(b) => Ready(b)'
        BY ReadyStays
      <4>3. b \in ToSet(frames'[n].todo) \/ b = h.name \/ Ready(b)'
        BY <3>1, <3>2, <4>1, <4>2, Zenon
      <4> QED
        BY <2>2, <3>1, <3>3, <4>3 DEF Waits
    <3> QED
      BY <3>3, <3>4
  <2>4. frames[n].fn \notin {"uses", "CALL", "GOTO"}
    BY <1>1, <1>5
  <2> QED
    <3>1. PICK i \in 1 .. Len(frames) : i = n
      BY <1>1
    <3>2. frames[i].fn # "uses" /\ frames[i].fn \notin {"uses", "CALL", "GOTO"}
      BY <2>4, <3>1
    <3>3. frames[i].pc = "uses" =>
            /\ i < Len(frames') => frames'[i + 1].fn = "uses"
            /\ \A b : Waits(i, b) => Waits(i, b)'
      BY <2>3, <3>1
    <3>4. Alike(frames'[i], frames[i])
      BY <2>1, <3>1
    <3>5. UsedOK(i)'
      BY <3>2, <3>3, <3>4, UsedStays, Zenon
    <3> QED
      BY <3>1, <3>5
<1>10. IsFrame(h)' /\ BufferOK(n + 1)' /\ UsedOK(n + 1)'
  BY <1>1, <1>4, Zenon DEF BufferOK, UsedOK
<1>11. ASSUME NEW i \in 1 .. n - 1
      PROVE  IsFrame(frames[i])' /\ BufferOK(i)' /\ UsedOK(i)'
  <2>1. i \in 1 .. n /\ i # n /\ i < n /\ i + 1 \in 1 .. n /\ frames'[i] = frames[i]
    <3>1. PICK m \in Nat \ {0} : m = n
      BY <1>1
    <3>2. i \in 1 .. m - 1
      BY <3>1
    <3>3. i \in 1 .. m /\ i # m /\ i < m /\ i + 1 \in 1 .. m
      BY <3>2
    <3>4. frames'[i] = frames[i]
      BY <1>4
    <3> QED
      BY <3>1, <3>3, <3>4
  <2>2. frames'[i + 1].fn = frames[i + 1].fn /\ frames'[i + 1].name = frames[i + 1].name
    <3>1. CASE i + 1 = n
      <4>1. frames'[i + 1] = g /\ frames[i + 1] = Top
        BY <1>1, <1>4, <3>1
      <4>2. g.fn = Top.fn /\ g.name = Top.name
        BY <1>3
      <4> QED
        BY <4>1, <4>2
    <3>2. CASE i + 1 # n
      <4>1. i + 1 \in 1 .. n - 1
        BY <1>1, <2>1, <3>2
      <4>2. frames'[i + 1] = frames[i + 1]
        BY <1>4, <4>1
      <4> QED
        BY <4>2
    <3> QED
      BY <3>1, <3>2
  <2>3. UsedOK(i) /\ i < Len(frames) /\ i < Len(frames')
    <3>1. Len(frames) = n /\ i < Len(frames')
      BY <1>1, <1>4, <2>1
    <3>2. UsedOK(i)
      BY <2>1, <3>1, Zenon DEF Inv, FramesInv
    <3> QED
      BY <2>1, <3>1, <3>2, Zenon
  <2>4. \A b : Waits(i, b) => Waits(i, b)'
    BY <2>1, <2>2, <2>3, ReadyStays DEF Waits
  <2>5. frames[i].fn \notin {"uses", "CALL", "GOTO"}
    BY <2>1, <2>3 DEF UsedOK
  <2>6. frames[i].pc = "uses" => frames'[i + 1].fn = "uses"
    BY <2>2, <2>3 DEF UsedOK
  <2>7. Alike(frames'[i], frames[i])
    BY <2>1 DEF Alike
  <2>8. UsedOK(i)'
    BY <2>1, <2>4, <2>5, <2>6, <2>7, UsedStays, Zenon
  <2>9. IsFrame(frames[i])' /\ BufferOK(i)'
    BY <2>1, FrameStays DEF Inv, FramesInv
  <2> QED
    BY <2>8, <2>9
<1>12. FramesInv'
  <2>1. \A i \in 1 .. n + 1 : i = n + 1 \/ i = n \/ i \in 1 .. n - 1
    BY <1>1
  <2> QED
    BY <1>4, <1>7, <1>8, <1>9, <1>10, <1>11, <2>1 DEF FramesInv
<1>13. RanInv'
  <2>1. \A d : ~InData(d)
    BY DEF InData
  <2> QED
    BY <2>1, RanStays
<1> QED
  BY <1>12, <1>13

\* A call returns, from a used block only when that is ready.
LEMMA TopReturns ==
  ASSUME Inv, Grown, ran' = ran, frames # <<>>, frames' = Front(frames),
         NEW n, n = Len(frames), NEW name, name = Top.name,
         Top.fn = "uses" => Ready(name)',
         \A d \in DOMAIN symbols : InData(d) => symbols'[d].value # 0
  PROVE  FramesInv' /\ RanInv'
<1> RanKept
  BY DEF RanKept
<1>1. /\ n \in Nat \ {0} /\ n \in 1 .. n /\ Top = frames[n]
  BY TopIsThere
<1>2. /\ IsList(frames') /\ Len(frames') = n - 1
      /\ \A i \in 1 .. n - 1 : frames'[i] = frames[i]
  BY ListFront DEF Inv, FramesInv
<1>3. ASSUME NEW i \in 1 .. n - 1
      PROVE  IsFrame(frames[i])' /\ BufferOK(i)' /\ UsedOK(i)'
  <2>1. i \in 1 .. n /\ i # n /\ i < n /\ i + 1 \in 1 .. n /\ frames'[i] = frames[i]
    BY <1>1, <1>2
  <2>2. UsedOK(i) /\ i < Len(frames)
    BY <2>1 DEF Inv, FramesInv
  <2>3. ASSUME i = n - 1
        PROVE  \A b : Waits(i, b) => Waits(i, b)'
    <3>1. frames[i + 1] = Top
      BY <1>1, <2>3
    <3> QED
      BY <2>1, <3>1, ReadyStays DEF Waits
  <2>4. ASSUME i # n - 1
        PROVE  \A b : Waits(i, b) => Waits(i, b)'
    <3>1. i + 1 \in 1 .. n - 1 /\ frames'[i + 1] = frames[i + 1] /\ i < Len(frames')
      BY <1>1, <1>2, <2>1, <2>4
    <3> QED
      BY <2>1, <2>2, <3>1, ReadyStays DEF Waits
  <2>5. frames[i].fn \notin {"uses", "CALL", "GOTO"}
    BY <2>1, <2>2 DEF UsedOK
  <2>6. \A b : Waits(i, b) => Waits(i, b)'
    BY <2>3, <2>4
  <2>7. frames[i].pc = "uses" /\ i < Len(frames') => frames'[i + 1].fn = "uses"
    BY <1>1, <1>2, <2>1, <2>2 DEF UsedOK
  <2>8. Alike(frames'[i], frames[i])
    BY <2>1 DEF Alike
  <2>9. UsedOK(i)'
    BY <2>1, <2>5, <2>6, <2>7, <2>8, UsedStays
  <2>10. IsFrame(frames[i])' /\ BufferOK(i)'
    BY <2>1, FrameStays DEF Inv, FramesInv
  <2> QED
    BY <2>9, <2>10
<1>4. FramesInv'
  <2> QED
    BY <1>2, <1>3 DEF FramesInv
<1>5. RanInv'
  BY RanStays
<1> QED
  BY <1>4, <1>5

-----------------------------------------------------------------------------
(***************************************************************************)
(* The statements.                                                         *)
(***************************************************************************)
LEMMA StackGrows ==
  ASSUME Inv, NEW r, IsRecord(r), stack' = Append(stack, r)
  PROVE  StackOK'
<1>1. IsList(stack) /\ \A i \in 1 .. Len(stack) : IsRecord(stack[i])
  BY DEF Inv, StateInv, StackOK
<1>2. /\ IsList(stack') /\ Len(stack') = Len(stack) + 1
      /\ \A i \in 1 .. Len(stack) : stack'[i] = stack[i]
      /\ stack'[Len(stack) + 1] = r
  BY <1>1, ListAppends
<1>3. Len(stack) \in Nat
  BY <1>1, ListOf DEF IsList
<1>4. \A i \in 1 .. Len(stack) + 1 : i \in 1 .. Len(stack) \/ i = Len(stack) + 1
  BY <1>3
<1>5. \A i \in 1 .. Len(stack') : IsRecord(stack'[i])
  BY <1>1, <1>2, <1>4
<1> QED
  BY <1>2, <1>5 DEF StackOK, IsRecord

LEMMA StackShrinks ==
  ASSUME Inv, stack # <<>>, stack' = Front(stack)
  PROVE  StackOK'
<1>1. IsList(stack) /\ \A i \in 1 .. Len(stack) : IsRecord(stack[i])
  BY DEF Inv, StateInv, StackOK
<1>2. /\ IsList(stack') /\ Len(stack') = Len(stack) - 1 /\ Len(stack) \in Nat \ {0}
      /\ \A i \in 1 .. Len(stack) - 1 : stack'[i] = stack[i]
  BY <1>1, ListFront
<1>3. \A i \in 1 .. Len(stack') : IsRecord(stack'[i])
  BY <1>1, <1>2
<1> QED
  BY <1>2, <1>3 DEF StackOK, IsRecord

LEMMA StackStays ==
  ASSUME Inv, UNCHANGED stack
  PROVE  StackOK'
  BY DEF Inv, StateInv, StackOK, IsRecord

LEMMA StackTop ==
  ASSUME Inv, NEW type, TopIs(type)
  PROVE  stack # <<>> /\ IsRecord(Last(stack)) /\ Last(stack).type = type
<1>1. IsList(stack) /\ \A i \in 1 .. Len(stack) : IsRecord(stack[i])
  BY DEF Inv, StateInv, StackOK
<1>2. Len(stack) \in Nat
  BY <1>1, ListOf DEF IsList
<1>3. Len(stack) # 0 /\ Last(stack).type = type
  BY <1>2 DEF TopIs, Peek
<1>4. stack # <<>>
  BY <1>3
<1> QED
  BY <1>1, <1>2, <1>3, <1>4 DEF Last

\* What all statements have in common.
Reads ==
    /\ program' = program /\ ran' = ran
    /\ Grows(symbols, symbols')
    /\ StackOK'
    /\ position' \in [file : Pos, current : Pos, next : Pos]
    /\ version' \in {0, 1, 2} /\ (version = 2 => version' = 2)
    /\ phase' \in {"PROCEDURE", "DATA"} => version' = 2

LEMMA ReadsIsGrown ==
  ASSUME Inv, Reads
  PROVE  Grown
<1>1. IsTable(symbols')
  BY DEF Reads, Grows
<1>2. IsTable(symbols)'
  BY <1>1 DEF Reads, IsTable, DeclaredAs, IsSymbol, Text
<1>3. Kept
  BY GrowsIsKept DEF Reads
<1> QED
  BY <1>2, <1>3 DEF Grown, Reads, StateInv

LEMMA TopIsConsumed ==
  ASSUME Inv, frames # <<>>
  PROVE  Consumed = SetTop(With(Top, Top.pc, Top.todo, Top.stack, None))
<1>1. IsFrame(Top)
  BY TopIsThere, Zenon
<1>2. [Top EXCEPT !.buffer = None] = With(Top, Top.pc, Top.todo, Top.stack, None)
  BY <1>1, BufferIsSet, Zenon
<1> QED
  BY <1>2 DEF Consumed

LEMMA StatementGoesOn ==
  ASSUME Inv, Looping, Reads, frames' = Consumed,
         Top.fn = "uses" => phase' = phase
  PROVE  Inv'
<1>1. Grown
  BY ReadsIsGrown
<1>2. frames # <<>> /\ Top.pc = "loop"
  BY DEF Looping, At
<1>3. PICK g : g = With(Top, Top.pc, Top.todo, Top.stack, None)
  OBVIOUS
<1>4. frames' = SetTop(g)
  BY <1>2, <1>3, TopIsConsumed
<1>5. FramesInv' /\ RanInv'
  BY <1>1, <1>2, <1>3, <1>4, TopGoesOn DEF Reads
<1> QED
  BY <1>1, <1>5 DEF Inv, Grown

LEMMA StatementCalls ==
  ASSUME Inv, Looping, Reads, NEW h, frames' = Append(Consumed, h), Top.fn # "uses",
         IsFrame(h)', h.pc \in {"enter", "search", "listed"}, h.buffer = None
  PROVE  Inv'
<1>1. Grown
  BY ReadsIsGrown
<1>2. frames # <<>> /\ Top.pc = "loop"
  BY DEF Looping, At
<1>3. PICK g : g = With(Top, Top.pc, Top.todo, Top.stack, None)
  OBVIOUS
<1>4. frames' = Append(SetTop(g), h)
  BY <1>2, <1>3, TopIsConsumed
<1>5. FramesInv' /\ RanInv'
  BY <1>1, <1>2, <1>3, <1>4, TopCalls DEF Reads
<1> QED
  BY <1>1, <1>5 DEF Inv, Grown

\* The facts every statement begins with.
LEMMA StatementRight ==
  ASSUME Inv, NEW ops, Executes(ops)
  PROVE  /\ Looping /\ Error = "SUCCESS" /\ Line.op \in ops
         /\ StatementError(Line) = "SUCCESS"
         /\ Grows(symbols, Labelled) /\ IsTable(Labelled)
         /\ Here \in DOMAIN Text /\ Here \in Pos
         /\ After \in [file : Pos, current : Pos, next : Pos]
         /\ Top.fn = "uses" => Line.op \notin ProcedureStatements \cup {"ACTION", "NOTE"}
         /\ version \in {0, 1, 2} /\ (phase \in {"PROCEDURE", "DATA"} => version = 2)
         /\ frames # <<>> /\ Top.pc = "loop"
  BY LineIsRight, LabelIsAdded, DataIsPassive
     DEF Executes, Inv, StateInv, Looping, At

\* A frame of a call that is about to be made.
LEMMA NewFrame ==
  ASSUME Inv, NEW fn \in {"action", "call", "uses", "CALL", "GOTO"}, NEW pc, NEW name,
         NEW todo, NEW ret, NEW h, h = Frame(fn, pc, name, todo, ret),
         pc \in {"enter", "search"} \/ (pc = "listed" /\ fn = "action"),
         fn # "action" => ret \in Pos,
         version = 2 => version' = 2,
         fn \in {"action", "call", "uses"} => version' = 2
  PROVE  IsFrame(h)' /\ h.pc = pc /\ h.buffer = None /\ h.fn = fn /\ h.name = name
<1>1. /\ h = [fn |-> h.fn, pc |-> h.pc, name |-> h.name, todo |-> h.todo, ret |-> h.ret,
              stack |-> h.stack, block |-> h.block, phase |-> h.phase,
              buffer |-> h.buffer]
      /\ h.fn = fn /\ h.pc = pc /\ h.name = name /\ h.ret = ret /\ h.buffer = None
      /\ h.phase = phase
  BY DEF Frame
<1>2. phase \in {"PROCEDURE", "DATA"} => version' = 2
  BY DEF Inv, StateInv
<1> QED
  BY <1>1, <1>2 DEF IsFrame, Functions

LEMMA ActionInv ==
  ASSUME Inv, Action
  PROVE  Inv'
<1>1. Executes({"ACTION"})
  BY DEF Action
<1>2. Line.op = "ACTION" /\ StatementError(Line) = "SUCCESS"
  BY <1>1, StatementRight
<1>3. version # 1
  BY <1>2 DEF StatementError, ActionError, ProcedureStatements
<1>4. Reads /\ version' = 2
  <2>1. version' = 2
    BY <1>1, <1>3, StatementRight DEF Action, Version
  <2>2. program' = program /\ ran' = ran /\ UNCHANGED stack /\ symbols' = Labelled
        /\ position' = After
    BY DEF Action, outcome
  <2> QED
    BY <1>1, <2>1, <2>2, StatementRight, StackStays DEF Reads
<1>5. Top.fn # "uses"
  BY <1>1, <1>2, StatementRight
<1> DEFINE h == Frame("action", "listed", Line.name, Line.procedures, 0)
<1>6. frames' = Consumed \/ frames' = Append(Consumed, h)
  BY DEF Action
<1>7. CASE frames' = Consumed
  BY <1>1, <1>4, <1>5, <1>7, StatementRight, StatementGoesOn
<1>8. CASE frames' = Append(Consumed, h)
  <2>1. PICK f : f = h
    OBVIOUS
  <2>2. IsFrame(f)' /\ f.pc = "listed" /\ f.buffer = None
    BY <1>4, <2>1, NewFrame
  <2>3. frames' = Append(Consumed, f)
    BY <1>8, <2>1
  <2> HIDE DEF h
  <2> QED
    BY <1>1, <1>4, <1>5, <2>2, <2>3, StatementRight, StatementCalls
<1> QED
  BY <1>6, <1>7, <1>8

LEMMA DeclarationInv ==
  ASSUME Inv, Declaration
  PROVE  Inv'
<1>1. Executes({"PROCEDURE", "DATA"})
  BY DEF Declaration
<1>2. Line.op \in {"PROCEDURE", "DATA"} /\ StatementError(Line) = "SUCCESS"
  BY <1>1, StatementRight
<1>3. BlockError(Labelled, Line, Here) = "SUCCESS"
  BY <1>2 DEF StatementError, ProcedureStatements
<1>4. Line = Inner(Text[Here].statement)
  BY <1>1, <1>2, StatementRight, LineIsRight
<1>5. Grows(symbols, AddBlock(Labelled, Line, Here))
  <2>1. IsTable(Labelled) /\ Grows(symbols, Labelled) /\ Here \in DOMAIN Text /\ Here \in Pos
    BY <1>1, StatementRight
  <2>2. Line.op = "PROCEDURE" => IsList(Line.uses)
    BY <1>4, <2>1, TextIsRead
  <2>3. Grows(Labelled, AddBlock(Labelled, Line, Here))
    BY <1>2, <1>3, <1>4, <2>1, <2>2, BlockIsAdded DEF Inv
  <2> QED
    BY <2>1, <2>3, GrowsMore
<1>6. /\ program' = program /\ ran' = ran /\ UNCHANGED <<stack, phase, version>>
      /\ symbols' = AddBlock(Labelled, Line, Here) /\ position' = After
  BY DEF Declaration, outcome, context
<1>7. Reads
  BY <1>1, <1>5, <1>6, StatementRight, StackStays DEF Reads
<1> QED
  BY <1>1, <1>6, <1>7, StatementRight, StatementGoesOn DEF Declaration

LEMMA IntegerInv ==
  ASSUME Inv, Integer
  PROVE  Inv'
<1>1. Executes({"INTEGER"})
  BY DEF Integer
<1>2. Line.op = "INTEGER" /\ StatementError(Line) = "SUCCESS"
  BY <1>1, StatementRight
<1>3. ~Redefined(Labelled, "INTEGER", Line.name, Here)
  BY <1>2 DEF StatementError, IntegerError, ProcedureStatements
<1>4. Grows(symbols, AddSymbol(Labelled, "INTEGER", Line.name, Line.value, Here))
  <2>1. IsTable(Labelled) /\ Grows(symbols, Labelled) /\ Here \in Pos
    BY <1>1, StatementRight
  <2>2. Grows(Labelled, AddSymbol(Labelled, "INTEGER", Line.name, Line.value, Here))
    BY <1>3, <2>1, SymbolIsAdded
  <2> QED
    BY <2>1, <2>2, GrowsMore
<1>5. /\ program' = program /\ ran' = ran /\ UNCHANGED <<stack, phase, version>>
      /\ symbols' = AddSymbol(Labelled, "INTEGER", Line.name, Line.value, Here)
      /\ position' = After
  BY DEF Integer, outcome, context
<1>6. Reads
  BY <1>1, <1>4, <1>5, StatementRight, StackStays DEF Reads
<1> QED
  BY <1>1, <1>5, <1>6, StatementRight, StatementGoesOn DEF Integer

LEMMA CallBlockInv ==
  ASSUME Inv, CallBlock
  PROVE  Inv'
<1>1. Executes({"CALL"})
  BY DEF CallBlock
<1>2. Line.op = "CALL" /\ version = 2 /\ Top.fn # "uses"
  BY <1>1, StatementRight DEF CallBlock, LabelCall, ProcedureStatements
<1>3. /\ program' = program /\ ran' = ran /\ UNCHANGED <<stack, phase, version>>
      /\ symbols' = Labelled /\ position' = After
  BY DEF CallBlock, outcome, context
<1>4. Reads
  BY <1>1, <1>3, StatementRight, StackStays DEF Reads
<1>5. PICK h : h = Frame("call", "enter", Line.name, <<>>, After.next)
  OBVIOUS
<1>6. frames' = Append(Consumed, h)
  BY <1>5 DEF CallBlock
<1>7. After.next \in Pos
  BY <1>1, StatementRight
<1>8. IsFrame(h)' /\ h.pc = "enter" /\ h.buffer = None
  BY <1>2, <1>3, <1>5, <1>7, NewFrame
<1> QED
  BY <1>1, <1>2, <1>4, <1>6, <1>8, StatementRight, StatementCalls

LEMMA CallOrGotoInv ==
  ASSUME Inv, CallOrGoto
  PROVE  Inv'
<1>1. Executes({"CALL", "GOTO"}) /\ LabelCall(Line)
  BY DEF CallOrGoto
<1>2. Line.op \in {"CALL", "GOTO"} /\ Top.fn # "uses"
  BY <1>1, StatementRight DEF ProcedureStatements
<1>3. /\ program' = program /\ ran' = ran /\ phase' = phase
      /\ symbols' = Labelled /\ version' = Version(1)
  BY DEF CallOrGoto, outcome
<1>4. /\ version' \in {0, 1, 2} /\ (version = 2 => version' = 2)
      /\ phase' \in {"PROCEDURE", "DATA"} => version' = 2
  BY <1>1, <1>3, StatementRight DEF Version
<1>5. /\ After \in [file : Pos, current : Pos, next : Pos] /\ After.next \in Pos
      /\ Grows(symbols, Labelled) /\ IsTable(Labelled)
  BY <1>1, StatementRight
<1>6. CASE Line.name \in DOMAIN Labelled
  <2>1. Labelled[Line.name].position \in Pos
    BY <1>5, <1>6 DEF IsTable, IsSymbol
  <2>2. position' \in [file : Pos, current : Pos, next : Pos]
    <3>1. position' = After \/ position' = [After EXCEPT !.file = Labelled[Line.name].position]
      BY <1>6 DEF CallOrGoto
    <3> QED
      BY <1>5, <2>1, <3>1
  <2>3. StackOK'
    <3>1. PICK r : r = CallRecord(After.next)
      OBVIOUS
    <3>2. IsRecord(r)
      BY <1>5, <3>1 DEF CallRecord, IsRecord
    <3>3. stack' = Append(stack, r) \/ UNCHANGED stack
      BY <1>6, <3>1 DEF CallOrGoto
    <3> QED
      BY <3>2, <3>3, StackGrows, StackStays
  <2>4. Reads
    BY <1>3, <1>4, <1>5, <2>2, <2>3 DEF Reads
  <2>5. frames' = Consumed
    BY <1>6 DEF CallOrGoto
  <2> QED
    BY <1>1, <1>2, <2>4, <2>5, StatementRight, StatementGoesOn
<1>7. CASE Line.name \notin DOMAIN Labelled
  <2>1. position' = After /\ UNCHANGED stack
    BY <1>7 DEF CallOrGoto
  <2>2. Reads
    BY <1>3, <1>4, <1>5, <2>1, StackStays DEF Reads
  <2>3. PICK h : h = Frame(Line.op, "search", Line.name, <<>>, After.next)
    OBVIOUS
  <2>4. frames' = Append(Consumed, h)
    BY <1>7, <2>3 DEF CallOrGoto
  <2>5. IsFrame(h)' /\ h.pc = "search" /\ h.buffer = None
    BY <1>2, <1>4, <1>5, <2>3, NewFrame
  <2> QED
    BY <1>1, <1>2, <2>2, <2>4, <2>5, StatementRight, StatementCalls
<1> QED
  BY <1>6, <1>7

\* The block that comes to its end has been executed; its value says so.
LEMMA ReturnInv ==
  ASSUME Inv, Return
  PROVE  Inv'
<1>1. Executes({"RETURN", "ENDPROC", "ENDDATA"})
  BY DEF Return
<1>2. Line.op \in {"RETURN", "ENDPROC", "ENDDATA"} /\ StatementError(Line) = "SUCCESS"
  BY <1>1, StatementRight
<1>3. TopIs("CALL")
  BY <1>2 DEF StatementError, ReturnError, ProcedureStatements
<1>4. stack # <<>> /\ Last(stack).ret \in Pos
  BY <1>3, StackTop DEF IsRecord
<1>5. StackOK'
  BY <1>4, StackShrinks DEF Return
<1>6. /\ program' = program /\ ran' = ran
      /\ version' = Version(IF Line.op = "RETURN" THEN 1 ELSE 2)
      /\ position' = [After EXCEPT !.file = Last(stack).ret]
  BY DEF Return, outcome
<1>7. /\ After \in [file : Pos, current : Pos, next : Pos]
      /\ Grows(symbols, Labelled) /\ IsTable(Labelled)
      /\ version \in {0, 1, 2} /\ (phase \in {"PROCEDURE", "DATA"} => version = 2)
      /\ Looping /\ Error = "SUCCESS" /\ frames # <<>> /\ Top.pc = "loop"
  BY <1>1, StatementRight
<1>8. position' \in [file : Pos, current : Pos, next : Pos]
  BY <1>4, <1>6, <1>7
<1>9. version' \in {0, 1, 2} /\ (version = 2 => version' = 2)
  BY <1>6, <1>7 DEF Version
<1> DEFINE ends == /\ \/ Top.fn = "call" /\ Line.op = "ENDPROC"
                      \/ Top.fn = "uses" /\ Line.op = "ENDDATA"
                   /\ Peek(stack') = Peek(Top.stack)
<1>10. CASE ~ends
  <2>1. frames' = Consumed /\ symbols' = Labelled /\ phase' = phase
    BY <1>10 DEF Return
  <2>2. Reads
    BY <1>5, <1>6, <1>7, <1>8, <1>9, <2>1 DEF Reads
  <2> QED
    BY <1>7, <2>1, <2>2, StatementGoesOn
<1>11. CASE ends
  <2>1. /\ frames' = Front(frames) /\ phase' = Top.phase
        /\ symbols' = IF Top.fn = "uses"
                      THEN [Labelled EXCEPT ![Top.name].value = 1] ELSE Labelled
    BY <1>11 DEF Return
  <2> HIDE DEF ends
  <2>2. phase' \in {"PROCEDURE", "DATA"} => version' = 2
    BY <1>7, <1>9, <2>1, TopIsThere DEF IsFrame
  <2>3. PICK name : name = Top.name
    OBVIOUS
  <2>4. CASE Top.fn = "uses"
    <3>1. /\ name \in DOMAIN symbols /\ symbols[name].type = "DATA" /\ ran[name] = 1
      BY <1>7, <2>3, <2>4, TopIsThere DEF UsedOK
    <3>2. name \in DOMAIN Labelled
      BY <1>7, <3>1 DEF Grows
    <3> DEFINE u == [Labelled EXCEPT ![name].value = 1]
    <3>3. /\ IsTable(u) /\ DOMAIN u = DOMAIN Labelled
          /\ \A m \in DOMAIN Labelled \ {name} : u[m] = Labelled[m]
          /\ u[name].type = Labelled[name].type /\ u[name].uses = Labelled[name].uses
          /\ u[name].value = 1
      BY <1>7, <3>2, ValueIsSet
    <3>4. symbols' = u
      BY <2>1, <2>3, <2>4
    <3> HIDE DEF u
    <3>5. Kept
      <4>1. DOMAIN symbols \subseteq DOMAIN symbols'
        BY <1>7, <3>3, <3>4 DEF Grows
      <4>2. ASSUME NEW n \in DOMAIN symbols
            PROVE  /\ symbols'[n].type = symbols[n].type
                   /\ symbols'[n].uses = symbols[n].uses
                   /\ symbols[n].type = "DATA" =>
                        \/ symbols'[n].value = symbols[n].value
                        \/ symbols'[n].value = 1 /\ ran[n] = 1
        <5>1. /\ n \in DOMAIN Labelled /\ Labelled[n].type = symbols[n].type
              /\ Labelled[n].uses = symbols[n].uses
              /\ symbols[n].type = "DATA" => Labelled[n].value = symbols[n].value
          BY <1>7 DEF Grows
        <5>2. CASE n = name
          BY <3>1, <3>3, <3>4, <5>1, <5>2
        <5>3. CASE n # name
          BY <3>3, <3>4, <5>1, <5>3
        <5> QED
          BY <5>2, <5>3
      <4>3. ASSUME NEW n \in DOMAIN symbols' \ DOMAIN symbols, symbols'[n].type = "DATA"
            PROVE  symbols'[n].value = 0
        BY <1>7, <3>1, <3>3, <3>4, <4>3 DEF Grows
      <4> QED
        BY <4>1, <4>2, <4>3 DEF Kept
    <3>6. StateInv'
      <4>1. IsTable(symbols)'
        BY <1>6, <3>3, <3>4 DEF IsTable, DeclaredAs, IsSymbol, Text
      <4> QED
        BY <1>5, <1>8, <1>9, <2>2, <4>1 DEF StateInv
    <3>7. Grown
      BY <1>6, <1>9, <3>5, <3>6 DEF Grown
    <3>8. Ready(name)'
      BY <1>6, <3>1, <3>2, <3>3, <3>4 DEF Ready
    <3>9. \A d \in DOMAIN symbols : InData(d) => symbols'[d].value # 0
      BY <2>3, <3>3, <3>4 DEF InData
    <3>10. FramesInv' /\ RanInv'
      <4>1. PICK n : n = Len(frames)
        OBVIOUS
      <4> QED
        BY <1>6, <1>7, <2>1, <2>3, <3>7, <3>8, <3>9, <4>1, TopReturns
    <3> QED
      BY <3>7, <3>10 DEF Inv, Grown
  <2>5. CASE Top.fn # "uses"
    <3>1. Reads
      BY <1>5, <1>6, <1>7, <1>8, <1>9, <2>1, <2>2, <2>5 DEF Reads
    <3>2. Grown
      BY <3>1, ReadsIsGrown
    <3>3. \A d : ~InData(d)
      BY <2>5 DEF InData
    <3>4. PICK n : n = Len(frames)
      OBVIOUS
    <3>5. FramesInv' /\ RanInv'
      BY <1>6, <1>7, <2>1, <2>3, <2>5, <3>2, <3>3, <3>4, TopReturns
    <3> QED
      BY <3>2, <3>5 DEF Inv, Grown
  <2> QED
    BY <2>4, <2>5
<1> QED
  BY <1>10, <1>11

\* A variable is not a block.
LEMMA VariableIsSet ==
  ASSUME Inv, NEW ops, Executes(ops), NEW name, NEW v, VariableError(name) = "SUCCESS"
  PROVE  Grows(symbols, [Labelled EXCEPT ![name].value = v])
<1>1. Grows(symbols, Labelled) /\ IsTable(Labelled)
  BY StatementRight
<1>2. name \in DOMAIN Labelled /\ Labelled[name].type = "INTEGER"
  BY DEF VariableError, Lookup
<1>3. Grows(Labelled, [Labelled EXCEPT ![name].value = v])
  BY <1>1, <1>2, OtherValueIsSet
<1> QED
  BY <1>1, <1>3, GrowsMore

LEMMA ForInv ==
  ASSUME Inv, For
  PROVE  Inv'
<1>1. Executes({"FOR"})
  BY DEF For
<1>2. Line.op = "FOR" /\ StatementError(Line) = "SUCCESS"
  BY <1>1, StatementRight
<1>3. ForError(Line) = "SUCCESS"
  BY <1>2 DEF StatementError, ProcedureStatements
<1>4. VariableError(Line.name) = "SUCCESS"
  BY <1>3 DEF ForError
<1>5. Grows(symbols, symbols')
  BY <1>1, <1>4, VariableIsSet DEF For
<1>6. StackOK'
  <2>1. PICK r : r = [type |-> "FOR", iterator |-> Line.name, to |-> Line.to,
                      step |-> Line.step, for |-> After.next]
    OBVIOUS
  <2>2. After.next \in Pos
    BY <1>1, StatementRight
  <2>3. IsRecord(r)
    BY <2>1, <2>2 DEF IsRecord
  <2> QED
    BY <2>1, <2>3, StackGrows DEF For
<1>7. program' = program /\ ran' = ran /\ position' = After /\ UNCHANGED <<version, phase>>
  BY DEF For, outcome, context
<1>8. Reads
  BY <1>1, <1>5, <1>6, <1>7, StatementRight DEF Reads
<1> QED
  BY <1>1, <1>7, <1>8, StatementRight, StatementGoesOn DEF For

LEMMA NextStatementInv ==
  ASSUME Inv, NextStatement
  PROVE  Inv'
<1>1. Executes({"NEXT"})
  BY DEF NextStatement
<1>2. Line.op = "NEXT" /\ StatementError(Line) = "SUCCESS"
  BY <1>1, StatementRight
<1>3. NextError(Line) = "SUCCESS"
  BY <1>2 DEF StatementError, ProcedureStatements
<1>4. VariableError(Line.name) = "SUCCESS" /\ TopIs("FOR")
  BY <1>3 DEF NextError
<1>5. stack # <<>> /\ Last(stack).for \in Pos
  BY <1>4, StackTop DEF IsRecord
<1>6. /\ After \in [file : Pos, current : Pos, next : Pos]
      /\ Grows(symbols, Labelled)
  BY <1>1, StatementRight
<1> DEFINE v == Labelled[Line.name].value + Last(stack).step
<1>7. /\ \/ stack' = Front(stack) /\ symbols' = Labelled /\ position' = After
         \/ /\ UNCHANGED stack
            /\ symbols' = [Labelled EXCEPT ![Line.name].value = v]
            /\ position' = [After EXCEPT !.file = Last(stack).for]
      /\ program' = program /\ ran' = ran /\ UNCHANGED <<version, phase>>
  BY DEF NextStatement, outcome, context
<1> HIDE DEF v
<1>8. StackOK'
  BY <1>5, <1>7, StackShrinks, StackStays
<1>9. Grows(symbols, symbols')
  BY <1>1, <1>4, <1>6, <1>7, VariableIsSet
<1>10. position' \in [file : Pos, current : Pos, next : Pos]
  BY <1>5, <1>6, <1>7
<1>11. Reads
  BY <1>1, <1>7, <1>8, <1>9, <1>10, StatementRight DEF Reads
<1> QED
  BY <1>1, <1>7, <1>11, StatementRight, StatementGoesOn DEF NextStatement

LEMMA PushInv ==
  ASSUME Inv, Push
  PROVE  Inv'
<1>1. Executes({"PUSH"})
  BY DEF Push
<1>2. StackOK'
  <2>1. PICK r : r = [type |-> "PUSH", value |-> Line.value]
    OBVIOUS
  <2>2. IsRecord(r)
    BY <2>1 DEF IsRecord
  <2> QED
    BY <2>1, <2>2, StackGrows DEF Push
<1>3. /\ program' = program /\ ran' = ran /\ position' = After /\ UNCHANGED <<version, phase>>
      /\ symbols' = Labelled
  BY DEF Push, outcome, context
<1>4. Reads
  BY <1>1, <1>2, <1>3, StatementRight DEF Reads
<1> QED
  BY <1>1, <1>3, <1>4, StatementRight, StatementGoesOn DEF Push

LEMMA PopInv ==
  ASSUME Inv, Pop
  PROVE  Inv'
<1>1. Executes({"POP"})
  BY DEF Pop
<1>2. Line.op = "POP" /\ StatementError(Line) = "SUCCESS"
  BY <1>1, StatementRight
<1>3. PopError(Line) = "SUCCESS"
  BY <1>2 DEF StatementError, ProcedureStatements
<1>4. VariableError(Line.name) = "SUCCESS" /\ TopIs("PUSH")
  BY <1>3 DEF PopError
<1>5. StackOK'
  BY <1>4, StackTop, StackShrinks DEF Pop
<1>6. /\ program' = program /\ ran' = ran /\ position' = After /\ UNCHANGED <<version, phase>>
      /\ symbols' = [Labelled EXCEPT ![Line.name].value = Last(stack).value]
  BY DEF Pop, outcome, context
<1>7. Grows(symbols, symbols')
  BY <1>1, <1>4, <1>6, VariableIsSet
<1>8. Reads
  BY <1>1, <1>5, <1>6, <1>7, StatementRight DEF Reads
<1> QED
  BY <1>1, <1>6, <1>8, StatementRight, StatementGoesOn DEF Pop

LEMMA IfInv ==
  ASSUME Inv, If
  PROVE  Inv'
<1>1. Executes({"IF"})
  BY DEF If
<1>2. Line.op = "IF" /\ Top.fn # "uses" /\ Looping /\ Error = "SUCCESS"
  BY <1>1, StatementRight DEF ProcedureStatements
<1>3. /\ program' = program /\ ran' = ran /\ position' = After
      /\ UNCHANGED <<stack, version, phase>> /\ symbols' = Labelled
  BY DEF If, outcome, context
<1>4. Reads
  BY <1>1, <1>3, StatementRight, StackStays DEF Reads
<1>5. Grown
  BY <1>4, ReadsIsGrown
<1>6. /\ After.current \in DOMAIN Text /\ After.next = After.current + 1
      /\ Text[After.current].statement = Line
  BY <1>2, LineIsRight
<1>7. PICK x : x = IF Labelled[Line.name].value = Line.value THEN Line.then ELSE None
  OBVIOUS
<1>8. PICK g : g = With(Top, Top.pc, Top.todo, Top.stack, x)
  OBVIOUS
<1>9. /\ frames # <<>> /\ Top.pc = "loop" /\ IsFrame(Top)
  BY <1>1, StatementRight, TopIsThere
<1>10. frames' = SetTop(g)
  <2>1. [Top EXCEPT !.buffer = x] = g
    BY <1>8, <1>9, BufferIsSet, Zenon
  <2>2. frames' = SetTop([Top EXCEPT !.buffer = x])
    BY <1>7 DEF If
  <2> QED
    BY <2>1, <2>2, Zenon
<1>11. PICK n : n = Len(frames)
  OBVIOUS
<1>12. x = None \/ BufferOK(n)'
  <2>1. Len(frames') = n /\ frames'[n] = g
    BY <1>9, <1>10, <1>11, TopIsSet DEF Inv, FramesInv
  <2>2. g.pc = "loop" /\ g.buffer = x
    BY <1>8, <1>9 DEF With
  <2>3. x # None => x = Line.then
    BY <1>7
  <2> QED
    BY <1>2, <1>3, <1>6, <2>1, <2>2, <2>3 DEF BufferOK, Text
<1>13. FramesInv' /\ RanInv'
  BY <1>2, <1>3, <1>5, <1>8, <1>9, <1>10, <1>11, <1>12, TopGoesOn
<1> QED
  BY <1>5, <1>13 DEF Inv, Grown

LEMMA ExitInv ==
  ASSUME Inv, Exit
  PROVE  Inv'
<1>1. Executes({"EXIT"})
  BY DEF Exit
<1>2. /\ program' = program /\ ran' = ran /\ position' = After
      /\ UNCHANGED <<stack, version, phase>> /\ symbols' = Labelled
  BY DEF Exit, context
<1>3. Reads
  BY <1>1, <1>2, StatementRight, StackStays DEF Reads
<1> QED
  BY <1>1, <1>2, <1>3, StatementRight, StatementGoesOn DEF Exit

LEMMA CommentInv ==
  ASSUME Inv, Comment
  PROVE  Inv'
<1>1. Executes({"REM", "NOTE"})
  BY DEF Comment
<1>2. /\ program' = program /\ ran' = ran /\ position' = After
      /\ UNCHANGED <<stack, version>> /\ symbols' = Labelled
      /\ phase' \in {phase, "NOTE"} /\ (phase' # phase => Line.op = "NOTE")
  BY DEF Comment, outcome
<1>3. Reads
  BY <1>1, <1>2, StatementRight, StackStays DEF Reads
<1>4. Top.fn = "uses" => phase' = phase
  BY <1>1, <1>2, StatementRight
<1> QED
  BY <1>1, <1>3, <1>4, StatementRight, StatementGoesOn DEF Comment

-----------------------------------------------------------------------------
(***************************************************************************)
(* The calls.                                                              *)
(***************************************************************************)
\* The first facts about a call that is under way.
LEMMA CallRight ==
  ASSUME Inv, NEW pc, At(pc), NEW n, n = Len(frames)
  PROVE  /\ frames # <<>> /\ n \in Nat \ {0} /\ n \in 1 .. n /\ Top = frames[n]
         /\ Top.pc = pc /\ IsFrame(Top) /\ UsedOK(n)
         /\ pc # "loop" => Top.buffer = None /\ \A d : ~InData(d)
         /\ IsTable(symbols)
         /\ position \in [file : Pos, current : Pos, next : Pos]
         /\ version \in {0, 1, 2} /\ (phase \in {"PROCEDURE", "DATA"} => version = 2)
  BY TopIsThere DEF At, BufferOK, InData, Inv, StateInv

LEMMA NothingElse ==
  ASSUME Inv, UNCHANGED <<context, position, symbols, stack, ran>>
  PROVE  Grown /\ RanKept
<1>1. Reads
  BY GrowsNot, StackStays DEF Reads, Inv, StateInv, context
<1> QED
  BY <1>1, ReadsIsGrown DEF RanKept, Reads

\* The top frame comes to another place, where it may be.
LEMMA TopMoves ==
  ASSUME Inv, Grown, ran' = ran, NEW pc, At(pc), pc # "loop", NEW n, n = Len(frames),
         NEW to, NEW todo, NEW g, g = With(Top, to, todo, Top.stack, None),
         frames' = SetTop(g), to \in {"found", "search", "uses"},
         to = "found" => Top.name \in DOMAIN symbols',
         to = "uses" =>
           /\ Top.fn = "call" /\ IsList(todo) /\ Top.name \in DOMAIN symbols'
           /\ UsesOf(symbols', Top.name) \subseteq ToSet(todo)
  PROVE  Inv'
<1>1. /\ frames # <<>> /\ n \in Nat \ {0} /\ n \in 1 .. n /\ Top = frames[n]
      /\ Top.pc = pc /\ IsFrame(Top) /\ UsedOK(n)
      /\ Top.buffer = None /\ \A d : ~InData(d)
  BY CallRight
<1>2. Len(frames') = n /\ frames'[n] = g
  BY <1>1, TopIsSet DEF Inv, FramesInv
<1>3. /\ g.fn = Top.fn /\ g.pc = to /\ g.name = Top.name /\ g.ret = Top.ret
      /\ g.phase = Top.phase /\ g.todo = todo /\ g.buffer = None
      /\ g = [fn |-> g.fn, pc |-> g.pc, name |-> g.name, todo |-> g.todo, ret |-> g.ret,
              stack |-> g.stack, block |-> g.block, phase |-> g.phase,
              buffer |-> g.buffer]
  BY DEF With
<1>4. IsFrame(g)'
  <2>1. /\ g.pc = "loop" => g.fn \in {"execute", "call", "uses"}
        /\ g.pc = "listed" => g.fn = "action"
        /\ g.pc = "uses" => g.fn = "call" /\ IsList(g.todo)
    BY <1>3
  <2>2. version = 2 => version' = 2
    BY DEF Grown
  <2> QED
    BY <1>1, <1>3, <2>1, <2>2, FrameGoesOn
<1>5. BufferOK(n)'
  BY <1>2, <1>3 DEF BufferOK
<1>6. UsedOK(n)'
  <2>1. ~(n < Len(frames')) /\ n = Len(frames')
    BY <1>1, <1>2
  <2>2. g.pc = "uses" => \A b \in UsesOf(symbols', g.name) : b \in ToSet(frames'[n].todo)
    BY <1>2, <1>3
  <2>3. g.pc = "uses" => \A b \in UsesOf(symbols', g.name) : Waits(n, b)'
    BY <2>2 DEF Waits
  <2> QED
    BY <1>2, <1>3, <2>1, <2>3 DEF UsedOK
<1>7. FramesInv'
  <2>1. RanKept
    BY DEF RanKept
  <2> QED
    BY <1>1, <1>3, <1>4, <1>5, <1>6, <2>1, TopChanges
<1>8. RanInv'
  BY <1>1, RanStays
<1> QED
  BY <1>7, <1>8 DEF Inv, Grown

LEMMA StopInv ==
  ASSUME Inv, NEW error, Stop(error)
  PROVE  Inv'
<1>1. UNCHANGED <<program, version, phase, position, symbols, stack, frames, ran>>
  BY DEF Stop, context
<1>2. StateInv'
  BY <1>1 DEF Inv, StateInv, IsTable, IsSymbol, DeclaredAs, StackOK, IsRecord, Text
<1>3. ASSUME NEW i \in 1 .. Len(frames)
      PROVE  IsFrame(frames[i])' /\ BufferOK(i)' /\ UsedOK(i)'
  <2>1. IsFrame(frames[i]) /\ BufferOK(i) /\ UsedOK(i)
    BY DEF Inv, FramesInv
  <2>2. UsesOf(symbols, frames[i].name)' = UsesOf(symbols, frames[i].name)
    BY <1>1 DEF UsesOf
  <2> QED
    BY <1>1, <2>1, <2>2 DEF IsFrame, BufferOK, UsedOK, Ready, Waits, Text
<1>4. FramesInv'
  BY <1>1, <1>3 DEF Inv, FramesInv
<1>5. RanInv'
  BY <1>1 DEF Inv, RanInv, InData, Top, Text
<1> QED
  BY <1>1, <1>2, <1>4, <1>5 DEF Inv

LEMMA ListedInv ==
  ASSUME Inv, Listed
  PROVE  Inv'
<1>1. PICK n : n = Len(frames)
  OBVIOUS
<1>2. /\ frames # <<>> /\ Top.pc = "listed" /\ IsFrame(Top) /\ Top.buffer = None
      /\ position.next \in Pos
  BY <1>1, CallRight DEF Listed
<1>3. Top.fn = "action" /\ version = 2
  BY <1>2 DEF IsFrame
<1>4. Grown /\ ran' = ran /\ version' = version
  BY NothingElse DEF Listed, context
<1>5. PICK todo : todo = Tail(Top.todo)
  OBVIOUS
<1>6. PICK g : g = With(Top, Top.pc, todo, Top.stack, None)
  OBVIOUS
<1>7. [Top EXCEPT !.todo = Tail(@)] = g
  <2>1. [Top EXCEPT !.todo = todo] = g
    BY <1>2, <1>6, TodoIsSet, Zenon
  <2> QED
    BY <1>5, <2>1
<1>8. PICK h : h = Frame("call", "enter", Head(Top.todo).name, <<>>, position.next)
  OBVIOUS
<1>9. frames' = Append(SetTop(g), h) \/ frames' = SetTop(g)
  BY <1>7, <1>8 DEF Listed
<1>10. CASE frames' = SetTop(g)
  <2>1. FramesInv' /\ RanInv'
    BY <1>1, <1>2, <1>3, <1>4, <1>6, <1>10, TopGoesOn
  <2> QED
    BY <1>4, <2>1 DEF Inv, Grown
<1>11. CASE frames' = Append(SetTop(g), h)
  <2>1. IsFrame(h)' /\ h.pc = "enter" /\ h.buffer = None
    BY <1>2, <1>3, <1>4, <1>8, NewFrame
  <2>2. FramesInv' /\ RanInv'
    BY <1>1, <1>2, <1>3, <1>4, <1>6, <1>11, <2>1, TopCalls
  <2> QED
    BY <1>4, <2>2 DEF Inv, Grown
<1> QED
  BY <1>9, <1>10, <1>11

LEMMA ActionEndsInv ==
  ASSUME Inv, ActionEnds
  PROVE  Inv'
<1>1. PICK n : n = Len(frames)
  OBVIOUS
<1>2. /\ frames # <<>> /\ Top.pc = "listed" /\ IsFrame(Top) /\ \A d : ~InData(d)
  BY <1>1, CallRight DEF ActionEnds
<1>3. Top.fn = "action"
  BY <1>2 DEF IsFrame
<1>4. Grown /\ ran' = ran /\ frames' = Front(frames)
  BY NothingElse DEF ActionEnds
<1>5. PICK name : name = Top.name
  OBVIOUS
<1>6. FramesInv' /\ RanInv'
  BY <1>1, <1>2, <1>3, <1>4, <1>5, TopReturns
<1> QED
  BY <1>4, <1>6 DEF Inv, Grown

LEMMA EnterInv ==
  ASSUME Inv, Enter
  PROVE  Inv'
<1> DEFINE found == Lookup(symbols, Top.name)
<1>1. CASE found = "SCOPE_ERROR"
  BY <1>1, StopInv DEF Enter
<1>2. CASE found # "SCOPE_ERROR"
  <2>1. PICK to : to = IF found = "SUCCESS" THEN "found" ELSE "search"
    OBVIOUS
  <2>2. /\ frames' = SetTop([Top EXCEPT !.pc = to])
        /\ UNCHANGED <<context, position, symbols, stack, outcome, ran>>
    BY <1>2, <2>1 DEF Enter
  <2>3. PICK n : n = Len(frames)
    OBVIOUS
  <2>4. At("enter")
    BY DEF Enter
  <2>5. PICK todo, g : todo = Top.todo /\ g = With(Top, to, todo, Top.stack, None)
    BY Zenon
  <2>6. [Top EXCEPT !.pc = to] = g
    <3>1. IsFrame(Top) /\ Top.buffer = None
      BY <2>3, <2>4, CallRight
    <3> QED
      BY <2>5, <3>1, PcIsSet, Zenon
  <2>7. frames' = SetTop(g)
    BY <2>2, <2>6
  <2>8. Grown /\ ran' = ran /\ symbols' = symbols
    BY <2>2, NothingElse
  <2>9. to \in {"found", "search"} /\ (to = "found" => Top.name \in DOMAIN symbols')
    BY <2>1, <2>8 DEF Lookup
  <2> HIDE DEF found
  <2> QED
    BY <2>3, <2>4, <2>5, <2>7, <2>8, <2>9, TopMoves
<1> QED
  BY <1>1, <1>2

\* A search goes on.
LEMMA SearchGoesOn ==
  ASSUME Inv, Grown, ran' = ran, At("search"), frames' = frames
  PROVE  Inv'
<1>1. PICK n : n = Len(frames)
  OBVIOUS
<1>2. /\ frames # <<>> /\ n \in Nat \ {0} /\ n \in 1 .. n /\ Top = frames[n]
      /\ Top.pc = "search" /\ IsFrame(Top) /\ Top.buffer = None
  BY <1>1, CallRight
<1>3. PICK todo, g : todo = Top.todo /\ g = With(Top, "search", todo, Top.stack, None)
  OBVIOUS
<1>4. Top = g
  BY <1>2, <1>3 DEF IsFrame, With
<1>5. frames' = SetTop(g)
  <2>1. frames \in Seq(ToSet(frames))
    BY DEF Inv, FramesInv, IsList
  <2>2. [frames EXCEPT ![n] = frames[n]] = frames
    BY <1>2, <2>1
  <2> QED
    BY <1>1, <1>2, <1>4, <2>2 DEF SetTop
<1> QED
  BY <1>1, <1>3, <1>5, TopMoves

LEMMA SearchBlockInv ==
  ASSUME Inv, SearchBlock
  PROVE  Inv'
<1>1. PICK n : n = Len(frames)
  OBVIOUS
<1>2. /\ At("search") /\ IsFrame(Top) /\ IsTable(symbols)
      /\ position \in [file : Pos, current : Pos, next : Pos]
      /\ version \in {0, 1, 2} /\ (phase \in {"PROCEDURE", "DATA"} => version = 2)
  BY <1>1, CallRight DEF SearchBlock
<1>3. CASE \E error : Stop(error)
  BY <1>3, StopInv
<1>4. CASE ~ \E error : Stop(error)
  <2> DEFINE at == position.file
             s == Text[at].statement
             declares == s.op \in {"PROCEDURE", "DATA"}
             table == IF declares THEN AddBlock(symbols, s, at) ELSE symbols
             looks == s.op = "PROCEDURE" \/ (s.op = "DATA" /\ Top.fn = "uses")
             found == IF looks THEN Lookup(table, Top.name) ELSE "UNDEFINED_SYMBOL"
  <2>1. /\ ~EndOfFile /\ (declares => BlockError(symbols, s, at) = "SUCCESS")
        /\ symbols' = table /\ position' = Read
        /\ frames' = IF found = "SUCCESS" THEN SetTop([Top EXCEPT !.pc = "found"])
                     ELSE frames
        /\ UNCHANGED <<context, stack, outcome, ran>>
    BY <1>4 DEF SearchBlock
  <2>2. at \in Pos /\ at \in DOMAIN Text
    BY <1>2, <2>1, TextIsRead DEF EndOfFile, Pos
  <2>3. Grows(symbols, table)
    <3>1. CASE declares
      <4>1. s = Inner(Text[at].statement)
        BY <3>1 DEF Inner
      <4>2. s.op = "PROCEDURE" => IsList(s.uses)
        BY <2>2, <4>1, TextIsRead
      <4>3. Grows(symbols, AddBlock(symbols, s, at))
        BY <1>2, <2>1, <2>2, <3>1, <4>1, <4>2, BlockIsAdded DEF Inv
      <4> QED
        BY <3>1, <4>3
    <3>2. CASE ~declares
      BY <1>2, <3>2, GrowsNot
    <3> QED
      BY <3>1, <3>2
  <2>4. found = "SUCCESS" => Top.name \in DOMAIN table
    BY DEF Lookup
  <2> HIDE DEF table, found
  <2>5. position' \in [file : Pos, current : Pos, next : Pos]
    BY <2>1, <2>2 DEF Read, Pos
  <2>6. Grown
    <3>1. Reads
      BY <1>2, <2>1, <2>3, <2>5, StackStays DEF Reads, context
    <3> QED
      BY <3>1, ReadsIsGrown
  <2>7. CASE found = "SUCCESS"
    <3>1. PICK todo, g : todo = Top.todo /\ g = With(Top, "found", todo, Top.stack, None)
      OBVIOUS
    <3>2. Top.buffer = None
      BY <1>1, <1>2, CallRight
    <3>3. [Top EXCEPT !.pc = "found"] = g
      BY <1>2, <3>1, <3>2, PcIsSet, Zenon
    <3>4. frames' = SetTop(g)
      BY <2>1, <2>7, <3>3
    <3>5. Top.name \in DOMAIN symbols'
      BY <2>1, <2>4, <2>7
    <3> QED
      BY <1>1, <1>2, <2>1, <2>6, <3>1, <3>4, <3>5, TopMoves
  <2>8. CASE found # "SUCCESS"
    BY <1>2, <2>1, <2>6, <2>8, SearchGoesOn
  <2> QED
    BY <2>7, <2>8
<1> QED
  BY <1>3, <1>4

LEMMA ProcedureFoundInv ==
  ASSUME Inv, ProcedureFound
  PROVE  Inv'
<1>1. PICK n : n = Len(frames)
  OBVIOUS
<1>2. /\ At("found") /\ Top.fn = "call" /\ IsFrame(Top) /\ IsTable(symbols)
      /\ Top.buffer = None /\ Top.name \in DOMAIN symbols
  <2>1. At("found") /\ Top.fn = "call"
    BY DEF ProcedureFound
  <2>2. /\ Top = frames[n] /\ Top.pc = "found" /\ UsedOK(n) /\ IsFrame(Top)
        /\ IsTable(symbols) /\ Top.buffer = None
    BY <1>1, <2>1, CallRight
  <2> QED
    BY <2>1, <2>2 DEF UsedOK
<1>3. PICK todo, g :
        todo = symbols[Top.name].uses /\ g = With(Top, "uses", todo, Top.stack, None)
  OBVIOUS
<1>4. frames' = SetTop(g)
  <2>1. [Top EXCEPT !.pc = "uses", !.todo = todo] = g
    BY <1>2, <1>3, PcTodoIsSet, Zenon
  <2> QED
    BY <1>3, <2>1, Zenon DEF ProcedureFound
<1>5. Grown /\ ran' = ran /\ symbols' = symbols
  <2>1. /\ UNCHANGED <<program, version, phase, position, symbols, stack, ran>>
    BY DEF ProcedureFound
  <2>2. Reads
    BY <1>2, <2>1, GrowsNot, StackStays DEF Reads, Inv, StateInv
  <2> QED
    BY <2>1, <2>2, ReadsIsGrown
<1>6. IsList(todo) /\ UsesOf(symbols', Top.name) \subseteq ToSet(todo)
  BY <1>2, <1>3, <1>5 DEF IsTable, IsSymbol, UsesOf
<1> QED
  BY <1>1, <1>2, <1>3, <1>4, <1>5, <1>6, TopMoves

LEMMA UsedInv ==
  ASSUME Inv, Used
  PROVE  Inv'
<1>1. PICK n : n = Len(frames)
  OBVIOUS
<1>2. /\ frames # <<>> /\ Top.pc = "uses" /\ IsFrame(Top) /\ Top.buffer = None
      /\ position.next \in Pos /\ Top.todo # <<>>
  BY <1>1, CallRight DEF Used
<1>3. Top.fn = "call" /\ version = 2
  BY <1>2 DEF IsFrame
<1>4. Grown /\ ran' = ran /\ version' = version
  BY NothingElse DEF Used, context
<1>5. PICK todo : todo = Tail(Top.todo)
  OBVIOUS
<1>6. PICK g : g = With(Top, Top.pc, todo, Top.stack, None)
  OBVIOUS
<1>7. [Top EXCEPT !.todo = Tail(@)] = g
  <2>1. [Top EXCEPT !.todo = todo] = g
    BY <1>2, <1>6, TodoIsSet, Zenon
  <2> QED
    BY <1>5, <2>1
<1>8. PICK h : h = Frame("uses", "enter", Head(Top.todo), <<>>, position.next)
  OBVIOUS
<1>9. frames' = Append(SetTop(g), h)
  BY <1>7, <1>8 DEF Used
<1>10. IsFrame(h)' /\ h.pc = "enter" /\ h.buffer = None /\ h.fn = "uses"
       /\ h.name = Head(Top.todo)
  BY <1>2, <1>3, <1>4, <1>8, NewFrame
<1>11. FramesInv' /\ RanInv'
  BY <1>1, <1>2, <1>3, <1>4, <1>5, <1>6, <1>9, <1>10, TopCalls
<1> QED
  BY <1>4, <1>11 DEF Inv, Grown

\* The loop over a block begins, the procedure's when all it uses is ready.
LEMMA BlockBegins ==
  ASSUME Inv, NEW ph \in {"PROCEDURE", "DATA"}, Begin(ph), ~Full,
         NEW pc \in {"uses", "found"}, At(pc), NEW n, n = Len(frames),
         Top.name \in DOMAIN symbols, version = 2,
         Top.fn = IF ph = "DATA" THEN "uses" ELSE "call",
         ph = "PROCEDURE" => \A b \in UsesOf(symbols, Top.name) : Ready(b),
         ph = "DATA" => symbols[Top.name].type = "DATA" /\ ran'[Top.name] = 1,
         RanKept
  PROVE  /\ Grown /\ FramesInv'
         /\ \A d : InData(d)' <=> (ph = "DATA" /\ d = Top.name)
<1>1. /\ frames # <<>> /\ n \in Nat \ {0} /\ n \in 1 .. n /\ Top = frames[n]
      /\ Top.pc = pc /\ IsFrame(Top) /\ Top.buffer = None /\ IsTable(symbols)
      /\ position \in [file : Pos, current : Pos, next : Pos]
  BY CallRight
<1>2. /\ stack' = Append(stack, CallRecord(Top.ret))
      /\ position' = [position EXCEPT !.file = symbols[Top.name].position]
      /\ phase' = ph
      /\ frames' = SetTop([Top EXCEPT !.pc = "loop", !.stack = stack])
      /\ UNCHANGED <<program, version, symbols>>
  BY DEF Begin
<1>3. StackOK'
  <2>1. Top.ret \in Pos
    BY <1>1 DEF IsFrame
  <2>2. PICK r : r = CallRecord(Top.ret)
    OBVIOUS
  <2>3. IsRecord(r)
    BY <2>1, <2>2 DEF CallRecord, IsRecord
  <2> QED
    BY <1>2, <2>2, <2>3, StackGrows
<1>4. position' \in [file : Pos, current : Pos, next : Pos]
  <2>1. symbols[Top.name].position \in Pos
    BY <1>1 DEF IsTable, IsSymbol
  <2> QED
    BY <1>1, <1>2, <2>1
<1>5. Grown
  <2>1. IsTable(symbols)'
    <3>1. IsTable(symbols) /\ symbols' = symbols /\ program' = program
      BY <1>1, <1>2
    <3>2. Text' = Text
      BY <3>1 DEF Text
    <3> QED
      BY <3>1, <3>2 DEF IsTable, IsSymbol, DeclaredAs
  <2>2. StateInv'
    BY <1>2, <1>3, <1>4, <2>1 DEF StateInv
  <2>3. Kept
    BY <1>1, <1>2, GrowsNot, GrowsIsKept
  <2> QED
    BY <1>2, <2>2, <2>3 DEF Grown
<1>6. PICK g, found : found = stack /\ g = With(Top, "loop", Top.todo, found, None)
  OBVIOUS
<1>7. frames' = SetTop(g)
  <2>1. [Top EXCEPT !.pc = "loop", !.stack = found]
        = With(Top, "loop", Top.todo, found, Top.buffer)
    <3>1. \A f : IsFrame(f) =>
            [f EXCEPT !.pc = "loop", !.stack = found]
            = With(f, "loop", f.todo, found, f.buffer)
      BY PcStackIsSet, Zenon
    <3> QED
      BY <1>1, <3>1, Zenon
  <2> QED
    BY <1>1, <1>2, <1>6, <2>1, Zenon
<1>8. /\ g.fn = Top.fn /\ g.pc = "loop" /\ g.name = Top.name /\ g.ret = Top.ret
      /\ g.phase = Top.phase /\ g.buffer = None
      /\ g = [fn |-> g.fn, pc |-> g.pc, name |-> g.name, todo |-> g.todo, ret |-> g.ret,
              stack |-> g.stack, block |-> g.block, phase |-> g.phase,
              buffer |-> g.buffer]
  BY <1>6, Zenon DEF With
<1>9. IsFrame(g)'
  BY <1>1, <1>2, <1>8 DEF IsFrame
<1>10. Len(frames') = n /\ frames'[n] = g
  BY <1>1, <1>7, TopIsSet DEF Inv, FramesInv
<1>11. BufferOK(n)'
  BY <1>8, <1>10 DEF BufferOK
<1>12. UsedOK(n)'
  <2>1. g.fn = "call" => \A b \in UsesOf(symbols', g.name) : Ready(b)'
    <3>1. UsesOf(symbols', g.name) = UsesOf(symbols, Top.name)
      BY <1>2, <1>8
    <3> QED
      BY <1>5, <1>8, <3>1, ReadyStays
  <2> QED
    BY <1>2, <1>8, <1>10, <2>1 DEF UsedOK
<1>13. FramesInv' /\ Top' = g /\ frames' # <<>>
  BY <1>1, <1>5, <1>7, <1>8, <1>9, <1>11, <1>12, TopChanges
<1>14. \A d : InData(d)' <=> (ph = "DATA" /\ d = Top.name)
  BY <1>8, <1>13 DEF InData
<1> QED
  BY <1>5, <1>13, <1>14

LEMMA ProcedureBeginsInv ==
  ASSUME Inv, ProcedureBegins
  PROVE  Inv'
<1>1. PICK n : n = Len(frames)
  OBVIOUS
<1>2. At("uses") /\ Top.todo = <<>> /\ Begin("PROCEDURE")
  BY DEF ProcedureBegins
<1>3. CASE Full
  BY <1>2, <1>3, StopInv DEF Begin
<1>4. CASE ~Full
  <2>1. /\ n \in Nat \ {0} /\ Top = frames[n] /\ Top.pc = "uses" /\ IsFrame(Top)
        /\ UsedOK(n) /\ \A d : ~InData(d)
    BY <1>1, <1>2, CallRight
  <2>2. Top.fn = "call" /\ version = 2 /\ Top.name \in DOMAIN symbols
    BY <2>1 DEF IsFrame, UsedOK
  <2>3. \A b \in UsesOf(symbols, Top.name) : Ready(b)
    <3>1. ToSet(Top.todo) = {}
      BY <1>2 DEF ToSet
    <3>2. \A b \in UsesOf(symbols, Top.name) : Waits(n, b)
      BY <2>1 DEF UsedOK
    <3> QED
      BY <1>1, <2>1, <3>1, <3>2 DEF Waits
  <2>4. ran' = ran
    BY <1>2, <1>4 DEF Begin
  <2>5. RanKept
    BY <2>4 DEF RanKept
  <2>6. Grown /\ FramesInv'
    BY <1>1, <1>2, <1>4, <2>2, <2>3, <2>5, BlockBegins
  <2>7. RanInv'
    BY <2>1, <2>4, <2>6, RanStays
  <2> QED
    BY <2>6, <2>7 DEF Inv, Grown
<1> QED
  BY <1>3, <1>4

\* A data block that has no value has not been executed: it would be the
\* block that runs.
LEMMA BlockFoundInv ==
  ASSUME Inv, BlockFound
  PROVE  Inv'
<1>1. PICK n, name : n = Len(frames) /\ name = Top.name
  OBVIOUS
<1>2. At("found") /\ Top.fn = "uses"
  BY DEF BlockFound
<1>3. /\ frames # <<>> /\ n \in Nat \ {0} /\ Top = frames[n] /\ Top.pc = "found"
      /\ IsFrame(Top) /\ UsedOK(n) /\ \A d : ~InData(d)
  BY <1>1, <1>2, CallRight
<1>4. version = 2 /\ name \in DOMAIN symbols
  BY <1>1, <1>2, <1>3 DEF IsFrame, UsedOK
<1>5. CASE symbols[name].type \notin {"PROCEDURE", "DATA"}
  BY <1>1, <1>5, StopInv DEF BlockFound
<1>6. CASE symbols[name].type = "DATA" /\ symbols[name].value = 0
  <2>1. Begin("DATA")
    BY <1>1, <1>6 DEF BlockFound
  <2>2. CASE Full
    BY <2>1, <2>2, StopInv DEF Begin
  <2>3. CASE ~Full
    <3>1. name \in DOMAIN ran /\ ran[name] = 0
      <4>1. name \in DOMAIN ran
        BY <1>4, <1>6, DataIsDeclared
      <4>2. ran[name] # 1
        BY <1>3, <1>6, <4>1 DEF Inv, RanInv
      <4> QED
        BY <4>1, <4>2 DEF Inv, RanInv
    <3>2. ran' = [ran EXCEPT ![name] = 1]
      <4>1. ran' = [ran EXCEPT ![name] = @ + 1]
        BY <1>1, <2>1, <2>3 DEF Begin
      <4> QED
        BY <3>1, <4>1
    <3>3. /\ DOMAIN ran' = DOMAIN ran /\ ran'[name] = 1
          /\ \A d \in DOMAIN ran \ {name} : ran'[d] = ran[d]
          /\ ran' \in [Names(Text, {"DATA"}) -> {0, 1}]
      BY <3>1, <3>2 DEF Inv, RanInv
    <3>4. RanKept
      BY <3>3 DEF RanKept
    <3>5. /\ Grown /\ FramesInv'
          /\ \A d : InData(d)' <=> d = name
      BY <1>1, <1>2, <1>4, <1>6, <2>1, <2>3, <3>3, <3>4, BlockBegins
    <3>6. symbols' = symbols /\ program' = program
      BY <2>1, <2>3 DEF Begin
    <3>7. RanInv'
      <4>1. ran' \in [Names(Text, {"DATA"})' -> {0, 1}]
        BY <3>3, <3>6 DEF Text
      <4>2. ASSUME NEW d \in DOMAIN ran', ran'[d] = 1
            PROVE  /\ d \in DOMAIN symbols' /\ symbols'[d].type = "DATA"
                   /\ symbols'[d].value # 0 \/ InData(d)'
        <5>1. CASE d = name
          BY <1>4, <1>6, <3>5, <3>6, <5>1
        <5>2. CASE d # name
          <6>1. d \in DOMAIN ran /\ ran[d] = 1
            BY <3>3, <4>2, <5>2
          <6> QED
            BY <1>3, <3>6, <6>1 DEF Inv, RanInv
        <5> QED
          BY <5>1, <5>2
      <4>3. ASSUME NEW d \in DOMAIN symbols', symbols'[d].type = "DATA",
                   symbols'[d].value # 0
            PROVE  ran'[d] = 1
        <5>1. ran[d] = 1 /\ d \in DOMAIN ran
          BY <3>6, <4>3, DataIsDeclared DEF Inv, RanInv
        <5> QED
          BY <3>4, <5>1 DEF RanKept
      <4> QED
        BY <4>1, <4>2, <4>3 DEF RanInv
    <3> QED
      BY <3>5, <3>7 DEF Inv, Grown
  <2> QED
    BY <2>2, <2>3
<1>7. CASE /\ symbols[name].type \in {"PROCEDURE", "DATA"}
           /\ ~(symbols[name].type = "DATA" /\ symbols[name].value = 0)
  <2>1. /\ frames' = Front(frames)
        /\ UNCHANGED <<context, position, symbols, stack, outcome, ran>>
    BY <1>1, <1>7 DEF BlockFound
  <2>2. Grown /\ RanKept
    BY <2>1, NothingElse
  <2>3. Ready(name)
    BY <1>4, <1>7 DEF Ready, Inv, RanInv
  <2>4. Ready(name)'
    BY <2>2, <2>3, ReadyStays
  <2>5. FramesInv' /\ RanInv'
    BY <1>1, <1>3, <2>1, <2>2, <2>4, TopReturns
  <2> QED
    BY <2>2, <2>5 DEF Inv, Grown
<1> QED
  BY <1>5, <1>6, <1>7

LEMMA SearchLabelInv ==
  ASSUME Inv, SearchLabel
  PROVE  Inv'
<1>1. PICK n, name : n = Len(frames) /\ name = Top.name
  BY Zenon
<1>2. /\ At("search") /\ Top.fn \in {"CALL", "GOTO"} /\ frames # <<>>
      /\ IsFrame(Top) /\ IsTable(symbols) /\ \A d : ~InData(d)
      /\ position \in [file : Pos, current : Pos, next : Pos]
      /\ version \in {0, 1, 2} /\ (phase \in {"PROCEDURE", "DATA"} => version = 2)
  BY <1>1, CallRight DEF SearchLabel
<1>3. CASE \E error : Stop(error)
  BY <1>3, StopInv
<1>4. CASE ~ \E error : Stop(error)
  <2> DEFINE at == position.file
             line == Text[at]
             found == line.label = Top.name
  <2>1. /\ ~(line.label # None /\ Redefined(symbols, "LABEL", line.label, at))
        /\ symbols' = IF line.label = None THEN symbols
                      ELSE AddSymbol(symbols, "LABEL", line.label, 0, at)
        /\ position' = IF found THEN [Read EXCEPT !.file = at] ELSE Read
        /\ stack' = IF found /\ Top.fn = "CALL"
                    THEN Append(stack, CallRecord(Top.ret)) ELSE stack
        /\ frames' = IF found THEN Front(frames) ELSE frames
        /\ UNCHANGED <<context, outcome, ran>>
    BY <1>4 DEF SearchLabel
  <2>2. at \in Pos
    BY <1>2
  <2>3. Grows(symbols, symbols')
    <3>1. CASE line.label = None
      BY <1>2, <2>1, <3>1, GrowsNot
    <3>2. CASE line.label # None
      <4>1. Grows(symbols, AddSymbol(symbols, "LABEL", line.label, 0, at))
        BY <1>2, <2>1, <2>2, <3>2, SymbolIsAdded
      <4> QED
        BY <2>1, <3>2, <4>1
    <3> QED
      BY <3>1, <3>2
  <2>4. position' \in [file : Pos, current : Pos, next : Pos]
    <3>1. Read \in [file : Pos, current : Pos, next : Pos]
      BY <2>2 DEF Read, Pos
    <3>2. [Read EXCEPT !.file = at] \in [file : Pos, current : Pos, next : Pos]
      BY <2>2, <3>1
    <3> QED
      BY <2>1, <3>1, <3>2
  <2>5. StackOK'
    <3>1. Top.ret \in Pos
      BY <1>2 DEF IsFrame
    <3>2. PICK r : r = CallRecord(Top.ret)
      OBVIOUS
    <3>3. IsRecord(r)
      BY <3>1, <3>2 DEF CallRecord, IsRecord
    <3>4. stack' = Append(stack, r) \/ UNCHANGED stack
      BY <2>1, <3>2
    <3> QED
      BY <3>3, <3>4, StackGrows, StackStays
  <2>6. frames' = Front(frames) \/ frames' = frames
    BY <2>1
  <2> HIDE DEF at, line, found
  <2>7. Grown /\ ran' = ran
    <3>1. Reads
      BY <1>2, <2>1, <2>3, <2>4, <2>5 DEF Reads, context
    <3> QED
      BY <3>1, ReadsIsGrown DEF Reads
  <2>8. CASE frames' = frames
    BY <1>2, <2>7, <2>8, SearchGoesOn
  <2>9. CASE frames' = Front(frames)
    <3>1. FramesInv' /\ RanInv'
      BY <1>1, <1>2, <2>7, <2>9, TopReturns
    <3> QED
      BY <2>7, <3>1 DEF Inv, Grown
  <2> QED
    BY <2>6, <2>8, <2>9
<1> QED
  BY <1>3, <1>4

LEMMA LeaveInv ==
  ASSUME Inv, Leave
  PROVE  Inv'
<1>1. PICK n, name : n = Len(frames) /\ name = Top.name
  OBVIOUS
<1>2. /\ frames # <<>> /\ Top.fn # "uses" /\ IsFrame(Top) /\ IsTable(symbols)
      /\ position \in [file : Pos, current : Pos, next : Pos]
      /\ version \in {0, 1, 2}
  BY <1>1, CallRight DEF Leave
<1>3. /\ frames' = Front(frames) /\ phase' = Top.phase /\ ran' = ran
      /\ UNCHANGED <<program, version, position, symbols, stack>>
  BY DEF Leave
<1>4. Reads
  <2>1. phase' \in {"PROCEDURE", "DATA"} => version' = 2
    BY <1>2, <1>3 DEF IsFrame
  <2> QED
    BY <1>2, <1>3, <2>1, GrowsNot, StackStays DEF Reads
<1>5. Grown
  BY <1>4, ReadsIsGrown
<1>6. \A d : ~InData(d)
  BY <1>2 DEF InData
<1>7. FramesInv' /\ RanInv'
  BY <1>1, <1>2, <1>3, <1>5, <1>6, TopReturns
<1> QED
  BY <1>5, <1>7 DEF Inv, Grown

-----------------------------------------------------------------------------
LEMMA InitInv ==
  ASSUME Init
  PROVE  Inv
<1>1. PICK s \in Sources : program = ProgramOf(s)
  BY DEF Init
<1>2. /\ position = [file |-> 1, current |-> 1, next |-> 1] /\ version = 0
      /\ phase = "UNKNOWN" /\ symbols = <<>> /\ stack = <<>>
      /\ ran = [d \in Names(Text, {"DATA"}) |-> 0]
  BY DEF Init
<1>3. IsTable(symbols)
  <2>1. DOMAIN symbols = {} /\ symbols = [n \in {} |-> symbols[n]]
    BY <1>2
  <2> QED
    BY <2>1 DEF IsTable
<1>4. StackOK
  BY <1>2, EmptyIsList DEF StackOK
<1>5. StateInv
  BY <1>2, <1>3, <1>4 DEF StateInv, Pos
<1>6. PICK f : f = [fn |-> "execute", pc |-> "loop", name |-> None, todo |-> <<>>,
                    ret |-> 1, stack |-> <<>>, block |-> None,
                    phase |-> "UNKNOWN", buffer |-> None]
  OBVIOUS
<1>7. frames = <<f>>
  BY <1>6 DEF Init
<1>8. /\ Len(frames) = 1 /\ frames[1] = f /\ frames # <<>> /\ IsList(frames)
  <2>1. <<f>> \in Seq({f})
    OBVIOUS
  <2> QED
    BY <1>7, <2>1, ListOf, Zenon
<1>9. /\ f.fn = "execute" /\ f.pc = "loop" /\ f.buffer = None /\ f.phase = "UNKNOWN"
      /\ f = [fn |-> f.fn, pc |-> f.pc, name |-> f.name, todo |-> f.todo, ret |-> f.ret,
              stack |-> f.stack, block |-> f.block, phase |-> f.phase,
              buffer |-> f.buffer]
  BY <1>6
<1>10. IsFrame(f)
  BY <1>9 DEF IsFrame, Functions
<1>11. BufferOK(1) /\ UsedOK(1)
  BY <1>8, <1>9 DEF BufferOK, UsedOK
<1>12. FramesInv
  BY <1>8, <1>10, <1>11 DEF FramesInv
<1>13. RanInv
  BY <1>2 DEF RanInv
<1> QED
  BY <1>1, <1>5, <1>12, <1>13 DEF Inv

LEMMA NextInv ==
  ASSUME Inv, [Next]_vars
  PROVE  Inv'
<1>1. CASE Statement
  BY <1>1, ActionInv, DeclarationInv, IntegerInv, CallBlockInv, CallOrGotoInv, ReturnInv,
     ForInv, NextStatementInv, PushInv, PopInv, IfInv, ExitInv, CommentInv, StopInv
     DEF Statement, Fail
<1>2. CASE Call
  BY <1>2, ListedInv, ActionEndsInv, EnterInv, SearchBlockInv, ProcedureFoundInv, UsedInv,
     ProcedureBeginsInv, BlockFoundInv, SearchLabelInv, LeaveInv DEF Call
<1>3. CASE UNCHANGED vars
  <2>1. Stop(status)
    BY <1>3 DEF Stop, vars, outcome, context
  <2> QED
    BY <2>1, StopInv
<1> QED
  BY <1>1, <1>2, <1>3 DEF Next

\* The program, the stack, the symbols, the calls and the record of what was
\* executed agree at every moment (Inv): a block is a symbol where the text
\* declares it and as it is declared, nothing is called from a data block, a
\* statement is in the buffer only behind the IF it was read with.
THEOREM Invariance == Spec => []Inv
<1>1. Init => Inv
  BY InitInv
<1>2. Inv /\ [Next]_vars => Inv'
  BY NextInv
<1> QED
  BY <1>1, <1>2, PTL DEF Spec

\* UsedDataIsReady, for every program: jam_process_uses_item executes a data
\* block at most once, and jam_call_procedure starts no procedure before all
\* the blocks it USES are known and those with data have been executed.
THEOREM UsedDataIsAlwaysReady == Spec => []UsedDataIsReady
<1>1. Inv => UsedDataIsReady
  <2> SUFFICES ASSUME Inv
               PROVE  UsedDataIsReady
    OBVIOUS
  <2>a. FramesInv /\ RanInv
    BY Zenon DEF Inv
  <2>1. \A d \in DOMAIN ran : ran[d] <= 1
    BY <2>a DEF RanInv
  <2>2. DOMAIN frames = 1 .. Len(frames)
    <3>1. frames \in Seq(ToSet(frames))
      BY <2>a, Zenon DEF FramesInv, IsList
    <3> QED
      BY <3>1, ListOf, Zenon
  <2>3. ASSUME NEW i \in DOMAIN frames, frames[i].fn = "call", frames[i].pc = "loop",
               NEW b \in UsesOf(symbols, frames[i].name)
        PROVE  b \in DOMAIN symbols /\ (symbols[b].type = "DATA" => ran[b] = 1)
    <3>1. UsedOK(i)
      BY <2>a, <2>2, <2>3, Zenon DEF FramesInv
    <3>2. Ready(b)
      BY <2>3, <3>1 DEF UsedOK
    <3> QED
      BY <3>2, Zenon DEF Ready
  <2> QED
    BY <2>1, <2>3 DEF UsedDataIsReady
<1> QED
  BY <1>1, Invariance, PTL

-----------------------------------------------------------------------------
(***************************************************************************)
(* Calls return.  It is the program that decides whether they do: what a   *)
(* GOTO jumps to may be a label in a data block, and what executes an      *)
(* ENDDATA in the loop of a procedure loses its way back.  In programs     *)
(* where no data block comes to an ENDPROC and no procedure to an ENDDATA, *)
(* each call returns.                                                      *)
(***************************************************************************)
Nested ==
    Looping /\ Error = "SUCCESS" =>
      /\ Line.op = "ENDPROC" => Top.fn # "uses"
      /\ Line.op = "ENDDATA" => Top.fn # "call"

InLoop(f) == f.pc = "loop" /\ f.fn \in {"call", "uses"}

\* On the stack of a loop is what it found, the way back, and what its own
\* statements put there: no other way back.
Based(s, f) ==
    /\ IsList(s) /\ IsList(f.stack) /\ Len(s) > Len(f.stack)
    /\ \A j \in 1 .. Len(f.stack) : s[j] = f.stack[j]
    /\ s[Len(f.stack) + 1] = CallRecord(f.ret)
    /\ \A j \in Len(f.stack) + 2 .. Len(s) : s[j].type # "CALL"

\* Frame f is the i-th, and the frame above it found, or there is now, the stack
\* s, the block b and the phase p.  (After an EXIT the loops of the procedures
\* leave the stack as it is.)
CallIs(i, f, s, b, p) ==
    /\ f.fn = "execute" <=> i = 1
    /\ f.fn = "execute" => f.pc = "loop" /\ b = None
    /\ f.fn = "action" => i = 2 /\ f.block = None
    /\ ~done \/ f.fn = "uses" =>
         /\ f.pc # "loop" => s = f.stack
         /\ InLoop(f) => Based(s, f)
    /\ f.pc # "loop" => b = f.block
    /\ f.pc # "loop" /\ f.fn # "action" => p = f.phase
    /\ InLoop(f) => b = f.name
    /\ InLoop(f) /\ f.fn = "call" => p = "PROCEDURE"
    /\ f.fn = "call" /\ f.block # None => Behind(f.ret, f.name)
    /\ f.fn = "CALL" => version = 1

StackAbove(i) == IF i = Len(frames) THEN stack ELSE frames[i + 1].stack
BlockAbove(i) == IF i = Len(frames) THEN block ELSE frames[i + 1].block
PhaseAbove(i) == IF i = Len(frames) THEN phase ELSE frames[i + 1].phase

CallOK(i) == CallIs(i, frames[i], StackAbove(i), BlockAbove(i), PhaseAbove(i))
CallInv == \A i \in 1 .. Len(frames) : CallOK(i)

SameCall(f, g) ==
    /\ g.fn = f.fn /\ g.pc = f.pc /\ g.name = f.name /\ g.ret = f.ret
    /\ g.stack = f.stack /\ g.block = f.block /\ g.phase = f.phase

LEMMA CallIsKept ==
  ASSUME NEW i, NEW f, NEW s, NEW b, NEW p, CallIs(i, f, s, b, p),
         program' = program, done => done', f.fn = "CALL" => version' = version,
         NEW g, SameCall(f, g), NEW t, NEW q,
         f.fn # "execute" /\ (~done' \/ f.fn = "uses") => t = s,
         q = p \/ f.fn = "execute"
  PROVE  CallIs(i, g, t, b, q)'
<1>1. \A r, n : Behind(r, n)' <=> Behind(r, n)
  BY DEF Behind, Text
<1>2. InLoop(g) <=> InLoop(f)
  BY DEF InLoop, SameCall
<1>3. ASSUME Based(s, f)
      PROVE  Based(s, g)
  BY <1>3 DEF Based, SameCall
<1>4. /\ g.fn = "execute" <=> i = 1
      /\ g.fn = "execute" => g.pc = "loop" /\ b = None
      /\ g.fn = "action" => i = 2 /\ g.block = None
      /\ g.pc # "loop" => b = g.block
      /\ InLoop(g) => b = g.name
      /\ g.fn = "CALL" => version' = 1
  BY <1>2 DEF CallIs, SameCall
<1>5. /\ g.pc # "loop" /\ g.fn # "action" => q = g.phase
      /\ InLoop(g) /\ g.fn = "call" => q = "PROCEDURE"
  BY <1>2 DEF CallIs, SameCall
<1>6. g.fn = "call" /\ g.block # None => Behind(g.ret, g.name)'
  BY <1>1 DEF CallIs, SameCall
<1>7. ASSUME ~done' \/ g.fn = "uses"
      PROVE  (g.pc # "loop" => t = g.stack) /\ (InLoop(g) => Based(t, g))
  <2>1. CASE f.fn = "execute"
    BY <2>1 DEF CallIs, SameCall, InLoop
  <2>2. CASE f.fn # "execute"
    <3>1. (~done \/ f.fn = "uses") /\ t = s
      BY <1>7, <2>2 DEF SameCall
    <3> QED
      BY <1>2, <1>3, <3>1 DEF CallIs, SameCall
  <2> QED
    BY <2>1, <2>2
<1> QED
  BY <1>4, <1>5, <1>6, <1>7 DEF CallIs, Based, InLoop, Behind, Text

LEMMA CallThen ==
  ASSUME NEW i, NEW g, NEW t, NEW c, NEW q, CallIs(i, g, t, c, q)', frames'[i] = g,
         StackAbove(i)' = t, BlockAbove(i)' = c, PhaseAbove(i)' = q
  PROVE  CallOK(i)'
  BY DEF CallOK, CallIs, Based, InLoop

\* The calls below the top one do not see what it does.
LEMMA CallsBelow ==
  ASSUME Inv, CallInv, program' = program, done => done', frames # <<>>,
         NEW n, n = Len(frames), NEW i \in 1 .. n - 1, frames'[i] = frames[i],
         ~done' /\ version = 2 => StackAbove(i)' = frames[i + 1].stack,
         BlockAbove(i)' = frames[i + 1].block,
         PhaseAbove(i)' = frames[i + 1].phase \/ i = 1
  PROVE  CallOK(i)'
<1>1. n \in Nat \ {0}
  BY TopIsThere
<1>2. i \in 1 .. n /\ i # n
  BY <1>1
<1>3. PICK f, s, b, p : f = frames[i] /\ s = frames[i + 1].stack
                        /\ b = frames[i + 1].block /\ p = frames[i + 1].phase
  OBVIOUS
<1>4. StackAbove(i) = s /\ BlockAbove(i) = b /\ PhaseAbove(i) = p
  BY <1>2, <1>3 DEF StackAbove, BlockAbove, PhaseAbove
<1>5. CallIs(i, f, s, b, p)
  <2>1. CallOK(i)
    BY <1>2 DEF CallInv
  <2> QED
    BY <1>3, <1>4, <2>1 DEF CallOK
<1>6. /\ f.fn \notin {"uses", "CALL", "GOTO"}
      /\ f.fn # "execute" => version = 2
  BY <1>2, <1>3, Zenon DEF Inv, FramesInv, UsedOK, IsFrame, Functions
<1>7. f.fn = "execute" <=> i = 1
  BY <1>5 DEF CallIs
<1>8. PICK t, q : t = StackAbove(i)' /\ q = PhaseAbove(i)'
  OBVIOUS
<1>9. SameCall(f, f)
  BY DEF SameCall
<1>10. CallIs(i, f, t, b, q)'
  BY <1>3, <1>5, <1>6, <1>7, <1>8, <1>9, CallIsKept
<1> QED
  BY <1>3, <1>8, <1>10, CallThen

\* The top call goes on.
LEMMA CallGoesOn ==
  ASSUME Inv, CallInv, program' = program, done => done', frames # <<>>,
         NEW n, n = Len(frames), NEW g, frames' = SetTop(g),
         g.block = Top.block, g.phase = Top.phase, ~done' => g.stack = Top.stack,
         NEW t, NEW c, NEW q, t = stack', c = block', q = phase',
         CallIs(n, g, t, c, q)'
  PROVE  CallInv'
<1>1. /\ n \in Nat \ {0} /\ n \in 1 .. n /\ Top = frames[n]
  BY TopIsThere
<1>2. /\ Len(frames') = n
      /\ \A i \in 1 .. n - 1 : frames'[i] = frames[i]
      /\ frames'[n] = g
  BY TopIsSet DEF Inv, FramesInv
<1>3. CallOK(n)'
  <2>1. StackAbove(n)' = t /\ BlockAbove(n)' = c /\ PhaseAbove(n)' = q
    BY <1>2 DEF StackAbove, BlockAbove, PhaseAbove
  <2> QED
    BY <1>2, <2>1, CallThen
<1>4. ASSUME NEW i \in 1 .. n - 1
      PROVE  CallOK(i)'
  <2>1. i + 1 \in 1 .. n /\ i # n /\ (i + 1 = n \/ i + 1 \in 1 .. n - 1)
    BY <1>1
  <2>2. /\ ~done' => frames'[i + 1].stack = frames[i + 1].stack
        /\ frames'[i + 1].block = frames[i + 1].block
        /\ frames'[i + 1].phase = frames[i + 1].phase
    BY <1>1, <1>2, <2>1
  <2>3. /\ StackAbove(i)' = frames'[i + 1].stack /\ BlockAbove(i)' = frames'[i + 1].block
        /\ PhaseAbove(i)' = frames'[i + 1].phase
    BY <1>2, <2>1 DEF StackAbove, BlockAbove, PhaseAbove
  <2>4. frames'[i] = frames[i]
    BY <1>2
  <2> QED
    BY <2>2, <2>3, <2>4, CallsBelow
<1>5. \A i \in 1 .. n : i = n \/ i \in 1 .. n - 1
  BY <1>1
<1> QED
  BY <1>2, <1>3, <1>4, <1>5 DEF CallInv

\* A call is made: it finds what there is.
LEMMA CallIsMade ==
  ASSUME Inv, CallInv, program' = program, done' = done, frames # <<>>,
         NEW n, n = Len(frames), NEW g, NEW h, frames' = Append(SetTop(g), h),
         SameCall(Top, g), Top.fn # "CALL",
         h.stack = stack, h.block = block, h.phase = phase,
         NEW t, NEW c, NEW q, t = stack', c = block', q = phase',
         CallIs(n + 1, h, t, c, q)'
  PROVE  CallInv'
<1>1. /\ n \in Nat \ {0} /\ n \in 1 .. n /\ Top = frames[n]
  BY TopIsThere
<1>2. /\ Len(frames') = n + 1
      /\ \A i \in 1 .. n - 1 : frames'[i] = frames[i]
      /\ frames'[n] = g /\ frames'[n + 1] = h
  <2>1. PICK s : s = SetTop(g)
    OBVIOUS
  <2>2. /\ IsList(s) /\ Len(s) = n
        /\ \A i \in 1 .. n - 1 : s[i] = frames[i]
        /\ s[n] = g
    BY <2>1, TopIsSet DEF Inv, FramesInv
  <2>3. PICK r : r = Append(s, h)
    OBVIOUS
  <2>4. Len(r) = n + 1 /\ (\A i \in 1 .. n : r[i] = s[i]) /\ r[n + 1] = h
    BY <2>2, <2>3, ListAppends
  <2>5. frames' = r
    BY <2>1, <2>3
  <2>6. \A i \in 1 .. n - 1 : i \in 1 .. n
    BY <1>1
  <2> QED
    BY <1>1, <2>2, <2>4, <2>5, <2>6
<1>3. CallOK(n + 1)'
  <2>1. StackAbove(n + 1)' = t /\ BlockAbove(n + 1)' = c /\ PhaseAbove(n + 1)' = q
    BY <1>2 DEF StackAbove, BlockAbove, PhaseAbove
  <2> QED
    BY <1>2, <2>1, CallThen
<1>4. CallOK(n)'
  <2>1. PICK f, s, b, p : f = Top /\ s = stack /\ b = block /\ p = phase
    OBVIOUS
  <2>2. CallIs(n, f, s, b, p)
    <3>1. CallOK(n)
      BY <1>1 DEF CallInv
    <3>2. StackAbove(n) = s /\ BlockAbove(n) = b /\ PhaseAbove(n) = p
      BY <2>1 DEF StackAbove, BlockAbove, PhaseAbove
    <3> QED
      BY <1>1, <2>1, <3>1, <3>2 DEF CallOK
  <2>3. CallIs(n, g, s, b, p)'
    BY <2>1, <2>2, CallIsKept
  <2>4. n # n + 1
    BY <1>1
  <2>5. StackAbove(n)' = s /\ BlockAbove(n)' = b /\ PhaseAbove(n)' = p
    BY <1>2, <2>1, <2>4 DEF StackAbove, BlockAbove, PhaseAbove
  <2> QED
    BY <1>2, <2>3, <2>5, CallThen
<1>5. ASSUME NEW i \in 1 .. n - 1
      PROVE  CallOK(i)'
  <2>1. i + 1 \in 1 .. n /\ i # n + 1 /\ (i + 1 = n \/ i + 1 \in 1 .. n - 1)
    BY <1>1
  <2>2. /\ frames'[i + 1].stack = frames[i + 1].stack
        /\ frames'[i + 1].block = frames[i + 1].block
        /\ frames'[i + 1].phase = frames[i + 1].phase
    BY <1>1, <1>2, <2>1 DEF SameCall
  <2>3. /\ StackAbove(i)' = frames'[i + 1].stack /\ BlockAbove(i)' = frames'[i + 1].block
        /\ PhaseAbove(i)' = frames'[i + 1].phase
    BY <1>2, <2>1 DEF StackAbove, BlockAbove, PhaseAbove
  <2>4. frames'[i] = frames[i]
    BY <1>2
  <2> QED
    BY <2>2, <2>3, <2>4, CallsBelow
<1>6. \A i \in 1 .. n + 1 : i = n + 1 \/ i = n \/ i \in 1 .. n - 1
  BY <1>1
<1> QED
  BY <1>2, <1>3, <1>4, <1>5, <1>6 DEF CallInv

\* A call is over: what it found is there again.
LEMMA CallIsOver ==
  ASSUME Inv, CallInv, program' = program, done => done', frames # <<>>,
         frames' = Front(frames),
         ~done' /\ version = 2 => stack' = Top.stack, block' = Top.block,
         phase' = Top.phase \/ Len(frames) = 2
  PROVE  CallInv'
<1>1. PICK n : n = Len(frames)
  OBVIOUS
<1>2. /\ n \in Nat \ {0} /\ n \in 1 .. n /\ Top = frames[n]
  BY <1>1, TopIsThere
<1>3. /\ Len(frames') = n - 1
      /\ \A i \in 1 .. n - 1 : frames'[i] = frames[i]
  BY <1>1, ListFront DEF Inv, FramesInv
<1>4. ASSUME NEW i \in 1 .. n - 1
      PROVE  CallOK(i)'
  <2>1. frames'[i] = frames[i]
    BY <1>3
  <2>2. CASE i = n - 1
    <3>1. StackAbove(i)' = stack' /\ BlockAbove(i)' = block' /\ PhaseAbove(i)' = phase'
      BY <1>3, <2>2 DEF StackAbove, BlockAbove, PhaseAbove
    <3>2. i + 1 = n /\ frames[i + 1] = Top /\ (n = 2 => i = 1)
      BY <1>2, <2>2
    <3>3. /\ ~done' /\ version = 2 => StackAbove(i)' = frames[i + 1].stack
          /\ BlockAbove(i)' = frames[i + 1].block
          /\ PhaseAbove(i)' = frames[i + 1].phase \/ i = 1
      BY <1>1, <3>1, <3>2
    <3> QED
      BY <1>1, <2>1, <3>3, CallsBelow
  <2>3. CASE i # n - 1
    <3>1. i + 1 \in 1 .. n - 1
      BY <1>2, <2>3
    <3>2. frames'[i + 1] = frames[i + 1]
      BY <1>3, <3>1
    <3>3. /\ StackAbove(i)' = frames[i + 1].stack
          /\ BlockAbove(i)' = frames[i + 1].block
          /\ PhaseAbove(i)' = frames[i + 1].phase
      BY <1>3, <2>3, <3>2 DEF StackAbove, BlockAbove, PhaseAbove
    <3> QED
      BY <1>1, <2>1, <3>3, CallsBelow
  <2> QED
    BY <2>2, <2>3
<1> QED
  BY <1>3, <1>4 DEF CallInv


-----------------------------------------------------------------------------
LEMMA TopCall ==
  ASSUME Inv, CallInv, frames # <<>>, NEW n, n = Len(frames)
  PROVE  /\ n \in Nat \ {0} /\ n \in 1 .. n /\ Top = frames[n] /\ IsFrame(Top)
         /\ CallIs(n, Top, stack, block, phase)
<1>1. /\ n \in Nat \ {0} /\ n \in 1 .. n /\ Top = frames[n] /\ IsFrame(Top)
  BY TopIsThere
<1>2. CallOK(n)
  BY <1>1 DEF CallInv
<1> QED
  BY <1>1, <1>2 DEF CallOK, StackAbove, BlockAbove, PhaseAbove

LEMMA CallUnchanged ==
  ASSUME CallInv, UNCHANGED <<program, version, done, stack, block, phase, frames>>
  PROVE  CallInv'
<1>1. \A i : CallOK(i)' <=> CallOK(i)
  BY DEF CallOK, CallIs, StackAbove, BlockAbove, PhaseAbove, Based, InLoop, Behind, Text
<1> QED
  BY <1>1 DEF CallInv

LEMMA SameList ==
  ASSUME NEW s, NEW t, IsList(s), IsList(t), Len(s) = Len(t),
         \A j \in 1 .. Len(s) : s[j] = t[j]
  PROVE  s = t
<1>1. s \in Seq(ToSet(s)) /\ t \in Seq(ToSet(t))
  BY DEF IsList
<1>2. /\ DOMAIN s = 1 .. Len(s) /\ s = [j \in 1 .. Len(s) |-> s[j]]
      /\ DOMAIN t = 1 .. Len(t) /\ t = [j \in 1 .. Len(t) |-> t[j]]
  BY <1>1
<1> QED
  BY <1>2

LEMMA BasedBegins ==
  ASSUME NEW s, IsList(s), NEW f, f.stack = s
  PROVE  Based(Append(s, CallRecord(f.ret)), f)
<1>1. PICK r : r = CallRecord(f.ret)
  OBVIOUS
<1>2. PICK t : t = Append(s, r)
  OBVIOUS
<1>3. /\ IsList(t) /\ Len(t) = Len(s) + 1
      /\ \A i \in 1 .. Len(s) : t[i] = s[i]
      /\ t[Len(s) + 1] = r
  BY <1>2, ListAppends
<1>4. Len(s) \in Nat
  BY ListOf DEF IsList
<1>5. Based(t, f)
  BY <1>1, <1>3, <1>4 DEF Based
<1> QED
  BY <1>1, <1>2, <1>5

LEMMA BasedGrows ==
  ASSUME NEW s, NEW f, Based(s, f), NEW r, r.type # "CALL"
  PROVE  Based(Append(s, r), f)
<1>1. PICK t : t = Append(s, r)
  OBVIOUS
<1>2. PICK m, k : m = Len(s) /\ k = Len(f.stack)
  OBVIOUS
<1>3. /\ IsList(s) /\ IsList(f.stack) /\ m > k
      /\ \A j \in 1 .. k : s[j] = f.stack[j]
      /\ s[k + 1] = CallRecord(f.ret)
      /\ \A j \in k + 2 .. m : s[j].type # "CALL"
  BY <1>2 DEF Based
<1>4. m \in Nat /\ k \in Nat
  BY <1>2, <1>3, ListOf DEF IsList
<1>5. /\ IsList(t) /\ Len(t) = m + 1
      /\ \A i \in 1 .. m : t[i] = s[i]
      /\ t[m + 1] = r
  BY <1>1, <1>2, <1>3, ListAppends
<1>6. \A j \in 1 .. k : j \in 1 .. m
  BY <1>3, <1>4
<1>7. k + 1 \in 1 .. m
  BY <1>3, <1>4
<1>8. \A j \in k + 2 .. m + 1 : j = m + 1 \/ (j \in 1 .. m /\ j \in k + 2 .. m)
  BY <1>3, <1>4
<1>9. Len(t) > k
  BY <1>3, <1>4, <1>5
<1>10. /\ \A j \in 1 .. k : t[j] = f.stack[j]
       /\ t[k + 1] = CallRecord(f.ret)
       /\ \A j \in k + 2 .. Len(t) : t[j].type # "CALL"
  BY <1>3, <1>5, <1>6, <1>7, <1>8
<1>11. Based(t, f)
  BY <1>2, <1>3, <1>5, <1>9, <1>10 DEF Based
<1> QED
  BY <1>1, <1>11

\* What is not a way back is above the way back.
LEMMA BasedShrinks ==
  ASSUME NEW s, NEW f, Based(s, f), Last(s).type # "CALL"
  PROVE  Based(Front(s), f)
<1>1. PICK t : t = Front(s)
  OBVIOUS
<1>2. PICK m, k : m = Len(s) /\ k = Len(f.stack)
  OBVIOUS
<1>3. /\ IsList(s) /\ IsList(f.stack) /\ m > k
      /\ \A j \in 1 .. k : s[j] = f.stack[j]
      /\ s[k + 1] = CallRecord(f.ret)
      /\ \A j \in k + 2 .. m : s[j].type # "CALL"
  BY <1>2 DEF Based
<1>4. m \in Nat /\ k \in Nat
  BY <1>2, <1>3, ListOf DEF IsList
<1>5. s # <<>>
  BY <1>2, <1>3, <1>4
<1>6. /\ IsList(t) /\ Len(t) = m - 1
      /\ \A i \in 1 .. m - 1 : t[i] = s[i]
  BY <1>1, <1>2, <1>3, <1>5, ListFront
<1>7. m # k + 1
  <2>1. CallRecord(f.ret).type = "CALL"
    BY DEF CallRecord
  <2>2. Last(s) = s[m]
    BY <1>2 DEF Last
  <2> QED
    BY <1>3, <2>1, <2>2
<1>8. m - 1 > k
  BY <1>3, <1>4, <1>7
<1>9. /\ \A j \in 1 .. k : j \in 1 .. m - 1
      /\ k + 1 \in 1 .. m - 1
      /\ \A j \in k + 2 .. m - 1 : j \in 1 .. m - 1 /\ j \in k + 2 .. m
  BY <1>4, <1>8
<1>10. /\ \A j \in 1 .. k : t[j] = f.stack[j]
       /\ t[k + 1] = CallRecord(f.ret)
       /\ \A j \in k + 2 .. Len(t) : t[j].type # "CALL"
  BY <1>3, <1>6, <1>9
<1>11. Based(t, f)
  BY <1>2, <1>3, <1>6, <1>8, <1>10 DEF Based
<1> QED
  BY <1>1, <1>11

\* The way back on top is that of the loop.
LEMMA BasedEnds ==
  ASSUME NEW s, NEW f, Based(s, f), Last(s).type = "CALL"
  PROVE  Front(s) = f.stack /\ Last(s) = CallRecord(f.ret)
<1>1. PICK t : t = Front(s)
  OBVIOUS
<1>2. PICK m, k : m = Len(s) /\ k = Len(f.stack)
  OBVIOUS
<1>3. /\ IsList(s) /\ IsList(f.stack) /\ m > k
      /\ \A j \in 1 .. k : s[j] = f.stack[j]
      /\ s[k + 1] = CallRecord(f.ret)
      /\ \A j \in k + 2 .. m : s[j].type # "CALL"
  BY <1>2 DEF Based
<1>4. m \in Nat /\ k \in Nat
  BY <1>2, <1>3, ListOf DEF IsList
<1>5. s # <<>>
  BY <1>2, <1>3, <1>4
<1>6. /\ IsList(t) /\ Len(t) = m - 1
      /\ \A i \in 1 .. m - 1 : t[i] = s[i]
  BY <1>1, <1>2, <1>3, <1>5, ListFront, Zenon
<1>7. Last(s) = s[m]
  BY <1>2 DEF Last
<1>8. m = k + 1
  <2>1. ~(m \in k + 2 .. m)
    BY <1>3, <1>7
  <2> QED
    BY <1>3, <1>4, <2>1
<1>9. Len(t) = k
  BY <1>4, <1>6, <1>8
<1>10. \A j \in 1 .. k : t[j] = f.stack[j]
  <2>1. \A j \in 1 .. k : j \in 1 .. m - 1
    BY <1>4, <1>8
  <2> QED
    BY <1>3, <1>6, <2>1
<1>11. t = f.stack
  BY <1>2, <1>3, <1>6, <1>9, <1>10, SameList
<1> QED
  BY <1>1, <1>3, <1>7, <1>8, <1>11

-----------------------------------------------------------------------------
(***************************************************************************)
(* The statements.                                                         *)
(***************************************************************************)
\* Where a statement is executed.
LEMMA LoopCall ==
  ASSUME Inv, CallInv, NEW ops, Executes(ops)
  PROVE  /\ frames # <<>> /\ Top.pc = "loop" /\ Looping /\ IsFrame(Top)
         /\ Top.fn \in {"execute", "call", "uses"}
         /\ Top.fn \in {"call", "uses"} => InLoop(Top) /\ version = 2
         /\ InLoop(Top) => Top.fn \in {"call", "uses"} /\ Based(stack, Top)
         /\ Top.fn = "call" => phase = "PROCEDURE"
         /\ Top.fn = "execute" => Len(frames) = 1 /\ block = None
         /\ done => Top.fn = "uses"
<1>1. Looping /\ frames # <<>> /\ Top.pc = "loop"
  BY StatementRight
<1>2. PICK n : n = Len(frames)
  OBVIOUS
<1>3. IsFrame(Top) /\ CallIs(n, Top, stack, block, phase)
  BY <1>1, <1>2, TopCall
<1>4. /\ Top.fn \in {"execute", "call", "uses"}
      /\ Top.fn \in {"call", "uses"} => InLoop(Top) /\ version = 2
  BY <1>1, <1>3 DEF IsFrame, InLoop
<1>5. done => Top.fn = "uses"
  BY <1>1 DEF Looping
<1>6. InLoop(Top) => Top.fn \in {"call", "uses"} /\ Based(stack, Top)
  <2>1. InLoop(Top) => Top.fn \in {"call", "uses"}
    BY DEF InLoop
  <2>2. ~done \/ Top.fn = "uses"
    BY <1>5
  <2> QED
    BY <1>3, <2>1, <2>2 DEF CallIs
<1>7. Top.fn = "call" => phase = "PROCEDURE"
  BY <1>3, <1>4 DEF CallIs
<1>8. Top.fn = "execute" => Len(frames) = 1 /\ block = None
  BY <1>2, <1>3 DEF CallIs
<1> QED
  BY <1>1, <1>3, <1>4, <1>5, <1>6, <1>7, <1>8

LEMMA StatementKeepsCalls ==
  ASSUME Inv, CallInv, NEW ops, Executes(ops), program' = program, block' = block,
         done => done', done' = done \/ Top.fn # "uses",
         phase' = phase \/ Top.fn = "execute",
         NEW x, NEW g, g = With(Top, Top.pc, Top.todo, Top.stack, x), frames' = SetTop(g),
         InLoop(Top) /\ (~done' \/ Top.fn = "uses") => Based(stack', Top)
  PROVE  CallInv'
<1>1. PICK n : n = Len(frames)
  OBVIOUS
<1>2. /\ frames # <<>> /\ Top.pc = "loop"
      /\ Top.fn \in {"execute", "call", "uses"}
  BY LoopCall
<1>3. CallIs(n, Top, stack, block, phase)
  BY <1>1, <1>2, TopCall
<1>4. PICK t, c, q : t = stack' /\ c = block' /\ q = phase'
  OBVIOUS
<1>5. SameCall(Top, g)
  BY DEF SameCall, With
<1>6. PICK f : f = Top
  OBVIOUS
<1>7. CallIs(n, f, stack, c, q) \/ f.fn = "execute"
  BY <1>3, <1>4, <1>6
<1>8. /\ g.fn = f.fn /\ g.pc = "loop" /\ g.name = f.name /\ g.ret = f.ret
      /\ g.stack = f.stack /\ g.block = f.block /\ g.phase = f.phase
      /\ f.pc = "loop"
  BY <1>2, <1>5, <1>6 DEF SameCall
<1>9. \A k, m : Behind(k, m)' <=> Behind(k, m)
  BY DEF Behind, Text
<1>10. ASSUME InLoop(g), ~done' \/ g.fn = "uses"
       PROVE  Based(t, g)
  <2>1. Based(t, f)
    BY <1>4, <1>6, <1>8, <1>10 DEF InLoop
  <2> QED
    BY <1>8, <2>1 DEF Based
<1>11. /\ g.fn = "execute" <=> n = 1
       /\ g.fn = "execute" => g.pc = "loop" /\ c = None
       /\ g.fn # "action" /\ g.fn # "CALL" /\ g.pc = "loop"
       /\ InLoop(g) => c = g.name
       /\ g.fn = "call" /\ g.block # None => Behind(g.ret, g.name)'
  BY <1>2, <1>3, <1>4, <1>6, <1>8, <1>9 DEF CallIs, InLoop
<1>12. InLoop(g) /\ g.fn = "call" => q = "PROCEDURE"
  <2>1. ASSUME InLoop(g), g.fn = "call"
        PROVE  InLoop(f) /\ f.fn = "call"
    BY <1>8, <2>1 DEF InLoop
  <2>2. ASSUME InLoop(f), f.fn = "call"
        PROVE  q = "PROCEDURE"
    <3>1. CallIs(n, f, stack, c, q)
      BY <1>7, <2>2, Zenon
    <3> QED
      BY <2>2, <3>1, Zenon DEF CallIs
  <2> QED
    BY <2>1, <2>2
<1>13. CallIs(n, g, t, c, q)'
  BY <1>10, <1>11, <1>12, Zenon DEF CallIs, InLoop, Based, Behind, Text
<1>14. g.block = Top.block /\ g.phase = Top.phase /\ g.stack = Top.stack
  BY <1>6, <1>8
<1> QED
  BY <1>1, <1>2, <1>4, <1>13, <1>14, CallGoesOn

\* A statement that leaves the frames, and does right by the stack.
LEMMA ConsumedKeepsCalls ==
  ASSUME Inv, CallInv, NEW ops, Executes(ops), program' = program, block' = block,
         done => done', done' = done \/ Top.fn # "uses",
         phase' = phase \/ Top.fn = "execute", frames' = Consumed,
         InLoop(Top) => Based(stack', Top)
  PROVE  CallInv'
<1>1. PICK g : g = With(Top, Top.pc, Top.todo, Top.stack, None)
  OBVIOUS
<1>2. frames' = SetTop(g)
  BY <1>1, LoopCall, TopIsConsumed
<1> QED
  BY <1>1, <1>2, StatementKeepsCalls


\* A statement that calls: the call finds what there is.
LEMMA StatementMakesCall ==
  ASSUME Inv, CallInv, NEW ops, Executes(ops), program' = program, done' = done,
         NEW n, n = Len(frames), NEW h, frames' = Append(Consumed, h),
         h.stack = stack, h.block = block, h.phase = phase,
         NEW t, NEW c, NEW q, t = stack', c = block', q = phase',
         CallIs(n + 1, h, t, c, q)'
  PROVE  CallInv'
<1>2. PICK g : g = With(Top, Top.pc, Top.todo, Top.stack, None)
  OBVIOUS
<1>3. /\ frames # <<>> /\ Top.fn \in {"execute", "call", "uses"}
  BY LoopCall
<1>4. frames' = Append(SetTop(g), h)
  BY <1>2, <1>3, TopIsConsumed
<1>5. SameCall(Top, g)
  BY <1>2 DEF SameCall, With
<1> QED
  BY <1>3, <1>4, <1>5, CallIsMade


LEMMA ActionCalls ==
  ASSUME Inv, CallInv, Action
  PROVE  CallInv'
<1>1. Executes({"ACTION"})
  BY DEF Action
<1>2. Line.op = "ACTION" /\ StatementError(Line) = "SUCCESS" /\ Top.fn # "uses"
  BY <1>1, StatementRight
<1>3. phase \in {"UNKNOWN", "NOTE", "ACTION"}
  BY <1>2 DEF StatementError, ActionError, ProcedureStatements
<1>4. Top.fn = "execute" /\ block = None /\ Len(frames) = 1
  BY <1>1, <1>2, <1>3, LoopCall
<1>5. program' = program /\ done' = done /\ UNCHANGED <<block, stack>>
  BY DEF Action, outcome
<1>6. CASE frames' = Consumed
  <2>1. ~InLoop(Top)
    BY <1>4 DEF InLoop
  <2> QED
    BY <1>1, <1>4, <1>5, <1>6, <2>1, ConsumedKeepsCalls
<1>7. PICK h : h = Frame("action", "listed", Line.name, Line.procedures, 0)
  OBVIOUS
<1>8. CASE frames' = Append(Consumed, h)
  <2>1. /\ h.fn = "action" /\ h.pc = "listed" /\ h.stack = stack /\ h.block = block
        /\ h.phase = phase
    BY <1>7 DEF Frame
  <2>2. PICK n, t, c, q : n = 1 /\ t = stack' /\ c = block' /\ q = phase'
    OBVIOUS
  <2>3. CallIs(n + 1, h, t, c, q)'
    BY <1>4, <1>5, <2>1, <2>2 DEF CallIs, InLoop
  <2> QED
    BY <1>1, <1>4, <1>5, <1>8, <2>1, <2>2, <2>3, StatementMakesCall
<1> QED
  BY <1>6, <1>7, <1>8 DEF Action

\* Statements that leave the stack.
LEMMA PlainCalls ==
  ASSUME Inv, CallInv, Declaration \/ Integer \/ Comment
  PROVE  CallInv'
<1>1. PICK ops : Executes(ops) /\ ops \in {{"PROCEDURE", "DATA"}, {"INTEGER"}, {"REM", "NOTE"}}
  BY DEF Declaration, Integer, Comment
<1>2. /\ program' = program /\ done' = done /\ UNCHANGED <<block, stack>>
      /\ frames' = Consumed
  BY DEF Declaration, Integer, Comment, context, outcome
<1>3. phase' = phase \/ phase = "UNKNOWN"
  BY DEF Declaration, Integer, Comment, context
<1>4. phase' = phase \/ Top.fn = "execute"
  <2>1. Top.fn = "uses" => phase = "DATA"
    BY <1>1, DataIsPassive, StatementRight
  <2> QED
    BY <1>1, <1>3, <2>1, LoopCall
<1>5. InLoop(Top) => Based(stack', Top)
  BY <1>1, <1>2, LoopCall
<1> QED
  BY <1>1, <1>2, <1>4, <1>5, ConsumedKeepsCalls

LEMMA CallBlockCalls ==
  ASSUME Inv, CallInv, CallBlock
  PROVE  CallInv'
<1>1. Executes({"CALL"})
  BY DEF CallBlock
<1>2. Line.op = "CALL" /\ Looping /\ Error = "SUCCESS"
  BY <1>1, StatementRight
<1>3. /\ program' = program /\ done' = done
      /\ UNCHANGED <<block, stack, phase>>
  BY DEF CallBlock, context, outcome
<1>4. PICK h : h = Frame("call", "enter", Line.name, <<>>, After.next)
  OBVIOUS
<1>5. frames' = Append(Consumed, h)
  BY <1>4 DEF CallBlock
<1>6. /\ h.fn = "call" /\ h.pc = "enter" /\ h.stack = stack /\ h.block = block
      /\ h.phase = phase /\ h.ret = After.next /\ h.name = Line.name
  BY <1>4 DEF Frame
<1>7. Behind(h.ret, h.name)'
  <2>1. /\ Here \in DOMAIN Text /\ Here \in Pos /\ After.next = Here + 1
        /\ Line = Inner(Text[Here].statement)
    BY <1>2, LineIsRight
  <2>2. h.ret - 1 = Here
    BY <1>6, <2>1 DEF Pos
  <2>3. Behind(h.ret, h.name)
    BY <1>2, <1>6, <2>1, <2>2 DEF Behind
  <2> QED
    BY <1>3, <2>3 DEF Behind, Text
<1>8. PICK n, t, c, q : n = Len(frames) /\ t = stack' /\ c = block' /\ q = phase'
  OBVIOUS
<1>9. n + 1 # 1
  BY <1>1, <1>8, LoopCall, TopIsThere
<1>10. CallIs(n + 1, h, t, c, q)'
  BY <1>3, <1>6, <1>7, <1>8, <1>9 DEF CallIs, InLoop
<1> QED
  BY <1>1, <1>3, <1>5, <1>6, <1>8, <1>10, StatementMakesCall

LEMMA CallOrGotoCalls ==
  ASSUME Inv, CallInv, CallOrGoto
  PROVE  CallInv'
<1>1. Executes({"CALL", "GOTO"}) /\ LabelCall(Line)
  BY DEF CallOrGoto
<1>2. Line.op \in {"CALL", "GOTO"}
  BY <1>1, StatementRight
<1>3. /\ program' = program /\ done' = done /\ version' = Version(1)
      /\ UNCHANGED <<block, phase>>
  BY DEF CallOrGoto, outcome
<1>4. Line.op = "CALL" => version # 2 /\ version' = 1
  BY <1>1, <1>3, StatementRight DEF LabelCall, Version
<1>5. CASE Line.name \in DOMAIN Labelled
  <2>1. frames' = Consumed
    BY <1>5 DEF CallOrGoto
  <2>2. stack' = stack \/ Line.op = "CALL"
    BY <1>5 DEF CallOrGoto
  <2>3. InLoop(Top) => Based(stack', Top)
    BY <1>1, <1>4, <2>2, LoopCall
  <2> QED
    BY <1>1, <1>3, <2>1, <2>3, ConsumedKeepsCalls
<1>6. CASE Line.name \notin DOMAIN Labelled
  <2>1. PICK h : h = Frame(Line.op, "search", Line.name, <<>>, After.next)
    OBVIOUS
  <2>2. frames' = Append(Consumed, h) /\ stack' = stack
    BY <1>6, <2>1 DEF CallOrGoto
  <2>3. /\ h.fn = Line.op /\ h.pc = "search" /\ h.stack = stack /\ h.block = block
        /\ h.phase = phase
    BY <2>1 DEF Frame
  <2>4. PICK n, t, c, q : n = Len(frames) /\ t = stack' /\ c = block' /\ q = phase'
    OBVIOUS
  <2>5. n + 1 # 1
    BY <1>1, <2>4, LoopCall, TopIsThere
  <2>6. CallIs(n + 1, h, t, c, q)'
    BY <1>2, <1>3, <1>4, <2>2, <2>3, <2>4, <2>5 DEF CallIs, InLoop
  <2> QED
    BY <1>1, <1>3, <2>2, <2>3, <2>4, <2>6, StatementMakesCall
<1> QED
  BY <1>5, <1>6

\* In the loop of a block the way back on the stack is that of the block, which is
\* over.
LEMMA ReturnEnds ==
  ASSUME Inv, CallInv, Nested, Return, InLoop(Top)
  PROVE  /\ frames' = Front(frames) /\ stack' = Top.stack
         /\ block' = Top.block /\ phase' = Top.phase
         /\ position'.file = Top.ret
<1>1. Executes({"RETURN", "ENDPROC", "ENDDATA"})
  BY DEF Return
<1>2. /\ Line.op \in {"RETURN", "ENDPROC", "ENDDATA"} /\ StatementError(Line) = "SUCCESS"
      /\ Looping /\ Error = "SUCCESS"
  BY <1>1, StatementRight
<1>3. ReturnError(Line) = "SUCCESS"
  BY <1>2 DEF StatementError, ProcedureStatements
<1>4. TopIs("CALL") /\ (version = 2 => Line.op # "RETURN")
  BY <1>3 DEF ReturnError
<1>5. Based(stack, Top) /\ Top.fn \in {"call", "uses"} /\ version = 2
  BY <1>1, LoopCall
<1>6. Last(stack).type = "CALL"
  BY <1>4, StackTop
<1>7. Front(stack) = Top.stack /\ Last(stack) = CallRecord(Top.ret)
  BY <1>5, <1>6, BasedEnds
<1>8. stack' = Top.stack
  BY <1>7 DEF Return
<1>9. \/ Top.fn = "call" /\ Line.op = "ENDPROC"
      \/ Top.fn = "uses" /\ Line.op = "ENDDATA"
  BY <1>2, <1>4, <1>5 DEF Nested
<1>10. frames' = Front(frames) /\ block' = Top.block /\ phase' = Top.phase
  <2>1. Peek(stack') = Peek(Top.stack)
    BY <1>8
  <2> QED
    BY <1>9, <2>1 DEF Return
<1>11. position'.file = Top.ret
  <2>1. Last(stack).ret = Top.ret
    BY <1>7 DEF CallRecord
  <2>2. After \in [file : Pos, current : Pos, next : Pos]
    BY <1>1, StatementRight
  <2>3. position' = [After EXCEPT !.file = Last(stack).ret]
    BY DEF Return
  <2> QED
    BY <2>1, <2>2, <2>3
<1> QED
  BY <1>8, <1>10, <1>11

LEMMA ReturnCalls ==
  ASSUME Inv, CallInv, Nested, Return
  PROVE  CallInv'
<1>1. Executes({"RETURN", "ENDPROC", "ENDDATA"})
  BY DEF Return
<1>2. program' = program /\ done' = done
  BY DEF Return, outcome
<1>3. CASE InLoop(Top)
  <2>1. /\ frames' = Front(frames) /\ stack' = Top.stack
        /\ block' = Top.block /\ phase' = Top.phase
    BY <1>3, ReturnEnds
  <2> QED
    BY <1>1, <1>2, <2>1, LoopCall, CallIsOver
<1>4. CASE ~InLoop(Top)
  <2>1. Top.fn = "execute"
    BY <1>1, <1>4, LoopCall
  <2>2. frames' = Consumed /\ UNCHANGED <<block, phase>>
    BY <2>1 DEF Return
  <2> QED
    BY <1>1, <1>2, <1>4, <2>2, ConsumedKeepsCalls
<1> QED
  BY <1>3, <1>4

LEMMA ForCalls ==
  ASSUME Inv, CallInv, For
  PROVE  CallInv'
<1>1. Executes({"FOR"})
  BY DEF For
<1>2. /\ program' = program /\ done' = done /\ UNCHANGED <<block, phase>>
      /\ frames' = Consumed
  BY DEF For, context, outcome
<1>3. PICK r : r = [type |-> "FOR", iterator |-> Line.name, to |-> Line.to,
                    step |-> Line.step, for |-> After.next]
  OBVIOUS
<1>4. stack' = Append(stack, r) /\ r.type # "CALL"
  BY <1>3 DEF For
<1>5. InLoop(Top) => Based(stack', Top)
  BY <1>1, <1>4, LoopCall, BasedGrows
<1> QED
  BY <1>1, <1>2, <1>5, ConsumedKeepsCalls

LEMMA NextStatementCalls ==
  ASSUME Inv, CallInv, NextStatement
  PROVE  CallInv'
<1>1. Executes({"NEXT"})
  BY DEF NextStatement
<1>2. Line.op = "NEXT" /\ StatementError(Line) = "SUCCESS"
  BY <1>1, StatementRight
<1>3. NextError(Line) = "SUCCESS"
  BY <1>2 DEF StatementError, ProcedureStatements
<1>4. Last(stack).type # "CALL"
  <2>1. TopIs("FOR")
    BY <1>3 DEF NextError
  <2> QED
    BY <2>1, StackTop
<1>5. /\ program' = program /\ done' = done /\ UNCHANGED <<block, phase>>
      /\ frames' = Consumed /\ stack' \in {stack, Front(stack)}
  BY DEF NextStatement, context, outcome
<1>6. InLoop(Top) => Based(stack', Top)
  BY <1>1, <1>4, <1>5, LoopCall, BasedShrinks
<1> QED
  BY <1>1, <1>5, <1>6, ConsumedKeepsCalls

LEMMA PushCalls ==
  ASSUME Inv, CallInv, Push
  PROVE  CallInv'
<1>1. Executes({"PUSH"})
  BY DEF Push
<1>2. /\ program' = program /\ done' = done /\ UNCHANGED <<block, phase>>
      /\ frames' = Consumed
  BY DEF Push, context, outcome
<1>3. PICK r : r = [type |-> "PUSH", value |-> Line.value]
  OBVIOUS
<1>4. stack' = Append(stack, r) /\ r.type # "CALL"
  BY <1>3 DEF Push
<1>5. InLoop(Top) => Based(stack', Top)
  BY <1>1, <1>4, LoopCall, BasedGrows
<1> QED
  BY <1>1, <1>2, <1>5, ConsumedKeepsCalls

LEMMA PopCalls ==
  ASSUME Inv, CallInv, Pop
  PROVE  CallInv'
<1>1. Executes({"POP"})
  BY DEF Pop
<1>2. Line.op = "POP" /\ StatementError(Line) = "SUCCESS"
  BY <1>1, StatementRight
<1>3. PopError(Line) = "SUCCESS"
  BY <1>2 DEF StatementError, ProcedureStatements
<1>4. Last(stack).type # "CALL"
  <2>1. TopIs("PUSH")
    BY <1>3 DEF PopError
  <2> QED
    BY <2>1, StackTop
<1>5. /\ program' = program /\ done' = done /\ UNCHANGED <<block, phase>>
      /\ frames' = Consumed /\ stack' = Front(stack)
  BY DEF Pop, context, outcome
<1>6. InLoop(Top) => Based(stack', Top)
  <2> SUFFICES ASSUME InLoop(Top) PROVE Based(stack', Top)
    OBVIOUS
  <2>1. Based(stack, Top)
    BY <1>1, LoopCall
  <2>2. Based(Front(stack), Top)
    BY <1>4, <2>1, BasedShrinks
  <2> QED
    BY <1>5, <2>2
<1> QED
  BY <1>1, <1>5, <1>6, ConsumedKeepsCalls

LEMMA IfCalls ==
  ASSUME Inv, CallInv, If
  PROVE  CallInv'
<1>1. Executes({"IF"})
  BY DEF If
<1>2. program' = program /\ done' = done /\ UNCHANGED <<block, phase, stack>>
  BY DEF If, context, outcome
<1>3. PICK x : x = IF Labelled[Line.name].value = Line.value THEN Line.then ELSE None
  OBVIOUS
<1>4. PICK g : g = With(Top, Top.pc, Top.todo, Top.stack, x)
  OBVIOUS
<1>5. [Top EXCEPT !.buffer = x] = g
  <2>1. IsFrame(Top)
    BY <1>1, LoopCall, Zenon
  <2>2. [Top EXCEPT !.buffer = x] = With(Top, Top.pc, Top.todo, Top.stack, x)
    BY <2>1, BufferIsSet, Zenon
  <2> QED
    BY <1>4, <2>2
<1>6. frames' = SetTop(g)
  BY <1>3, <1>5 DEF If
<1>7. InLoop(Top) => Based(stack', Top)
  BY <1>1, <1>2, LoopCall
<1> QED
  BY <1>1, <1>2, <1>4, <1>6, <1>7, StatementKeepsCalls

LEMMA ExitCalls ==
  ASSUME Inv, CallInv, Exit
  PROVE  CallInv'
<1>1. Executes({"EXIT"})
  BY DEF Exit
<1>2. Top.fn # "uses"
  BY <1>1, StatementRight DEF ProcedureStatements
<1>3. /\ program' = program /\ done' = TRUE /\ UNCHANGED <<block, phase, stack>>
      /\ frames' = Consumed
  BY DEF Exit, context
<1>4. InLoop(Top) => Based(stack', Top)
  BY <1>1, <1>3, LoopCall
<1> QED
  BY <1>1, <1>2, <1>3, <1>4, ConsumedKeepsCalls


-----------------------------------------------------------------------------
(***************************************************************************)
(* The calls.                                                              *)
(***************************************************************************)
LEMMA StopCalls ==
  ASSUME CallInv, NEW error, Stop(error)
  PROVE  CallInv'
  BY CallUnchanged DEF Stop, context

\* A call that is not in its loop goes on.
LEMMA WayCalls ==
  ASSUME Inv, CallInv, NEW pc, At(pc), pc # "loop",
         UNCHANGED <<program, version, phase, block, stack, done>>,
         NEW to, to # "loop", NEW todo, NEW x,
         NEW g, g = With(Top, to, todo, Top.stack, x), frames' = SetTop(g)
  PROVE  CallInv'
<1>1. PICK n : n = Len(frames)
  OBVIOUS
<1>2. frames # <<>> /\ Top.pc = pc
  BY DEF At
<1>3. CallIs(n, Top, stack, block, phase)
  BY <1>1, <1>2, TopCall
<1>4. PICK f : f = Top
  OBVIOUS
<1>5. /\ g.fn = f.fn /\ g.pc = to /\ g.name = f.name /\ g.ret = f.ret
      /\ g.stack = f.stack /\ g.block = f.block /\ g.phase = f.phase
  BY <1>4 DEF With
<1>6. PICK t, c, q : t = stack /\ c = block /\ q = phase
  OBVIOUS
<1>7. CallIs(n, f, t, c, q) /\ f.pc # "loop"
  BY <1>2, <1>3, <1>4, <1>6
<1>8. \A k, m : Behind(k, m)' <=> Behind(k, m)
  BY DEF Behind, Text
<1>9. CallIs(n, g, t, c, q)'
  BY <1>5, <1>7, <1>8 DEF CallIs, InLoop, Behind, Text
<1>10. t = stack' /\ c = block' /\ q = phase'
  BY <1>6
<1>11. g.block = Top.block /\ g.phase = Top.phase /\ g.stack = Top.stack
  BY <1>4, <1>5
<1> QED
  BY <1>1, <1>2, <1>9, <1>10, <1>11, CallGoesOn

LEMMA ListedCalls ==
  ASSUME Inv, CallInv, Listed
  PROVE  CallInv'
<1>1. At("listed") /\ Top.todo # <<>>
  BY DEF Listed
<1>2. PICK n : n = Len(frames)
  OBVIOUS
<1>3. /\ frames # <<>> /\ Top.pc = "listed" /\ IsFrame(Top)
      /\ CallIs(n, Top, stack, block, phase) /\ n \in Nat \ {0}
  BY <1>1, <1>2, TopCall DEF At
<1>4. Top.fn = "action" /\ block = None
  BY <1>3 DEF IsFrame, CallIs
<1>5. UNCHANGED <<program, version, phase, block, stack, done>>
  BY DEF Listed, context, outcome
<1>6. PICK g : g = With(Top, Top.pc, Tail(Top.todo), Top.stack, Top.buffer)
  OBVIOUS
<1>7. [Top EXCEPT !.todo = Tail(@)] = g
  BY <1>3, <1>6, TodoIsSet, Zenon
<1>8. PICK h : h = Frame("call", "enter", Head(Top.todo).name, <<>>, position.next)
  OBVIOUS
<1>9. frames' = Append(SetTop(g), h) \/ frames' = SetTop(g)
  BY <1>7, <1>8 DEF Listed
<1>10. CASE frames' = SetTop(g)
  BY <1>1, <1>3, <1>5, <1>6, <1>10, WayCalls
<1>11. CASE frames' = Append(SetTop(g), h)
  <2>1. SameCall(Top, g)
    BY <1>6 DEF SameCall, With
  <2>2. /\ h.fn = "call" /\ h.pc = "enter" /\ h.stack = stack /\ h.block = block
        /\ h.phase = phase
    BY <1>8 DEF Frame
  <2>3. PICK t, c, q : t = stack' /\ c = block' /\ q = phase'
    OBVIOUS
  <2>4. n + 1 # 1
    BY <1>3
  <2>5. CallIs(n + 1, h, t, c, q)'
    BY <1>4, <1>5, <2>2, <2>3, <2>4 DEF CallIs, InLoop
  <2> QED
    BY <1>2, <1>3, <1>4, <1>5, <1>11, <2>1, <2>2, <2>3, <2>5, CallIsMade
<1> QED
  BY <1>9, <1>10, <1>11

LEMMA ActionEndsCalls ==
  ASSUME Inv, CallInv, ActionEnds
  PROVE  CallInv'
<1>1. At("listed")
  BY DEF ActionEnds
<1>2. PICK n : n = Len(frames)
  OBVIOUS
<1>3. /\ frames # <<>> /\ Top.pc = "listed" /\ IsFrame(Top)
      /\ CallIs(n, Top, stack, block, phase)
  BY <1>1, <1>2, TopCall DEF At
<1>4. n = 2 /\ block = Top.block
  BY <1>3 DEF IsFrame, CallIs
<1>5. program' = program /\ done' = TRUE /\ block' = block /\ frames' = Front(frames)
  BY DEF ActionEnds, context
<1> QED
  BY <1>2, <1>3, <1>4, <1>5, CallIsOver

LEMMA EnterCalls ==
  ASSUME Inv, CallInv, Enter
  PROVE  CallInv'
<1>1. At("enter") /\ frames # <<>>
  BY DEF Enter, At
<1>2. CASE Lookup(symbols, Top.name) = "SCOPE_ERROR"
  BY <1>2, StopCalls DEF Enter
<1>3. CASE Lookup(symbols, Top.name) # "SCOPE_ERROR"
  <2>1. PICK to \in {"found", "search"} : frames' = SetTop([Top EXCEPT !.pc = to])
    BY <1>3 DEF Enter
  <2>2. PICK g : g = With(Top, to, Top.todo, Top.stack, Top.buffer)
    BY Zenon
  <2>3. [Top EXCEPT !.pc = to] = g
    BY <1>1, <2>2, TopIsThere, PcIsSet, Zenon
  <2>4. frames' = SetTop(g)
    BY <2>1, <2>3
  <2>5. UNCHANGED <<program, version, phase, block, stack, done>>
    BY <1>3 DEF Enter, context, outcome
  <2> QED
    BY <1>1, <2>2, <2>4, <2>5, WayCalls
<1> QED
  BY <1>2, <1>3

LEMMA SearchBlockCalls ==
  ASSUME Inv, CallInv, SearchBlock
  PROVE  CallInv'
<1>1. At("search") /\ frames # <<>>
  BY DEF SearchBlock, At
<1>2. \/ Stop("UNDEFINED_SYMBOL")
      \/ /\ UNCHANGED <<program, version, phase, block, stack, done>>
         /\ frames' \in {SetTop([Top EXCEPT !.pc = "found"]), frames}
  BY DEF SearchBlock, context, outcome
<1>3. CASE Stop("UNDEFINED_SYMBOL")
  BY <1>3, StopCalls
<1>4. CASE UNCHANGED <<program, version, phase, block, stack, done, frames>>
  BY <1>4, CallUnchanged
<1>5. CASE /\ UNCHANGED <<program, version, phase, block, stack, done>>
           /\ frames' = SetTop([Top EXCEPT !.pc = "found"])
  <2>1. PICK g : g = With(Top, "found", Top.todo, Top.stack, Top.buffer)
    OBVIOUS
  <2>2. [Top EXCEPT !.pc = "found"] = g
    BY <1>1, <2>1, TopIsThere, PcIsSet, Zenon
  <2>3. frames' = SetTop(g)
    BY <1>5, <2>2
  <2> QED
    BY <1>1, <1>5, <2>1, <2>3, WayCalls
<1> QED
  BY <1>2, <1>3, <1>4, <1>5

LEMMA ProcedureFoundCalls ==
  ASSUME Inv, CallInv, ProcedureFound
  PROVE  CallInv'
<1>1. At("found") /\ frames # <<>>
  BY DEF ProcedureFound, At
<1>2. PICK todo : todo = symbols[Top.name].uses
  OBVIOUS
<1>3. PICK g : g = With(Top, "uses", todo, Top.stack, Top.buffer)
  BY Zenon
<1>4. [Top EXCEPT !.pc = "uses", !.todo = todo] = g
  BY <1>1, <1>3, TopIsThere, PcTodoIsSet, Zenon
<1>5. frames' = SetTop(g)
  BY <1>2, <1>4 DEF ProcedureFound
<1>6. UNCHANGED <<program, version, phase, block, stack, done>>
  BY DEF ProcedureFound, outcome
<1> QED
  BY <1>1, <1>3, <1>5, <1>6, WayCalls

LEMMA UsedCalls ==
  ASSUME Inv, CallInv, Used
  PROVE  CallInv'
<1>1. At("uses")
  BY DEF Used
<1>2. PICK n : n = Len(frames)
  OBVIOUS
<1>3. frames # <<>> /\ Top.pc = "uses" /\ IsFrame(Top) /\ n \in Nat \ {0}
  BY <1>1, <1>2, TopCall DEF At
<1>4. Top.fn = "call"
  BY <1>3 DEF IsFrame
<1>5. UNCHANGED <<program, version, phase, block, stack, done>>
  BY DEF Used, context, outcome
<1>6. PICK g : g = With(Top, Top.pc, Tail(Top.todo), Top.stack, Top.buffer)
  OBVIOUS
<1>7. [Top EXCEPT !.todo = Tail(@)] = g
  BY <1>3, <1>6, TodoIsSet, Zenon
<1>8. PICK h : h = Frame("uses", "enter", Head(Top.todo), <<>>, position.next)
  OBVIOUS
<1>9. frames' = Append(SetTop(g), h)
  BY <1>7, <1>8 DEF Used
<1>10. SameCall(Top, g)
  BY <1>6 DEF SameCall, With
<1>11. /\ h.fn = "uses" /\ h.pc = "enter" /\ h.stack = stack /\ h.block = block
       /\ h.phase = phase
  BY <1>8 DEF Frame
<1>12. PICK t, c, q : t = stack' /\ c = block' /\ q = phase'
  OBVIOUS
<1>13. n + 1 # 1
  BY <1>3
<1>14. CallIs(n + 1, h, t, c, q)'
  BY <1>5, <1>11, <1>12, <1>13 DEF CallIs, InLoop
<1> QED
  BY <1>2, <1>3, <1>4, <1>5, <1>9, <1>10, <1>11, <1>12, <1>14, CallIsMade

\* The loop over a block begins on the stack it found and its way back.
LEMMA BeginCalls ==
  ASSUME Inv, CallInv, NEW pc \in {"uses", "found"}, At(pc), NEW ph, Begin(ph),
         Top.fn = "uses" \/ (Top.fn = "call" /\ ph = "PROCEDURE")
  PROVE  CallInv'
<1>1. CASE Full
  BY <1>1, StopCalls DEF Begin
<1>2. CASE ~Full
  <2>1. PICK n : n = Len(frames)
    OBVIOUS
  <2>2. /\ frames # <<>> /\ Top.pc = pc /\ IsFrame(Top) /\ n \in Nat \ {0}
        /\ CallIs(n, Top, stack, block, phase)
    BY <2>1, TopCall DEF At
  <2>3. PICK f : f = Top
    OBVIOUS
  <2>4. PICK g : g = With(Top, "loop", Top.todo, stack, Top.buffer)
    BY Zenon
  <2>5. [Top EXCEPT !.pc = "loop", !.stack = stack] = g
    BY <2>2, <2>4, PcStackIsSet, Zenon
  <2>6. /\ program' = program /\ done' = done /\ version' = version
        /\ block' = f.name /\ phase' = ph
        /\ stack' = Append(stack, CallRecord(f.ret)) /\ frames' = SetTop(g)
    BY <1>2, <2>3, <2>5 DEF Begin, outcome
  <2>7. /\ g.fn = f.fn /\ g.pc = "loop" /\ g.name = f.name /\ g.ret = f.ret
        /\ g.stack = stack /\ g.block = f.block /\ g.phase = f.phase
    BY <2>3, <2>4 DEF With
  <2>8. Based(stack', g)
    <3>1. IsList(stack)
      BY DEF Inv, StateInv, StackOK
    <3>2. Based(Append(stack, CallRecord(g.ret)), g)
      BY <2>7, <3>1, BasedBegins
    <3> QED
      BY <2>6, <2>7, <3>2
  <2>9. PICK t, c, q : t = stack' /\ c = block' /\ q = phase'
    OBVIOUS
  <2>10. /\ g.fn = "execute" <=> n = 1
         /\ g.fn # "execute" /\ g.fn # "action" /\ g.fn # "CALL"
         /\ g.fn = "call" /\ g.block # None => Behind(g.ret, g.name)
    BY <2>2, <2>3, <2>7 DEF CallIs
  <2>11. Behind(g.ret, g.name)' <=> Behind(g.ret, g.name)
    BY <2>6 DEF Behind, Text
  <2>12. Based(t, g) /\ c = g.name /\ (g.fn = "call" => q = "PROCEDURE")
    BY <2>3, <2>6, <2>7, <2>8, <2>9
  <2>13. CallIs(n, g, t, c, q)'
    BY <2>7, <2>10, <2>11, <2>12 DEF CallIs, InLoop, Based, Behind, Text
  <2>14. ~done' => g.stack = Top.stack
    BY <2>2, <2>6, <2>7 DEF CallIs
  <2>15. g.block = Top.block /\ g.phase = Top.phase
    BY <2>3, <2>7
  <2> QED
    BY <2>1, <2>2, <2>6, <2>9, <2>13, <2>14, <2>15, CallGoesOn
<1> QED
  BY <1>1, <1>2

LEMMA ProcedureBeginsCalls ==
  ASSUME Inv, CallInv, ProcedureBegins
  PROVE  CallInv'
<1>1. At("uses") /\ Begin("PROCEDURE")
  BY DEF ProcedureBegins
<1>2. Top.fn = "call"
  BY <1>1, TopIsThere DEF At, IsFrame
<1> QED
  BY <1>1, <1>2, BeginCalls

LEMMA BlockFoundCalls ==
  ASSUME Inv, CallInv, BlockFound
  PROVE  CallInv'
<1>1. At("found") /\ Top.fn = "uses" /\ frames # <<>> /\ Top.pc = "found"
  BY DEF BlockFound, At
<1>2. \/ Stop("INTERNAL_ERROR")
      \/ Begin("DATA")
      \/ frames' = Front(frames) /\ UNCHANGED <<program, phase, block, stack, done>>
  BY DEF BlockFound, context, outcome
<1>3. CASE Stop("INTERNAL_ERROR")
  BY <1>3, StopCalls
<1>4. CASE Begin("DATA")
  BY <1>1, <1>4, BeginCalls
<1>5. CASE frames' = Front(frames) /\ UNCHANGED <<program, phase, block, stack, done>>
  <2>1. PICK n : n = Len(frames)
    OBVIOUS
  <2>2. CallIs(n, Top, stack, block, phase)
    BY <1>1, <2>1, TopCall
  <2>3. stack = Top.stack /\ block = Top.block /\ phase = Top.phase
    BY <1>1, <2>2 DEF CallIs
  <2> QED
    BY <1>1, <1>5, <2>3, CallIsOver
<1> QED
  BY <1>2, <1>3, <1>4, <1>5

LEMMA SearchLabelCalls ==
  ASSUME Inv, CallInv, SearchLabel
  PROVE  CallInv'
<1>1. /\ At("search") /\ Top.fn \in {"CALL", "GOTO"} /\ frames # <<>>
      /\ Top.pc = "search"
  BY DEF SearchLabel, At
<1>2. \/ Stop("UNDEFINED_SYMBOL") \/ Stop("OUT_OF_MEMORY")
      \/ /\ UNCHANGED <<program, version, phase, block, done>>
         /\ \/ UNCHANGED <<stack, frames>>
            \/ frames' = Front(frames) /\ (Top.fn # "CALL" => stack' = stack)
  BY DEF SearchLabel, context, outcome
<1>3. CASE Stop("UNDEFINED_SYMBOL") \/ Stop("OUT_OF_MEMORY")
  BY <1>3, StopCalls
<1>4. CASE UNCHANGED <<program, version, phase, block, done, stack, frames>>
  BY <1>4, CallUnchanged
<1>5. CASE /\ UNCHANGED <<program, version, phase, block, done>>
           /\ frames' = Front(frames) /\ (Top.fn # "CALL" => stack' = stack)
  <2>1. PICK n : n = Len(frames)
    OBVIOUS
  <2>2. CallIs(n, Top, stack, block, phase)
    BY <1>1, <2>1, TopCall
  <2>3. /\ block = Top.block /\ phase = Top.phase
        /\ ~done => stack = Top.stack
        /\ Top.fn = "CALL" => version = 1
    BY <1>1, <2>2 DEF CallIs
  <2>4. ~done' /\ version = 2 => stack' = Top.stack
    BY <1>1, <1>5, <2>3
  <2> QED
    BY <1>1, <1>5, <2>3, <2>4, CallIsOver
<1> QED
  BY <1>2, <1>3, <1>4, <1>5

LEMMA LeaveCalls ==
  ASSUME Inv, CallInv, Leave
  PROVE  CallInv'
<1>1. frames # <<>> /\ done
  BY DEF Leave, At
<1>2. /\ program' = program /\ done' = done /\ frames' = Front(frames)
      /\ block' = Top.block /\ phase' = Top.phase
  BY DEF Leave, outcome
<1> QED
  BY <1>1, <1>2, CallIsOver

LEMMA InitCalls ==
  ASSUME Init
  PROVE  CallInv
<1>1. PICK f : f = [fn |-> "execute", pc |-> "loop", name |-> None, todo |-> <<>>,
                    ret |-> 1, stack |-> <<>>, block |-> None,
                    phase |-> "UNKNOWN", buffer |-> None]
  OBVIOUS
<1>2. frames = <<f>>
  BY <1>1 DEF Init
<1>3. Len(frames) = 1 /\ frames[1] = f
  BY <1>2
<1>4. CallIs(1, f, stack, block, phase)
  BY <1>1 DEF Init, CallIs, InLoop
<1>5. CallOK(1)
  BY <1>3, <1>4 DEF CallOK, StackAbove, BlockAbove, PhaseAbove
<1>6. \A i \in 1 .. 1 : i = 1
  OBVIOUS
<1> QED
  BY <1>3, <1>5, <1>6 DEF CallInv

LEMMA NextCalls ==
  ASSUME Inv, CallInv, Nested, [Next]_vars
  PROVE  CallInv'
<1>1. CASE Statement
  <2>1. CASE Fail
    BY <2>1, StopCalls DEF Fail
  <2> QED
    BY <1>1, <2>1, ActionCalls, PlainCalls, CallBlockCalls, CallOrGotoCalls, ReturnCalls,
       ForCalls, NextStatementCalls, PushCalls, PopCalls, IfCalls, ExitCalls DEF Statement
<1>2. CASE Call
  BY <1>2, ListedCalls, ActionEndsCalls, EnterCalls, SearchBlockCalls, ProcedureFoundCalls,
     UsedCalls, ProcedureBeginsCalls, BlockFoundCalls, SearchLabelCalls, LeaveCalls DEF Call
<1>3. CASE UNCHANGED vars
  BY <1>3, CallUnchanged DEF vars, context, outcome
<1> QED
  BY <1>1, <1>2, <1>3 DEF Next

-----------------------------------------------------------------------------
\* What CallsReturn says of a step.
Returns ==
    Len(frames') < Len(frames) /\ Top.pc = "loop" /\ (done => Top.fn = "uses") =>
      /\ stack' = Top.stack
      /\ block' = Top.block /\ phase' = Top.phase
      /\ Top.fn = "call" /\ block' # None => Behind(position'.file, Top.name)

\* The frames do not become fewer but at the end of a call.
LEMMA Fewer ==
  ASSUME Inv, frames # <<>>
  PROVE  /\ \A g : Len(SetTop(g)) = Len(frames) /\ Len(frames) \in Nat \ {0}
         /\ \A g, h : Len(Append(SetTop(g), h)) = Len(frames) + 1
<1>1. IsList(frames)
  BY DEF Inv, FramesInv
<1>2. \A g : /\ IsList(SetTop(g)) /\ Len(SetTop(g)) = Len(frames)
             /\ Len(frames) \in Nat \ {0}
  BY <1>1, TopIsSet
<1>3. ASSUME NEW g, NEW h
      PROVE  Len(Append(SetTop(g), h)) = Len(frames) + 1
  <2>1. PICK s : s = SetTop(g)
    OBVIOUS
  <2>2. Len(Append(s, h)) = Len(s) + 1
    BY <1>2, <2>1, ListAppends
  <2> QED
    BY <1>2, <2>1, <2>2
<1> QED
  BY <1>2, <1>3

LEMMA NextReturns ==
  ASSUME Inv, CallInv, Nested, [Next]_vars
  PROVE  Returns
<1> SUFFICES ASSUME Len(frames') < Len(frames), Top.pc = "loop",
                    done => Top.fn = "uses"
             PROVE  /\ stack' = Top.stack
                    /\ block' = Top.block /\ phase' = Top.phase
                    /\ Top.fn = "call" /\ block' # None => Behind(position'.file, Top.name)
  BY DEF Returns
<1>1. IsList(frames) /\ Len(frames) \in Nat
  BY ListOf DEF Inv, FramesInv, IsList
<1>2. frames' # frames
  BY <1>1
<1>3. ASSUME NEW x, frames' = Consumed \/ frames' = Append(Consumed, x)
             \/ frames' = SetTop(x), frames # <<>>
      PROVE  FALSE
  BY <1>1, <1>3, Fewer DEF Consumed
<1>4. Return
  <2>1. CASE Statement
    <3>1. ASSUME NEW ops, Executes(ops)
          PROVE  frames # <<>>
      BY <3>1, StatementRight
    <3>2. ~Fail
      BY <1>2 DEF Fail, Stop
    <3>3. ~Action
      BY <1>3, <3>1 DEF Action
    <3>4. ~Declaration /\ ~Integer /\ ~Comment
      BY <1>3, <3>1 DEF Declaration, Integer, Comment
    <3>5. ~CallBlock /\ ~CallOrGoto
      BY <1>3, <3>1 DEF CallBlock, CallOrGoto
    <3>6. ~For /\ ~NextStatement /\ ~Push /\ ~Pop
      BY <1>3, <3>1 DEF For, NextStatement, Push, Pop
    <3>7. ~If /\ ~Exit
      BY <1>3, <3>1 DEF If, Exit
    <3> QED
      BY <2>1, <3>2, <3>3, <3>4, <3>5, <3>6, <3>7 DEF Statement
  <2>2. CASE Call
    <3>1. ~Leave
      BY DEF Leave
    <3> QED
      BY <2>2, <3>1 DEF Call, Listed, ActionEnds, Enter, SearchBlock, ProcedureFound, Used,
         ProcedureBegins, BlockFound, SearchLabel, At
  <2>3. CASE UNCHANGED vars
    BY <1>2, <2>3 DEF vars
  <2> QED
    BY <2>1, <2>2, <2>3 DEF Next
<1>5. Executes({"RETURN", "ENDPROC", "ENDDATA"})
  BY <1>4 DEF Return
<1>6. Top.fn \in {"execute", "call", "uses"} /\ frames # <<>>
  BY <1>5, LoopCall
<1>7. InLoop(Top)
  <2>1. ASSUME Top.fn = "execute"
        PROVE  FALSE
    <3>1. frames' = Consumed
      BY <1>4, <2>1 DEF Return
    <3> QED
      BY <1>3, <1>6, <3>1
  <2> QED
    BY <1>6, <2>1 DEF InLoop
<1>8. /\ stack' = Top.stack /\ block' = Top.block /\ phase' = Top.phase
      /\ position'.file = Top.ret
  BY <1>4, <1>7, ReturnEnds
<1>9. Top.fn = "call" /\ Top.block # None => Behind(Top.ret, Top.name)
  <2>1. PICK n : n = Len(frames)
    OBVIOUS
  <2>2. CallIs(n, Top, stack, block, phase)
    BY <1>6, <2>1, TopCall
  <2> QED
    BY <2>2 DEF CallIs
<1> QED
  BY <1>8, <1>9

\* A procedure that comes to its end leaves its caller as it found it (jam_call_procedure,
\* jam_process_uses_item, jam_process_return), in every program whose data blocks come to no
\* ENDPROC and whose procedures come to no ENDDATA.
THEOREM CallsAlwaysReturn == Spec /\ []Nested => CallsReturn
<1>1. Init => CallInv
  BY InitCalls
<1>2. Inv /\ CallInv /\ Nested /\ [Next]_vars => CallInv'
  BY NextCalls
<1>3. Inv /\ CallInv /\ Nested /\ [Next]_vars => Returns
  BY NextReturns
<1> QED
  BY <1>1, <1>2, <1>3, Invariance, PTL DEF Spec, CallsReturn, Returns

=============================================================================
