------------------------------- MODULE JamTap -------------------------------
(***************************************************************************)
(* The JTAG side of the Jam player, jtag/jam/jamjtag.c, with the           *)
(* statements of jamexec.c that drive it: DRSCAN, IRSCAN, DRSTOP, IRSTOP,  *)
(* PREDR .. POSTIR, PADDING, STATE and WAIT.  The player never reads the   *)
(* state of the chain it clocks: it keeps its own belief of it in          *)
(* jam_jtag_state and goes by two tables.  The chain is external: a TAP    *)
(* controller with one data and one instruction register, as IEEE 1149.1   *)
(* has them.                                                               *)
(*                                                                         *)
(* A statement is one step, in which the chain gets every clock the        *)
(* statement sends.  Which statements a program may hold, and in which     *)
(* phase, is the interpreter's business and not here.                      *)
(***************************************************************************)
EXTENDS Integers, Sequences, SequencesExt

CONSTANTS
    WordBits,    \* bits of a padding word, 32 in the code
    DRCapture,   \* what the data register captures
    IRCapture,   \* what the instruction register captures
    PowerUp,     \* the TAP states in which a player may find the chain
    Patterns,    \* the bits a scan may shift
    StopStates,  \* arguments of DRSTOP and IRSTOP
    Targets,     \* arguments of STATE
    WaitStates,  \* states of WAIT
    EndStates,   \* its end states
    Cycles,      \* and its numbers of cycles
    Paddings,    \* arguments of PREDR and the like
    Counts,      \* the four arguments of PADDING
    Compared,    \* the arrays of COMPARE: expected and mask
    MaxPadding,  \* bound on the statements that only change settings
    MaxClocked   \* bound on the statements that clock the chain

ASSUME WordAssumption == WordBits \in Nat \ {0}
ASSUME CaptureAssumption ==
    /\ DRCapture \in Seq({0, 1}) /\ DRCapture # <<>>
    /\ IRCapture \in Seq({0, 1}) /\ IRCapture # <<>>
ASSUME PatternsAssumption == Patterns \subseteq Seq({0, 1})
ASSUME StatesAssumption ==
    PowerUp \cup StopStates \cup Targets \cup WaitStates \cup EndStates \subseteq 0..15
\* data <<>> stands for a statement without an array: all ones.
ASSUME PaddingsAssumption ==
    \A p \in Paddings : /\ p.count \in Nat /\ p.start \in Nat
                        /\ p.data \in Seq({0, 1})
ASSUME CountsAssumption == Counts \subseteq [1..4 -> Nat]
ASSUME ComparedAssumption == \A c \in Compared : c.mask \in Seq({0, 1})
ASSUME BoundsAssumption == Cycles \subseteq Nat /\ MaxPadding \in Nat /\ MaxClocked \in Nat

ILLEGAL == -1
RESET == 0
IDLE == 1
DRSELECT == 2
DRCAPTURE == 3
DRSHIFT == 4
DREXIT1 == 5
DRPAUSE == 6
DREXIT2 == 7
DRUPDATE == 8
IRSELECT == 9
IRCAPTURE == 10
IRSHIFT == 11
IREXIT1 == 12
IRPAUSE == 13
IREXIT2 == 14
IRUPDATE == 15

Sides == {"dr preamble", "dr postamble", "ir preamble", "ir postamble"}

(***************************************************************************)
(* The chain.                                                              *)
(***************************************************************************)

\* The instruction a reset selects; scans of the model can load others.
IRReset == [i \in 1..Len(IRCapture) |-> 1]

\* The states after a clock with TMS low and with TMS high.
TapNext == <<
    <<IDLE, RESET>>, <<IDLE, DRSELECT>>,
    <<DRCAPTURE, IRSELECT>>, <<DRSHIFT, DREXIT1>>, <<DRSHIFT, DREXIT1>>,
    <<DRPAUSE, DRUPDATE>>, <<DRPAUSE, DREXIT2>>, <<DRSHIFT, DRUPDATE>>,
    <<IDLE, DRSELECT>>,
    <<IRCAPTURE, RESET>>, <<IRSHIFT, IREXIT1>>, <<IRSHIFT, IREXIT1>>,
    <<IRPAUSE, IRUPDATE>>, <<IRPAUSE, IREXIT2>>, <<IRSHIFT, IRUPDATE>>,
    <<IDLE, DRSELECT>> >>

\* One clock: the state the TAP is in acts on its registers and is left; a
\* register is taken over on entering its update state.
ClockChain(c, tms, tdi) ==
    LET next == TapNext[c.tap + 1][tms + 1]
        dr == IF c.tap = DRCAPTURE THEN DRCapture
              ELSE IF c.tap = DRSHIFT THEN Append(Tail(c.dr), tdi) ELSE c.dr
        ir == IF c.tap = IRCAPTURE THEN IRCapture
              ELSE IF c.tap = IRSHIFT THEN Append(Tail(c.ir), tdi) ELSE c.ir
    IN  [tap |-> next, dr |-> dr, ir |-> ir,
         drLatch |-> IF next = DRUPDATE THEN dr ELSE c.drLatch,
         irLatch |-> IF next = RESET THEN IRReset
                     ELSE IF next = IRUPDATE THEN ir ELSE c.irLatch]

\* TDO floats high outside the shift states.
TdoOf(c) == IF c.tap = DRSHIFT THEN Head(c.dr)
            ELSE IF c.tap = IRSHIFT THEN Head(c.ir) ELSE 1

(***************************************************************************)
(* The player's tables.                                                    *)
(***************************************************************************)

\* <<tms_high, tms_low>>
jam_jtag_state_transitions == <<
    <<RESET, IDLE>>, <<DRSELECT, IDLE>>, <<IRSELECT, DRCAPTURE>>,
    <<DREXIT1, DRSHIFT>>, <<DREXIT1, DRSHIFT>>, <<DRUPDATE, DRPAUSE>>,
    <<DREXIT2, DRPAUSE>>, <<DRUPDATE, DRSHIFT>>, <<DRSELECT, IDLE>>,
    <<RESET, IRCAPTURE>>, <<IREXIT1, IRSHIFT>>, <<IREXIT1, IRSHIFT>>,
    <<IRUPDATE, IRPAUSE>>, <<IREXIT2, IRPAUSE>>, <<IRUPDATE, IRSHIFT>>,
    <<DRSELECT, IDLE>> >>

\* Row s, bit t: the TMS of the first step from s to t.
\* (0xFFFD = 65533, 0xFE01 = 65025, 0xFFE7 = 65511, 0xFFEF = 65519,
\*  0xFF0F = 65295, 0xFFBF = 65471, 0xFEFD = 65277, 0xF3FF = 62463,
\*  0xF7FF = 63487, 0x87FF = 34815, 0xDFFF = 57343, 0x7FFD = 32765)
jam_jtag_path_map == <<
    1, 65533, 65025, 65511, 65519, 65295, 65471, 65535,
    65277, 1, 62463, 63487, 34815, 57343, 65535, 32765>>
Bit == <<1, 2, 4, 8, 16, 32, 64, 128,
         256, 512, 1024, 2048, 4096, 8192, 16384, 32768>>
PathTms(s, t) == (jam_jtag_path_map[s + 1] \div Bit[t + 1]) % 2

(***************************************************************************)
(* Moves.  p is the chain together with the player's belief of its state.  *)
(***************************************************************************)

Clocks(c, tms) ==
    LET after[i \in 0..Len(tms)] ==
            IF i = 0 THEN c ELSE ClockChain(after[i - 1], tms[i], 0)
    IN  after[Len(tms)]

jam_jtag_reset_idle(p) ==
    [chain |-> Clocks(p.chain, <<1, 1, 1, 1, 1, 0>>), belief |-> IDLE]

\* The way the tables give from state s to state t, of at most n steps: the TMS
\* values and where they lead the belief.
Step(way, t) ==
    LET tms == PathTms(way.end, t)
    IN  IF way.end = t THEN way
        ELSE [tms |-> Append(way.tms, tms),
              end |-> jam_jtag_state_transitions[way.end + 1][2 - tms]]
WayWithin(s, t, n) ==
    LET way[i \in 0..n] ==
            IF i = 0 THEN [tms |-> <<>>, end |-> s] ELSE Step(way[i - 1], t)
    IN  way[n]
\* Variant: a step less than the longest way.
ShortWays == [s \in 1..16 |-> [t \in 1..16 |-> WayWithin(s - 1, t - 1, 7)]]
Ways == [s \in 1..16 |-> [t \in 1..16 |-> WayWithin(s - 1, t - 1, 9)]]

\* The move failed if it ends in another state than s.  Already there, it makes
\* one clock that keeps a stable state and none in another.
jam_goto_jtag_state(p, s) ==
    LET q == IF p.belief = ILLEGAL THEN jam_jtag_reset_idle(p) ELSE p
        way == Ways[q.belief + 1][s + 1]
        loop == IF s = RESET THEN 1 ELSE 0
    IN  IF q.belief # s
        THEN [chain |-> Clocks(q.chain, way.tms), belief |-> way.end]
        ELSE IF s \in {RESET, IDLE, DRSHIFT, DRPAUSE, IRSHIFT, IRPAUSE}
        THEN [q EXCEPT !.chain = ClockChain(@, loop, 0)]
        ELSE q

GotoUnlessThere(p, s) == IF p.belief = s THEN p ELSE jam_goto_jtag_state(p, s)

\* The state a scan starts from: the pause of the column, else IDLE.
StartState(belief) ==
    CASE belief \in {ILLEGAL, RESET, IDLE} -> IDLE
      [] belief \in DRSELECT..DRUPDATE     -> DRPAUSE
      [] belief \in IRSELECT..IRUPDATE     -> IRPAUSE

DrEntry == [s \in {IDLE, DRPAUSE, IRPAUSE} |->
    IF s = IDLE THEN <<1, 0, 0>> ELSE <<1, 1, 1, 0, 0>>]
\* Variant: the way from DRPAUSE is that from IDLE.
IrEntryShort == [s \in {IDLE, DRPAUSE, IRPAUSE} |->
    IF s = IRPAUSE THEN <<1, 0>> ELSE <<1, 1, 0, 0>>]
\* From IRPAUSE back into IRSHIFT, past the capture.
IrEntry == [s \in {IDLE, DRPAUSE, IRPAUSE} |->
    CASE s = IDLE    -> <<1, 1, 0, 0>>
      [] s = DRPAUSE -> <<1, 1, 1, 1, 0, 0>>
      [] s = IRPAUSE -> <<1, 0>>]

\* TDO is read before the clock; TMS is high with the last bit.
Shift(c, bits) ==
    LET after[i \in 0..Len(bits)] ==
          IF i = 0 THEN [chain |-> c, tdo |-> <<>>]
          ELSE LET a == after[i - 1]
                   tms == IF i = Len(bits) THEN 1 ELSE 0
               IN  [chain |-> ClockChain(a.chain, tms, bits[i]),
                    tdo |-> Append(a.tdo, TdoOf(a.chain))]
    IN  after[Len(bits)]

\* jam_jtag_drscan, jam_jtag_irscan: in, shift, and one clock to the pause.
Scan(p, entry, bits, pause) ==
    LET a == Shift(Clocks(p.chain, entry[p.belief]), bits)
    IN  [port |-> [chain |-> ClockChain(a.chain, 0, 0), belief |-> pause],
         tdo |-> a.tdo]

(***************************************************************************)
(* The player.                                                             *)
(***************************************************************************)

VARIABLES
    chain,             \* the chain
    jam_jtag_state,    \* the player's belief of its state
    jam_drstop_state,
    jam_irstop_state,
    padding,           \* per side, the count and the words of its buffer
    bufferLength,      \* jam_dr_length and jam_ir_length
    status,            \* the outcome of the program so far, "ENDED" after it
    captured,          \* the bits the last CAPTURE stored
    result,            \* the variable of the last COMPARE
    settings, clocked, \* statements so far, of either kind
    asked,             \* history: the padding the program asked for
    did,               \* history: the last statement
    stray              \* history: the program made a statement after which
                       \* the player is wrong about the state

vars == <<chain, jam_jtag_state, jam_drstop_state, jam_irstop_state, padding,
          bufferLength, status, captured, result, settings, clocked, asked,
          did, stray>>
setup == <<jam_drstop_state, jam_irstop_state, padding, asked>>

port == [chain |-> chain, belief |-> jam_jtag_state]
PortIs(p) == chain' = p.chain /\ jam_jtag_state' = p.belief

Nothing == [op |-> "START"]
NoPadding == [s \in Sides |-> [count |-> 0, words |-> <<>>]]

\* The chain as a player may find it; jam_init_jtag.
Init ==
    /\ chain \in [tap : PowerUp, dr : {DRCapture}, ir : {IRCapture},
                  drLatch : {DRCapture}, irLatch : {IRReset}]
    /\ jam_jtag_state = ILLEGAL
    /\ jam_drstop_state = IDLE
    /\ jam_irstop_state = IDLE
    /\ padding = NoPadding
    /\ bufferLength = [c \in {"DR", "IR"} |-> 0]
    /\ status = "SUCCESS"
    /\ captured = <<>>
    /\ result = FALSE
    /\ settings = 0
    /\ clocked = 0
    /\ asked = [s \in Sides |-> [bits |-> <<>>, start |-> 0]]
    /\ did = Nothing
    /\ stray = FALSE

Sets == status = "SUCCESS" /\ settings < MaxPadding /\ settings' = settings + 1
        /\ UNCHANGED <<chain, jam_jtag_state, bufferLength, captured, result,
                       clocked, stray>>
Moves == status = "SUCCESS" /\ clocked < MaxClocked /\ clocked' = clocked + 1
         /\ UNCHANGED settings

(***************************************************************************)
(* Statements that change settings.                                        *)
(***************************************************************************)

DrStop(s) ==
    /\ Sets
    /\ jam_drstop_state' = s
    /\ did' = [op |-> "DRSTOP"]
    /\ UNCHANGED <<jam_irstop_state, padding, asked, status>>

IrStop(s) ==
    /\ Sets
    /\ jam_irstop_state' = s
    /\ did' = [op |-> "IRSTOP"]
    /\ UNCHANGED <<jam_drstop_state, padding, asked, status>>

BitAsked(p, i) == IF p.data = <<>> THEN 1 ELSE p.data[p.start + i + 1]
\* The place of bit i in the buffer: the word of i, but the bit of i + start.
Place(p, i) == (i \div WordBits) * WordBits + ((p.start + i) % WordBits)
Stored(p, words) ==
    [k \in 1..Len(words) |->
        IF \E i \in 0..(p.count - 1) : Place(p, i) = k - 1
        THEN BitAsked(p, CHOOSE i \in 0..(p.count - 1) : Place(p, i) = k - 1)
        ELSE words[k]]

Words(count) == ((count + WordBits - 1) \div WordBits) * WordBits
\* The buffer before the bits are stored: the one there is, or when the count
\* grows a new one with whatever was in that memory.
Buffers(side, count) ==
    IF count > padding[side].count
    THEN {[k \in 1..Words(count) |-> b] : b \in {0, 1}}
    ELSE {padding[side].words}

\* PREDR, POSTDR, PREIR, POSTIR: p.count bits of the array p.data from p.start.
PrePost(side, p) ==
    /\ Sets
    /\ did' = [op |-> "PADDING"]
    /\ UNCHANGED <<jam_drstop_state, jam_irstop_state>>
    /\ \/ /\ p.data # <<>> /\ p.start + p.count > Len(p.data)
          /\ status' = "BOUNDS_ERROR"
          /\ UNCHANGED <<padding, asked>>
       \/ /\ p.data # <<>> => p.start + p.count <= Len(p.data)
          /\ \E words \in Buffers(side, p.count) :
                padding' = [padding EXCEPT ![side] =
                                [count |-> p.count, words |-> Stored(p, words)]]
          /\ asked' = [asked EXCEPT ![side] =
                [bits |-> [i \in 1..p.count |-> BitAsked(p, i - 1)], start |-> p.start]]
          /\ UNCHANGED status
       \/ /\ p.data # <<>> => p.start + p.count <= Len(p.data)
          /\ p.count > padding[side].count
          /\ status' = "OUT_OF_MEMORY"
          /\ padding' = [padding EXCEPT ![side].words = <<>>]
          /\ UNCHANGED asked

\* PADDING, of version 1: the four counts, all ones, set one after the other.
SidesInOrder == <<"dr preamble", "dr postamble", "ir preamble", "ir postamble">>
Padding(counts) ==
    /\ Sets
    /\ did' = [op |-> "PADDING"]
    /\ UNCHANGED <<jam_drstop_state, jam_irstop_state>>
    /\ \E failing \in 1..5, fill \in {0, 1} :
        /\ failing <= 4 => counts[failing] > padding[SidesInOrder[failing]].count
        /\ status' = IF failing <= 4 THEN "OUT_OF_MEMORY" ELSE "SUCCESS"
        /\ padding' = [side \in Sides |->
             LET k == CHOOSE j \in 1..4 : SidesInOrder[j] = side
                 p == [count |-> counts[k], start |-> 0, data |-> <<>>]
                 words == IF p.count > padding[side].count
                          THEN [i \in 1..Words(p.count) |-> fill]
                          ELSE padding[side].words
             IN  IF k < failing THEN [count |-> p.count, words |-> Stored(p, words)]
                 ELSE IF k = failing THEN [padding[side] EXCEPT !.words = <<>>]
                 ELSE padding[side]]
        /\ asked' = [side \in Sides |->
             LET k == CHOOSE j \in 1..4 : SidesInOrder[j] = side
             IN  IF k < failing
                 THEN [bits |-> [i \in 1..counts[k] |-> 1], start |-> 0]
                 ELSE asked[side]]

PaddingOf(side) == SubSeq(padding[side].words, 1, padding[side].count)

(***************************************************************************)
(* Statements that clock the chain.                                        *)
(***************************************************************************)

\* STATE, one state of its list.
State(s) ==
    /\ Moves
    /\ LET p == jam_goto_jtag_state(port, s)
       IN  /\ PortIs(p)
           /\ status' = IF p.belief = s THEN "SUCCESS" ELSE "INTERNAL_ERROR"
    /\ did' = [op |-> "STATE"]
    /\ UNCHANGED <<setup, bufferLength, captured, result, stray>>

Stable == {RESET, IDLE, DRSHIFT, DRPAUSE, IRSHIFT, IRPAUSE}

\* The delay itself sends no clock.
jam_do_wait_microseconds(p, s) ==
    IF p.belief = ILLEGAL THEN p ELSE GotoUnlessThere(p, s)

jam_do_wait_cycles(p, s, n) ==
    LET q == GotoUnlessThere(p, s)
        tms == IF s = RESET THEN 1 ELSE 0
    IN  IF q.belief = s
        THEN [q EXCEPT !.chain = Clocks(@, [i \in 1..n |-> tms])] ELSE q

\* WAIT s, n CYCLES, USEC, end: cycles and usec say which conditions there are.
\* An end state IDLE, the default, asks for no move.
Wait(s, cycles, n, usec, end) ==
    /\ Moves
    /\ cycles \/ usec
    /\ LET p == IF cycles THEN jam_do_wait_cycles(port, s, n) ELSE port
           cyclesFail == cycles /\ p.belief # s
           q == IF usec /\ ~cyclesFail THEN jam_do_wait_microseconds(p, s) ELSE p
           fails == cyclesFail \/ (usec /\ q.belief \notin {s, ILLEGAL})
           r == IF fails \/ end = IDLE THEN q ELSE jam_goto_jtag_state(q, end)
       IN  /\ PortIs(r)
           /\ status' = IF fails \/ (end # IDLE /\ r.belief # end)
                        THEN "INTERNAL_ERROR" ELSE "SUCCESS"
    /\ did' = [op |-> "WAIT"]
    /\ stray' = (stray \/ (cycles /\ n > 0 /\ s \notin Stable))
    /\ UNCHANGED <<setup, bufferLength, captured, result>>

\* One scan of a register; register is a record of what differs between
\* jam_do_drscan and jam_do_irscan.
DR == [name |-> "DR", pre |-> "dr preamble", post |-> "dr postamble", pause |-> DRPAUSE]
IR == [name |-> "IR", pre |-> "ir preamble", post |-> "ir postamble", pause |-> IRPAUSE]
EntryOf(register) == IF register = DR THEN DrEntry ELSE IrEntry
StopOf(register) == IF register = DR THEN jam_drstop_state ELSE jam_irstop_state

\* Variant: preamble and postamble change places.
SentSwapped(register, data) == PaddingOf(register.post) \o data \o PaddingOf(register.pre)
\* jam_jtag_concatenate_data
Sent(register, data) == PaddingOf(register.pre) \o data \o PaddingOf(register.post)
\* jam_jtag_extract_target_data
Extract(register, tdo, count) ==
    LET k == padding[register.pre].count IN SubSeq(tdo, k + 1, k + count)

Matches(actual, expected, mask) ==
    \A i \in DOMAIN actual : mask[i] = 1 => actual[i] = expected[i]

RoundUp8(n) == ((n + 7) \div 8) * 8

\* DRSCAN and IRSCAN.  use says what becomes of the bits shifted out:
\* [mode |-> "IGNORE"], [mode |-> "CAPTURE", room |-> n] with an array of n, or
\* [mode |-> "COMPARE", expected |-> e, mask |-> m].
ScanStatement(register, data, use) ==
    LET start == GotoUnlessThere(port, StartState(jam_jtag_state))
        sent == Sent(register, data)
        n == Len(sent)
        scan == Scan(start, EntryOf(register), sent, register.pause)
        end == GotoUnlessThere(scan.port, StopOf(register))
        out == Extract(register, scan.tdo, Len(data))
        refused == \/ use.mode = "CAPTURE" /\ use.room # Len(data)
                   \/ use.mode = "COMPARE" /\ Len(use.expected) # Len(data)
                   \/ use.mode = "COMPARE" /\ Len(use.mask) # Len(data)
    IN  /\ Moves
        /\ did' = [op |-> register.name, data |-> data, use |-> use]
        /\ UNCHANGED setup
        /\ \/ /\ refused \/ use.mode = "COMPARE"
              /\ status' = IF refused THEN "BOUNDS_ERROR" ELSE "OUT_OF_MEMORY"
              /\ UNCHANGED <<chain, jam_jtag_state, bufferLength, captured, result, stray>>
           \/ /\ ~refused
              /\ \/ start.belief # StartState(jam_jtag_state)
                 \/ n > bufferLength[register.name]
              /\ status' = IF start.belief # StartState(jam_jtag_state)
                           THEN "INTERNAL_ERROR" ELSE "OUT_OF_MEMORY"
              /\ PortIs(start)
              /\ UNCHANGED <<bufferLength, captured, result, stray>>
           \/ /\ ~refused
              /\ start.belief = StartState(jam_jtag_state)
              /\ PortIs(end)
              /\ status' = IF end.belief = StopOf(register) THEN "SUCCESS"
                           ELSE "INTERNAL_ERROR"
              /\ bufferLength' = IF n > bufferLength[register.name]
                                 THEN [bufferLength EXCEPT ![register.name] = RoundUp8(n)]
                                 ELSE bufferLength
              /\ captured' = IF use.mode = "CAPTURE" /\ status' = "SUCCESS"
                             THEN out ELSE captured
              /\ result' = IF use.mode = "COMPARE" /\ status' = "SUCCESS"
                           THEN Matches(out, use.expected, use.mask) ELSE result
              /\ stray' = (stray \/ n = 0)

(***************************************************************************)
(* The end of a program and the start of another, by another process.      *)
(***************************************************************************)

\* jam_execute after its loop; reset is FALSE with the option -r.
Finish(reset) ==
    /\ status # "ENDED"
    /\ status' = "ENDED"
    /\ IF reset /\ jam_jtag_state # ILLEGAL
       THEN PortIs(jam_jtag_reset_idle(port)) ELSE PortIs(port)
    /\ did' = [op |-> "END"]
    /\ UNCHANGED <<setup, bufferLength, captured, result, settings, clocked, stray>>

Uses(data) ==
    {[mode |-> "IGNORE"]}
    \cup [mode : {"CAPTURE"}, room : {Len(data), Len(data) + 1}]
    \cup {[mode |-> "COMPARE", expected |-> c.expected, mask |-> c.mask] : c \in Compared}

Next ==
    \/ \E s \in StopStates : DrStop(s) \/ IrStop(s)
    \/ \E side \in Sides, p \in Paddings : PrePost(side, p)
    \/ \E counts \in Counts : Padding(counts)
    \/ \E s \in Targets : State(s)
    \/ \E s \in WaitStates, cycles, usec \in BOOLEAN, n \in Cycles,
          end \in EndStates : Wait(s, cycles, n, usec, end)
    \/ \E register \in {DR, IR}, data \in Patterns :
          \E use \in Uses(data) : ScanStatement(register, data, use)
    \/ \E reset \in BOOLEAN : Finish(reset)

Spec == Init /\ [][Next]_vars

(***************************************************************************)
(* Properties.                                                             *)
(***************************************************************************)

\* The player, which cannot see the state of the chain, knows it: after any
\* statements, and wherever it found the chain, the TAP is in the state the player
\* believes in.  (Not after a scan of no bits at all, which leaves the TAP
\* shifting, and a wait in a state that no clock keeps.)
BeliefIsTap == jam_jtag_state # ILLEGAL /\ ~stray => chain.tap = jam_jtag_state

\* The two tables agree: from every state the player may believe in, the steps of
\* jam_jtag_path_map lead to every other in at most nine clocks.
NeverLost == status # "INTERNAL_ERROR"

Aligned(register) ==
    /\ asked[register.pre].start % WordBits = 0
    /\ asked[register.post].start % WordBits = 0

LastBits(n, bits) == SubSeq(bits, Len(bits) - n + 1, Len(bits))
\* What passes through a register when bits are shifted into it.
Line(register, bits) ==
    (CASE register = DR -> DRCapture
       [] register = IR /\ jam_jtag_state \notin IRSELECT..IRUPDATE -> IRCapture
       [] register = IR /\ jam_jtag_state = IRPAUSE -> chain.ir
       [] OTHER -> jam_goto_jtag_state(port, IRPAUSE).chain.ir) \o bits
Held(c, register) == IF register = DR THEN c.dr ELSE c.ir
Latched(c, register) == IF register = DR THEN c.drLatch ELSE c.irLatch

\* What a scan of the register has done when it succeeded.
Delivers(register) ==
    LET pre == asked[register.pre].bits
        data == did'.data
        line == Line(register, pre \o data \o asked[register.post].bits)
        last == LastBits(Len(Held(chain, register)), line)
        stop == StopOf(register)
    IN  /\ stop = register.pause => Held(chain', register) = last
        /\ \/ stop \in register.pause..(register.pause + 1)
           \/ stop = RESET /\ register = IR
           \/ Latched(chain', register) = last
        /\ did'.use.mode = "CAPTURE" =>
              captured' = SubSeq(line, Len(pre) + 1, Len(pre) + Len(data))
        /\ did'.use.mode = "COMPARE" =>
              (result' <=> \A i \in DOMAIN data :
                  did'.use.mask[i] = 0 \/ line[Len(pre) + i] = did'.use.expected[i])

\* A scan does what the program asked, from every state and with every padding: the
\* register holds the last of preamble, data and postamble, the devices have taken
\* it over unless the stop state is the pause of the same column or the exit from it,
\* and what CAPTURE stores are the bits of the target, found behind those that the preamble pushes
\* out.  (An instruction scan that starts in IRPAUSE shifts on without a capture,
\* as jam_jtag_irscan has it.  The padding must start at a word of its array: bits
\* of another start are stored in the wrong place.)  And a data scan leaves the
\* instruction alone: it never takes the TAP through IRUPDATE or RESET, unless the
\* program was in the instruction column or wants to stop in one of them, or the player
\* resets the chain it knows nothing of.
ScansDeliver ==
    [][/\ \A register \in {DR, IR} :
            did'.op = register.name /\ status' = "SUCCESS" /\ ~stray' /\ Aligned(register) =>
                Delivers(register)
       /\ did'.op = "DR" /\ ~stray /\ jam_drstop_state \notin {RESET, IRUPDATE}
             /\ jam_jtag_state \in IDLE..DRUPDATE
             => chain'.irLatch = chain.irLatch]_vars

=============================================================================
