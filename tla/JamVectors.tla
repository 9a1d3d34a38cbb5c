------------------------------ MODULE JamVectors ------------------------------
(***************************************************************************)
(* Pins that are not of the JTAG port: VMAP names them, VECTOR sets and    *)
(* reads them (jamexec.c, and jam_vector_map and jam_vector_io of          *)
(* jamstub.c).  The pins are behind a serial port, a BitBlaster, if one is *)
(* given; else this build of the player neither writes nor reads them.     *)
(***************************************************************************)
EXTENDS JamArrays

CONSTANT
    VectorSignals  \* the table of signals: [name, bit], bit in hardware_bit

VARIABLES
    vector_list,             \* for each signal of the table its place in VMAP, or -1
    jam_vector_signal_count,
    specified_com_port,
    pins,                    \* the signals' bits that were high in what was written last
    levels                   \* what was read last: [answered, high]

vectorVars == <<vector_list, jam_vector_signal_count, specified_com_port, pins, levels>>

\* Register 0 of the port can be written, register 1 read.
Outputs == {0, 1, 6}
Inputs == {4, 7}
NoAnswer == [answered |-> FALSE, high |-> {}]

(***************************************************************************)
(* Two more statements:                                                    *)
(*   Vmap:   names                                                         *)
(*   Vector: dir, data, then, array, mask, name                            *)
(***************************************************************************)
Unmapped ==
    /\ vector_list = [v \in DOMAIN VectorSignals |-> -1]
    /\ jam_vector_signal_count = 0
    /\ pins = {}
    /\ levels = NoAnswer

VectorInit == DataInit /\ Unmapped /\ specified_com_port \in BOOLEAN

StopVector(code) == status' = code /\ UNCHANGED <<symbols, pins, levels>>
Unscanned == UNCHANGED <<sent, tdo, jam_version, specified_com_port>>

-------------------------------------------------------------------------------
\* jam_vector_map: each name gets the first of the signals with that name that
\* is still free.
Mapped(names) ==
    LET free == [v \in DOMAIN VectorSignals |-> -1]
        map[k \in 0..Len(names)] ==
            IF k = 0 THEN free
            ELSE LET found == {v \in DOMAIN VectorSignals :
                                 VectorSignals[v].name = names[k] /\ map[k - 1][v] = -1}
                 IN  IF found = {} THEN map[k - 1] ELSE [map[k - 1] EXCEPT ![Min(found)] = k - 1]
    IN  map[Len(names)]

\* Variant: the names are in the order of the bits.
AsWritten(names) == names

\* Jam 2.0 has the highest bit first.
SignalNames(names) == IF jam_version = 2 THEN Reverse(names) ELSE names

Vmap ==
    /\ Executes("Vmap")
    /\ Advance /\ Unscanned
    /\ LET names == SignalNames(Statement.names)
           map   == Mapped(names)
           all   == Cardinality({v \in DOMAIN map : map[v] # -1}) = Len(names)
       IN  IF ~(jam_version = 2 => Phase = "PROCEDURE")
           THEN status' = "PHASE_ERROR" /\ UNCHANGED <<vector_list, jam_vector_signal_count>>
           ELSE IF "" \in ToSet(names)
           THEN status' = "SYNTAX_ERROR" /\ UNCHANGED <<vector_list, jam_vector_signal_count>>
           ELSE /\ vector_list' = map
                /\ jam_vector_signal_count' = IF all THEN Len(names) ELSE 0
                /\ status' = IF all THEN status ELSE "VECTOR_MAP_FAILED"
    /\ UNCHANGED <<symbols, pins, levels>>

-------------------------------------------------------------------------------
\* The table's entries that VMAP named, their bits, and those that a vector
\* has set.  A range's start is not looked at.
Named == {v \in DOMAIN vector_list : vector_list[v] \in 0..(jam_vector_signal_count - 1)}
Bit(v) == VectorSignals[v].bit
BitsSet(data) == {Bit(v) : v \in {n \in Named : data[vector_list[n] + 1] = 1}}
AllBits == {Bit(v) : v \in Named}

\* The first half of jam_vector_io: all the bits are written if one is an output.
Wrote(dir, data) ==
    pins' = IF BitsSet(dir) # {} /\ specified_com_port THEN BitsSet(data) \cap Outputs ELSE pins

\* The second half.  What is read is the port's answer; without a port, or if
\* it does not answer, what was written.
Reads(dir) == BitsSet(dir) # AllBits
Read(dir) ==
    IF Reads(dir) /\ specified_com_port
    THEN levels' \in {NoAnswer} \cup {[answered |-> TRUE, high |-> high] : high \in SUBSET Inputs}
    ELSE levels' = NoAnswer

Seen(data) == IF levels'.answered THEN levels'.high ELSE BitsSet(data)

\* What capture_vect is then: the inputs' bits are the levels, the others stay.
Collected(dir, data, capture) ==
    IF ~Reads(dir) THEN capture
    ELSE [i \in DOMAIN capture |->
            LET inputs == {v \in Named : vector_list[v] = i - 1 /\ Bit(v) \notin BitsSet(dir)}
            IN  IF inputs = {} THEN capture[i] ELSE IF \E v \in inputs : Bit(v) \in Seen(data) THEN 1 ELSE 0]

VectorIo(dir, data) == Wrote(dir, data) /\ Read(dir) /\ UNCHANGED status

VectorOutput(dir, data) ==
    /\ Wrote(dir, data)
    /\ levels' = NoAnswer
    /\ UNCHANGED <<symbols, status>>

VectorCapture(array, dir, data) ==
    LET refused == CaptureStatus(array, jam_vector_signal_count)
    IN  IF refused # "SUCCESS" THEN StopVector(refused)
        ELSE /\ VectorIo(dir, data)
             /\ symbols' = [symbols EXCEPT ![array.name].value = Collected(dir, data, @)]

\* The bits that are compared were not set before: those that are not read may
\* be any.
VectorCompare(name, array, mask, dir, data) ==
    LET count   == jam_vector_signal_count
        refused == CompareStatus(array, mask, name, count)
    IN  IF refused # "SUCCESS" THEN StopVector(refused)
        ELSE /\ VectorIo(dir, data)
             /\ \E memory \in [1..count -> {0, 1}] : symbols' = Compared(name, array, mask, Collected(dir, data, memory))

VectorDone(s, dir, data, array, mask) ==
    IF ~(jam_version = 2 => Phase = "PROCEDURE") THEN StopVector("PHASE_ERROR")
    ELSE IF dir.status # "SUCCESS" THEN StopVector(dir.status)
    ELSE IF data.status # "SUCCESS" THEN StopVector(data.status)
    ELSE CASE s.then = "none"    -> VectorOutput(dir.data, data.data)
           [] s.then = "CAPTURE" -> VectorCapture(array, dir.data, data.data)
           [] s.then = "COMPARE" -> VectorCompare(s.name, array, mask, dir.data, data.data)

Vector ==
    /\ Executes("Vector")
    /\ Advance /\ Unscanned
    /\ UNCHANGED <<vector_list, jam_vector_signal_count>>
    /\ LET s == Statement
       IN  VectorDone(s, Argument(s.dir), Argument(s.data), Argument(s.array), Argument(s.mask))

VectorNext == (DataNext /\ UNCHANGED vectorVars) \/ Vmap \/ Vector

VectorSpec == VectorInit /\ [][VectorNext]_<<dataVars, vectorVars>>

-------------------------------------------------------------------------------
\* The names of the last VMAP.
MappedNames ==
    LET maps == {k \in 1..(step - 1) : program.statements[program.order[k].at].op = "Vmap"}
    IN  program.statements[program.order[Max(maps)].at].names
Entries(name) == {v \in DOMAIN VectorSignals : VectorSignals[v].name = name}
CanBeMapped(names) ==
    \A k \in DOMAIN names : Cardinality({j \in DOMAIN names : names[j] = names[k]}) <= Cardinality(Entries(names[k]))

PinOf(name) == VectorSignals[Min(Entries(name))].bit
\* The place of the k-th of n names in a vector: the highest is named first in
\* Jam 2.0.
PlaceOf(k, n) == IF program.language = 2 THEN n - k ELSE k - 1
\* The pins of the names whose bit is 1.
PinsSet(names, bits) ==
    {PinOf(names[k]) : k \in {j \in DOMAIN names : bits[PlaceOf(j, Len(names)) + 1] = 1}}

\* A name of VMAP and the bit written in its place are of one pin, whichever
\* order the version has: VECTOR drives the pins so, CAPTURE puts the level of
\* an input pin, and of no other, into the bit of its name, and COMPARE is true
\* when the levels are the expected ones.  Not claimed of inputs that nothing
\* answers for, nor of a comparison that looks at outputs, nor of a range that does
\* not begin at the first bit of its array, whose start the code ignores (README).
VectorsDriveTheNamedPins ==
    [][/\ (step' # step /\ Statement.op = "Vmap") =>
             (status' = "SUCCESS" <=> Allowed({"PROCEDURE"}) /\ CanBeMapped(Statement.names))
       /\ (step' # step /\ Statement.op = "Vector") =>
             LET s     == Statement
                 names == MappedNames
                 n     == Len(names)
                 legal == Allowed({"PROCEDURE"}) /\ IsBits(s.dir) /\ IsBits(s.data) /\ CanFollow(s, n)
                 Out(k)   == PinOf(names[k]) \in PinsSet(names, NamedBits(s.dir))
                 Place(k) == PlaceOf(k, n) + 1
                 Level(k) == IF PinOf(names[k]) \in levels'.high THEN 1 ELSE 0
             IN  /\ status' = "SUCCESS" <=> legal
                 /\ pins' = IF legal /\ specified_com_port /\ \E k \in 1..n : Out(k)
                            THEN PinsSet(names, NamedBits(s.data)) \ Inputs ELSE pins
                 /\ (~legal \/ s.then = "none") => symbols' = symbols
                 /\ (legal /\ s.then = "CAPTURE") =>
                       LET new == symbols'[s.array.name].value
                           old == symbols[s.array.name].value
                           read == {Place(k) : k \in {j \in 1..n : ~Out(j)}}
                       IN  /\ Changed(s.array.name)
                           /\ \A i \in DOMAIN old \ read : new[i] = old[i]
                           /\ \A k \in 1..n : (levels'.answered /\ ~Out(k)) => new[Place(k)] = Level(k)
                 /\ (legal /\ s.then = "COMPARE") =>
                       LET looked == {k \in 1..n : NamedBits(s.mask)[Place(k)] = 1}
                       IN  /\ Changed(s.name)
                           /\ (levels'.answered /\ \A k \in looked : ~Out(k)) =>
                                 (symbols'[s.name].value = 1 <=>
                                     \A k \in looked : Level(k) = NamedBits(s.array)[Place(k)])]_<<dataVars, vectorVars>>
===============================================================================
