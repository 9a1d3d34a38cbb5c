--------------------------- MODULE CryptoCallsProofs ---------------------------
(***************************************************************************)
(* What the calls of a session do with data is right with blocks, records, *)
(* headers and tags of any length: digests over several calls, records of  *)
(* TLS and SRTP.  The pages of the buffers of an operation are put as      *)
(* often as they are pinned, and those that were written are flushed, and  *)
(* its scatterlists list the buffers, with buffers of any length anywhere  *)
(* in memory and pages of any size.                                        *)
(***************************************************************************)
EXTENDS CryptoCalls, SequenceTheorems, FiniteSetTheorems, WellFoundedInduction, TLAPS

-------------------------------------------------------------------------------
(***************************************************************************)
(* Digests                                                                 *)
(***************************************************************************)
\* A call with no flag but COP_FLAG_NO_ZC goes on from the last message
\* (main.c:203) although it says nothing of that; programs have not got it here.
FlagsAreSaid ==
    \A flags \in FlagSets : flags # {} => flags \cap {"UPDATE", "FINAL", "RESET"} # {}

PlainText(blocks) == [i \in DOMAIN blocks |-> Digest!Plain(blocks[i])]
PlainBlocks == {Digest!Plain(b) : b \in Blocks}

DigestInv ==
    /\ message \in Seq(Blocks)
    /\ begun => hash = PlainText(message)
    /\ digest # Digest!None => digest = PlainText(message)

LEMMA PlainTextOfConcat ==
  ASSUME NEW m \in Seq(Blocks), NEW n \in Seq(Blocks)
  PROVE  /\ PlainText(m) \in Seq(PlainBlocks)
         /\ PlainText(m \o n) = PlainText(m) \o PlainText(n)
<1>1. /\ m \o n \in Seq(Blocks) /\ Len(m \o n) = Len(m) + Len(n)
      /\ Len(m) \in Nat /\ Len(n) \in Nat
  BY ConcatProperties, LenProperties
<1>2. \A q \in Seq(Blocks) : PlainText(q) \in Seq(PlainBlocks) /\ Len(PlainText(q)) = Len(q)
  <2> SUFFICES ASSUME NEW q \in Seq(Blocks)
               PROVE  PlainText(q) \in Seq(PlainBlocks) /\ Len(PlainText(q)) = Len(q)
    OBVIOUS
  <2>1. Len(q) \in Nat /\ DOMAIN q = 1..Len(q) /\ \A i \in 1..Len(q) : q[i] \in Blocks
    BY LenProperties
  <2>2. PlainText(q) \in [1..Len(q) -> PlainBlocks]
    BY <2>1 DEF PlainText, PlainBlocks
  <2> QED
    BY <2>1, <2>2
<1>3. /\ PlainText(m) \o PlainText(n) \in Seq(PlainBlocks)
      /\ Len(PlainText(m) \o PlainText(n)) = Len(m) + Len(n)
  <2>1. PlainText(m) \in Seq(PlainBlocks) /\ PlainText(n) \in Seq(PlainBlocks)
    BY <1>2
  <2>2. /\ PlainText(m) \o PlainText(n) \in Seq(PlainBlocks)
        /\ Len(PlainText(m) \o PlainText(n)) = Len(PlainText(m)) + Len(PlainText(n))
    BY <2>1, ConcatProperties, Zenon
  <2> QED
    BY <1>2, <2>2, Zenon
<1>4. ASSUME NEW i \in 1..(Len(m) + Len(n))
      PROVE  PlainText(m \o n)[i] = (PlainText(m) \o PlainText(n))[i]
  <2>1. (m \o n)[i] = IF i <= Len(m) THEN m[i] ELSE n[i - Len(m)]
    BY <1>4, ConcatProperties
  <2>2. (PlainText(m) \o PlainText(n))[i] =
            IF i <= Len(m) THEN PlainText(m)[i] ELSE PlainText(n)[i - Len(m)]
    BY <1>2, <1>4, ConcatProperties
  <2>3. /\ DOMAIN m = 1..Len(m) /\ DOMAIN n = 1..Len(n)
        /\ DOMAIN (m \o n) = 1..(Len(m) + Len(n))
    BY <1>1, LenProperties
  <2>4. PlainText(m \o n)[i] = Digest!Plain((m \o n)[i])
    BY <1>4, <2>3 DEF PlainText
  <2>5. CASE i <= Len(m)
    <3>1. i \in 1..Len(m)
      BY <1>1, <1>4, <2>5
    <3> QED
      BY <2>1, <2>2, <2>3, <2>4, <2>5, <3>1 DEF PlainText
  <2>6. CASE ~(i <= Len(m))
    <3>1. i - Len(m) \in 1..Len(n)
      BY <1>1, <1>4, <2>6
    <3> QED
      BY <2>1, <2>2, <2>3, <2>4, <2>6, <3>1 DEF PlainText
  <2> QED
    BY <2>5, <2>6
<1> QED
  BY <1>1, <1>2, <1>3, <1>4, SeqEqual

LEMMA DigestInvInit == Digest!Init => DigestInv
<1> SUFFICES ASSUME Digest!Init PROVE DigestInv
  OBVIOUS
<1>1. message = <<>> /\ hash = <<>> /\ digest = Digest!None
  BY DEF Digest!Init
<1>2. message \in Seq(Blocks) /\ PlainText(message) = <<>>
  BY <1>1 DEF PlainText
<1> QED
  BY <1>1, <1>2 DEF DigestInv

\* A call hashes the plain text of its blocks, whichever way it goes.
LEMMA HashedIsPlain ==
  ASSUME NEW op \in {"encrypt", "decrypt"}, NEW b
  PROVE  Digest!Hashed(op, b) = Digest!Plain(b)
  BY DEF Digest!Hashed, Digest!Source, Digest!Target

LEMMA DigestInvStep ==
  ASSUME FlagsAreSaid, DigestInv, Digest!Call
  PROVE  DigestInv'
<1>1. PICK flags \in FlagSets, op \in {"encrypt", "decrypt"}, n \in 0..2 :
        \E blocks \in [1..n -> Blocks] :
            /\ Digest!Continues(flags) => begun /\ Len(message) + n <= MaxBlocks
            /\ Digest!CryptoRun(flags, op, blocks) \/ Digest!CryptoRunFails(flags, op, blocks)
  BY DEF Digest!Call
<1>2. PICK blocks \in [1..n -> Blocks] :
        /\ Digest!Continues(flags) => begun
        /\ Digest!CryptoRun(flags, op, blocks) \/ Digest!CryptoRunFails(flags, op, blocks)
  BY <1>1
<1>3. blocks \in Seq(Blocks) /\ message \in Seq(Blocks) /\ <<>> \in Seq(Blocks)
  BY DEF DigestInv
<1>4. CASE Digest!CryptoRun(flags, op, blocks)
  <2> DEFINE before == IF Digest!Continues(flags) THEN message ELSE <<>>
             taken == Digest!AfterReset(flags) \o [i \in DOMAIN blocks |-> Digest!Hashed(op, blocks[i])]
  <2>1. message' = before \o blocks /\ before \in Seq(Blocks)
    BY <1>3, <1>4 DEF Digest!CryptoRun, Digest!MessageAfter
  <2>2. Digest!AfterReset(flags) = PlainText(before)
    <3>1. CASE Digest!Continues(flags)
      BY <1>2, <3>1 DEF DigestInv, Digest!AfterReset, Digest!Continues
    <3>2. CASE ~Digest!Continues(flags)
      <4>1. flags = {} \/ "RESET" \in flags
        BY <3>2 DEF FlagsAreSaid, Digest!Continues
      <4>2. PlainText(<<>>) = <<>>
        BY DEF PlainText
      <4> QED
        BY <3>2, <4>1, <4>2 DEF Digest!AfterReset
    <3> QED
      BY <3>1, <3>2
  <2>3. [i \in DOMAIN blocks |-> Digest!Hashed(op, blocks[i])] = PlainText(blocks)
    BY HashedIsPlain DEF PlainText
  <2>4. message' \in Seq(Blocks) /\ taken = PlainText(message')
    BY <1>3, <2>1, <2>2, <2>3, PlainTextOfConcat, ConcatProperties, Zenon
  <2>5. \/ digest' = taken /\ begun' = FALSE
        \/ digest' = Digest!None /\ hash' = taken /\ begun' = TRUE
    BY <1>4, Zenon DEF Digest!CryptoRun
  <2> QED
    BY <2>4, <2>5 DEF DigestInv
<1>5. CASE Digest!CryptoRunFails(flags, op, blocks)
  BY <1>3, <1>5 DEF Digest!CryptoRunFails, DigestInv
<1> QED
  BY <1>2, <1>4, <1>5

\* Whatever calls a session has had, a digest it returns is that of the plain
\* text of the message it ends: cryptodev_hash_reset, update and final of main.c
\* with their flags.
THEOREM DigestIsAlwaysOfTheMessage ==
  ASSUME FlagsAreSaid
  PROVE  CallsSpec => []DigestIsOfTheMessage
<1>1. CallsInit => DigestInv
  BY DigestInvInit DEF CallsInit
<1>2. ASSUME DigestInv, [CallsNext]_callVars PROVE DigestInv'
  <2>1. CASE UNCHANGED digestVars
    BY <1>2, <2>1 DEF digestVars, DigestInv
  <2>2. CASE Digest!Next
    BY <1>2, <2>2, DigestInvStep DEF Digest!Next
  <2> QED
    BY <1>2, <2>1, <2>2 DEF CallsNext, callVars
<1>3. DigestInv => DigestIsOfTheMessage
  BY DEF DigestInv, DigestIsOfTheMessage, Digest!DigestIsOfTheMessage, PlainText
<1> QED
  BY <1>1, <1>2, <1>3, PTL DEF CallsSpec

-------------------------------------------------------------------------------
(***************************************************************************)
(* Records.  What a TLS record is before it is encrypted: the data, a tag  *)
(* whose bytes are none of data, and the padding.                          *)
(***************************************************************************)
DataBytes == {Records!Byte(n) : n \in Values}

Whole(auth, data) ==
    LET record == data \o Records!Mac(auth \o data)
    IN  IF RecordBlocksize > 1 THEN record \o Records!Padding(Len(record)) ELSE record

PadSize(data) ==
    IF RecordBlocksize > 1 THEN RecordBlocksize - ((Len(data) + RecordTagLen) % RecordBlocksize)
    ELSE 0

RecordBytes(auth, data) ==
    DataBytes \cup {<<"tag", auth \o data, i>> : i \in 1..RecordTagLen} \cup {<<n>> : n \in 0..255}

\* What follows the same beginning is the same.
LEMMA SameEnds ==
  ASSUME NEW S, NEW q \in Seq(S), NEW r \in Seq(S), NEW x \in Seq(S), q \o r = q \o x
  PROVE  r = x
  BY ConcatSimplifications

LEMMA ConcatParts ==
  ASSUME NEW S, NEW q \in Seq(S), NEW r \in Seq(S)
  PROVE  /\ q \o r \in Seq(S) /\ Len(q \o r) = Len(q) + Len(r)
         /\ \A i \in 1..Len(q) : (q \o r)[i] = q[i]
         /\ \A i \in 1..Len(r) : (q \o r)[Len(q) + i] = r[i]
<1>1. Len(q) \in Nat /\ Len(r) \in Nat
  BY LenProperties
<1>2. \A i \in 1..Len(q) : i \in 1..(Len(q) + Len(r)) /\ i <= Len(q)
  BY <1>1
<1>3. \A i \in 1..Len(r) : /\ Len(q) + i \in 1..(Len(q) + Len(r))
                           /\ ~(Len(q) + i <= Len(q)) /\ Len(q) + i - Len(q) = i
  BY <1>1
<1> QED
  BY <1>2, <1>3, ConcatProperties

LEMMA PadArithmetic ==
  ASSUME NEW len \in Nat, NEW size \in 1..256
  PROVE  /\ size - (len % size) \in 1..size
         /\ size - (len % size) - 1 \in 0..255
         /\ (len + (size - (len % size))) % size = 0
  OBVIOUS

\* The record without its padding.
LEMMA TaggedRecord ==
  ASSUME NEW auth \in Seq(DataBytes), NEW data \in Seq(DataBytes)
  PROVE  LET record == data \o Records!Mac(auth \o data)
         IN  /\ record \in Seq(RecordBytes(auth, data))
             /\ Len(record) = Len(data) + RecordTagLen
             /\ \A i \in 1..Len(data) : record[i] = data[i]
             /\ \A i \in 1..RecordTagLen : record[Len(data) + i] = <<"tag", auth \o data, i>>
<1> DEFINE mac == Records!Mac(auth \o data)
<1>1. RecordTagLen \in Nat /\ Len(data) \in Nat
  BY RecordSizesAssumption, LenProperties, SMT
<1>2. data \in Seq(RecordBytes(auth, data))
  BY DEF RecordBytes
<1>3. /\ mac \in Seq(RecordBytes(auth, data)) /\ Len(mac) = RecordTagLen
      /\ \A i \in 1..RecordTagLen : mac[i] = <<"tag", auth \o data, i>>
  BY <1>1 DEF Records!Mac, RecordBytes
<1> HIDE DEF mac
<1>4. /\ data \o mac \in Seq(RecordBytes(auth, data)) /\ Len(data \o mac) = Len(data) + Len(mac)
      /\ \A i \in 1..Len(data) : (data \o mac)[i] = data[i]
      /\ \A i \in 1..Len(mac) : (data \o mac)[Len(data) + i] = mac[i]
  <2>1. mac \in Seq(RecordBytes(auth, data))
    BY <1>3
  <2> QED
    BY <1>2, <2>1, ConcatParts
<1> QED
  BY <1>3, <1>4, Zenon DEF mac

LEMMA PaddingBytes ==
  ASSUME NEW len \in Nat, NEW auth, NEW data
  PROVE  LET size == RecordBlocksize - (len % RecordBlocksize)
         IN  /\ Records!Padding(len) \in Seq(RecordBytes(auth, data))
             /\ Len(Records!Padding(len)) = size
             /\ \A i \in 1..size : Records!Padding(len)[i] = <<size - 1>>
<1> DEFINE size == RecordBlocksize - (len % RecordBlocksize)
<1>0. RecordBlocksize \in 1..256 /\ RecordBlocksize \in Nat
  BY RecordSizesAssumption
<1>a. size \in 1..RecordBlocksize /\ size - 1 \in 0..255
  BY <1>0, PadArithmetic, Zenon
<1>1. size \in Nat /\ size - 1 \in 0..255
  BY <1>0, <1>a
<1>2. Records!Padding(len) = [i \in 1..size |-> <<size - 1>>]
  BY DEF Records!Padding, Records!Byte
<1> HIDE DEF size
<1>3. Records!Padding(len) \in [1..size -> RecordBytes(auth, data)]
  BY <1>1, <1>2 DEF RecordBytes
<1>4. Records!Padding(len) \in Seq(RecordBytes(auth, data)) /\ Len(Records!Padding(len)) = size
  BY <1>1, <1>2, <1>3
<1>5. \A i \in 1..size : Records!Padding(len)[i] = <<size - 1>>
  BY <1>2
<1> QED
  BY <1>4, <1>5 DEF size

LEMMA WholeRecord ==
  ASSUME NEW auth \in Seq(DataBytes), NEW data \in Seq(DataBytes)
  PROVE  /\ Whole(auth, data) \in Seq(RecordBytes(auth, data))
         /\ Len(Whole(auth, data)) = Len(data) + RecordTagLen + PadSize(data)
         /\ \A i \in 1..Len(data) : Whole(auth, data)[i] = data[i]
         /\ \A i \in 1..RecordTagLen :
              Whole(auth, data)[Len(data) + i] = <<"tag", auth \o data, i>>
         /\ \A i \in 1..PadSize(data) :
              Whole(auth, data)[Len(data) + RecordTagLen + i] = <<PadSize(data) - 1>>
         /\ PadSize(data) \in 0..RecordBlocksize
         /\ RecordBlocksize > 1 =>
              /\ PadSize(data) > 0 /\ PadSize(data) <= 256
              /\ (Len(data) + RecordTagLen + PadSize(data)) % RecordBlocksize = 0
<1> DEFINE record == data \o Records!Mac(auth \o data)
           pad == Records!Padding(Len(record))
           S == RecordBytes(auth, data)
<1>1. /\ RecordBlocksize \in 1..256 /\ RecordTagLen \in Nat
      /\ RecordBlocksize \in Nat /\ Len(data) \in Nat
  BY RecordSizesAssumption, LenProperties
<1>2. /\ record \in Seq(S) /\ Len(record) = Len(data) + RecordTagLen
      /\ \A i \in 1..Len(data) : record[i] = data[i]
      /\ \A i \in 1..RecordTagLen : record[Len(data) + i] = <<"tag", auth \o data, i>>
  BY TaggedRecord, Zenon
<1>3. RecordBlocksize > 1 => Whole(auth, data) = record \o pad
  BY DEF Whole
<1>4. RecordBlocksize > 1 => PadSize(data) = RecordBlocksize - (Len(record) % RecordBlocksize)
  BY <1>2 DEF PadSize
<1>5. ~(RecordBlocksize > 1) => Whole(auth, data) = record /\ PadSize(data) = 0
  BY DEF Whole, PadSize
<1>6. Len(record) \in Nat
  BY <1>1, <1>2
<1>7. /\ pad \in Seq(S)
      /\ Len(pad) = RecordBlocksize - (Len(record) % RecordBlocksize)
      /\ \A i \in 1..(RecordBlocksize - (Len(record) % RecordBlocksize)) :
           pad[i] = <<RecordBlocksize - (Len(record) % RecordBlocksize) - 1>>
  BY <1>6, PaddingBytes
<1> HIDE DEF record, pad, S
<1>8. CASE RecordBlocksize > 1
  <2>0. LET size == RecordBlocksize - (Len(record) % RecordBlocksize)
        IN  size \in 1..RecordBlocksize /\ (Len(record) + size) % RecordBlocksize = 0
    BY <1>1, <1>6, PadArithmetic, Zenon
  <2>1. /\ PadSize(data) \in 1..RecordBlocksize
        /\ (Len(record) + PadSize(data)) % RecordBlocksize = 0
    BY <2>0, <1>4, <1>8, Zenon
  <2>2. /\ record \o pad \in Seq(S) /\ Len(record \o pad) = Len(record) + Len(pad)
        /\ \A i \in 1..Len(record) : (record \o pad)[i] = record[i]
        /\ \A i \in 1..Len(pad) : (record \o pad)[Len(record) + i] = pad[i]
    <3>1. record \in Seq(S) /\ pad \in Seq(S)
      BY <1>2, <1>7
    <3> QED
      BY <3>1, ConcatParts
  <2>3. /\ Len(pad) = PadSize(data) /\ \A i \in 1..PadSize(data) : pad[i] = <<PadSize(data) - 1>>
    BY <1>4, <1>7, <1>8
  <2>4. \A i \in 1..Len(data) : i \in 1..Len(record)
    BY <1>1, <1>2
  <2>5. \A i \in 1..RecordTagLen : Len(data) + i \in 1..Len(record)
    BY <1>1, <1>2
  <2>6. \A i \in 1..Len(data) : (record \o pad)[i] = data[i]
    BY <1>2, <2>2, <2>4
  <2>7. \A i \in 1..RecordTagLen : (record \o pad)[Len(data) + i] = <<"tag", auth \o data, i>>
    BY <1>2, <2>2, <2>5, Zenon
  <2>8. \A i \in 1..PadSize(data) :
            (record \o pad)[Len(data) + RecordTagLen + i] = <<PadSize(data) - 1>>
    BY <1>2, <2>2, <2>3
  <2>9. PadSize(data) \in 0..RecordBlocksize /\ PadSize(data) > 0 /\ PadSize(data) <= 256
    BY <1>1, <2>1
  <2> QED
    BY <1>2, <1>3, <1>8, <2>1, <2>2, <2>3, <2>6, <2>7, <2>8, <2>9 DEF S
<1>9. CASE ~(RecordBlocksize > 1)
  <2>1. Len(record) = Len(data) + RecordTagLen + PadSize(data) /\ PadSize(data) \in 0..RecordBlocksize
    BY <1>1, <1>2, <1>5, <1>9
  <2> QED
    BY <1>2, <1>5, <1>9, <2>1 DEF S
<1> QED
  BY <1>8, <1>9, Zenon

LEMMA DecryptOfEncrypt ==
  ASSUME NEW S, NEW bytes \in Seq(S)
  PROVE  /\ Records!Decrypt(Records!Encrypt(bytes)) = bytes
         /\ Len(Records!Encrypt(bytes)) = Len(bytes)
         /\ DOMAIN Records!Encrypt(bytes) = 1..Len(bytes)
         /\ Records!Encrypt(bytes) \in Seq({<<"enc", b>> : b \in S})
         /\ \A i \in 1..Len(bytes) : Records!Encrypt(bytes)[i] = <<"enc", bytes[i]>>
<1>1. Len(bytes) \in Nat /\ DOMAIN bytes = 1..Len(bytes) /\ \A i \in 1..Len(bytes) : bytes[i] \in S
  BY LenProperties
<1>2. Records!Encrypt(bytes) = [i \in 1..Len(bytes) |-> <<"enc", bytes[i]>>]
  BY <1>1 DEF Records!Encrypt
<1>3. Records!Encrypt(bytes) \in [1..Len(bytes) -> {<<"enc", b>> : b \in S}]
  BY <1>1, <1>2
<1>4. Records!Encrypt(bytes) \in Seq({<<"enc", b>> : b \in S})
  BY <1>1, <1>3
<1>5. Records!Decrypt(Records!Encrypt(bytes)) = [i \in 1..Len(bytes) |-> bytes[i]]
  BY <1>2 DEF Records!Decrypt, Records!DecryptByte
<1>6. bytes = [i \in 1..Len(bytes) |-> bytes[i]]
  BY <1>1
<1>7. PICK e : e = Records!Encrypt(bytes)
  OBVIOUS
<1>8. /\ DOMAIN e = 1..Len(bytes)
      /\ \A i \in 1..Len(bytes) : e[i] = <<"enc", bytes[i]>>
  BY <1>2, <1>7
<1>9. e \in Seq({<<"enc", b>> : b \in S})
  BY <1>4, <1>7
<1>10. Len(e) = Len(bytes)
  BY <1>1, <1>8, <1>9, LenProperties
<1>11. Records!Decrypt(e) = bytes
  BY <1>5, <1>6, <1>7
<1> QED
  BY <1>7, <1>8, <1>9, <1>10, <1>11

\* The same of any name W of the record.
Sealed(W, auth, data) ==
    /\ W \in Seq(RecordBytes(auth, data))
    /\ Len(W) = Len(data) + RecordTagLen + PadSize(data)
    /\ \A i \in 1..Len(data) : W[i] = data[i]
    /\ \A i \in 1..RecordTagLen : W[Len(data) + i] = <<"tag", auth \o data, i>>
    /\ \A i \in 1..PadSize(data) : W[Len(data) + RecordTagLen + i] = <<PadSize(data) - 1>>
    /\ PadSize(data) \in 0..RecordBlocksize
    /\ RecordBlocksize > 1 => PadSize(data) > 0 /\ PadSize(data) <= 256

LEMMA WholeIsSealed ==
  ASSUME NEW auth \in Seq(DataBytes), NEW data \in Seq(DataBytes)
  PROVE  Sealed(Whole(auth, data), auth, data)
<1>1. /\ Whole(auth, data) \in Seq(RecordBytes(auth, data))
      /\ Len(Whole(auth, data)) = Len(data) + RecordTagLen + PadSize(data)
      /\ PadSize(data) \in 0..RecordBlocksize
      /\ RecordBlocksize > 1 => PadSize(data) > 0 /\ PadSize(data) <= 256
  BY WholeRecord, Zenon
<1>2. /\ \A i \in 1..Len(data) : Whole(auth, data)[i] = data[i]
      /\ \A i \in 1..RecordTagLen :
            Whole(auth, data)[Len(data) + i] = <<"tag", auth \o data, i>>
      /\ \A i \in 1..PadSize(data) :
            Whole(auth, data)[Len(data) + RecordTagLen + i] = <<PadSize(data) - 1>>
  BY WholeRecord, Zenon
<1> QED
  BY <1>1, <1>2, Zenon DEF Sealed

\* A record as the receiver decrypts it: bytes of it may be others, and blocks
\* at its end may be missing.
Received(r, auth, data) ==
    /\ r \in Seq(RecordBytes(auth, data))
    /\ \/ Len(r) = Len(Whole(auth, data))
       \/ Len(r) + RecordBlocksize <= Len(Whole(auth, data))
    /\ \A i \in 1..Len(r) : r[i] = Whole(auth, data)[i] \/ \E n : r[i] = <<n>>

LEMMA SubSeqParts ==
  ASSUME NEW S, NEW q \in Seq(S), NEW m \in 0..Len(q)
  PROVE  /\ SubSeq(q, 1, m) \in Seq(S) /\ Len(SubSeq(q, 1, m)) = m
         /\ \A i \in 1..m : SubSeq(q, 1, m)[i] = q[i]
         /\ Len(SubSeq(q, m + 1, Len(q))) = Len(q) - m
         /\ \A i \in 1..(Len(q) - m) : SubSeq(q, m + 1, Len(q))[i] = q[m + i]
         /\ SubSeq(q, m + 1, Len(q)) \in Seq(S)
  BY LenProperties

\* The parts of a record whose padding is taken to have length padLen.
Parts(S, r, padLen, auth, len, out) ==
    /\ len \in Nat /\ out \in Seq(S) /\ Len(out) = len
    /\ \A i \in 1..len : out[i] = r[i]
    /\ \A i \in 1..RecordTagLen : r[len + i] = <<"tag", auth \o out, i>>
    /\ Records!Opened(auth, r, padLen).data = out
    /\ RecordBlocksize > 1 => padLen # 0

LEMMA OpenedParts ==
  ASSUME NEW S, NEW r \in Seq(S), NEW padLen \in 0..Len(r), NEW auth,
         Records!Opened(auth, r, padLen).code = "0"
  PROVE  LET len == Len(r) - padLen - RecordTagLen
         IN  Parts(S, r, padLen, auth, len, SubSeq(r, 1, len))
<1> DEFINE len == Len(r) - padLen - RecordTagLen
           rest == SubSeq(r, 1, Len(r) - padLen)
           out == SubSeq(rest, 1, len)
<1>1. RecordTagLen \in Nat /\ Len(r) \in Nat /\ Len(r) - padLen \in 0..Len(r)
  BY RecordSizesAssumption, LenProperties, SMT
<1>2. /\ rest \in Seq(S) /\ Len(rest) = Len(r) - padLen
      /\ \A i \in 1..Len(rest) : rest[i] = r[i]
  BY <1>1, SubSeqParts
<1>3. Len(rest) - RecordTagLen = len /\ len \in Int
  BY <1>1, <1>2
<1>4. Records!Opened(auth, r, padLen) =
        IF len < 0 THEN [code |-> "-EINVAL", data |-> <<>>]
        ELSE IF SubSeq(rest, len + 1, Len(rest)) # Records!Mac(auth \o out)
                \/ (RecordBlocksize > 1 /\ padLen = 0)
             THEN [code |-> "-EBADMSG", data |-> <<>>]
             ELSE [code |-> "0", data |-> out]
  BY <1>3, Zenon DEF Records!Opened
<1> HIDE DEF rest, out, len
<1>5. /\ len \in Nat
      /\ SubSeq(rest, len + 1, Len(rest)) = Records!Mac(auth \o out)
      /\ RecordBlocksize > 1 => padLen # 0
      /\ Records!Opened(auth, r, padLen).data = out
  BY <1>3, <1>4
<1>6. len \in 0..Len(rest) /\ Len(rest) - len = RecordTagLen
  <2>1. len \in Nat /\ len = Len(rest) - RecordTagLen
    BY <1>3, <1>5
  <2>2. Len(rest) \in Nat
    BY <1>1, <1>2
  <2> QED
    BY <1>1, <2>1, <2>2
<1>7. /\ SubSeq(rest, 1, len) \in Seq(S) /\ Len(SubSeq(rest, 1, len)) = len
      /\ \A i \in 1..len : SubSeq(rest, 1, len)[i] = rest[i]
      /\ \A i \in 1..(Len(rest) - len) : SubSeq(rest, len + 1, Len(rest))[i] = rest[len + i]
  BY <1>2, <1>6, SubSeqParts
<1>8. out \in Seq(S) /\ Len(out) = len /\ \A i \in 1..len : out[i] = rest[i]
  BY <1>7 DEF out
<1>9. \A i \in 1..len : out[i] = r[i]
  <2>1. \A i \in 1..len : i \in 1..Len(rest)
    BY <1>6
  <2> QED
    BY <1>2, <1>8, <2>1, Zenon
<1>10. \A i \in 1..RecordTagLen : r[len + i] = <<"tag", auth \o out, i>>
  <2> TAKE i \in 1..RecordTagLen
  <2>1. SubSeq(rest, len + 1, Len(rest))[i] = <<"tag", auth \o out, i>>
    BY <1>5, Zenon DEF Records!Mac
  <2>2. i \in 1..(Len(rest) - len) /\ len + i \in 1..Len(rest)
    BY <1>1, <1>2, <1>5, <1>6, SMT
  <2> QED
    BY <1>2, <1>7, <2>1, <2>2
<1>11. len = Len(r) - padLen - RecordTagLen
  BY DEF len
<1>12. out = SubSeq(r, 1, len)
  <2>1. len \in 0..Len(r)
    BY <1>1, <1>2, <1>6
  <2>2. /\ SubSeq(r, 1, len) \in Seq(S) /\ Len(SubSeq(r, 1, len)) = len
        /\ \A i \in 1..len : SubSeq(r, 1, len)[i] = r[i]
    BY <2>1, SubSeqParts
  <2> QED
    BY <1>8, <1>9, <2>2, SeqEqual
<1>13. Parts(S, r, padLen, auth, len, out)
  BY <1>5, <1>8, <1>9, <1>10 DEF Parts
<1> QED
  BY <1>11, <1>12, <1>13

LEMMA TagBytes ==
  /\ \A x, i, n : <<"tag", x, i>> # <<n>>
  /\ \A x, i, y, j : <<"tag", x, i>> = <<"tag", y, j>> => x = y /\ i = j
  OBVIOUS

\* A tag says what it covers: the data that is opened has the tag of the data
\* that was sent in its place.
LEMMA OpenedIsSent ==
  ASSUME NEW auth \in Seq(DataBytes), NEW data \in Seq(DataBytes), NEW r,
         Received(r, auth, data), NEW padLen \in 0..Len(r),
         Records!Opened(auth, r, padLen).code = "0"
  PROVE  /\ Records!Opened(auth, r, padLen).data = data
         /\ Len(r) = Len(data) + RecordTagLen + padLen
         /\ \A i \in 1..(Len(data) + RecordTagLen) : r[i] = Whole(auth, data)[i]
         /\ RecordBlocksize > 1 => padLen # 0
<1> DEFINE len == Len(r) - padLen - RecordTagLen
           out == SubSeq(r, 1, len)
           S == RecordBytes(auth, data)
<1>1. /\ r \in Seq(S)
      /\ Len(r) <= Len(Whole(auth, data))
      /\ \A i \in 1..Len(r) : r[i] = Whole(auth, data)[i] \/ \E n : r[i] = <<n>>
  <2>1. Len(Whole(auth, data)) \in Nat
    BY WholeRecord, LenProperties
  <2> QED
    BY <2>1, RecordSizesAssumption, LenProperties DEF Received
<1>2. /\ len \in Nat /\ out \in Seq(S) /\ Len(out) = len
      /\ \A i \in 1..len : out[i] = r[i]
      /\ \A i \in 1..RecordTagLen : r[len + i] = <<"tag", auth \o out, i>>
      /\ Records!Opened(auth, r, padLen).data = out
      /\ RecordBlocksize > 1 => padLen # 0
  <2>1. r \in Seq(S)
    BY <1>1
  <2>2. Parts(S, r, padLen, auth, len, out)
    BY <2>1, OpenedParts
  <2> HIDE DEF len, out, S
  <2> QED
    BY <2>2, Zenon DEF Parts
<1>3. /\ RecordTagLen \in Nat \ {0} /\ Len(data) \in Nat /\ Len(r) \in Nat
      /\ PadSize(data) \in Nat
      /\ \A i \in 1..Len(data) : \E n : data[i] = <<n>>
  <2>1. RecordTagLen \in Nat \ {0} /\ RecordBlocksize \in Nat
    BY RecordSizesAssumption
  <2>2. Len(data) \in Nat /\ \A i \in 1..Len(data) : data[i] \in DataBytes
    BY LenProperties
  <2>3. Len(r) \in Nat
    BY <1>1, LenProperties
  <2>4. PadSize(data) \in Nat
    BY <2>1, WholeRecord
  <2>5. \A b \in DataBytes : \E n : b = <<n>>
    BY DEF DataBytes, Records!Byte
  <2> QED
    BY <2>1, <2>2, <2>3, <2>4, <2>5
<1>4. len + RecordTagLen <= Len(r) /\ len + 1 \in 1..Len(r) /\ Len(r) = len + RecordTagLen + padLen
  <2>1. PICK a \in Nat, b \in Nat \ {0}, c \in Nat : a = Len(r) /\ b = RecordTagLen /\ c = len
    BY <1>2, <1>3, Zenon
  <2>2. padLen \in 0..a /\ c = a - padLen - b
    BY <2>1
  <2>3. c + b <= a /\ c + 1 \in 1..a /\ a = c + b + padLen
    BY <2>2
  <2> QED
    BY <2>1, <2>3
<1> DEFINE W == Whole(auth, data)
<1>w. /\ Len(W) = Len(data) + RecordTagLen + PadSize(data)
      /\ \A i \in 1..Len(data) : W[i] = data[i]
      /\ \A i \in 1..RecordTagLen : W[Len(data) + i] = <<"tag", auth \o data, i>>
      /\ \A i \in 1..PadSize(data) : W[Len(data) + RecordTagLen + i] = <<PadSize(data) - 1>>
  <2>1. Sealed(W, auth, data)
    BY WholeIsSealed
  <2> HIDE DEF W
  <2> QED
    BY <2>1, Zenon DEF Sealed
<1> HIDE DEF len, out, S, W
<1>5. r[len + 1] = <<"tag", auth \o out, 1>>
  <2>1. 1 \in 1..RecordTagLen
    BY <1>3
  <2>2. \A i \in 1..RecordTagLen : r[len + i] = <<"tag", auth \o out, i>>
    BY <1>2
  <2> QED
    BY <2>1, <2>2
<1>6. W[len + 1] = <<"tag", auth \o out, 1>>
  <2>1. \A n : r[len + 1] # <<n>>
    BY <1>5, SMT
  <2> QED
    BY <1>1, <1>4, <1>5, <2>1, Zenon DEF W
<1>7. len = Len(data) /\ auth \o out = auth \o data
  <2>1. CASE len + 1 <= Len(data)
    <3>1. len + 1 \in 1..Len(data)
      BY <1>2, <1>3, <2>1
    <3>2. PICK n : W[len + 1] = <<n>>
      BY <1>3, <1>w, <3>1, Zenon
    <3>3. <<"tag", auth \o out, 1>> = <<n>>
      BY <1>6, <3>2, Zenon
    <3> QED
      BY <3>3, TagBytes
  <2>2. CASE len + 1 > Len(data) + RecordTagLen
    <3>1. PICK i \in 1..PadSize(data) : len + 1 = Len(data) + RecordTagLen + i
      <4>1. len + 1 <= Len(data) + RecordTagLen + PadSize(data)
        BY <1>1, <1>2, <1>3, <1>4, <1>w DEF W
      <4>2. len + 1 - (Len(data) + RecordTagLen) \in 1..PadSize(data)
        BY <1>2, <1>3, <2>2, <4>1
      <4> QED
        BY <1>2, <1>3, <4>2
    <3>2. W[len + 1] = <<PadSize(data) - 1>>
      BY <1>w, <3>1
    <3>3. <<"tag", auth \o out, 1>> = <<PadSize(data) - 1>>
      BY <1>6, <3>2, Zenon
    <3> QED
      BY <3>3, TagBytes
  <2>3. CASE len + 1 > Len(data) /\ len + 1 <= Len(data) + RecordTagLen
    <3>1. PICK i \in 1..RecordTagLen : len + 1 = Len(data) + i
      <4>1. len + 1 - Len(data) \in 1..RecordTagLen
        BY <1>2, <1>3, <2>3
      <4>2. len + 1 = Len(data) + (len + 1 - Len(data))
        BY <1>2, <1>3
      <4> QED
        BY <4>1, <4>2, Zenon
    <3>2. W[len + 1] = <<"tag", auth \o data, i>>
      BY <1>w, <3>1, Zenon
    <3>a. <<"tag", auth \o data, i>> = <<"tag", auth \o out, 1>>
      BY <1>6, <3>2, Zenon
    <3>3. i = 1 /\ auth \o data = auth \o out
      BY <3>a, TagBytes
    <3> QED
      BY <1>2, <1>3, <3>1, <3>3
  <2>4. \/ len + 1 <= Len(data)
        \/ len + 1 > Len(data) + RecordTagLen
        \/ len + 1 > Len(data) /\ len + 1 <= Len(data) + RecordTagLen
    <3>1. PICK a \in Nat, b \in Nat, c \in Nat : a = len /\ b = Len(data) /\ c = RecordTagLen
      BY <1>2, <1>3, Zenon
    <3>2. a + 1 <= b \/ a + 1 > b + c \/ (a + 1 > b /\ a + 1 <= b + c)
      OBVIOUS
    <3> QED
      BY <3>1, <3>2
  <2> QED
    BY <2>1, <2>2, <2>3, <2>4, Zenon
<1>8. out = data
  <2>1. auth \in Seq(S) /\ data \in Seq(S)
    BY DEF S, RecordBytes
  <2> QED
    BY <1>2, <1>7, <2>1, SameEnds
<1>9. \A i \in 1..Len(data) : r[i] = W[i]
  BY <1>2, <1>7, <1>8, <1>w
<1>10. \A i \in 1..RecordTagLen : r[Len(data) + i] = W[Len(data) + i]
  BY <1>2, <1>7, <1>8, <1>w, Zenon
<1>11. ASSUME NEW i \in 1..(Len(data) + RecordTagLen) PROVE r[i] = W[i]
  <2>1. CASE i <= Len(data)
    BY <1>3, <1>9, <1>11, <2>1
  <2>2. CASE i > Len(data)
    <3>1. i - Len(data) \in 1..RecordTagLen /\ Len(data) + (i - Len(data)) = i
      BY <1>3, <1>11, <2>2
    <3> QED
      BY <1>10, <3>1
  <2> QED
    BY <1>3, <2>1, <2>2
<1> QED
  BY <1>2, <1>4, <1>7, <1>8, <1>11 DEF W

LEMMA PadLengthIs ==
  ASSUME NEW S, NEW r \in Seq(S), NEW n \in 0..255
  PROVE  /\ Records!PadLength(r, n) \in 0..Len(r)
         /\ Records!PadLength(r, n) # 0 =>
              /\ Records!PadLength(r, n) = n + 1
              /\ \A i \in (Len(r) - n)..(Len(r) - 1) : Records!IsValue(r[i], n)
<1>1. Len(r) \in Nat
  BY LenProperties
<1> QED
  BY <1>1 DEF Records!PadLength

LEMMA TlsDecryptIs ==
  ASSUME NEW auth, NEW wired, NEW r, r = Records!Decrypt(wired), RecordBlocksize # 1
  PROVE  Records!TlsDecrypt(auth, wired) =
           {Records!Opened(auth, r, Records!PadLength(r, n)) :
               n \in {v \in 0..255 : Records!IsValue(r[Len(r)], v)}}
BY SMT DEF Records!TlsDecrypt, Records!Last

\* With the padding the tag does not cover: a record that is opened is the one
\* that was sent.
LEMMA TlsAcceptsSent ==
  ASSUME NEW auth \in Seq(DataBytes), NEW data \in Seq(DataBytes), NEW wired,
         Received(Records!Decrypt(wired), auth, data),
         NEW out \in Records!TlsDecrypt(auth, wired), out.code = "0"
  PROVE  out.data = data /\ Records!Decrypt(wired) = Whole(auth, data)
<1> DEFINE r == Records!Decrypt(wired)
           W == Whole(auth, data)
           S == RecordBytes(auth, data)
<1> HIDE DEF r
<1>1. /\ r \in Seq(S) /\ Received(r, auth, data) /\ Len(r) \in Nat
      /\ Len(r) = Len(W) \/ Len(r) + RecordBlocksize <= Len(W)
      /\ RecordBlocksize \in Nat \ {0} /\ RecordTagLen \in Nat /\ Len(data) \in Nat
  BY RecordSizesAssumption, LenProperties DEF Received, r
<1>2. /\ W \in Seq(S) /\ Len(W) = Len(data) + RecordTagLen + PadSize(data)
      /\ PadSize(data) \in 0..RecordBlocksize
      /\ \A i \in 1..PadSize(data) : W[Len(data) + RecordTagLen + i] = <<PadSize(data) - 1>>
  BY WholeRecord
<1>3. CASE RecordBlocksize = 1
  <2>1. out = Records!Opened(auth, r, 0)
    BY <1>3 DEF Records!TlsDecrypt, r
  <2>2. /\ out.data = data /\ Len(r) = Len(data) + RecordTagLen + 0
        /\ \A i \in 1..(Len(data) + RecordTagLen) : r[i] = W[i]
    BY <1>1, <2>1, OpenedIsSent
  <2>3. PadSize(data) = 0
    BY <1>3 DEF PadSize
  <2>4. Len(r) = Len(W) /\ \A i \in 1..Len(r) : r[i] = W[i]
    BY <1>1, <1>2, <2>2, <2>3
  <2> QED
    BY <1>1, <1>2, <2>2, <2>4, SeqEqual, Zenon DEF r
<1>4. CASE RecordBlocksize # 1
  <2>0. Records!TlsDecrypt(auth, wired) =
          {Records!Opened(auth, r, Records!PadLength(r, n)) :
              n \in {v \in 0..255 : Records!IsValue(r[Len(r)], v)}}
    <3>1. r = Records!Decrypt(wired)
      BY Zenon DEF r
    <3> QED
      BY <1>4, <3>1, TlsDecryptIs, SMT
  <2>a. PICK n \in {v \in 0..255 : Records!IsValue(r[Len(r)], v)} :
          out = Records!Opened(auth, r, Records!PadLength(r, n))
    BY <2>0, Zenon
  <2>1. /\ n \in 0..255 /\ Records!IsValue(r[Len(r)], n)
        /\ out = Records!Opened(auth, r, Records!PadLength(r, n))
    BY <2>a, Zenon
  <2> DEFINE padLen == Records!PadLength(r, n)
  <2>2. padLen \in 0..Len(r)
    BY <1>1, PadLengthIs, Zenon
  <2> HIDE DEF padLen
  <2>3. /\ out.data = data /\ Len(r) = Len(data) + RecordTagLen + padLen
        /\ \A i \in 1..(Len(data) + RecordTagLen) : r[i] = W[i]
        /\ RecordBlocksize > 1 => padLen # 0
    BY <1>1, <2>1, <2>2, OpenedIsSent DEF padLen
  <2>4. padLen # 0
    BY <1>1, <1>4, <2>3
  <2>5. padLen = n + 1 /\ \A i \in (Len(r) - n)..(Len(r) - 1) : Records!IsValue(r[i], n)
    BY <1>1, <2>4, PadLengthIs, Zenon DEF padLen
  <2>6. Len(r) = Len(W) /\ padLen = PadSize(data)
    <3>1. Len(W) = Len(data) + RecordTagLen + PadSize(data) /\ PadSize(data) \in 0..RecordBlocksize
      BY <1>2, Zenon
    <3>2. Len(r) = Len(data) + RecordTagLen + padLen
      BY <2>3, Zenon
    <3>3. /\ Len(r) \in Nat /\ RecordBlocksize \in Nat \ {0} /\ RecordTagLen \in Nat
          /\ Len(data) \in Nat
          /\ Len(r) = Len(W) \/ Len(r) + RecordBlocksize <= Len(W)
      BY <1>1, Zenon
    <3> QED
      BY <2>2, <2>4, <3>1, <3>2, <3>3, SMT
  <2>7. ASSUME NEW i \in 1..PadSize(data)
        PROVE  r[Len(data) + RecordTagLen + i] = W[Len(data) + RecordTagLen + i]
    <3> DEFINE k == Len(data) + RecordTagLen + i
    <3>1. k \in 1..Len(r) /\ (k # Len(r) => k \in (Len(r) - n)..(Len(r) - 1))
      <4>1. /\ Len(r) = Len(data) + RecordTagLen + n + 1
            /\ PadSize(data) = n + 1 /\ i \in 1..(n + 1) /\ n \in Nat
        <5>1. n \in Nat /\ PadSize(data) = n + 1
          BY <2>5, <2>6
        <5>2. i \in 1..(n + 1)
          BY <2>7, <5>1
        <5>3. Len(r) = Len(data) + RecordTagLen + (n + 1)
          BY <2>3, <2>5
        <5> QED
          BY <1>1, <5>1, <5>2, <5>3
      <4>2. Len(data) \in Nat /\ RecordTagLen \in Nat
        BY <1>1
      <4>3. /\ Len(r) = Len(data) + RecordTagLen + n + 1
            /\ i \in 1..(n + 1) /\ n \in Nat
        BY <4>1
      <4> QED
        BY <4>2, <4>3
    <3>2. Records!IsValue(r[k], n)
      BY <1>1, <2>1, <2>5, <3>1
    <3>3. W[k] = <<n>>
      <4>1. W[Len(data) + RecordTagLen + i] = <<PadSize(data) - 1>>
        BY <1>2, <2>7, Zenon
      <4>2. PadSize(data) - 1 = n
        BY <2>1, <2>5, <2>6
      <4> QED
        BY <4>1, <4>2
    <3>4. r[k] = W[k] \/ \E m : r[k] = <<m>>
      BY <1>1, <3>1 DEF Received
    <3>5. ASSUME NEW m, r[k] = <<m>> PROVE r[k] = W[k]
      <4>1. Len(<<m>>) = 1 /\ <<m>>[1] = m
        OBVIOUS
      <4> QED
        BY <3>2, <3>3, <3>5, <4>1 DEF Records!IsValue
    <3> QED
      BY <3>4, <3>5
  <2>8. ASSUME NEW i \in 1..Len(r) PROVE r[i] = W[i]
    <3>1. CASE i <= Len(data) + RecordTagLen
      BY <1>1, <2>3, <2>8, <3>1
    <3>2. CASE i > Len(data) + RecordTagLen
      <4>1. /\ i - (Len(data) + RecordTagLen) \in 1..PadSize(data)
            /\ i = Len(data) + RecordTagLen + (i - (Len(data) + RecordTagLen))
        BY <1>1, <1>2, <2>6, <2>8, <3>2
      <4> QED
        BY <2>7, <4>1
    <3> QED
      BY <1>1, <3>1, <3>2
  <2> QED
    BY <1>1, <1>2, <2>3, <2>6, <2>8, SeqEqual DEF r
<1> QED
  BY <1>3, <1>4

\* A record that arrives as it was sent is opened.
LEMMA TlsOpensHonest ==
  ASSUME NEW auth \in Seq(DataBytes), NEW data \in Seq(DataBytes), NEW wired,
         Records!Decrypt(wired) = Whole(auth, data),
         NEW out \in Records!TlsDecrypt(auth, wired)
  PROVE  out = [code |-> "0", data |-> data]
<1> DEFINE W == Whole(auth, data)
           S == RecordBytes(auth, data)
           len == Len(data)
           rest == SubSeq(W, 1, Len(W) - PadSize(data))
           mac == Records!Mac(auth \o data)
<1>1. /\ W \in Seq(S) /\ Len(W) = len + RecordTagLen + PadSize(data)
      /\ \A i \in 1..len : W[i] = data[i]
      /\ \A i \in 1..RecordTagLen : W[len + i] = <<"tag", auth \o data, i>>
      /\ \A i \in 1..PadSize(data) : W[len + RecordTagLen + i] = <<PadSize(data) - 1>>
      /\ PadSize(data) \in 0..RecordBlocksize
      /\ RecordBlocksize > 1 => PadSize(data) > 0 /\ PadSize(data) <= 256
  <2>1. Sealed(W, auth, data)
    BY WholeIsSealed
  <2> HIDE DEF W
  <2> QED
    BY <2>1 DEF Sealed
<1>2. /\ RecordBlocksize \in Nat \ {0} /\ RecordTagLen \in Nat \ {0} /\ len \in Nat
      /\ PadSize(data) \in Nat /\ data \in Seq(S) /\ Len(W) \in Nat
  <2>1. data \in Seq(S)
    BY DEF RecordBytes
  <2>2. Len(data) \in Nat /\ RecordBlocksize \in Nat \ {0} /\ RecordTagLen \in Nat \ {0}
    BY RecordSizesAssumption, LenProperties
  <2> QED
    BY <1>1, <2>1, <2>2
<1> HIDE DEF W, S, len, rest, mac
<1>3. Len(W) - PadSize(data) = len + RecordTagLen /\ len + RecordTagLen \in 0..Len(W)
  BY <1>1, <1>2
<1>4. /\ rest \in Seq(S) /\ Len(rest) = len + RecordTagLen
      /\ \A i \in 1..(len + RecordTagLen) : rest[i] = W[i]
  BY <1>1, <1>3, SubSeqParts DEF rest
<1>5. /\ len \in 0..Len(rest) /\ Len(rest) - RecordTagLen = len
      /\ Len(rest) - len = RecordTagLen
  BY <1>2, <1>4
<1>6. /\ SubSeq(rest, 1, len) \in Seq(S) /\ Len(SubSeq(rest, 1, len)) = len
      /\ \A i \in 1..len : SubSeq(rest, 1, len)[i] = rest[i]
      /\ SubSeq(rest, len + 1, Len(rest)) \in Seq(S)
      /\ Len(SubSeq(rest, len + 1, Len(rest))) = Len(rest) - len
      /\ \A i \in 1..(Len(rest) - len) : SubSeq(rest, len + 1, Len(rest))[i] = rest[len + i]
  BY <1>4, <1>5, SubSeqParts, Zenon
<1>7. SubSeq(rest, 1, len) = data
  <2>1. \A i \in 1..len : SubSeq(rest, 1, len)[i] = data[i]
    <3> TAKE i \in 1..len
    <3>1. i \in 1..(len + RecordTagLen)
      BY <1>2
    <3> QED
      BY <1>1, <1>4, <1>6, <3>1
  <2>2. len = Len(data)
    BY DEF len
  <2> QED
    BY <1>2, <1>6, <2>1, <2>2, SeqEqual
<1>8. SubSeq(rest, len + 1, Len(rest)) = mac
  <2>1. \A i \in 1..RecordTagLen :
            SubSeq(rest, len + 1, Len(rest))[i] = <<"tag", auth \o data, i>>
    <3> TAKE i \in 1..RecordTagLen
    <3>1. len + i \in 1..(len + RecordTagLen) /\ i \in 1..(Len(rest) - len)
      BY <1>2, <1>5
    <3>2. SubSeq(rest, len + 1, Len(rest))[i] = W[len + i]
      BY <1>4, <1>6, <3>1
    <3> QED
      BY <1>1, <3>2, Zenon
  <2>2. mac = [i \in 1..RecordTagLen |-> <<"tag", auth \o data, i>>]
    BY DEF mac, Records!Mac
  <2>3. DOMAIN SubSeq(rest, len + 1, Len(rest)) = 1..RecordTagLen
    BY <1>5, <1>6, LenProperties
  <2>4. SubSeq(rest, len + 1, Len(rest)) =
            [i \in 1..RecordTagLen |-> SubSeq(rest, len + 1, Len(rest))[i]]
    BY <1>5, <1>6, <2>3
  <2> QED
    BY <2>1, <2>2, <2>4
<1>9. Records!Opened(auth, W, PadSize(data)) = [code |-> "0", data |-> data]
  <2>1. /\ Len(SubSeq(W, 1, Len(W) - PadSize(data))) - RecordTagLen = len
        /\ SubSeq(W, 1, Len(W) - PadSize(data)) = rest
    BY <1>5 DEF rest
  <2>2. ~(len < 0) /\ ~(RecordBlocksize > 1 /\ PadSize(data) = 0)
    BY <1>1, <1>2
  <2> QED
    BY <1>7, <1>8, <2>1, <2>2, Zenon DEF Records!Opened, mac
<1>10. CASE RecordBlocksize = 1
  <2>1. PadSize(data) = 0
    BY <1>10 DEF PadSize
  <2> QED
    BY <1>9, <1>10, <2>1 DEF Records!TlsDecrypt, W
<1>11. CASE RecordBlocksize # 1
  <2>0. Records!TlsDecrypt(auth, wired) =
          {Records!Opened(auth, W, Records!PadLength(W, n)) :
              n \in {v \in 0..255 : Records!IsValue(W[Len(W)], v)}}
    BY <1>11, SMT DEF W, Records!TlsDecrypt, Records!Last
  <2>a. PICK n \in {v \in 0..255 : Records!IsValue(W[Len(W)], v)} :
          out = Records!Opened(auth, W, Records!PadLength(W, n))
    BY <2>0, Zenon
  <2>1. /\ n \in 0..255 /\ Records!IsValue(W[Len(W)], n)
        /\ out = Records!Opened(auth, W, Records!PadLength(W, n))
    BY <2>a, Zenon
  <2>2. W[Len(W)] = <<PadSize(data) - 1>>
    <3>1. PadSize(data) \in 1..PadSize(data)
      BY <1>1, <1>2, <1>11
    <3> QED
      BY <1>1, <3>1
  <2>3. n = PadSize(data) - 1
    <3>1. Len(<<PadSize(data) - 1>>) = 1 /\ <<PadSize(data) - 1>>[1] = PadSize(data) - 1
      OBVIOUS
    <3> QED
      BY <2>1, <2>2, <3>1 DEF Records!IsValue
  <2>4. n + 1 <= Len(W) /\ n + 1 = PadSize(data)
    <3>1. Len(W) = len + RecordTagLen + PadSize(data)
      BY <1>1, Zenon
    <3>2. PICK l \in Nat, k \in Nat, p \in Nat :
            l = len /\ k = RecordTagLen /\ p = PadSize(data)
      BY <1>2, Zenon
    <3>3. Len(W) = l + k + p /\ n = p - 1
      BY <2>3, <3>1, <3>2, Zenon
    <3>4. n + 1 <= l + k + p /\ n + 1 = p
      BY <3>3
    <3> QED
      BY <3>2, <3>3, <3>4, Zenon
  <2>5. ASSUME NEW i \in (Len(W) - n)..(Len(W) - 1) PROVE Records!IsValue(W[i], n)
    <3>1. /\ i - (len + RecordTagLen) \in 1..PadSize(data)
          /\ i = len + RecordTagLen + (i - (len + RecordTagLen))
      <4>1. len \in Nat /\ RecordTagLen \in Nat /\ PadSize(data) = n + 1 /\ n \in Nat
        BY <1>2, <2>4
      <4>2. Len(W) = len + RecordTagLen + n + 1
        <5>1. Len(W) = len + RecordTagLen + PadSize(data)
          BY <1>1
        <5> QED
          BY <4>1, <5>1
      <4> QED
        BY <2>5, <4>1, <4>2
    <3>2. W[i] = <<n>>
      BY <1>1, <2>3, <3>1, Zenon
    <3> QED
      BY <3>2, SMT DEF Records!IsValue
  <2>6. Records!PadLength(W, n) = n + 1
    BY <2>4, <2>5 DEF Records!PadLength
  <2> QED
    BY <1>9, <2>1, <2>4, <2>6, Zenon
<1> QED
  BY <1>10, <1>11

-------------------------------------------------------------------------------
(***************************************************************************)
(* What may arrive of the encrypted bytes W: one of them changed, or       *)
(* blocks of them missing at the end.                                      *)
(***************************************************************************)
Carried(w, S, W) ==
    /\ w \in Seq({<<"enc", b>> : b \in S} \cup {<<"bad", n>> : n \in Values})
    /\ Len(w) = Len(W) \/ Len(w) + RecordBlocksize <= Len(W)
    /\ \A i \in 1..Len(w) : w[i] = <<"enc", W[i]>> \/ \E n \in Values : w[i] = <<"bad", n>>

LEMMA EncryptedIsCarried ==
  ASSUME NEW S, NEW W \in Seq(S)
  PROVE  Carried(Records!Encrypt(W), S, W)
<1>1. /\ Len(Records!Encrypt(W)) = Len(W)
      /\ Records!Encrypt(W) \in Seq({<<"enc", b>> : b \in S})
      /\ \A i \in 1..Len(W) : Records!Encrypt(W)[i] = <<"enc", W[i]>>
  BY DecryptOfEncrypt, Zenon
<1>2. Records!Encrypt(W) \in Seq({<<"enc", b>> : b \in S} \cup {<<"bad", n>> : n \in Values})
  BY <1>1
<1> QED
  BY <1>1, <1>2 DEF Carried

LEMMA ChangedIsCarried ==
  ASSUME NEW S, NEW W \in Seq(S), NEW w, Carried(w, S, W),
         NEW i \in DOMAIN w, NEW n \in Values
  PROVE  Carried([w EXCEPT ![i] = <<"bad", n>>], S, W)
<1> DEFINE B == {<<"enc", b>> : b \in S} \cup {<<"bad", v>> : v \in Values}
           x == [w EXCEPT ![i] = <<"bad", n>>]
<1>1. w \in Seq(B) /\ <<"bad", n>> \in B
  BY DEF Carried
<1> HIDE DEF B
<1>2. Len(w) \in Nat /\ DOMAIN w = 1..Len(w) /\ w \in [1..Len(w) -> B]
  BY <1>1, LenProperties
<1>3. x \in [1..Len(w) -> B] /\ \A j \in 1..Len(w) : x[j] = IF j = i THEN <<"bad", n>> ELSE w[j]
  BY <1>1, <1>2
<1> HIDE DEF x
<1>4. x \in Seq(B) /\ Len(x) = Len(w)
  <2>1. PICK m \in Nat : m = Len(w)
    BY <1>2, Zenon
  <2>2. x \in [1..m -> B]
    BY <1>3, <2>1
  <2>3. x \in Seq(B) /\ Len(x) = m
    BY <2>2
  <2> QED
    BY <2>1, <2>3, Zenon
<1> QED
  BY <1>3, <1>4 DEF Carried, B, x

LEMMA BlocksLost ==
  ASSUME NEW length \in Nat, NEW size \in Nat \ {0}, length # 0,
         NEW blocks \in 1..((length - 1) \div size)
  PROVE  /\ length - blocks * size \in 0..length
         /\ length - blocks * size + size <= length
<1> DEFINE most == (length - 1) \div size
<1>1. most \in Nat /\ most * size <= length - 1
  OBVIOUS
<1> HIDE DEF most
<1>2. blocks \in Nat /\ 1 <= blocks /\ blocks <= most
  BY <1>1 DEF most
<1>3. size <= blocks * size /\ blocks * size <= most * size /\ blocks * size \in Nat
  BY <1>1, <1>2
<1> QED
  BY <1>1, <1>3

LEMMA CutIsCarried ==
  ASSUME NEW S, NEW W \in Seq(S), Len(W) # 0,
         NEW blocks \in 1..((Len(W) - 1) \div RecordBlocksize)
  PROVE  Carried(SubSeq(Records!Encrypt(W), 1, Len(W) - blocks * RecordBlocksize), S, W)
<1> DEFINE w == Records!Encrypt(W)
           B == {<<"enc", b>> : b \in S} \cup {<<"bad", v>> : v \in Values}
           m == Len(W) - blocks * RecordBlocksize
<1>1. w \in Seq(B) /\ Len(w) = Len(W) /\ \A i \in 1..Len(W) : w[i] = <<"enc", W[i]>>
  BY DecryptOfEncrypt, EncryptedIsCarried DEF Carried
<1>2. Len(W) \in Nat /\ RecordBlocksize \in Nat \ {0}
  BY RecordSizesAssumption, LenProperties
<1>3. m \in 0..Len(W) /\ m + RecordBlocksize <= Len(W)
  BY <1>2, BlocksLost
<1> HIDE DEF w, B, m
<1>4. /\ SubSeq(w, 1, m) \in Seq(B) /\ Len(SubSeq(w, 1, m)) = m
      /\ \A i \in 1..m : SubSeq(w, 1, m)[i] = w[i]
  BY <1>1, <1>3, SubSeqParts
<1>5. \A i \in 1..m : i \in 1..Len(W)
  BY <1>2, <1>3
<1>6. \A i \in 1..m : SubSeq(w, 1, m)[i] = <<"enc", W[i]>>
  BY <1>1, <1>4, <1>5
<1>7. Carried(SubSeq(w, 1, m), S, W)
  BY <1>3, <1>4, <1>6 DEF Carried, B
<1> QED
  BY <1>7 DEF w, m

\* A byte that was changed decrypts to a byte; the others to what they were.
LEMMA CarriedIsReceived ==
  ASSUME NEW auth \in Seq(DataBytes), NEW data \in Seq(DataBytes), NEW w,
         Carried(w, RecordBytes(auth, data), Whole(auth, data))
  PROVE  Received(Records!Decrypt(w), auth, data)
<1> DEFINE S == RecordBytes(auth, data)
           W == Whole(auth, data)
           r == Records!Decrypt(w)
<1>1. Len(w) \in Nat /\ DOMAIN w = 1..Len(w)
  BY LenProperties DEF Carried
<1>2. W \in Seq(S) /\ Len(W) \in Nat /\ DOMAIN W = 1..Len(W)
  BY WholeRecord, LenProperties
<1>3. Len(w) <= Len(W)
  <2>1. Len(w) = Len(W) \/ Len(w) + RecordBlocksize <= Len(W)
    BY DEF Carried
  <2>2. RecordBlocksize \in Nat
    BY RecordSizesAssumption
  <2>3. Len(w) \in Nat /\ Len(W) \in Nat
    BY <1>1, <1>2
  <2> HIDE DEF W
  <2> QED
    BY <2>1, <2>2, <2>3
<1>4. \A n \in Values : <<n>> \in S
  BY DEF RecordBytes, DataBytes, Records!Byte
<1>5. \A i \in 1..Len(w) : r[i] = Records!DecryptByte(w[i])
  BY <1>1 DEF Records!Decrypt
<1> HIDE DEF S, W, r
<1>6. \A i \in 1..Len(w) : W[i] \in S
  BY <1>1, <1>2, <1>3
<1>7. \A i \in 1..Len(w) : r[i] \in S /\ (r[i] = W[i] \/ \E n : r[i] = <<n>>)
  <2> TAKE i \in 1..Len(w)
  <2>1. CASE w[i] = <<"enc", W[i]>>
    BY <1>5, <1>6, <2>1 DEF Records!DecryptByte
  <2>2. CASE \E n \in Values : w[i] = <<"bad", n>>
    <3>1. PICK n \in Values : w[i] = <<"bad", n>>
      BY <2>2
    <3>2. r[i] = <<n>>
      <4>1. <<"bad", n>>[1] # "enc" /\ <<"bad", n>>[2] = n
        OBVIOUS
      <4>2. Records!DecryptByte(<<"bad", n>>) = <<n>>
        BY <4>1 DEF Records!DecryptByte, Records!Byte
      <4> QED
        BY <1>5, <3>1, <4>2
    <3> QED
      BY <1>4, <3>2
  <2> QED
    BY <2>1, <2>2 DEF Carried, W
<1>8. r = [i \in 1..Len(w) |-> r[i]]
  BY <1>1 DEF r, Records!Decrypt
<1>9. r \in [1..Len(w) -> S]
  BY <1>7, <1>8
<1>10. r \in Seq(S) /\ Len(r) = Len(w)
  BY <1>1, <1>9
<1> QED
  BY <1>7, <1>10 DEF Received, Carried, r, S, W

\* The same for an SRTP packet: its tag, which does not travel with it, is of all
\* that does.
LEMMA SrtpAcceptsSent ==
  ASSUME NEW auth \in Seq(DataBytes), NEW data \in Seq(DataBytes), NEW w,
         Carried(w, DataBytes, data),
         Records!SrtpDecrypt(auth, w, Records!Mac(auth \o Records!Encrypt(data))).code = "0"
  PROVE  Records!SrtpDecrypt(auth, w, Records!Mac(auth \o Records!Encrypt(data))).data = data
<1> DEFINE enc == Records!Encrypt(data)
           B == {<<"enc", b>> : b \in DataBytes} \cup {<<"bad", n>> : n \in Values}
           S == DataBytes \cup B
<1>1. /\ Records!Mac(auth \o enc) = Records!Mac(auth \o w)
      /\ Records!SrtpDecrypt(auth, w, Records!Mac(auth \o enc)).data = Records!Decrypt(w)
  BY DEF Records!SrtpDecrypt
<1>2. Records!Decrypt(enc) = data /\ enc \in Seq(B)
  BY DecryptOfEncrypt, EncryptedIsCarried, Zenon DEF Carried
<1>3. w \in Seq(B)
  BY DEF Carried
<1> HIDE DEF enc, B
<1>4. auth \in Seq(S) /\ enc \in Seq(S) /\ w \in Seq(S)
  BY <1>2, <1>3
<1>5. 1 \in 1..RecordTagLen
  BY RecordSizesAssumption
<1>6. \A x : Records!Mac(x)[1] = <<"tag", x, 1>>
  BY <1>5 DEF Records!Mac
<1>7. auth \o enc = auth \o w
  <2>1. <<"tag", auth \o enc, 1>> = <<"tag", auth \o w, 1>>
    BY <1>1, <1>6, Zenon
  <2> QED
    BY <2>1, TagBytes
<1>8. enc = w
  BY <1>4, <1>7, SameEnds, Zenon
<1> QED
  BY <1>1, <1>2, <1>8 DEF enc

\* No SRTP packet is shorter than its tag: one that is cannot be decrypted
\* (authenc.c:495), though it can be encrypted.
TagFits == RecordTagLen <= MinSrtpLen

LEMMA SrtpOpensHonest ==
  ASSUME TagFits, NEW auth \in Seq(DataBytes), NEW data \in Seq(DataBytes),
         MinSrtpLen <= Len(data)
  PROVE  Records!SrtpDecrypt(auth, Records!Encrypt(data),
                             Records!Mac(auth \o Records!Encrypt(data)))
            = [code |-> "0", data |-> data]
<1>1. /\ Records!Decrypt(Records!Encrypt(data)) = data
      /\ Len(Records!Encrypt(data)) = Len(data)
  BY DecryptOfEncrypt
<1>2. RecordTagLen \in Nat /\ Len(data) \in Nat
  BY RecordSizesAssumption, LenProperties
<1>3. ~(RecordTagLen > Len(Records!Encrypt(data)))
  BY <1>1, <1>2, PacketsAssumption DEF TagFits
<1> QED
  BY <1>1, <1>3, Zenon DEF Records!SrtpDecrypt

-------------------------------------------------------------------------------
(***************************************************************************)
(* The invariant of records: what is on the wire, by the kind of record.   *)
(***************************************************************************)
TlsOnWire ==
    /\ Carried(wire, RecordBytes(sent.auth, sent.data), Whole(sent.auth, sent.data))
    /\ ~altered => wire = Records!Encrypt(Whole(sent.auth, sent.data))

SrtpOnWire ==
    /\ MinSrtpLen <= Len(sent.data)
    /\ Carried(wire, DataBytes, sent.data)
    /\ tag = Records!Mac(sent.auth \o Records!Encrypt(sent.data))
    /\ ~altered => wire = Records!Encrypt(sent.data)

RecordsInv ==
    /\ phase \in {"new", "sent", "received"}
    /\ phase = "new" => ~altered
    /\ phase = "sent" =>
          /\ sent.auth \in Seq(DataBytes) /\ sent.data \in Seq(DataBytes)
          /\ sent.kind = "tls" => TlsOnWire
          /\ sent.kind # "tls" => SrtpOnWire
    /\ phase = "received" => AcceptedIsSent /\ (TagFits => HonestIsAccepted)

LEMMA DataIsBytes ==
  ASSUME NEW len \in 0..MaxLen, NEW data \in Records!Data(len)
  PROVE  data \in Seq(DataBytes) /\ Len(data) = len
<1>1. len \in Nat
  BY RecordSizesAssumption
<1>2. data \in [1..len -> DataBytes]
  BY DEF Records!Data, DataBytes
<1> QED
  BY <1>1, <1>2

LEMMA EncryptOfWhole ==
  ASSUME NEW auth, NEW data
  PROVE  Records!TlsEncrypt(auth, data) = Records!Encrypt(Whole(auth, data))
  BY Zenon DEF Records!TlsEncrypt, Whole

LEMMA RecordsInvSend ==
  ASSUME RecordsInv, Records!Send
  PROVE  RecordsInv'
<1>1. ~altered /\ ~altered' /\ phase' = "sent"
  BY DEF RecordsInv, Records!Send
<1>2. PICK len \in 0..MaxLen, header \in Headers, kind \in {"tls", "srtp"} :
         /\ kind = "srtp" => len >= MinSrtpLen
         /\ \E data \in Records!Data(len), auth \in Records!Data(header) :
               /\ sent' = [kind |-> kind, auth |-> auth, data |-> data]
               /\ IF kind = "tls"
                  THEN wire' = Records!TlsEncrypt(auth, data) /\ tag' = <<>>
                  ELSE /\ wire' = Records!Encrypt(data)
                       /\ tag' = Records!Mac(auth \o Records!Encrypt(data))
  BY DEF Records!Send
<1>3. PICK data \in Records!Data(len), auth \in Records!Data(header) :
         /\ sent' = [kind |-> kind, auth |-> auth, data |-> data]
         /\ IF kind = "tls"
            THEN wire' = Records!TlsEncrypt(auth, data) /\ tag' = <<>>
            ELSE /\ wire' = Records!Encrypt(data)
                 /\ tag' = Records!Mac(auth \o Records!Encrypt(data))
  BY <1>2
<1>4. /\ data \in Seq(DataBytes) /\ Len(data) = len /\ auth \in Seq(DataBytes)
      /\ sent'.kind = kind /\ sent'.data = data /\ sent'.auth = auth
  <2>1. auth \in [1..header -> DataBytes] /\ header \in Nat
    BY PacketsAssumption DEF Records!Data, DataBytes
  <2> QED
    BY <1>3, <2>1, DataIsBytes
<1>5. CASE kind = "tls"
  <2>1. wire' = Records!Encrypt(Whole(auth, data))
    BY <1>3, <1>5, EncryptOfWhole
  <2>2. Whole(auth, data) \in Seq(RecordBytes(auth, data))
    BY <1>4, WholeRecord, SMT
  <2>3. Carried(wire', RecordBytes(auth, data), Whole(auth, data))
    BY <2>1, <2>2, EncryptedIsCarried
  <2>4. TlsOnWire'
    BY <1>4, <2>1, <2>3 DEF TlsOnWire
  <2> QED
    BY <1>1, <1>4, <1>5, <2>4 DEF RecordsInv
<1>6. CASE kind = "srtp"
  <2>1. /\ wire' = Records!Encrypt(data) /\ tag' = Records!Mac(auth \o Records!Encrypt(data))
        /\ len >= MinSrtpLen
    BY <1>2, <1>3, <1>6
  <2>2. Carried(wire', DataBytes, data)
    BY <1>4, <2>1, EncryptedIsCarried
  <2>3. MinSrtpLen <= Len(data)
    BY <1>4, <2>1, PacketsAssumption
  <2>4. SrtpOnWire'
    BY <1>4, <2>1, <2>2, <2>3 DEF SrtpOnWire
  <2> QED
    BY <1>1, <1>4, <1>6, <2>4 DEF RecordsInv
<1> QED
  BY <1>5, <1>6

LEMMA RecordsInvAlter ==
  ASSUME RecordsInv, Records!Alter
  PROVE  RecordsInv'
<1> DEFINE W == IF sent.kind = "tls" THEN Whole(sent.auth, sent.data) ELSE sent.data
           S == IF sent.kind = "tls" THEN RecordBytes(sent.auth, sent.data) ELSE DataBytes
<1>1. /\ phase = "sent" /\ ~altered /\ altered' /\ wire # <<>>
      /\ UNCHANGED <<phase, sent, tag>>
      /\ \/ \E i \in DOMAIN wire, n \in Values : wire' = [wire EXCEPT ![i] = <<"bad", n>>]
         \/ /\ sent.kind = "tls"
            /\ \E blocks \in 1..((Len(wire) - 1) \div RecordBlocksize) :
                  wire' = SubSeq(wire, 1, Len(wire) - blocks * RecordBlocksize)
  BY DEF Records!Alter
<1>2. /\ W \in Seq(S) /\ wire = Records!Encrypt(W) /\ Carried(wire, S, W) /\ Len(wire) = Len(W)
  <2>1. CASE sent.kind = "tls"
    <3>1. /\ sent.auth \in Seq(DataBytes) /\ sent.data \in Seq(DataBytes)
          /\ wire = Records!Encrypt(W) /\ Carried(wire, S, W)
      BY <1>1, <2>1 DEF RecordsInv, TlsOnWire
    <3>2. W \in Seq(S)
      BY <2>1, <3>1, WholeRecord
    <3> QED
      BY <3>1, <3>2, DecryptOfEncrypt, Zenon
  <2>2. CASE sent.kind # "tls"
    BY <1>1, <2>2, DecryptOfEncrypt DEF RecordsInv, SrtpOnWire
  <2> QED
    BY <2>1, <2>2
<1> HIDE DEF W, S
<1>3. Carried(wire', S, W)
  <2>1. CASE \E i \in DOMAIN wire, n \in Values : wire' = [wire EXCEPT ![i] = <<"bad", n>>]
    <3>1. PICK i \in DOMAIN wire, n \in Values : wire' = [wire EXCEPT ![i] = <<"bad", n>>]
      BY <2>1
    <3>2. Carried([wire EXCEPT ![i] = <<"bad", n>>], S, W)
      BY <1>2, ChangedIsCarried
    <3> QED
      BY <3>1, <3>2
  <2>2. CASE \E blocks \in 1..((Len(wire) - 1) \div RecordBlocksize) :
                wire' = SubSeq(wire, 1, Len(wire) - blocks * RecordBlocksize)
    <3>1. Len(W) # 0
      <4>1. Len(W) = 0 => (Len(wire) - 1) \div RecordBlocksize < 1
        BY <1>2, RecordSizesAssumption
      <4> QED
        BY <1>2, <2>2, <4>1, RecordSizesAssumption
    <3> QED
      BY <1>2, <2>2, <3>1, CutIsCarried
  <2> QED
    BY <1>1, <2>1, <2>2
<1>4. CASE sent.kind = "tls"
  <2>1. TlsOnWire'
    BY <1>1, <1>3, <1>4 DEF TlsOnWire, S, W
  <2> QED
    BY <1>1, <1>4, <2>1 DEF RecordsInv
<1>5. CASE sent.kind # "tls"
  <2>1. SrtpOnWire'
    BY <1>1, <1>3, <1>5 DEF SrtpOnWire, S, W, RecordsInv
  <2> QED
    BY <1>1, <1>5, <2>1 DEF RecordsInv
<1> QED
  BY <1>4, <1>5

LEMMA RecordsInvReceive ==
  ASSUME RecordsInv, Records!Receive
  PROVE  RecordsInv'
<1>1. /\ phase = "sent" /\ phase' = "received" /\ UNCHANGED <<sent, wire, tag, altered>>
      /\ sent.auth \in Seq(DataBytes) /\ sent.data \in Seq(DataBytes)
  BY DEF RecordsInv, Records!Receive
<1> SUFFICES
      /\ result'.code = "0" =>
            /\ result'.data = sent.data
            /\ sent.kind = "tls" =>
                  Records!Decrypt(wire) = Records!Decrypt(Records!TlsEncrypt(sent.auth, sent.data))
      /\ TagFits /\ ~altered => result' = [code |-> "0", data |-> sent.data]
  BY <1>1 DEF RecordsInv, AcceptedIsSent, HonestIsAccepted, Records!AcceptedIsSent,
              Records!HonestIsAccepted
<1>2. CASE sent.kind = "tls"
  <2>1. result' \in Records!TlsDecrypt(sent.auth, wire)
    BY <1>2 DEF Records!Receive
  <2>2. TlsOnWire
    BY <1>1, <1>2 DEF RecordsInv
  <2>3. Records!Decrypt(Records!Encrypt(Whole(sent.auth, sent.data)))
            = Whole(sent.auth, sent.data)
    <3>1. Whole(sent.auth, sent.data) \in Seq(RecordBytes(sent.auth, sent.data))
      BY <1>1, WholeRecord
    <3> QED
      BY <3>1, DecryptOfEncrypt
  <2>4. Received(Records!Decrypt(wire), sent.auth, sent.data)
    BY <1>1, <2>2, CarriedIsReceived DEF TlsOnWire
  <2>5. result'.code = "0" =>
           result'.data = sent.data /\ Records!Decrypt(wire) = Whole(sent.auth, sent.data)
    BY <1>1, <2>1, <2>4, TlsAcceptsSent
  <2>6. ~altered => result' = [code |-> "0", data |-> sent.data]
    <3>1. ~altered => Records!Decrypt(wire) = Whole(sent.auth, sent.data)
      BY <2>2, <2>3 DEF TlsOnWire
    <3> QED
      BY <1>1, <2>1, <3>1, TlsOpensHonest
  <2> QED
    BY <2>3, <2>5, <2>6, EncryptOfWhole
<1>3. CASE sent.kind # "tls"
  <2>1. SrtpOnWire
    BY <1>1, <1>3 DEF RecordsInv
  <2>2. result' = Records!SrtpDecrypt(sent.auth, wire,
                                      Records!Mac(sent.auth \o Records!Encrypt(sent.data)))
    BY <1>3, <2>1 DEF Records!Receive, SrtpOnWire
  <2>3. result'.code = "0" => result'.data = sent.data
    BY <1>1, <2>1, <2>2, SrtpAcceptsSent DEF SrtpOnWire
  <2>4. TagFits /\ ~altered => result' = [code |-> "0", data |-> sent.data]
    BY <1>1, <2>1, <2>2, SrtpOpensHonest DEF SrtpOnWire
  <2> QED
    BY <1>3, <2>3, <2>4
<1> QED
  BY <1>2, <1>3

LEMMA RecordsInvInit ==
  ASSUME Records!Init
  PROVE  RecordsInv
  BY DEF Records!Init, RecordsInv

LEMMA RecordsInvNext ==
  ASSUME RecordsInv, [CallsNext]_callVars
  PROVE  RecordsInv'
<1>1. CASE Records!Next
  <2>1. CASE Records!Again
    BY <2>1 DEF Records!Again, RecordsInv
  <2> QED
    BY <1>1, <2>1, RecordsInvSend, RecordsInvAlter, RecordsInvReceive DEF Records!Next
<1>2. CASE UNCHANGED recordVars
  BY <1>2 DEF recordVars, RecordsInv, TlsOnWire, SrtpOnWire, AcceptedIsSent, HonestIsAccepted,
              Records!AcceptedIsSent, Records!HonestIsAccepted
<1> QED
  BY <1>1, <1>2 DEF CallsNext, callVars

\* A record on its way fits in what the caller had to provide for it.
LEMMA SentFits ==
  ASSUME RecordsInv, phase = "sent", sent.kind = "tls", ~altered
  PROVE  /\ Len(wire) % RecordBlocksize = 0
         /\ Len(wire) <= Len(sent.data) + RecordTagLen + RecordBlocksize
<1> DEFINE W == Whole(sent.auth, sent.data)
<1>1. /\ sent.auth \in Seq(DataBytes) /\ sent.data \in Seq(DataBytes)
      /\ wire = Records!Encrypt(W)
  BY DEF RecordsInv, TlsOnWire
<1>2. /\ W \in Seq(RecordBytes(sent.auth, sent.data))
      /\ Len(W) = Len(sent.data) + RecordTagLen + PadSize(sent.data)
      /\ PadSize(sent.data) \in 0..RecordBlocksize
      /\ RecordBlocksize > 1 =>
            (Len(sent.data) + RecordTagLen + PadSize(sent.data)) % RecordBlocksize = 0
  BY <1>1, WholeRecord
<1>3. Len(wire) = Len(W)
  BY <1>1, <1>2, DecryptOfEncrypt
<1>4. Len(sent.data) \in Nat /\ RecordTagLen \in Nat /\ RecordBlocksize \in Nat \ {0}
  BY <1>1, RecordSizesAssumption, LenProperties
<1> HIDE DEF W
<1>5. CASE RecordBlocksize > 1
  BY <1>2, <1>3, <1>4, <1>5
<1>6. CASE RecordBlocksize = 1
  BY <1>2, <1>3, <1>4, <1>6
<1> QED
  BY <1>4, <1>5, <1>6

\* What the receiver of a TLS record or an SRTP packet is given is what was sent,
\* whatever was changed or lost on the way, and with TLS to the last byte of the
\* padding, which no tag covers (verify_tls_record_pad looks at all of it).
THEOREM AcceptedIsAlwaysSent == CallsSpec => []AcceptedIsSent
<1>1. CallsInit => RecordsInv
  BY RecordsInvInit DEF CallsInit
<1>2. RecordsInv /\ [CallsNext]_callVars => RecordsInv'
  BY RecordsInvNext
<1>3. RecordsInv => AcceptedIsSent
  BY DEF RecordsInv, AcceptedIsSent, Records!AcceptedIsSent
<1> QED
  BY <1>1, <1>2, <1>3, PTL DEF CallsSpec

\* A record that nobody changed is opened, whatever its length and that of its
\* header, and it is whole blocks and fits where the caller has it put.
THEOREM HonestIsAlwaysAccepted ==
  ASSUME TagFits
  PROVE  CallsSpec => []HonestIsAccepted
<1>1. CallsInit => RecordsInv
  BY RecordsInvInit DEF CallsInit
<1>2. RecordsInv /\ [CallsNext]_callVars => RecordsInv'
  BY RecordsInvNext
<1>3. RecordsInv => HonestIsAccepted
  BY SentFits, TagFits DEF RecordsInv, HonestIsAccepted, Records!HonestIsAccepted
<1> QED
  BY <1>1, <1>2, <1>3, PTL DEF CallsSpec

-------------------------------------------------------------------------------
(***************************************************************************)
(* adjust_sg_array: doubling comes to the size that is needed.             *)
(***************************************************************************)
\* A law of arithmetic, of which the provers know no more than 2 ^ 0 = 1.
PowersDouble == \A k \in Nat : 2 ^ (k + 1) = 2 * 2 ^ k

\* Induction with a set in the place of a predicate.
LEMMA SetInduction ==
  ASSUME NEW S \in SUBSET Nat, 0 \in S, \A n \in S : n + 1 \in S
  PROVE  S = Nat
<1> SUFFICES ASSUME Nat \ S # {} PROVE FALSE
  OBVIOUS
<1>1. PICK m \in Nat \ S : \A k \in Nat \ S : ~(<<k, m>> \in OpToRel(<, Nat))
  BY WFMin, NatLessThanWellFounded
<1>2. m \in Nat /\ m \notin S /\ m # 0 /\ m - 1 \in Nat
  <2>1. m \in Nat /\ m \notin S /\ m # 0
    OBVIOUS
  <2> QED
    BY <2>1
<1>3. m - 1 \notin S
  <2>1. m - 1 \in S => (m - 1) + 1 \in S
    OBVIOUS
  <2>2. (m - 1) + 1 = m
    BY <1>2
  <2> QED
    BY <1>2, <2>1, <2>2
<1>4. <<m - 1, m>> \in OpToRel(<, Nat)
  BY <1>2 DEF OpToRel
<1> QED
  BY <1>1, <1>2, <1>3, <1>4

LEMMA LeastOf ==
  ASSUME NEW T \in SUBSET Nat, NEW n \in T
  PROVE  \E m \in 0..n : m \in T /\ (m = 0 \/ m - 1 \notin T)
<1>1. PICK m \in T : \A k \in T : ~(<<k, m>> \in OpToRel(<, Nat))
  BY WFMin, NatLessThanWellFounded
<1>2. \A k \in T : ~(k < m)
  BY <1>1 DEF OpToRel
<1>3. m \in Nat /\ n \in Nat
  OBVIOUS
<1>4. m <= n
  BY <1>2, <1>3
<1>5. m - 1 \notin T
  <2>1. m - 1 < m
    BY <1>3
  <2> QED
    BY <1>2, <2>1
<1> QED
  BY <1>3, <1>4, <1>5

LEMMA PowersGrow ==
  ASSUME NEW f \in [Nat -> Nat], f[0] = 1, \A k \in Nat : f[k + 1] = 2 * f[k]
  PROVE  \A k \in Nat : 1 <= f[k] /\ k <= f[k]
<1> DEFINE S == {k \in Nat : 1 <= f[k] /\ k <= f[k]}
<1>1. S \in SUBSET Nat /\ 0 \in S
  OBVIOUS
<1>2. ASSUME NEW k \in S PROVE k + 1 \in S
  <2>1. k \in Nat /\ k + 1 \in Nat /\ f[k] \in Nat /\ 1 <= f[k] /\ k <= f[k] /\ f[k + 1] = 2 * f[k]
    OBVIOUS
  <2> QED
    BY <2>1
<1> HIDE DEF S
<1>3. S = Nat
  BY <1>1, <1>2, SetInduction
<1> QED
  BY <1>3 DEF S

LEMMA DoubledHasRoom ==
  ASSUME PowersDouble, arraySize \in Nat \ {0}, NEW count \in Nat
  PROVE  /\ Doubled(count) \in Nat \ {0}
         /\ count <= Doubled(count) /\ arraySize <= Doubled(count)
<1> DEFINE f == [k \in Nat |-> 2 ^ k]
           T == {k \in Nat : arraySize * f[k] >= count}
<1>0. \A k \in Nat : 2 ^ k \in Nat
  <2> DEFINE S == {k \in Nat : 2 ^ k \in Nat}
  <2>1. S \in SUBSET Nat /\ 0 \in S
    <3>1. 2 ^ 0 \in Nat
      OBVIOUS
    <3> QED
      BY <3>1
  <2>2. ASSUME NEW k \in S PROVE k + 1 \in S
    <3>1. k \in Nat /\ k + 1 \in Nat /\ 2 ^ k \in Nat
      OBVIOUS
    <3>2. 2 ^ (k + 1) = 2 * 2 ^ k
      BY <3>1 DEF PowersDouble
    <3>3. \A n \in Nat : 2 * n \in Nat
      OBVIOUS
    <3> QED
      BY <3>1, <3>2, <3>3
  <2> HIDE DEF S
  <2>3. S = Nat
    BY <2>1, <2>2, SetInduction
  <2> QED
    BY <2>3 DEF S
<1>1. f \in [Nat -> Nat]
  BY <1>0, Zenon
<1>2. f[0] = 1
  OBVIOUS
<1>3. \A k \in Nat : f[k + 1] = 2 * f[k]
  BY DEF PowersDouble
<1>4. \A k \in Nat : 2 ^ k = f[k]
  OBVIOUS
<1> HIDE DEF f
<1>5. \A k \in Nat : f[k] \in Nat /\ 1 <= f[k] /\ k <= f[k]
  BY <1>1, <1>2, <1>3, PowersGrow
<1>6. \A k \in Nat : /\ arraySize * f[k] \in Nat
                      /\ f[k] <= arraySize * f[k] /\ arraySize <= arraySize * f[k]
  BY <1>5
<1>7. count \in T
  BY <1>5, <1>6
<1>8. PICK m \in 0..count : m \in T /\ (m = 0 \/ m - 1 \notin T)
  BY <1>7, LeastOf, Zenon
<1>9. /\ arraySize * f[m] >= count
      /\ m = 0 \/ arraySize * f[m - 1] < count
  <2>1. m = 0 \/ m - 1 \in Nat
    OBVIOUS
  <2> QED
    BY <1>6, <1>8, <2>1
<1>10. /\ arraySize * 2 ^ m >= count
       /\ m = 0 \/ arraySize * 2 ^ (m - 1) < count
  <2>1. m \in Nat /\ (m = 0 \/ m - 1 \in Nat)
    OBVIOUS
  <2> QED
    BY <1>4, <1>9, <2>1
<1> DEFINE c == CHOOSE k \in 0..count :
                   /\ arraySize * 2 ^ k >= count
                   /\ k = 0 \/ arraySize * 2 ^ (k - 1) < count
<1>11. c \in 0..count /\ arraySize * 2 ^ c >= count
  BY <1>10
<1>12. Doubled(count) = arraySize * 2 ^ c
  BY DEF Doubled
<1> HIDE DEF c
<1>13. c \in Nat
  BY <1>11
<1>14. 2 ^ c = f[c]
  BY <1>4, <1>13
<1> QED
  BY <1>5, <1>6, <1>11, <1>12, <1>13, <1>14

-------------------------------------------------------------------------------
(***************************************************************************)
(* Pages of a buffer                                                       *)
(***************************************************************************)
LEMMA PagesInOrder ==
  ASSUME NEW a \in Nat, NEW b \in Nat, a <= b
  PROVE  PageOf(a) \in Nat /\ PageOf(b) \in Nat /\ PageOf(a) <= PageOf(b)
<1> DEFINE q == a \div PageSize
           r == b \div PageSize
<1>1. PageSize \in Nat /\ PageSize > 0
  BY PageSizeAssumption
<1>2. /\ q \in Nat /\ q * PageSize <= a
      /\ r \in Nat /\ b < (r + 1) * PageSize
  BY <1>1
<1>3. q * PageSize < (r + 1) * PageSize
  <2>1. q * PageSize \in Nat /\ (r + 1) * PageSize \in Nat
    BY <1>1, <1>2
  <2> QED
    BY <1>2, <2>1
<1> HIDE DEF q, r
<1>4. q <= r
  <2>1. q >= r + 1 => q * PageSize >= (r + 1) * PageSize
    BY <1>1, <1>2
  <2>2. q * PageSize \in Nat /\ (r + 1) * PageSize \in Nat
    BY <1>1, <1>2
  <2> QED
    BY <1>2, <1>3, <2>1, <2>2
<1> QED
  BY <1>2, <1>4 DEF PageOf, q, r

LEMMA PagesCover ==
  ASSUME NEW addr \in Nat, NEW len \in Nat
  PROVE  /\ PageCount(addr, len) \in Nat
         /\ len # 0 => PageCount(addr, len) > 0
         /\ \A k \in 0..(len - 1) :
               PageOf(addr + k) - PageOf(addr) + 1 \in 1..PageCount(addr, len)
<1>1. CASE len = 0
  BY <1>1 DEF PageCount
<1>2. CASE len # 0
  <2>1. PageCount(addr, len) = PageOf(addr + len - 1) - PageOf(addr) + 1
    BY <1>2 DEF PageCount
  <2>2. addr + len - 1 \in Nat /\ addr <= addr + len - 1
    BY <1>2
  <2>3. /\ PageOf(addr) \in Nat /\ PageOf(addr + len - 1) \in Nat
        /\ PageOf(addr) <= PageOf(addr + len - 1)
    BY <2>2, PagesInOrder
  <2>4. ASSUME NEW k \in 0..(len - 1)
        PROVE  PageOf(addr + k) - PageOf(addr) + 1 \in 1..PageCount(addr, len)
    <3>1. addr + k \in Nat /\ addr <= addr + k /\ addr + k <= addr + len - 1
      BY <1>2
    <3>2. /\ PageOf(addr + k) \in Nat /\ PageOf(addr) <= PageOf(addr + k)
          /\ PageOf(addr + k) <= PageOf(addr + len - 1)
      BY <2>2, <3>1, PagesInOrder
    <3> QED
      BY <2>1, <2>3, <3>2
  <2> QED
    BY <2>1, <2>3, <2>4
<1> QED
  BY <1>1, <1>2

\* What an operation is asked for.
LEMMA CallIs ==
  ASSUME NEW c \in Calls
  PROVE  /\ c.src \in Nat /\ c.dst \in Nat /\ c.len \in Nat /\ c.diff \in 0..2
         /\ SrcLen(c) \in Nat /\ DstLen(c) \in Nat
         /\ AuthStart(c) \in Nat /\ AuthLen(c) \in Nat
         /\ c.src = NULL => SrcLen(c) = 0
         /\ c.dst = NULL => DstLen(c) = 0 /\ c.kind = "crypt"
         /\ c.kind = "crypt" => c.src # NULL /\ SrcLen(c) # 0
         /\ c.kind \in {"tls", "srtp", "aead in place"} => c.src = c.dst
<1>1. /\ c.src \in Starts /\ c.dst \in Starts /\ c.len \in Lengths /\ c.diff \in 0..2
      /\ c.src = NULL => c.len = 0
      /\ c.dst = NULL => c.kind = "crypt"
      /\ c.kind \in {"crypt", "srtp"} => c.len > 0
      /\ c.kind \in {"tls", "srtp", "aead in place"} => c.src = c.dst
      /\ c.diff > 0 => c.kind = "srtp" /\ c.src > c.diff
  BY DEF Calls
<1>2. c.src \in Nat /\ c.dst \in Nat /\ c.len \in Nat
  BY <1>1, BuffersAssumption
<1>3. SrcLen(c) \in Nat /\ DstLen(c) \in Nat
  <2>1. SrcLen(c) \in {0, c.len}
    BY Zenon DEF SrcLen
  <2>2. DstLen(c) \in {0, c.len + (Blocksize + TagLen), c.len + TagLen, c.len + 0}
    BY Zenon DEF DstLen
  <2>3. /\ c.len \in Nat /\ c.len + (Blocksize + TagLen) \in Nat
        /\ c.len + TagLen \in Nat /\ c.len + 0 \in Nat
    BY <1>2, BuffersAssumption
  <2> QED
    BY <2>1, <2>2, <2>3
<1>4. AuthStart(c) \in Nat /\ AuthLen(c) \in Nat
  <2>0. c.diff \in 0..2 /\ (c.diff > 0 => c.src > c.diff)
    BY <1>1, Zenon
  <2>1. c.diff = 0 \/ c.src > c.diff
    BY <2>0
  <2>2. c.diff \in Nat
    BY <2>0
  <2>3. c.src - c.diff \in Nat /\ c.len + c.diff \in Nat
    BY <1>2, <2>1, <2>2
  <2> QED
    BY <2>3, Zenon DEF AuthStart, AuthLen
<1>5. c.kind = "crypt" => c.src # NULL /\ SrcLen(c) # 0
  <2>1. c.kind = "crypt" => c.len # 0
    BY <1>1, <1>2
  <2> QED
    BY <1>1, <2>1 DEF SrcLen
<1> QED
  BY <1>1, <1>2, <1>3, <1>4, <1>5 DEF SrcLen, DstLen

LEMMA CountsAreNumbers ==
  ASSUME NEW c \in Calls
  PROVE  LET src == PageCount(c.src, SrcLen(c))
             dst == PageCount(c.dst, DstLen(c))
         IN  /\ src \in Nat /\ dst \in Nat /\ CountPages(c) \in Nat
             /\ c.kind = "tls" => CountPages(c) = dst
             /\ c.kind # "tls" /\ InPlace(c) => src <= CountPages(c) /\ dst <= CountPages(c)
             /\ c.kind # "tls" /\ InPlace(c) /\ src = 0 /\ dst = 0 => CountPages(c) = 0
             /\ c.kind # "tls" /\ ~InPlace(c) => CountPages(c) = src + dst
             /\ (SrcLen(c) = 0 <=> src = 0) /\ (DstLen(c) = 0 <=> dst = 0)
<1>1. /\ PageCount(c.src, SrcLen(c)) \in Nat /\ PageCount(c.dst, DstLen(c)) \in Nat
      /\ SrcLen(c) = 0 <=> PageCount(c.src, SrcLen(c)) = 0
      /\ DstLen(c) = 0 <=> PageCount(c.dst, DstLen(c)) = 0
  <2>1. /\ c.src \in Nat /\ SrcLen(c) \in Nat
        /\ c.dst \in Nat /\ DstLen(c) \in Nat
    BY CallIs
  <2>2. \A a \in Nat, n \in Nat :
           PageCount(a, n) \in Nat /\ (n = 0 <=> PageCount(a, n) = 0)
    <3> TAKE a \in Nat, n \in Nat
    <3>1. PageCount(a, n) \in Nat /\ (n # 0 => PageCount(a, n) > 0)
      BY PagesCover
    <3>2. n = 0 => PageCount(a, n) = 0
      BY DEF PageCount
    <3> QED
      BY <3>1, <3>2
  <2> QED
    BY <2>1, <2>2
<1> QED
  BY <1>1 DEF CountPages

-------------------------------------------------------------------------------
(***************************************************************************)
(* Pinning                                                                 *)
(***************************************************************************)
\* The references the driver has are those of the first n places.
Held(n) == \A p \in Pages : refs[p] = RefsIn(n, p)
NoneHeld == \A p \in Pages : refs[p] = 0

LEMMA NoPlaceNoReference ==
  ASSUME NEW p
  PROVE  RefsIn(0, p) = 0
<1>1. {i \in 1..0 : slots[i] = p} = {}
  OBVIOUS
<1> QED
  BY <1>1, FS_EmptySet DEF RefsIn

LEMMA PlacesAreFinite ==
  ASSUME NEW n \in Nat, NEW p
  PROVE  IsFiniteSet({i \in 1..n : slots[i] = p})
<1>1. IsFiniteSet(1..n)
  BY FS_Interval
<1>2. {i \in 1..n : slots[i] = p} \subseteq 1..n
  OBVIOUS
<1> QED
  BY <1>1, <1>2, FS_Subset

LEMMA RefsAreNumbers ==
  ASSUME NEW n \in Nat, NEW p
  PROVE  RefsIn(n, p) \in Nat
<1>1. IsFiniteSet({i \in 1..n : slots[i] = p})
  BY PlacesAreFinite
<1> QED
  BY <1>1, FS_CardinalityType DEF RefsIn

\* Pinned pages are put in the places after base.
LEMMA PinnedPlaces ==
  ASSUME NEW length \in Nat, DOMAIN slots = 1..length,
         NEW addr \in Nat, NEW count \in Nat, NEW base \in Nat, base + count <= length,
         PinPages(addr, count, base)
  PROVE  /\ DOMAIN slots' = 1..length
         /\ \A i \in 1..base : slots'[i] = slots[i]
         /\ \A j \in 1..count : slots'[base + j] = PageOf(addr) + j - 1
<1>1. PageOf(addr) \in Nat
  BY PagesInOrder
<1>2. /\ DOMAIN slots' = 1..length
      /\ \A i \in 1..length : slots'[i] = IF i \in (base + 1)..(base + count)
                                         THEN PageOf(addr) + i - base - 1 ELSE slots[i]
  BY DEF PinPages
<1>3. \A i \in 1..base : slots'[i] = slots[i]
  <2> TAKE i \in 1..base
  <2>1. i \in 1..length /\ i \notin (base + 1)..(base + count)
    OBVIOUS
  <2> QED
    BY <1>2, <2>1
<1>4. \A j \in 1..count : slots'[base + j] = PageOf(addr) + j - 1
  <2> TAKE j \in 1..count
  <2>1. base + j \in 1..length /\ base + j \in (base + 1)..(base + count)
    OBVIOUS
  <2>2. PageOf(addr) + (base + j) - base - 1 = PageOf(addr) + j - 1
    BY <1>1
  <2> QED
    BY <1>2, <2>1, <2>2
<1> QED
  BY <1>2, <1>3, <1>4

\* The pages that are pinned get a reference for each place they are put in.
LEMMA PinnedRefs ==
  ASSUME NEW length \in Nat, DOMAIN slots = 1..length,
         NEW addr \in Nat, NEW count \in Nat, NEW base \in Nat, base + count <= length,
         PinPages(addr, count, base),
         Held(base)
  PROVE  Held(base + count)'
<1>0. \A p \in Pages : refs[p] = RefsIn(base, p)
  BY DEF Held
<1>1. PageOf(addr) \in Nat
  BY PagesInOrder
<1>2. \A p \in Pages : refs'[p] = IF p \in PageOf(addr)..(PageOf(addr) + count - 1)
                                  THEN refs[p] + 1 ELSE refs[p]
  BY DEF PinPages
<1>3. \A i \in 1..base : slots'[i] = slots[i]
  BY PinnedPlaces
<1>4. \A j \in 1..count : slots'[base + j] = PageOf(addr) + j - 1
  BY PinnedPlaces
<1>5. ASSUME NEW p \in Pages
      PROVE  refs'[p] = Cardinality({i \in 1..(base + count) : slots'[i] = p})
  <2> DEFINE before == {i \in 1..base : slots[i] = p}
             now == {i \in 1..(base + count) : slots'[i] = p}
             place == base + 1 + (p - PageOf(addr))
  <2>1. p \in Nat /\ IsFiniteSet(before) /\ refs[p] = Cardinality(before)
    BY <1>0, PagesAssumption, PlacesAreFinite DEF RefsIn
  <2>2. CASE p \in PageOf(addr)..(PageOf(addr) + count - 1)
    <3>1. place \in (base + 1)..(base + count) /\ place \in 1..(base + count) /\ place \notin 1..base
      BY <1>1, <2>1, <2>2
    <3>2. p - PageOf(addr) + 1 \in 1..count /\ base + (p - PageOf(addr) + 1) = place
      BY <1>1, <2>1, <2>2
    <3>3. slots'[place] = p
      <4>1. slots'[place] = PageOf(addr) + (p - PageOf(addr) + 1) - 1
        BY <1>4, <3>2
      <4> QED
        BY <1>1, <2>1, <4>1
    <3>4. \A i \in (base + 1)..(base + count) : slots'[i] = p => i = place
      <4> TAKE i \in (base + 1)..(base + count)
      <4>1. i - base \in 1..count /\ base + (i - base) = i
        OBVIOUS
      <4>2. slots'[i] = PageOf(addr) + (i - base) - 1
        BY <1>4, <4>1
      <4> QED
        BY <1>1, <2>1, <4>2
    <3> HIDE DEF place
    <3>5. now = before \cup {place}
      <4>1. \A i \in 1..(base + count) : i \in 1..base \/ i \in (base + 1)..(base + count)
        OBVIOUS
      <4>2. \A i \in 1..base : i \in 1..(base + count)
        OBVIOUS
      <4> QED
        BY <1>3, <3>1, <3>3, <3>4, <4>1, <4>2
    <3>6. place \notin before
      BY <3>1
    <3>7. Cardinality(now) = Cardinality(before) + 1
      BY <2>1, <3>5, <3>6, FS_AddElement, Zenon
    <3> QED
      BY <1>2, <2>1, <2>2, <3>7
  <2>3. CASE p \notin PageOf(addr)..(PageOf(addr) + count - 1)
    <3>1. \A i \in (base + 1)..(base + count) : slots'[i] # p
      <4> TAKE i \in (base + 1)..(base + count)
      <4>1. i - base \in 1..count /\ base + (i - base) = i
        OBVIOUS
      <4>2. slots'[i] = PageOf(addr) + (i - base) - 1
        BY <1>4, <4>1
      <4> QED
        BY <1>1, <2>1, <2>3, <4>1, <4>2
    <3>2. now = before
      <4>1. \A i \in 1..(base + count) : i \in 1..base \/ i \in (base + 1)..(base + count)
        OBVIOUS
      <4>2. \A i \in 1..base : i \in 1..(base + count)
        OBVIOUS
      <4> QED
        BY <1>3, <3>1, <4>1, <4>2
    <3> QED
      BY <1>2, <2>1, <2>3, <3>2, Zenon
  <2> QED
    BY <2>2, <2>3
<1> QED
  BY <1>5 DEF Held, RefsIn

-------------------------------------------------------------------------------
(***************************************************************************)
(* The invariant                                                           *)
(***************************************************************************)
\* As many places as the session believes there are.
ArrayInv ==
    /\ arraySize \in Nat \ {0}
    /\ \E n \in Nat : arraySize <= n /\ DOMAIN slots = 1..n

CountsInv ==
    /\ used = CountPages(call) /\ used <= arraySize
    /\ readonly = IF call.kind = "tls" \/ InPlace(call) THEN 0
                  ELSE PageCount(call.src, SrcLen(call))

\* The bytes that are written are in the pages that will be flushed.
WrittenInv ==
    ~NothingToPin(call) =>
        \A k \in 0..(DstLen(call) - 1) :
            \E i \in (readonly + 1)..used : slots[i] = PageOf(call.dst + k)

PagesInv ==
    /\ ArrayInv
    /\ pc \in {"idle", "size", "pin", "pin dst", "crypt", "release"}
    /\ astray \in Nat
    /\ pc # "idle" => call \in Calls /\ (NothingToPin(call) => astray > 0)
    /\ pc \in {"idle", "size", "pin"} /\ astray = 0 => NoneHeld
    /\ pc = "pin" /\ call.kind = "srtp" =>
          2 * PageCount(AuthStart(call), AuthLen(call)) <= arraySize
    /\ pc = "pin" /\ call.kind # "srtp" => CountsInv
    /\ pc = "pin dst" =>
          /\ call.kind \notin {"tls", "srtp"} /\ ~InPlace(call)
          /\ CountsInv
          /\ astray = 0 => Held(readonly)
    /\ pc \in {"crypt", "release"} =>
          /\ used \in Nat /\ readonly \in Nat
          /\ astray = 0 => Held(used)
          /\ WrittenInv

LEMMA NoneHeldIs ==
  NoneHeld <=> Held(0)
  BY NoPlaceNoReference DEF NoneHeld, Held

\* __get_userbuf succeeds.
LEMMA PinnedStep ==
  ASSUME ArrayInv, UNCHANGED arraySize, NEW addr \in Nat, NEW len \in Nat,
         NEW count \in Nat, NEW base \in Nat, base + count <= arraySize,
         Pinned(addr, len, count, base)
  PROVE  /\ ArrayInv'
         /\ \A i \in 1..base : slots'[i] = slots[i]
         /\ addr # NULL /\ len # 0 =>
               \A j \in 1..count : slots'[base + j] = PageOf(addr) + j - 1
         /\ (addr = NULL \/ len = 0 => count = 0) /\ Held(base) => Held(base + count)'
<1>1. PICK n \in Nat : arraySize <= n /\ DOMAIN slots = 1..n
  BY DEF ArrayInv
<1>2. arraySize \in Nat /\ base + count <= n
  BY <1>1 DEF ArrayInv
<1>3. CASE addr = NULL \/ len = 0 \/ count = 0
  <2>1. UNCHANGED <<slots, refs>>
    BY <1>3 DEF Pinned
  <2>2. ArrayInv'
    BY <2>1 DEF ArrayInv
  <2>3. addr # NULL /\ len # 0 => \A j \in 1..count : FALSE
    BY <1>3
  <2>4. count = 0 => base + count = base
    OBVIOUS
  <2>5. (addr = NULL \/ len = 0 => count = 0) => base + count = base
    BY <1>3, <2>4
  <2> QED
    BY <2>1, <2>2, <2>3, <2>5 DEF Held, RefsIn
<1>4. CASE ~(addr = NULL \/ len = 0 \/ count = 0)
  <2>1. PinPages(addr, count, base)
    BY <1>4, Zenon DEF Pinned
  <2>2. /\ DOMAIN slots' = 1..n
        /\ \A i \in 1..base : slots'[i] = slots[i]
        /\ \A j \in 1..count : slots'[base + j] = PageOf(addr) + j - 1
    BY <1>1, <1>2, <2>1, PinnedPlaces
  <2>3. Held(base) => Held(base + count)'
    BY <1>1, <1>2, <2>1, PinnedRefs
  <2>4. ArrayInv'
    BY <1>1, <2>2 DEF ArrayInv
  <2> QED
    BY <2>2, <2>3, <2>4
<1> QED
  BY <1>3, <1>4

-------------------------------------------------------------------------------
(***************************************************************************)
(* Every step keeps it                                                     *)
(***************************************************************************)
LEMMA AdjustStep ==
  ASSUME PowersDouble, ArrayInv, NEW count \in Nat, AdjustSgArray(count)
  PROVE  /\ ArrayInv'
         /\ pc' \in {"pin", "idle"}
         /\ pc' = "pin" => count <= arraySize' /\ UNCHANGED call
<1>1. /\ Doubled(count) \in Nat \ {0} /\ count <= Doubled(count)
      /\ arraySize \in Nat /\ arraySize <= Doubled(count)
  BY DoubledHasRoom DEF ArrayInv
<1>2. DOMAIN Grown(Doubled(count)) = 1..Doubled(count)
  BY DEF Grown
<1>4. CASE /\ arraySize' = Doubled(count) /\ slots' = Grown(Doubled(count))
           /\ pc' = "pin" /\ UNCHANGED call
  <2>1. arraySize' <= Doubled(count) /\ DOMAIN slots' = 1..Doubled(count)
    BY <1>1, <1>2, <1>4
  <2> QED
    BY <1>1, <1>4, <2>1 DEF ArrayInv
<1>5. CASE Return /\ UNCHANGED array
  BY <1>5 DEF Return, array, ArrayInv
<1>6. CASE Return /\ slots' = Grown(Doubled(count)) /\ UNCHANGED arraySize
  <2>1. arraySize' <= Doubled(count) /\ DOMAIN slots' = 1..Doubled(count)
    BY <1>1, <1>2, <1>6
  <2> QED
    BY <1>1, <1>6, <2>1 DEF ArrayInv, Return
<1> QED
  BY <1>4, <1>5, <1>6 DEF AdjustSgArray

LEMMA PagesInvBegin ==
  ASSUME PagesInv, Begin
  PROVE  PagesInv'
<1>1. /\ pc = "idle" /\ pc' = "size" /\ call' \in Calls
      /\ astray' = IF NothingToPin(call') THEN astray + 1 ELSE astray
      /\ UNCHANGED <<arraySize, slots, refs>>
  BY DEF Begin, array
<1>2. /\ astray \in Nat /\ astray' \in Nat
      /\ NothingToPin(call') => astray' > 0
      /\ astray' = 0 => astray = 0
  BY <1>1 DEF PagesInv
<1> QED
  BY <1>1, <1>2 DEF PagesInv, ArrayInv, NoneHeld

LEMMA PagesInvSize ==
  ASSUME PowersDouble, PagesInv, Size
  PROVE  PagesInv'
<1>1. /\ pc = "size" /\ call \in Calls /\ UNCHANGED <<refs, astray>>
      /\ ArrayInv /\ astray \in Nat
      /\ NothingToPin(call) => astray > 0
      /\ astray = 0 => NoneHeld
  BY DEF PagesInv, Size
<1>2. SUFFICES /\ ArrayInv' /\ pc' \in {"pin", "idle"}
               /\ pc' = "pin" =>
                     /\ call' = call
                     /\ call.kind = "srtp" =>
                           2 * PageCount(AuthStart(call), AuthLen(call)) <= arraySize'
                     /\ call.kind # "srtp" => CountsInv'
  BY <1>1, <1>2 DEF PagesInv, NoneHeld
<1>3. CASE call.kind = "srtp"
  <2> DEFINE count == 2 * PageCount(AuthStart(call), AuthLen(call))
  <2>1. AdjustSgArray(count)
    BY <1>3 DEF Size
  <2>2. count \in Nat
    <3>1. PageCount(AuthStart(call), AuthLen(call)) \in Nat
      BY <1>1, CallIs, PagesCover
    <3> QED
      BY <3>1
  <2> HIDE DEF count
  <2>3. ArrayInv' /\ pc' \in {"pin", "idle"} /\ (pc' = "pin" => count <= arraySize' /\ call' = call)
    BY <1>1, <2>1, <2>2, AdjustStep
  <2> QED
    BY <1>3, <2>3 DEF count
<1>4. CASE call.kind # "srtp"
  <2>1. /\ used' = CountPages(call)
        /\ readonly' = IF call.kind = "tls" \/ InPlace(call) THEN 0
                       ELSE PageCount(call.src, SrcLen(call))
        /\ IF call.kind = "tls" \/ used' > arraySize
           THEN AdjustSgArray(used')
           ELSE pc' = "pin" /\ UNCHANGED <<call, array, lists>>
    BY <1>4 DEF Size
  <2>2. CountPages(call) \in Nat
    BY <1>1, CountsAreNumbers
  <2>3. ArrayInv' /\ pc' \in {"pin", "idle"} /\ (pc' = "pin" => used' <= arraySize' /\ call' = call)
    <3>1. CASE call.kind = "tls" \/ used' > arraySize
      BY <1>1, <2>1, <2>2, <3>1, AdjustStep
    <3>2. CASE ~(call.kind = "tls" \/ used' > arraySize)
      <4>1. pc' = "pin" /\ UNCHANGED <<call, arraySize, slots>>
        BY <2>1, <3>2 DEF array
      <4>2. used' <= arraySize
        BY <1>1, <2>1, <2>2, <3>2 DEF ArrayInv
      <4> QED
        BY <1>1, <4>1, <4>2 DEF ArrayInv
    <3> QED
      BY <3>1, <3>2
  <2>4. pc' = "pin" => CountsInv'
    BY <2>1, <2>3 DEF CountsInv
  <2> QED
    BY <1>4, <2>3, <2>4
<1> QED
  BY <1>3, <1>4

\* A list that could not be pinned: pages stay pinned, and nothing more is said
\* of references.
LEMMA PinFailsStep ==
  ASSUME PagesInv, UNCHANGED arraySize, NEW addr, NEW len, NEW count, NEW base,
         PinFails(addr, len, count, base), Return
  PROVE  PagesInv'
<1>1. /\ astray \in Nat /\ astray' = astray + 1 /\ DOMAIN slots' = DOMAIN slots
  BY DEF PagesInv, PinFails, PinPages
<1>2. astray' \in Nat /\ astray' # 0
  BY <1>1
<1> QED
  BY <1>1, <1>2 DEF PagesInv, ArrayInv, Return

\* In place and for TLS one list of all the pages, from its first one on, is
\* pinned; it covers what is written.
LEMMA PinOneStep ==
  ASSUME PagesInv, pc = "pin", call.kind # "srtp", UNCHANGED <<arraySize, used, readonly>>,
         NEW addr, NEW len,
         call.kind = "tls" \/ InPlace(call),
         IF call.kind = "tls" THEN addr = call.dst /\ len = DstLen(call)
                              ELSE addr = call.src /\ len = SrcLen(call),
         PinOne(addr, len)
  PROVE  PagesInv'
<1>1. /\ call \in Calls /\ ArrayInv /\ CountsInv /\ astray \in Nat
      /\ NothingToPin(call) => astray > 0
      /\ astray = 0 => NoneHeld
  BY DEF PagesInv
<1>2. /\ addr = call.dst /\ addr \in Nat /\ addr # NULL /\ len \in Nat
  BY <1>1, CallIs DEF InPlace
<1>3. /\ used \in Nat /\ used <= arraySize /\ readonly = 0
      /\ used = CountPages(call)
  BY <1>1, CountsAreNumbers DEF CountsInv
<1>4. /\ PageCount(call.dst, DstLen(call)) \in Nat
      /\ PageCount(call.dst, DstLen(call)) <= used
      /\ len = 0 /\ ~NothingToPin(call) => used = 0 /\ DstLen(call) = 0
  <2>1. CASE call.kind = "tls"
    BY <1>1, <1>3, <2>1, CountsAreNumbers
  <2>2. CASE call.kind # "tls"
    <3>1. /\ PageCount(call.dst, DstLen(call)) \in Nat
          /\ PageCount(call.dst, DstLen(call)) <= used
      BY <1>1, <1>3, <2>2, CountsAreNumbers
    <3>2. ASSUME len = 0, ~NothingToPin(call) PROVE used = 0 /\ DstLen(call) = 0
      <4>1. SrcLen(call) = 0
        BY <2>2, <3>2, Zenon
      <4>2. DstLen(call) \in Nat /\ call.kind # "crypt"
        BY <1>1, <4>1, CallIs
      <4>3. ~(DstLen(call) > 0)
        BY <2>2, <3>2, <4>1, <4>2 DEF NothingToPin, InPlace
      <4>4. DstLen(call) = 0
        BY <4>2, <4>3
      <4> QED
        BY <1>1, <1>3, <2>2, <4>1, <4>4, CountsAreNumbers
    <3> QED
      BY <3>1, <3>2
  <2> QED
    BY <2>1, <2>2
<1>5. CASE /\ Pinned(addr, len, used, 0)
           /\ pc' = "crypt" /\ UNCHANGED <<call, astray>>
  <2>1. 0 + used = used /\ 0 + used <= arraySize /\ \A j \in Nat : 0 + j = j
    BY <1>3
  <2>2. /\ ArrayInv'
        /\ len # 0 => \A j \in 1..used : slots'[0 + j] = PageOf(addr) + j - 1
        /\ (len = 0 => used = 0) /\ Held(0) => Held(0 + used)'
    BY <1>1, <1>2, <1>3, <1>5, <2>1, PinnedStep
  <2>3. astray = 0 => Held(used)'
    BY <1>1, <1>4, <2>1, <2>2, NoneHeldIs
  <2>4. ASSUME ~NothingToPin(call), NEW k \in 0..(DstLen(call) - 1)
        PROVE  \E i \in (readonly + 1)..used : slots'[i] = PageOf(call.dst + k)
    <3>1. call.dst \in Nat /\ DstLen(call) \in Nat /\ len # 0
      <4>1. call.dst \in Nat /\ DstLen(call) \in Nat
        BY <1>1, CallIs
      <4>2. len = 0 => DstLen(call) = 0
        BY <1>4, <2>4
      <4>3. DstLen(call) # 0
        BY <4>1
      <4> QED
        BY <4>1, <4>2, <4>3
    <3> DEFINE i == PageOf(call.dst + k) - PageOf(call.dst) + 1
    <3>2. i \in 1..PageCount(call.dst, DstLen(call))
      BY <3>1, PagesCover
    <3>3. PageOf(call.dst) \in Nat /\ PageOf(call.dst + k) \in Nat
      <4>1. call.dst + k \in Nat
        BY <3>1
      <4> QED
        BY <3>1, <4>1, PagesInOrder
    <3>4. PageOf(call.dst) + i - 1 = PageOf(call.dst + k)
      BY <3>3
    <3> HIDE DEF i
    <3>5. i \in 1..used /\ 0 + i = i /\ i \in (readonly + 1)..used
      BY <1>3, <1>4, <3>2
    <3> QED
      BY <1>2, <2>2, <3>1, <3>4, <3>5
  <2>5. WrittenInv' /\ used' \in Nat /\ readonly' \in Nat
    BY <1>3, <1>5, <2>4 DEF WrittenInv
  <2>6. (astray = 0 => Held(used))'
    BY <1>5, <2>3 DEF Held, RefsIn
  <2> QED
    BY <1>1, <1>5, <2>2, <2>5, <2>6 DEF PagesInv
<1>6. CASE PinFails(addr, len, used, 0) /\ Return
  BY <1>6, PinFailsStep
<1> QED
  BY <1>5, <1>6 DEF PinOne

LEMMA PinSourceStep ==
  ASSUME PagesInv, pc = "pin", call.kind \notin {"srtp", "tls"}, ~InPlace(call),
         UNCHANGED <<arraySize, used, readonly>>, PinSource
  PROVE  PagesInv'
<1>1. /\ call \in Calls /\ ArrayInv /\ CountsInv /\ astray \in Nat
      /\ NothingToPin(call) => astray > 0
      /\ astray = 0 => NoneHeld
  BY DEF PagesInv
<1>2. /\ call.src \in Nat /\ SrcLen(call) \in Nat /\ arraySize \in Nat
      /\ call.src = NULL \/ SrcLen(call) = 0 => readonly = 0
      /\ readonly \in Nat /\ 0 + readonly = readonly /\ readonly <= arraySize
  <2>1. /\ call.src \in Nat /\ SrcLen(call) \in Nat /\ (call.src = NULL => SrcLen(call) = 0)
    BY <1>1, CallIs
  <2>2. /\ readonly = PageCount(call.src, SrcLen(call)) /\ readonly \in Nat
        /\ SrcLen(call) = 0 => readonly = 0
    BY <1>1, CountsAreNumbers DEF CountsInv
  <2>3. used = readonly + PageCount(call.dst, DstLen(call)) /\ used <= arraySize
        /\ PageCount(call.dst, DstLen(call)) \in Nat
    BY <1>1, <2>2, CountsAreNumbers DEF CountsInv
  <2>4. arraySize \in Nat
    BY <1>1, SMT DEF ArrayInv
  <2> QED
    BY <2>1, <2>2, <2>3, <2>4
<1>3. CASE /\ Pinned(call.src, SrcLen(call), readonly, 0)
           /\ pc' = "pin dst" /\ UNCHANGED <<call, astray>>
  <2>0. PICK r \in Nat : r = readonly
    BY <1>2
  <2>1. ArrayInv' /\ (Held(0) => Held(0 + r)')
    <3>1. /\ ArrayInv /\ UNCHANGED arraySize /\ Pinned(call.src, SrcLen(call), r, 0)
          /\ call.src \in Nat /\ SrcLen(call) \in Nat
      BY <1>1, <1>2, <1>3, <2>0
    <3>2. /\ 0 + r <= arraySize
          /\ call.src = NULL \/ SrcLen(call) = 0 => r = 0
      BY <1>2, <2>0
    <3> QED
      BY <3>1, <3>2, PinnedStep
  <2>2. (astray = 0 => Held(readonly))'
    <3>0. 0 + r = r
      OBVIOUS
    <3>1. 0 + r = r /\ readonly' = r /\ astray' = astray
      BY <1>3, <2>0, <3>0, Zenon
    <3>2. astray = 0 => Held(r)'
      BY <1>1, <2>1, <3>1, NoneHeldIs
    <3> QED
      BY <3>1, <3>2 DEF Held, RefsIn
  <2>3. CountsInv'
    BY <1>1, <1>3 DEF CountsInv
  <2> QED
    BY <1>1, <1>3, <2>1, <2>2, <2>3 DEF PagesInv
<1>4. CASE PinFails(call.src, SrcLen(call), readonly, 0) /\ Return
  BY <1>4, PinFailsStep
<1> QED
  BY <1>3, <1>4 DEF PinSource

LEMMA PagesInvPin ==
  ASSUME PagesInv, Pin
  PROVE  PagesInv'
<1>1. /\ pc = "pin" /\ call.kind # "srtp" /\ UNCHANGED <<arraySize, used, readonly>>
      /\ IF call.kind = "tls" THEN PinOne(call.dst, DstLen(call))
         ELSE IF InPlace(call) THEN PinOne(call.src, SrcLen(call))
         ELSE PinSource
  BY DEF Pin
<1>2. CASE call.kind = "tls"
  BY <1>1, <1>2, PinOneStep
<1>3. CASE call.kind # "tls" /\ InPlace(call)
  BY <1>1, <1>3, PinOneStep
<1>4. CASE call.kind # "tls" /\ ~InPlace(call)
  BY <1>1, <1>4, PinSourceStep
<1> QED
  BY <1>2, <1>3, <1>4

LEMMA PagesInvPinSrtp ==
  ASSUME PagesInv, PinSrtp
  PROVE  PagesInv'
<1> DEFINE count == PageCount(AuthStart(call), AuthLen(call))
<1>1. /\ pc = "pin" /\ call.kind = "srtp" /\ UNCHANGED arraySize
      /\ \/ /\ PinPages(AuthStart(call), count, 0)
            /\ used' = count /\ readonly' = 0
            /\ pc' = "crypt" /\ UNCHANGED <<call, astray>>
         \/ PinFails(AuthStart(call), AuthLen(call), count, 0) /\ Return
  BY DEF PinSrtp
<1>2. /\ call \in Calls /\ ArrayInv /\ astray \in Nat /\ 2 * count <= arraySize
      /\ NothingToPin(call) => astray > 0
      /\ astray = 0 => NoneHeld
  BY <1>1 DEF PagesInv
<1>3. /\ AuthStart(call) \in Nat /\ AuthLen(call) \in Nat
      /\ AuthStart(call) = call.dst - call.diff /\ AuthLen(call) = call.len + call.diff
      /\ call.dst \in Nat /\ call.dst # NULL /\ call.diff \in Nat /\ call.len \in Nat
      /\ DstLen(call) = call.len
  <2>1. /\ AuthStart(call) \in Nat /\ AuthLen(call) \in Nat /\ call.src = call.dst
        /\ call.dst \in Nat /\ call.dst # NULL /\ call.diff \in 0..2 /\ call.len \in Nat
    BY <1>1, <1>2, CallIs
  <2>2. call.diff \in Nat
    BY <2>1
  <2>3. DstLen(call) = call.len + 0
    BY <1>1, <2>1 DEF DstLen
  <2> QED
    BY <2>1, <2>2, <2>3 DEF AuthStart, AuthLen
<1>4. count \in Nat
  BY <1>3, PagesCover
<1>5. CASE PinFails(AuthStart(call), AuthLen(call), count, 0) /\ Return
  BY <1>1, <1>5, PinFailsStep
<1>6. CASE /\ PinPages(AuthStart(call), count, 0)
           /\ used' = count /\ readonly' = 0
           /\ pc' = "crypt" /\ UNCHANGED <<call, astray>>
  <2> HIDE DEF count
  <2>1. PICK n \in Nat : arraySize <= n /\ DOMAIN slots = 1..n
    BY <1>2 DEF ArrayInv
  <2>2. 0 + count = count /\ 0 + count <= n
    BY <1>2, <1>4, <2>1 DEF ArrayInv
  <2>3. DOMAIN slots' = 1..n /\ \A j \in 1..count : slots'[0 + j] = PageOf(AuthStart(call)) + j - 1
    BY <1>3, <1>4, <1>6, <2>1, <2>2, PinnedPlaces
  <2>0. PICK c \in Nat : c = count
    BY <1>4
  <2>4. astray = 0 => Held(c)'
    <3>1. 0 + c = c /\ 0 + c <= n /\ PinPages(AuthStart(call), c, 0)
      BY <1>6, <2>0, <2>2
    <3>2. astray = 0 => Held(0)
      BY <1>2, NoneHeldIs
    <3>3. Held(0) => Held(0 + c)'
      BY <1>3, <2>1, <3>1, PinnedRefs
    <3> QED
      BY <3>1, <3>2, <3>3
  <2>5. ASSUME NEW k \in 0..(DstLen(call) - 1)
        PROVE  \E i \in 1..count : slots'[i] = PageOf(call.dst + k)
    <3>1. k \in Nat /\ call.diff + k \in 0..(AuthLen(call) - 1)
      BY <1>3
    <3>2. AuthStart(call) + (call.diff + k) = call.dst + k
      <4>1. /\ AuthStart(call) = call.dst - call.diff
            /\ call.dst \in Nat /\ call.diff \in Nat /\ k \in Nat
        BY <1>3, <3>1
      <4>2. (call.dst - call.diff) + (call.diff + k) = call.dst + k
        BY <4>1
      <4> QED
        BY <4>1, <4>2, Zenon
    <3> DEFINE i == PageOf(call.dst + k) - PageOf(AuthStart(call)) + 1
    <3>3. i \in 1..count
      <4>1. PageOf(AuthStart(call) + (call.diff + k)) - PageOf(AuthStart(call)) + 1 \in 1..count
        BY <1>3, <3>1, PagesCover, Zenon DEF count
      <4> QED
        BY <3>2, <4>1
    <3>4. PageOf(AuthStart(call)) \in Nat /\ PageOf(call.dst + k) \in Nat
      <4>1. call.dst + k \in Nat
        BY <1>3, <3>1
      <4> QED
        BY <1>3, <4>1, PagesInOrder
    <3>5. PageOf(AuthStart(call)) + i - 1 = PageOf(call.dst + k)
      BY <3>4
    <3> HIDE DEF i
    <3>6. 0 + i = i
      BY <1>4, <3>3
    <3> QED
      BY <2>3, <3>3, <3>5, <3>6
  <2>6. ArrayInv'
    BY <1>1, <1>2, <2>1, <2>3, Zenon DEF ArrayInv
  <2>7. WrittenInv'
    <3>1. ASSUME NEW k \in 0..(DstLen(call) - 1)
          PROVE  \E i \in (0 + 1)..count : slots'[i] = PageOf(call.dst + k)
      BY <2>5
    <3> QED
      BY <1>6, <3>1 DEF WrittenInv
  <2>8. (astray = 0 => Held(used))'
    <3>1. used' = c /\ astray' = astray
      BY <1>6, <2>0
    <3> QED
      BY <2>4, <3>1 DEF Held, RefsIn
  <2>9. used' \in Nat /\ readonly' \in Nat
    BY <1>4, <1>6
  <2> QED
    BY <1>2, <1>6, <2>6, <2>7, <2>8, <2>9 DEF PagesInv
<1> QED
  BY <1>1, <1>5, <1>6

LEMMA PagesInvPinDst ==
  ASSUME PagesInv, PinDst
  PROVE  PagesInv'
<1>1. /\ pc = "pin dst" /\ call.kind \notin {"tls", "srtp"} /\ ~InPlace(call)
      /\ call \in Calls /\ ArrayInv /\ CountsInv /\ astray \in Nat
      /\ NothingToPin(call) => astray > 0
      /\ astray = 0 => Held(readonly)
      /\ UNCHANGED arraySize
  BY DEF PagesInv, PinDst
<1> DEFINE count == PageCount(call.dst, DstLen(call))
<1>2. /\ readonly \in Nat /\ count \in Nat /\ used = readonly + count /\ used - readonly = count
      /\ readonly + count <= arraySize /\ used \in Nat
      /\ call.dst \in Nat /\ DstLen(call) \in Nat
      /\ call.dst = NULL \/ DstLen(call) = 0 => count = 0
      /\ call.dst = NULL => DstLen(call) = 0
  <2>1. /\ call.dst \in Nat /\ DstLen(call) \in Nat /\ (call.dst = NULL => DstLen(call) = 0)
    BY <1>1, CallIs
  <2>2. /\ readonly = PageCount(call.src, SrcLen(call)) /\ readonly \in Nat /\ count \in Nat
        /\ used = readonly + count /\ used <= arraySize
        /\ DstLen(call) = 0 => count = 0
    BY <1>1, CountsAreNumbers DEF CountsInv
  <2> HIDE DEF count
  <2>3. used - readonly = count /\ used \in Nat /\ readonly + count <= arraySize
    BY <2>2
  <2> QED
    BY <2>1, <2>2, <2>3
<1>3. CASE /\ Pinned(call.dst, DstLen(call), used - readonly, readonly)
           /\ pc' = "crypt" /\ UNCHANGED <<call, used, readonly, astray>>
  <2>0. PICK c \in Nat, r \in Nat : c = count /\ r = readonly
    BY <1>2
  <2> HIDE DEF count
  <2>1. /\ ArrayInv'
        /\ call.dst # NULL /\ DstLen(call) # 0 =>
              \A j \in 1..count : slots'[readonly + j] = PageOf(call.dst) + j - 1
        /\ Held(r) => Held(r + c)'
    <3>1. Pinned(call.dst, DstLen(call), c, r)
      BY <1>2, <1>3, <2>0
    <3>2. r + c <= arraySize /\ (call.dst = NULL \/ DstLen(call) = 0 => c = 0)
      BY <1>2, <2>0
    <3>3. /\ ArrayInv'
          /\ call.dst # NULL /\ DstLen(call) # 0 =>
                \A j \in 1..c : slots'[r + j] = PageOf(call.dst) + j - 1
          /\ Held(r) => Held(r + c)'
      <4>1. /\ ArrayInv /\ UNCHANGED arraySize
            /\ call.dst \in Nat /\ DstLen(call) \in Nat
        BY <1>1, <1>2
      <4> QED
        BY <3>1, <3>2, <4>1, PinnedStep
    <3> QED
      BY <2>0, <3>3
  <2>2. (astray = 0 => Held(used))'
    <3>1. used' = r + c /\ astray' = astray
      BY <1>2, <1>3, <2>0
    <3>2. astray = 0 => Held(r)
      BY <1>1, <2>0
    <3>3. astray' = 0 => Held(r + c)'
      BY <2>1, <3>1, <3>2
    <3> QED
      BY <3>1, <3>3 DEF Held, RefsIn
  <2>3. ASSUME NEW k \in 0..(DstLen(call) - 1)
        PROVE  \E i \in (readonly + 1)..used : slots'[i] = PageOf(call.dst + k)
    <3> DEFINE j == PageOf(call.dst + k) - PageOf(call.dst) + 1
    <3>1. j \in 1..count
      BY <1>2, PagesCover, Zenon DEF count
    <3>2. PageOf(call.dst) \in Nat /\ PageOf(call.dst + k) \in Nat
      <4>1. call.dst + k \in Nat
        BY <1>2
      <4> QED
        BY <1>2, <4>1, PagesInOrder
    <3>3. PageOf(call.dst) + j - 1 = PageOf(call.dst + k)
      BY <3>2
    <3> HIDE DEF j
    <3>4. DstLen(call) # 0 /\ call.dst # NULL
      <4>1. DstLen(call) # 0
        BY <1>2
      <4> QED
        BY <1>2, <4>1
    <3>5. readonly + j \in (readonly + 1)..used
      BY <1>2, <3>1
    <3> QED
      BY <2>1, <3>1, <3>3, <3>4, <3>5
  <2>4. WrittenInv'
    BY <1>3, <2>3 DEF WrittenInv
  <2>5. used' \in Nat /\ readonly' \in Nat
    BY <1>2, <1>3
  <2> QED
    BY <1>1, <1>3, <2>1, <2>2, <2>4, <2>5 DEF PagesInv
<1>4. CASE /\ astray' = astray + 1 /\ DOMAIN slots' = DOMAIN slots /\ Return
  <2>0. astray \in Nat /\ astray' = astray + 1
    BY <1>1, <1>4
  <2>1. astray' \in Nat /\ astray' # 0
    BY <2>0
  <2> QED
    BY <1>1, <1>4, <2>1 DEF PagesInv, ArrayInv, Return
<1> QED
  BY <1>3, <1>4, Zenon DEF PinDst

LEMMA PagesInvRelease ==
  ASSUME PagesInv, Release
  PROVE  PagesInv'
<1>1. /\ pc = "release" /\ used \in Nat /\ astray \in Nat
      /\ astray = 0 => Held(used)
      /\ refs' = [p \in Pages |-> refs[p] - RefsIn(used, p)]
      /\ pc' = "idle" /\ UNCHANGED <<arraySize, slots, astray>>
  BY DEF PagesInv, Release, ReleaseUserPages, Return, array
<1>2. (astray = 0 => NoneHeld)'
  <2> SUFFICES ASSUME astray = 0, NEW p \in Pages PROVE refs'[p] = 0
    BY <1>1 DEF NoneHeld
  <2>1. refs[p] = RefsIn(used, p) /\ RefsIn(used, p) \in Nat
    BY <1>1, RefsAreNumbers DEF Held
  <2>2. refs'[p] = refs[p] - RefsIn(used, p)
    BY <1>1, Zenon
  <2> QED
    BY <2>1, <2>2
<1> QED
  BY <1>1, <1>2 DEF PagesInv, ArrayInv

LEMMA PagesInvInit ==
  ASSUME Init
  PROVE  PagesInv
<1>1. Prealloc \in Nat \ {0} /\ arraySize = Prealloc /\ DOMAIN slots = 1..Prealloc
  BY PreallocAssumption DEF Init
<1>2. arraySize <= Prealloc
  BY <1>1
<1> QED
  BY <1>1, <1>2 DEF Init, PagesInv, ArrayInv, NoneHeld

LEMMA PagesInvNext ==
  ASSUME PowersDouble, PagesInv, [CallsNext]_callVars
  PROVE  PagesInv'
<1>1. CASE Next
  <2>1. CASE Crypt
    BY <2>1 DEF Crypt, array, PagesInv, ArrayInv, Held, RefsIn, WrittenInv
  <2> QED
    BY <1>1, <2>1, PagesInvBegin, PagesInvSize, PagesInvPin, PagesInvPinSrtp, PagesInvPinDst,
       PagesInvRelease DEF Next
<1>2. CASE UNCHANGED vars
  BY <1>2 DEF vars, PagesInv, ArrayInv, NoneHeld, Held, RefsIn, CountsInv, WrittenInv
<1> QED
  BY <1>1, <1>2 DEF CallsNext, callVars

-------------------------------------------------------------------------------
\* A release flushes every page that a byte of the destination is in.
LEMMA ReleaseFlushes ==
  ASSUME PagesInv, Release, ~NothingToPin(call), NEW k \in 0..(DstLen(call) - 1)
  PROVE  PageOf(call.dst + k) \in flushed'
<1>1. pc = "release" /\ flushed' = {slots[i] : i \in (readonly + 1)..used}
  BY DEF Release, ReleaseUserPages
<1>2. WrittenInv
  BY <1>1 DEF PagesInv
<1>3. \E i \in (readonly + 1)..used : slots[i] = PageOf(call.dst + k)
  BY <1>2 DEF WrittenInv
<1> QED
  BY <1>1, <1>3

\* Between operations the driver has no reference to a page left and has put none
\* that it did not have, and what the cipher wrote is flushed: whatever failed
\* before, a krealloc between the two of adjust_sg_array too, and however the
\* buffers lie in the pages (release_user_pages).  References that a failed pin
\* leaves, and those of an in-place AEAD encryption of no data, are excepted.
THEOREM PagesAreAlwaysReleased ==
  ASSUME PowersDouble
  PROVE  CallsSpec => PagesAreReleased
<1>1. CallsInit => PagesInv
  BY PagesInvInit DEF CallsInit
<1>2. PagesInv /\ [CallsNext]_callVars => PagesInv'
  BY PagesInvNext, PowersDouble
<1>3. PagesInv /\ PagesInv' /\ [CallsNext]_callVars =>
        [/\ pc' = "idle" /\ astray' = 0 => \A p \in Pages : refs'[p] = 0
         /\ pc = "release" /\ ~NothingToPin(call) =>
               \A k \in 0..(DstLen(call) - 1) : PageOf(call.dst + k) \in flushed']_vars
  <2> SUFFICES ASSUME PagesInv, PagesInv', CallsNext, vars' # vars
               PROVE  /\ pc' = "idle" /\ astray' = 0 => \A p \in Pages : refs'[p] = 0
                      /\ pc = "release" /\ ~NothingToPin(call) =>
                            \A k \in 0..(DstLen(call) - 1) : PageOf(call.dst + k) \in flushed'
    BY DEF callVars
  <2>1. pc' = "idle" /\ astray' = 0 => \A p \in Pages : refs'[p] = 0
    BY DEF PagesInv, NoneHeld
  <2>2. Next
    BY DEF CallsNext
  <2>3. pc = "release" => Release
    BY <2>2 DEF Next, Begin, Size, Pin, PinSrtp, PinDst, Crypt
  <2> QED
    BY <2>1, <2>3, ReleaseFlushes
<1> QED
  BY <1>1, <1>2, <1>3, PTL DEF CallsSpec, PagesAreReleased

-------------------------------------------------------------------------------
(***************************************************************************)
(* Folds over scatterlists                                                 *)
(***************************************************************************)
\* The function SgLength folds with: the sum over the entries at the places s.
IsSum(g, sg, D) ==
    g = [s \in SUBSET D |-> IF s = {} THEN 0 ELSE g[s \ {Max(s)}] + sg[Max(s)].length]

\* The function FlattenSeq concatenates with.
IsFlat(g, s) ==
    g = [i \in 1..Len(s) |-> IF i = 1 THEN s[i] ELSE g[i - 1] \o s[i]]

LEMMA SgLengthFolds ==
  ASSUME NEW sg
  PROVE  SgLength(sg) = (CHOOSE g : IsSum(g, sg, DOMAIN sg))[DOMAIN sg]
  BY DEF SgLength, FoldLeft, MapThenFoldSet, IsSum

LEMMA FlattenSeqFolds ==
  ASSUME NEW s, Len(s) # 0
  PROVE  FlattenSeq(s) = (CHOOSE g : IsFlat(g, s))[Len(s)]
  BY DEF FlattenSeq, IsFlat

LEMMA MaxIs ==
  ASSUME NEW n \in Nat, NEW s \in SUBSET (1..n), n \in s
  PROVE  Max(s) = n
<1>1. \A y \in s : n >= y
  OBVIOUS
<1>2. \A x \in s : (\A y \in s : x >= y) => x = n
  OBVIOUS
<1> QED
  BY <1>1, <1>2 DEF Max

LEMMA SumExists ==
  ASSUME NEW sg, NEW n \in Nat
  PROVE  \E g : IsSum(g, sg, 1..n)
<1> DEFINE S == {k \in Nat : \E g : IsSum(g, sg, 1..k)}
<1>1. 0 \in S
  <2> DEFINE g == [s \in SUBSET (1..0) |-> 0]
  <2>1. \A s \in SUBSET (1..0) : s = {}
    OBVIOUS
  <2>2. g = [s \in SUBSET (1..0) |-> IF s = {} THEN 0 ELSE g[s \ {Max(s)}] + sg[Max(s)].length]
    BY <2>1
  <2> HIDE DEF g
  <2> QED
    BY <2>2 DEF IsSum
<1>2. ASSUME NEW k \in S PROVE k + 1 \in S
  <2>1. PICK g : IsSum(g, sg, 1..k)
    BY <1>2
  <2> DEFINE h == [s \in SUBSET (1..(k + 1)) |->
                      IF k + 1 \in s THEN g[s \ {k + 1}] + sg[k + 1].length ELSE g[s]]
  <2>2. ASSUME NEW s \in SUBSET (1..(k + 1))
        PROVE  h[s] = IF s = {} THEN 0 ELSE h[s \ {Max(s)}] + sg[Max(s)].length
    <3>0. k \in Nat /\ k + 1 \in Nat
      OBVIOUS
    <3>1. CASE k + 1 \in s
      <4>1. Max(s) = k + 1 /\ s # {}
        BY <3>0, <3>1, MaxIs
      <4>2. s \ {k + 1} \in SUBSET (1..(k + 1)) /\ k + 1 \notin s \ {k + 1}
        OBVIOUS
      <4> QED
        BY <3>1, <4>1, <4>2
    <3>2. CASE k + 1 \notin s
      <4>1. s \in SUBSET (1..k) /\ h[s] = g[s]
        BY <3>0, <3>2
      <4>2. g[s] = IF s = {} THEN 0 ELSE g[s \ {Max(s)}] + sg[Max(s)].length
        BY <2>1, <4>1 DEF IsSum
      <4>3. h[s \ {Max(s)}] = g[s \ {Max(s)}]
        <5>1. s \ {Max(s)} \in SUBSET (1..(k + 1)) /\ k + 1 \notin s \ {Max(s)}
          BY <3>2, Zenon
        <5> QED
          BY <5>1
      <4> QED
        BY <4>1, <4>2, <4>3
    <3> QED
      BY <3>1, <3>2, Zenon
  <2>3. h = [s \in SUBSET (1..(k + 1)) |-> IF s = {} THEN 0 ELSE h[s \ {Max(s)}] + sg[Max(s)].length]
    BY <2>2
  <2> HIDE DEF h
  <2>4. IsSum(h, sg, 1..(k + 1))
    BY <2>3 DEF IsSum
  <2> QED
    BY <2>4
<1> HIDE DEF S
<1>3. S \in SUBSET Nat
  BY DEF S
<1>4. S = Nat
  BY <1>1, <1>2, <1>3, SetInduction
<1> QED
  BY <1>4 DEF S

\* The sum is what the lengths add up to, one entry after the other.
LEMMA SgLengthIs ==
  ASSUME NEW sg, NEW n \in Nat, DOMAIN sg = 1..n,
         NEW U, U[0] = 0, \A i \in 1..n : U[i] = U[i - 1] + sg[i].length
  PROVE  SgLength(sg) = U[n]
<1> DEFINE g == CHOOSE g : IsSum(g, sg, 1..n)
           S == {k \in Nat : k <= n => g[1..k] = U[k]}
<1>1. g = [s \in SUBSET (1..n) |-> IF s = {} THEN 0 ELSE g[s \ {Max(s)}] + sg[Max(s)].length]
  <2>1. IsSum(g, sg, 1..n)
    BY SumExists
  <2> HIDE DEF g
  <2> QED
    BY <2>1, Zenon DEF IsSum
<1>2. SgLength(sg) = g[1..n]
  BY SgLengthFolds
<1> HIDE DEF g
<1>3. 0 \in S
  <2>1. 1..0 = {} /\ {} \in SUBSET (1..n)
    OBVIOUS
  <2>2. g[{}] = 0
    BY <1>1, <2>1
  <2> QED
    BY <2>1, <2>2
<1>4. ASSUME NEW k \in S PROVE k + 1 \in S
  <2> SUFFICES ASSUME k + 1 <= n PROVE g[1..(k + 1)] = U[k + 1]
    OBVIOUS
  <2>1. k \in Nat /\ k + 1 \in 1..n /\ g[1..k] = U[k]
    OBVIOUS
  <2> DEFINE s == 1..(k + 1)
  <2>2. s \in SUBSET (1..n) /\ s # {} /\ s \ {k + 1} = 1..k /\ Max(s) = k + 1
    <3>1. k + 1 \in Nat /\ k + 1 \in s /\ s \in SUBSET (1..(k + 1))
      BY <2>1
    <3>2. Max(s) = k + 1
      BY <3>1, MaxIs
    <3>3. s \in SUBSET (1..n) /\ s # {}
      <4>1. \A x \in s : x \in 1..n
        BY <2>1
      <4>2. k + 1 \in s
        BY <3>1
      <4> HIDE DEF s
      <4> QED
        BY <4>1, <4>2
    <3>4. s \ {k + 1} = 1..k
      BY <2>1
    <3> QED
      BY <3>2, <3>3, <3>4
  <2>3. g[s] = g[s \ {Max(s)}] + sg[Max(s)].length
    <3> HIDE DEF s
    <3> QED
      BY <1>1, <2>2
  <2>4. U[k + 1] = U[k] + sg[k + 1].length
    <3>1. U[k + 1] = U[(k + 1) - 1] + sg[k + 1].length
      BY <2>1
    <3>2. (k + 1) - 1 = k
      BY <2>1, SMT
    <3> QED
      BY <3>1, <3>2
  <2> QED
    BY <2>1, <2>2, <2>3, <2>4
<1> HIDE DEF S
<1>5. S \in SUBSET Nat
  BY DEF S
<1>6. S = Nat
  BY <1>3, <1>4, <1>5, SetInduction
<1> QED
  BY <1>2, <1>6 DEF S

LEMMA FlattenSeqIs ==
  ASSUME NEW s, NEW n \in Nat \ {0}, Len(s) = n,
         NEW h, \A i \in 1..n : h[i] = IF i = 1 THEN s[i] ELSE h[i - 1] \o s[i]
  PROVE  FlattenSeq(s) = h[n]
<1> DEFINE g == CHOOSE g : IsFlat(g, s)
           S == {k \in Nat : k >= 1 /\ k <= n => g[k] = h[k]}
<1>1. g = [i \in 1..n |-> IF i = 1 THEN s[i] ELSE g[i - 1] \o s[i]]
  <2> DEFINE f == [i \in 1..n |-> h[i]]
  <2>0. \A i \in 1..n : f[i] = IF i = 1 THEN s[i] ELSE f[i - 1] \o s[i]
    OBVIOUS
  <2>3. f = [i \in 1..n |-> IF i = 1 THEN s[i] ELSE f[i - 1] \o s[i]]
    BY <2>0
  <2> HIDE DEF f
  <2>1. IsFlat(f, s)
    BY <2>3, Zenon DEF IsFlat
  <2>2. IsFlat(g, s)
    BY <2>1
  <2> HIDE DEF g
  <2> QED
    BY <2>2, Zenon DEF IsFlat
<1>2. FlattenSeq(s) = g[n]
  BY FlattenSeqFolds
<1> HIDE DEF g
<1>3. 0 \in S
  OBVIOUS
<1>4. ASSUME NEW k \in S PROVE k + 1 \in S
  <2> SUFFICES ASSUME k + 1 <= n PROVE g[k + 1] = h[k + 1]
    OBVIOUS
  <2>1. k \in Nat /\ k + 1 \in 1..n /\ (k + 1) - 1 = k
    OBVIOUS
  <2>2. /\ g[k + 1] = IF k + 1 = 1 THEN s[k + 1] ELSE g[(k + 1) - 1] \o s[k + 1]
        /\ h[k + 1] = IF k + 1 = 1 THEN s[k + 1] ELSE h[(k + 1) - 1] \o s[k + 1]
    BY <1>1, <2>1, Zenon
  <2>3. k = 0 \/ g[k] = h[k]
    BY <2>1
  <2> QED
    BY <2>1, <2>2, <2>3
<1> HIDE DEF S
<1>5. S \in SUBSET Nat
  BY DEF S
<1>6. S = Nat
  BY <1>3, <1>4, <1>5, SetInduction
<1>7. n \in S /\ n >= 1 /\ n <= n
  BY <1>6
<1> QED
  BY <1>2, <1>7 DEF S

-------------------------------------------------------------------------------
(***************************************************************************)
(* Lists of bytes                                                          *)
(***************************************************************************)
\* The entries of sg are the bytes from a on, the first i of them U[i] bytes.
Entries == [page : Nat, offset : Nat, length : Nat]
ListsFrom(sg, a, U) ==
    /\ sg \in Seq(Entries) /\ U \in [0..Len(sg) -> Nat] /\ U[0] = 0
    /\ \A i \in 1..Len(sg) :
          /\ U[i] = U[i - 1] + sg[i].length
          /\ sg[i].page * PageSize + sg[i].offset = a + U[i - 1]

LEMMA RangeIs ==
  ASSUME NEW a \in Nat, NEW m \in Nat
  PROVE  /\ Range1(a, m) \in Seq(Nat) /\ Len(Range1(a, m)) = m
         /\ \A k \in 1..m : Range1(a, m)[k] = a + k - 1
<1>1. \A k \in 1..m : a + k - 1 \in Nat
  OBVIOUS
<1>2. Range1(a, m) \in [1..m -> Nat]
  BY <1>1 DEF Range1
<1> QED
  BY <1>2 DEF Range1

LEMMA RangesAdd ==
  ASSUME NEW a \in Nat, NEW m \in Nat, NEW n \in Nat
  PROVE  Range1(a, m) \o Range1(a + m, n) = Range1(a, m + n)
<1>1. a + m \in Nat /\ m + n \in Nat
  OBVIOUS
<1>2. /\ Range1(a, m) \in Seq(Nat) /\ Len(Range1(a, m)) = m
      /\ Range1(a + m, n) \in Seq(Nat) /\ Len(Range1(a + m, n)) = n
      /\ Range1(a, m + n) \in Seq(Nat) /\ Len(Range1(a, m + n)) = m + n
  BY <1>1, RangeIs
<1>3. /\ Range1(a, m) \o Range1(a + m, n) \in Seq(Nat)
      /\ Len(Range1(a, m) \o Range1(a + m, n)) = m + n
      /\ \A i \in 1..(m + n) : (Range1(a, m) \o Range1(a + m, n))[i] =
            IF i <= m THEN Range1(a, m)[i] ELSE Range1(a + m, n)[i - m]
  <2> DEFINE r == Range1(a, m)
             t == Range1(a + m, n)
  <2>1. r \in Seq(Nat) /\ Len(r) = m /\ t \in Seq(Nat) /\ Len(t) = n
    BY <1>2
  <2> HIDE DEF r, t
  <2>2. /\ r \o t \in Seq(Nat) /\ Len(r \o t) = Len(r) + Len(t)
        /\ \A i \in 1..(Len(r) + Len(t)) :
              (r \o t)[i] = IF i <= Len(r) THEN r[i] ELSE t[i - Len(r)]
    BY <2>1, ConcatProperties, Zenon
  <2> QED
    BY <2>1, <2>2 DEF r, t
<1>4. ASSUME NEW i \in 1..(m + n)
      PROVE  (Range1(a, m) \o Range1(a + m, n))[i] = Range1(a, m + n)[i]
  <2>1. Range1(a, m + n)[i] = a + i - 1
    BY <1>1, RangeIs
  <2>2. CASE i <= m
    <3>1. i \in 1..m
      BY <2>2
    <3>2. Range1(a, m)[i] = a + i - 1
      BY <3>1, RangeIs
    <3> QED
      BY <1>3, <2>1, <2>2, <3>2
  <2>3. CASE ~(i <= m)
    <3>1. i - m \in 1..n
      BY <2>3
    <3>2. Range1(a + m, n)[i - m] = (a + m) + (i - m) - 1
      BY <1>1, <3>1, RangeIs
    <3>3. (a + m) + (i - m) - 1 = a + i - 1
      OBVIOUS
    <3> QED
      BY <1>3, <2>1, <2>3, <3>2, <3>3
  <2> QED
    BY <2>2, <2>3, Zenon
<1> QED
  BY <1>2, <1>3, <1>4, SeqEqual, Zenon

LEMMA EntryIs ==
  ASSUME NEW sg, NEW a, NEW U, ListsFrom(sg, a, U), NEW i \in 1..Len(sg)
  PROVE  /\ Len(sg) \in Nat /\ DOMAIN sg = 1..Len(sg)
         /\ sg[i] \in Entries /\ U[i] \in Nat /\ U[i - 1] \in Nat
         /\ U[i] = U[i - 1] + sg[i].length
         /\ sg[i].page * PageSize + sg[i].offset = a + U[i - 1]
<1>1. /\ sg \in Seq(Entries) /\ Len(sg) \in Nat /\ DOMAIN sg = 1..Len(sg)
      /\ U \in [0..Len(sg) -> Nat]
  BY LenProperties DEF ListsFrom
<1>2. i \in 0..Len(sg) /\ i - 1 \in 0..Len(sg)
  BY <1>1
<1>3. sg[i] \in Entries
  BY <1>1, ElementOfSeq
<1> QED
  BY <1>1, <1>2, <1>3, Zenon DEF ListsFrom

\* The bytes of such a list are those from a on.
LEMMA BytesOfList ==
  ASSUME NEW sg, NEW a \in Nat, NEW U, ListsFrom(sg, a, U), Len(sg) # 0
  PROVE  Bytes(sg) = Range1(a, U[Len(sg)])
<1> DEFINE n == Len(sg)
           s == [i \in DOMAIN sg |-> EntryBytes(sg[i])]
           h == [i \in 1..n |-> Range1(a, U[i])]
<1>1. n \in Nat \ {0} /\ DOMAIN sg = 1..n
  BY LenProperties, SMT DEF ListsFrom
<1>2. ASSUME NEW i \in 1..n
      PROVE  EntryBytes(sg[i]) = Range1(a + U[i - 1], sg[i].length)
  <2>1. sg[i].page * PageSize + sg[i].offset = a + U[i - 1]
    BY EntryIs
  <2> QED
    BY <2>1 DEF EntryBytes, Range1
<1>3. Len(s) = n
  <2>1. s \in [1..n -> {EntryBytes(sg[i]) : i \in 1..n}]
    BY <1>1
  <2> HIDE DEF s
  <2> QED
    BY <1>1, <2>1
<1>4. ASSUME NEW i \in 1..n
      PROVE  h[i] = IF i = 1 THEN s[i] ELSE h[i - 1] \o s[i]
  <2>1. s[i] = Range1(a + U[i - 1], sg[i].length)
    BY <1>1, <1>2
  <2>2. U[i] = U[i - 1] + sg[i].length /\ U[i - 1] \in Nat /\ sg[i].length \in Nat
    BY EntryIs DEF Entries
  <2>3. CASE i = 1
    <3>1. U[i - 1] = 0 /\ a + 0 = a /\ U[i] = sg[i].length
      BY <2>2, <2>3 DEF ListsFrom
    <3> QED
      BY <2>1, <2>3, <3>1
  <2>4. CASE i # 1
    <3>1. i - 1 \in 1..n
      BY <1>1, <2>4
    <3>2. h[i - 1] = Range1(a, U[i - 1])
      BY <3>1
    <3>3. PICK m \in Nat, k \in Nat : m = U[i - 1] /\ k = sg[i].length
      BY <2>2
    <3>4. Range1(a, m) \o Range1(a + m, k) = Range1(a, m + k)
      BY RangesAdd, Zenon
    <3>5. h[i] = Range1(a, m + k)
      BY <2>2, <3>3
    <3>6. h[i - 1] \o s[i] = Range1(a, m) \o Range1(a + m, k)
      BY <2>1, <3>2, <3>3
    <3> HIDE DEF h, s
    <3> QED
      BY <2>4, <3>4, <3>5, <3>6
  <2> QED
    BY <2>3, <2>4
<1>6. h[n] = Range1(a, U[n])
  BY <1>1
<1>7. Bytes(sg) = FlattenSeq(s)
  BY DEF Bytes
<1> HIDE DEF h, s
<1>8. FlattenSeq(s) = h[n]
  <2> HIDE DEF n
  <2> QED
    BY <1>1, <1>3, <1>4, FlattenSeqIs
<1> QED
  BY <1>6, <1>7, <1>8

\* And their number grows from entry to entry.
LEMMA ListGrows ==
  ASSUME NEW sg, NEW a, NEW U, ListsFrom(sg, a, U),
         NEW i \in 0..Len(sg), NEW j \in 0..Len(sg), i <= j
  PROVE  U[i] \in Nat /\ U[j] \in Nat /\ U[i] <= U[j]
<1> DEFINE S == {k \in Nat : i <= k /\ k <= Len(sg) => U[i] <= U[k]}
<1>1. Len(sg) \in Nat /\ \A k \in 0..Len(sg) : U[k] \in Nat
  BY LenProperties DEF ListsFrom
<1>2. 0 \in S
  BY <1>1
<1>3. ASSUME NEW k \in S PROVE k + 1 \in S
  <2> SUFFICES ASSUME i <= k + 1, k + 1 <= Len(sg) PROVE U[i] <= U[k + 1]
    OBVIOUS
  <2>1. CASE i = k + 1
    BY <1>1, <2>1
  <2>2. CASE i # k + 1
    <3>1. i <= k /\ k \in 0..Len(sg) /\ k + 1 \in 1..Len(sg) /\ (k + 1) - 1 = k
      BY <1>1, <2>2
    <3>2. U[k + 1] = U[(k + 1) - 1] + sg[k + 1].length /\ sg[k + 1].length \in Nat
      BY <3>1, EntryIs DEF Entries
    <3>3. U[i] \in Nat /\ U[k] \in Nat /\ U[i] <= U[k]
      BY <1>1, <3>1
    <3> QED
      BY <3>1, <3>2, <3>3
  <2> QED
    BY <2>1, <2>2
<1> HIDE DEF S
<1>4. S \in SUBSET Nat
  BY DEF S
<1>5. S = Nat
  BY <1>2, <1>3, <1>4, SetInduction
<1>6. j \in S
  BY <1>1, <1>5
<1> QED
  BY <1>1, <1>6 DEF S

LEMMA LengthOfList ==
  ASSUME NEW sg, NEW a, NEW U, ListsFrom(sg, a, U), NEW n \in 0..Len(sg)
  PROVE  SgLength(Upto(sg, n)) = U[n] /\ SgLength(sg) = U[Len(sg)]
<1>1. Len(sg) \in Nat /\ DOMAIN sg = 1..Len(sg) /\ sg \in Seq(Entries) /\ U[0] = 0
  BY LenProperties, SMT DEF ListsFrom
<1>2. SgLength(sg) = U[Len(sg)]
  <2>1. \A i \in 1..Len(sg) : U[i] = U[i - 1] + sg[i].length
    BY EntryIs
  <2> QED
    BY <1>1, <2>1, SgLengthIs
<1>3. SgLength(Upto(sg, n)) = U[n]
  <2>1. n \in Nat /\ 1 \in Int /\ n \in Int /\ n - 1 + 1 = n
    BY <1>1
  <2>2. \A i \in 1..n : sg[i] \in Entries /\ i \in 1..Len(sg)
    BY <1>1, ElementOfSeq
  <2>3. /\ SubSeq(sg, 1, n) \in Seq(Entries)
        /\ Len(SubSeq(sg, 1, n)) = IF 1 <= n THEN n - 1 + 1 ELSE 0
        /\ \A i \in 1..(n - 1 + 1) : SubSeq(sg, 1, n)[i] = sg[1 + i - 1]
    BY <2>1, <2>2, SubSeqProperties
  <2>4. Len(SubSeq(sg, 1, n)) = n
    BY <2>1, <2>3
  <2>5. DOMAIN SubSeq(sg, 1, n) = 1..n
    BY <2>3, <2>4, LenProperties
  <2>6. ASSUME NEW i \in 1..n PROVE U[i] = U[i - 1] + SubSeq(sg, 1, n)[i].length
    <3>1. 1 + i - 1 = i
      OBVIOUS
    <3>2. SubSeq(sg, 1, n)[i] = sg[i]
      BY <2>1, <2>3, <3>1
    <3> QED
      BY <2>2, <3>2, EntryIs
  <2>7. SgLength(SubSeq(sg, 1, n)) = U[n]
    <3> DEFINE t == SubSeq(sg, 1, n)
    <3>1. DOMAIN t = 1..n /\ U[0] = 0 /\ \A i \in 1..n : U[i] = U[i - 1] + t[i].length
      BY <1>1, <2>5, <2>6
    <3> HIDE DEF t
    <3>2. SgLength(t) = U[n]
      BY <2>1, <3>1, SgLengthIs
    <3> QED
      BY <3>2 DEF t
  <2> QED
    BY <2>7 DEF Upto
<1> QED
  BY <1>2, <1>3

\* The entry that byte number c (from 0) of a list is in.
LEMMA EntryOfByte ==
  ASSUME NEW sg, NEW a, NEW U, ListsFrom(sg, a, U), NEW c \in Nat, c < U[Len(sg)]
  PROVE  \E n \in 1..Len(sg) : U[n - 1] <= c /\ c < U[n]
<1> DEFINE T == {k \in Nat : k <= Len(sg) /\ c < U[k]}
<1>1. Len(sg) \in Nat /\ U[0] = 0 /\ \A k \in 0..Len(sg) : U[k] \in Nat
  BY LenProperties DEF ListsFrom
<1>2. Len(sg) \in T
  BY <1>1
<1>3. T \in SUBSET Nat
  OBVIOUS
<1> HIDE DEF T
<1>4. PICK m \in 0..Len(sg) : m \in T /\ (m = 0 \/ m - 1 \notin T)
  BY <1>2, <1>3, LeastOf
<1>5. c < U[m] /\ m # 0 /\ m \in Nat
  BY <1>1, <1>4 DEF T
<1>6. m \in 1..Len(sg) /\ m - 1 \in 0..Len(sg)
  BY <1>1, <1>5
<1>7. U[m - 1] <= c
  <2>1. m - 1 \in Nat /\ m - 1 <= Len(sg) /\ U[m - 1] \in Nat
    BY <1>1, <1>6
  <2> QED
    BY <1>4, <1>5, <2>1 DEF T
<1> QED
  BY <1>5, <1>6, <1>7

\* sg_copy: the first len bytes.
LEMMA CopyOfList ==
  ASSUME NEW sg, NEW a \in Nat, NEW U, ListsFrom(sg, a, U),
         NEW len \in Nat, 0 < len, len <= U[Len(sg)]
  PROVE  \E V : /\ ListsFrom(SgCopy(sg, len), a, V)
                /\ Len(SgCopy(sg, len)) \in 1..Len(sg)
                /\ V[Len(SgCopy(sg, len))] = len
<1> DEFINE last == CHOOSE n \in 1..Len(sg) : SgLength(Upto(sg, n - 1)) < len /\ len <= SgLength(Upto(sg, n))
<1>1. /\ Len(sg) \in Nat /\ DOMAIN sg = 1..Len(sg) /\ sg \in Seq(Entries)
      /\ U[0] = 0 /\ \A k \in 0..Len(sg) : U[k] \in Nat
  BY LenProperties, Zenon DEF ListsFrom
<1>2. \A n \in 0..Len(sg) : SgLength(Upto(sg, n)) = U[n]
  BY LengthOfList
<1>3. \A n \in 1..Len(sg) : n \in 0..Len(sg) /\ n - 1 \in 0..Len(sg)
  BY <1>1
<1>4. last \in 1..Len(sg) /\ U[last - 1] < len /\ len <= U[last]
  <2>1. len - 1 \in Nat /\ len - 1 < U[Len(sg)]
    BY <1>1
  <2>2. PICK n \in 1..Len(sg) : U[n - 1] <= len - 1 /\ len - 1 < U[n]
    BY <2>1, EntryOfByte
  <2>3. SgLength(Upto(sg, n - 1)) < len /\ len <= SgLength(Upto(sg, n))
    BY <1>1, <1>2, <1>3, <2>2, SMT
  <2>4. /\ last \in 1..Len(sg)
        /\ SgLength(Upto(sg, last - 1)) < len /\ len <= SgLength(Upto(sg, last))
    BY <2>3
  <2> HIDE DEF last
  <2> QED
    BY <1>2, <1>3, <2>4
<1> DEFINE r == [i \in 1..last |->
                    IF i < last THEN sg[i]
                    ELSE [sg[i] EXCEPT !.length = len - SgLength(Upto(sg, last - 1))]]
           V == [i \in 0..last |-> IF i < last THEN U[i] ELSE len]
<1>5. SgCopy(sg, len) = r
  BY DEF SgCopy
<1> HIDE DEF last
<1>6. /\ last \in Nat /\ last # 0 /\ last <= Len(sg) /\ last - 1 \in 0..Len(sg)
      /\ U[last - 1] \in Nat
      /\ SgLength(Upto(sg, last - 1)) = U[last - 1]
  BY <1>1, <1>2, <1>4
<1>7. ASSUME NEW i \in 1..last
      PROVE  /\ r[i] \in Entries
             /\ V[i] = V[i - 1] + r[i].length
             /\ r[i].page * PageSize + r[i].offset = a + V[i - 1]
  <2>1. /\ i \in 1..Len(sg) /\ i - 1 \in 0..last /\ i - 1 < last /\ i \in 0..last
    BY <1>1, <1>6, SMT
  <2>2. /\ sg[i] \in Entries
        /\ U[i] = U[i - 1] + sg[i].length
        /\ sg[i].page * PageSize + sg[i].offset = a + U[i - 1]
    BY <2>1, EntryIs
  <2>3. V[i - 1] = U[i - 1]
    BY <2>1
  <2>4. CASE i < last
    <3>1. r[i] = sg[i] /\ V[i] = U[i]
      BY <2>1, <2>4
    <3> QED
      BY <2>2, <2>3, <3>1, Zenon
  <2>5. CASE ~(i < last)
    <3>1. i = last
      BY <1>6, <2>5
    <3>2. r[i] = [sg[i] EXCEPT !.length = len - U[last - 1]] /\ V[i] = len
      BY <1>6, <2>1, <3>1
    <3>3. len - U[last - 1] \in Nat
      BY <1>4, <1>6
    <3>4. /\ r[i] \in Entries /\ r[i].length = len - U[last - 1]
          /\ r[i].page = sg[i].page /\ r[i].offset = sg[i].offset
      BY <2>2, <3>2, <3>3 DEF Entries
    <3>5. V[i] = V[i - 1] + r[i].length
      BY <1>6, <2>3, <3>1, <3>2, <3>4
    <3> QED
      BY <2>2, <2>3, <3>4, <3>5
  <2> QED
    BY <2>4, <2>5
<1>8. r \in Seq(Entries) /\ Len(r) = last
  <2>1. r \in [1..last -> Entries]
    BY <1>7
  <2> HIDE DEF r
  <2> QED
    BY <1>6, <2>1
<1>9. V \in [0..last -> Nat] /\ V[0] = 0 /\ V[last] = len
  <2>1. \A i \in 0..last : i < last => U[i] \in Nat
    BY <1>1, <1>6
  <2> QED
    BY <1>1, <1>6, <2>1
<1> HIDE DEF r, V
<1>10. ListsFrom(r, a, V)
  BY <1>7, <1>8, <1>9 DEF ListsFrom
<1>11. last \in 1..Len(sg)
  BY <1>4
<1> QED
  BY <1>5, <1>8, <1>9, <1>10, <1>11

\* sg_advance: all but the first c bytes.
LEMMA AdvanceOfList ==
  ASSUME NEW sg, NEW a \in Nat, NEW U, ListsFrom(sg, a, U), NEW c \in Nat, c < U[Len(sg)]
  PROVE  \E V : /\ ListsFrom(SgAdvance(sg, c), a + c, V)
                /\ Len(SgAdvance(sg, c)) \in 1..Len(sg)
                /\ V[Len(SgAdvance(sg, c))] = U[Len(sg)] - c
<1> DEFINE n == CHOOSE i \in 1..Len(sg) : SgLength(Upto(sg, i - 1)) <= c /\ c < SgLength(Upto(sg, i))
<1>1. /\ Len(sg) \in Nat /\ DOMAIN sg = 1..Len(sg) /\ sg \in Seq(Entries)
      /\ U[0] = 0 /\ \A k \in 0..Len(sg) : U[k] \in Nat
  BY LenProperties, Zenon DEF ListsFrom
<1>2. /\ \A k \in 0..Len(sg) : SgLength(Upto(sg, k)) = U[k]
      /\ SgLength(sg) = U[Len(sg)]
  <2>1. 0 \in 0..Len(sg)
    BY <1>1
  <2> QED
    BY <2>1, LengthOfList
<1>3. \A k \in 1..Len(sg) : k \in 0..Len(sg) /\ k - 1 \in 0..Len(sg)
  BY <1>1
<1>4. n \in 1..Len(sg) /\ U[n - 1] <= c /\ c < U[n]
  <2>2. PICK k \in 1..Len(sg) : U[k - 1] <= c /\ c < U[k]
    BY EntryOfByte
  <2>3. SgLength(Upto(sg, k - 1)) <= c /\ c < SgLength(Upto(sg, k))
    BY <1>2, <1>3, <2>2
  <2>4. /\ n \in 1..Len(sg)
        /\ SgLength(Upto(sg, n - 1)) <= c /\ c < SgLength(Upto(sg, n))
    BY <2>3
  <2> HIDE DEF n
  <2> QED
    BY <1>2, <1>3, <2>4
<1> DEFINE off == c - SgLength(Upto(sg, n - 1))
           first == [sg[n] EXCEPT !.offset = @ + off, !.length = @ - off]
           rest == SubSeq(sg, n + 1, Len(sg))
           m == Len(sg) - n + 1
           V == [j \in 0..m |-> IF j = 0 THEN 0 ELSE U[n + j - 1] - c]
           r == <<first>> \o rest
<1>5. SgAdvance(sg, c) = r
  <2>1. ~(c >= SgLength(sg))
    BY <1>1, <1>2
  <2> QED
    BY <2>1 DEF SgAdvance
<1> HIDE DEF n
<1>6. /\ n \in Nat /\ n # 0 /\ n <= Len(sg) /\ m \in 1..Len(sg) /\ m \in Nat
      /\ U[n - 1] \in Nat /\ U[n] \in Nat /\ off = c - U[n - 1] /\ off \in Nat
  <2>1. /\ n \in Nat /\ n # 0 /\ n <= Len(sg) /\ m \in 1..Len(sg) /\ m \in Nat
        /\ n \in 0..Len(sg) /\ n - 1 \in 0..Len(sg)
    BY <1>1, <1>4
  <2>2. U[n - 1] \in Nat /\ U[n] \in Nat
    BY <1>1, <2>1
  <2>3. off = c - U[n - 1]
    BY <1>2, <2>1
  <2>4. c - U[n - 1] \in Nat
    BY <1>4, <2>2
  <2> QED
    BY <2>1, <2>2, <2>3, <2>4
<1>7. /\ sg[n] \in Entries
      /\ U[n] = U[n - 1] + sg[n].length
      /\ sg[n].page * PageSize + sg[n].offset = a + U[n - 1]
  BY <1>4, EntryIs
<1> HIDE DEF off
<1>8. /\ first \in Entries /\ first.length = U[n] - c
      /\ first.page * PageSize + first.offset = a + c
  <2>1. PICK p \in Nat, o \in Nat, l \in Nat : sg[n] = [page |-> p, offset |-> o, length |-> l]
    BY <1>7 DEF Entries
  <2>2. /\ first \in [page : Nat, offset : Int, length : Int]
        /\ first.page = p /\ first.offset = o + off /\ first.length = l - off
    <3> DEFINE e == [page |-> p, offset |-> o, length |-> l]
    <3>1. sg[n] = e /\ e \in Entries /\ off \in Nat
      BY <1>6, <2>1 DEF Entries
    <3>2. e.page = p /\ e.offset = o /\ e.length = l
      OBVIOUS
    <3> HIDE DEF e
    <3>3. first = [e EXCEPT !.offset = o + off, !.length = l - off]
      BY <3>1, <3>2, Zenon
    <3>4. o + off \in Int /\ l - off \in Int
      BY <3>1
    <3> HIDE DEF first
    <3> QED
      BY <3>1, <3>2, <3>3, <3>4 DEF Entries
  <2>3. PICK u \in Nat, v \in Nat, d \in Nat : u = U[n - 1] /\ v = U[n] /\ d = off
    BY <1>6, Zenon
  <2>4. d = c - u /\ c < v /\ v = u + l
    <3>1. sg[n].length = l
      BY <2>1
    <3>2. d = c - u
      BY <1>6, <2>3
    <3>3. v = u + l
      BY <1>7, <2>3, <3>1
    <3> QED
      BY <1>4, <2>3, <3>2, <3>3
  <2>5. l - d = v - c /\ v - c \in Nat /\ o + d \in Nat
    BY <2>4
  <2>6. PICK x \in Int : x = p * PageSize
    BY PageSizeAssumption
  <2>7. x + o = a + u
    BY <1>7, <2>1, <2>3, <2>6
  <2>8. x + (o + d) = a + c
    BY <2>4, <2>7
  <2>9. first.page = p /\ first.offset = o + d /\ first.length = v - c
    BY <2>2, <2>3, <2>5
  <2> HIDE DEF first
  <2>10. first \in Entries
    BY <2>2, <2>5, <2>9 DEF Entries
  <2> QED
    BY <2>3, <2>6, <2>8, <2>9, <2>10, SMT
<1>9. /\ rest \in Seq(Entries) /\ Len(rest) = Len(sg) - n
      /\ \A i \in 1..(Len(sg) - n) : rest[i] = sg[n + i]
  <2>1. \A i \in (n + 1)..Len(sg) : sg[i] \in Entries
    BY <1>1, <1>6, ElementOfSeq
  <2>2. n + 1 \in Int /\ Len(sg) \in Int
    BY <1>1, <1>6
  <2>3. /\ rest \in Seq(Entries)
        /\ Len(rest) = IF n + 1 <= Len(sg) THEN Len(sg) - (n + 1) + 1 ELSE 0
        /\ \A i \in 1..(Len(sg) - (n + 1) + 1) : rest[i] = sg[(n + 1) + i - 1]
    BY <2>1, <2>2, SubSeqProperties
  <2> HIDE DEF rest
  <2>4. PICK k \in Nat, l \in Nat : k = n /\ l = Len(sg) /\ k <= l
    BY <1>1, <1>6, Zenon
  <2>5. /\ (IF k + 1 <= l THEN l - (k + 1) + 1 ELSE 0) = l - k
        /\ l - (k + 1) + 1 = l - k
        /\ \A i \in 1..(l - k) : (k + 1) + i - 1 = k + i
    BY <2>4
  <2>6. /\ Len(rest) = IF k + 1 <= l THEN l - (k + 1) + 1 ELSE 0
        /\ \A i \in 1..(l - (k + 1) + 1) : rest[i] = sg[(k + 1) + i - 1]
    BY <2>3, <2>4
  <2>7. Len(rest) = l - k
    BY <2>5, <2>6
  <2>8. \A i \in 1..(l - k) : rest[i] = sg[k + i]
    BY <2>5, <2>6
  <2> QED
    BY <2>3, <2>4, <2>7, <2>8
<1> HIDE DEF first, rest
<1>10. /\ r \in Seq(Entries) /\ Len(r) = m /\ r[1] = first
       /\ \A j \in 2..m : r[j] = sg[n + j - 1]
  <2>1. <<first>> \in Seq(Entries) /\ Len(<<first>>) = 1 /\ <<first>>[1] = first
    BY <1>8
  <2>2. /\ r \in Seq(Entries) /\ Len(r) = 1 + (Len(sg) - n)
        /\ \A j \in 1..(1 + (Len(sg) - n)) :
              r[j] = IF j <= 1 THEN <<first>>[j] ELSE rest[j - 1]
    <3> DEFINE one == <<first>>
    <3>1. one \in Seq(Entries) /\ Len(one) = 1
      BY <2>1
    <3> HIDE DEF one
    <3>2. /\ one \o rest \in Seq(Entries) /\ Len(one \o rest) = Len(one) + Len(rest)
          /\ \A j \in 1..(Len(one) + Len(rest)) :
                (one \o rest)[j] = IF j <= Len(one) THEN one[j] ELSE rest[j - Len(one)]
      BY <1>9, <3>1, ConcatProperties, Zenon
    <3> QED
      BY <1>9, <3>1, <3>2 DEF one
  <2> HIDE DEF r
  <2>3. 1 + (Len(sg) - n) = m /\ 1 \in 1..m
    BY <1>1, <1>6
  <2>4. r[1] = first
    BY <2>1, <2>2, <2>3
  <2>5. ASSUME NEW j \in 2..m PROVE r[j] = sg[n + j - 1]
    <3>1. j \in 1..m /\ ~(j <= 1) /\ j - 1 \in 1..(Len(sg) - n) /\ n + (j - 1) = n + j - 1
      BY <1>1, <1>6
    <3>2. r[j] = rest[j - 1]
      BY <2>2, <2>3, <3>1
    <3> QED
      BY <1>9, <3>1, <3>2
  <2> QED
    BY <2>2, <2>3, <2>4, <2>5
<1> HIDE DEF r
<1>11. \A j \in 1..m : V[j] = U[n + j - 1] - c /\ V[j] \in Nat
  <2> SUFFICES ASSUME NEW j \in 1..m PROVE V[j] = U[n + j - 1] - c /\ U[n + j - 1] - c \in Nat
    BY <1>6
  <2>1. n + j - 1 \in 0..Len(sg) /\ n \in 0..Len(sg) /\ n <= n + j - 1 /\ j # 0 /\ j \in 0..m
    BY <1>1, <1>6
  <2>2. U[n + j - 1] \in Nat /\ U[n] <= U[n + j - 1]
    BY <2>1, ListGrows
  <2> QED
    BY <1>4, <1>6, <2>1, <2>2
<1>12. V \in [0..m -> Nat] /\ V[0] = 0
  <2>1. V[0] = 0
    BY <1>6
  <2>2. \A j \in 0..m : V[j] \in Nat
    <3>1. \A j \in 0..m : j = 0 \/ j \in 1..m
      BY <1>6
    <3> HIDE DEF V
    <3> QED
      BY <1>11, <2>1, <3>1
  <2>3. V = [j \in 0..m |-> V[j]]
    OBVIOUS
  <2> HIDE DEF V
  <2> QED
    BY <2>1, <2>2, <2>3
<1>13. V[m] = U[Len(sg)] - c
  <2>1. m \in 1..m /\ n + m - 1 = Len(sg)
    BY <1>1, <1>6
  <2> QED
    BY <1>11, <2>1
<1> HIDE DEF V
<1>14. ASSUME NEW j \in 1..m
       PROVE  /\ V[j] = V[j - 1] + r[j].length
              /\ r[j].page * PageSize + r[j].offset = (a + c) + V[j - 1]
  <2>1. CASE j = 1
    <3>1. V[1] = U[n] - c /\ V[j - 1] = 0
      <4>1. n + 1 - 1 = n /\ 1 - 1 = 0
        BY <1>6
      <4> QED
        BY <1>11, <1>12, <2>1, <4>1
    <3>2. r[j] = first /\ U[n] - c \in Int /\ a + c \in Int
      BY <1>6, <1>10, <2>1
    <3> QED
      BY <1>8, <2>1, <3>1, <3>2
  <2>2. CASE j # 1
    <3> DEFINE i == n + j - 1
    <3>1. /\ j \in 2..m /\ j - 1 \in 1..m /\ i \in 1..Len(sg) /\ n + (j - 1) - 1 = i - 1
          /\ i \in 0..Len(sg) /\ i - 1 \in 0..Len(sg)
      BY <1>1, <1>6, <2>2
    <3>2. r[j] = sg[i]
      BY <1>10, <3>1
    <3>3. V[j] = U[i] - c /\ V[j - 1] = U[i - 1] - c
      BY <1>11, <3>1
    <3> HIDE DEF i
    <3>4. /\ sg[i].length \in Nat /\ U[i] \in Nat /\ U[i - 1] \in Nat
          /\ U[i] = U[i - 1] + sg[i].length
          /\ sg[i].page * PageSize + sg[i].offset = a + U[i - 1]
      BY <3>1, EntryIs DEF Entries
    <3>5. U[i] - c = (U[i - 1] - c) + sg[i].length /\ (a + c) + (U[i - 1] - c) = a + U[i - 1]
      <4>1. PICK u \in Nat, v \in Nat, k \in Nat : u = U[i] /\ v = U[i - 1] /\ k = sg[i].length
        BY <3>4, Zenon
      <4>2. u = v + k
        BY <3>4, <4>1, Zenon
      <4>3. u - c = (v - c) + k /\ (a + c) + (v - c) = a + v
        BY <4>2
      <4> QED
        BY <4>1, <4>3, Zenon
    <3> QED
      BY <3>2, <3>3, <3>4, <3>5
  <2> QED
    BY <2>1, <2>2
<1>15. ListsFrom(r, a + c, V)
  BY <1>10, <1>12, <1>14 DEF ListsFrom
<1>16. Len(r) \in 1..Len(sg) /\ V[Len(r)] = U[Len(sg)] - c
  BY <1>6, <1>10, <1>13
<1> QED
  BY <1>5, <1>15, <1>16

LEMMA PageIs ==
  ASSUME NEW addr \in Nat
  PROVE  /\ PageOf(addr) \in Nat /\ PageOffset(addr) \in 0..(PageSize - 1)
         /\ addr = PageOf(addr) * PageSize + PageOffset(addr)
  BY PageSizeAssumption DEF PageOf, PageOffset

\* Pages later, by their first byte.
LEMMA PagesLater ==
  ASSUME NEW p \in Nat, NEW q \in Nat
  PROVE  /\ p * PageSize \in Nat /\ q * PageSize \in Nat /\ (p + q) * PageSize \in Nat
         /\ (p + q) * PageSize = p * PageSize + q * PageSize
         /\ (q + 1) * PageSize = q * PageSize + PageSize
         /\ p <= q => p * PageSize <= q * PageSize
  BY PageSizeAssumption

LEMMA UserSgHas ==
  ASSUME NEW addr \in Nat, NEW len \in Nat, NEW count \in Nat
  PROVE  /\ UserSg(addr, len, count) \in Seq(Entries) /\ Len(UserSg(addr, len, count)) = count
         /\ \A i \in 1..count :
               /\ UserSg(addr, len, count)[i].page = PageOf(addr) + i - 1
               /\ i = 1 =>
                     /\ UserSg(addr, len, count)[i].offset = PageOffset(addr)
                     /\ UserSg(addr, len, count)[i].length = Least(PageSize - PageOffset(addr), len)
               /\ i # 1 =>
                     /\ UserSg(addr, len, count)[i].offset = 0
                     /\ LET left == len - Least(PageSize - PageOffset(addr), len) - (i - 2) * PageSize
                        IN  UserSg(addr, len, count)[i].length = IF left <= 0 THEN 0 ELSE Least(PageSize, left)
<1> DEFINE first == Least(PageSize - PageOffset(addr), len)
           left(i) == len - first - (i - 2) * PageSize
           sg == UserSg(addr, len, count)
<1>1. /\ PageOf(addr) \in Nat /\ PageOffset(addr) \in Nat /\ PageSize \in Nat
      /\ PageSize - PageOffset(addr) \in Nat
  BY PageIs, PageSizeAssumption
<1>2. first \in Nat
  BY <1>1 DEF Least
<1>3. sg = [i \in 1..count |->
              IF i = 1 THEN [page |-> PageOf(addr), offset |-> PageOffset(addr), length |-> first]
              ELSE [page |-> PageOf(addr) + i - 1, offset |-> 0,
                    length |-> IF left(i) <= 0 THEN 0 ELSE Least(PageSize, left(i))]]
  BY DEF UserSg
<1> HIDE DEF sg, first
<1>4. ASSUME NEW i \in 1..count
      PROVE  /\ sg[i] \in Entries /\ sg[i].page = PageOf(addr) + i - 1
             /\ i = 1 => sg[i].offset = PageOffset(addr) /\ sg[i].length = first
             /\ i # 1 =>
                   /\ sg[i].offset = 0
                   /\ sg[i].length = IF left(i) <= 0 THEN 0 ELSE Least(PageSize, left(i))
  <2>1. CASE i = 1
    <3>1. sg[i] = [page |-> PageOf(addr), offset |-> PageOffset(addr), length |-> first]
      BY <1>3, <2>1
    <3>2. PageOf(addr) = PageOf(addr) + i - 1
      BY <1>1, <2>1
    <3> QED
      BY <1>1, <1>2, <2>1, <3>1, <3>2 DEF Entries
  <2>2. CASE i # 1
    <3> DEFINE l == IF left(i) <= 0 THEN 0 ELSE Least(PageSize, left(i))
    <3>1. sg[i] = [page |-> PageOf(addr) + i - 1, offset |-> 0, length |-> l]
      BY <1>3, <2>2
    <3>2. PageOf(addr) + i - 1 \in Nat
      BY <1>1
    <3>3. left(i) \in Int
      BY <1>1, <1>2
    <3>4. l \in Nat
      BY <1>1, <3>3 DEF Least
    <3> HIDE DEF l, left
    <3>5. sg[i] \in Entries /\ sg[i].page = PageOf(addr) + i - 1 /\ sg[i].offset = 0 /\ sg[i].length = l
      BY <3>1, <3>2, <3>4 DEF Entries
    <3> QED
      BY <2>2, <3>5 DEF l
  <2> QED
    BY <2>1, <2>2
<1>5. sg \in Seq(Entries) /\ Len(sg) = count
  <2>1. sg \in [1..count -> Entries]
    <3>1. DOMAIN sg = 1..count /\ sg = [i \in 1..count |-> sg[i]]
      BY <1>3
    <3> QED
      BY <1>4, <3>1
  <2> QED
    BY <2>1
<1> QED
  BY <1>4, <1>5 DEF sg, first

\* __get_userbuf: the entries are the bytes of the buffer.
LEMMA UserSgLists ==
  ASSUME NEW addr \in Nat, NEW len \in Nat, len # 0
  PROVE  LET count == PageCount(addr, len)
         IN  \E U : ListsFrom(UserSg(addr, len, count), addr, U) /\ U[count] = len
<1> DEFINE count == PageCount(addr, len)
           sg == UserSg(addr, len, count)
           first == Least(PageSize - PageOffset(addr), len)
           U == [i \in 0..count |-> IF i = 0 THEN 0 ELSE Least(first + (i - 1) * PageSize, len)]
<1>1. count \in Nat /\ count # 0
  BY PagesCover
<1>2. /\ sg \in Seq(Entries) /\ Len(sg) = count
      /\ \A i \in 1..count :
            /\ sg[i].page = PageOf(addr) + i - 1
            /\ i = 1 => sg[i].offset = PageOffset(addr) /\ sg[i].length = first
            /\ i # 1 =>
                  /\ sg[i].offset = 0
                  /\ LET left == len - first - (i - 2) * PageSize
                     IN  sg[i].length = IF left <= 0 THEN 0 ELSE Least(PageSize, left)
  BY <1>1, UserSgHas
<1>3. PICK p \in Nat, o \in Nat, q \in Nat, z \in Nat, base \in Nat :
        /\ p = PageOf(addr) /\ o = PageOffset(addr) /\ q = PageOf(addr + len - 1) /\ z = PageSize
        /\ base = p * PageSize
        /\ z > 0 /\ o < z /\ addr = base + o
        /\ q * PageSize <= addr + len - 1 /\ addr + len - 1 < q * PageSize + z /\ p <= q
  <2>1. addr + len - 1 \in Nat /\ addr <= addr + len - 1
    OBVIOUS
  <2>2. PICK p \in Nat, o \in Nat : p = PageOf(addr) /\ o = PageOffset(addr) /\ o < PageSize /\ addr = p * PageSize + o
    BY PageIs, PageSizeAssumption
  <2>3. PICK q \in Nat, r \in Nat : q = PageOf(addr + len - 1) /\ r < PageSize /\ addr + len - 1 = q * PageSize + r
    BY <2>1, PageIs, PageSizeAssumption
  <2>4. p <= q
    BY <2>1, <2>2, <2>3, PagesInOrder
  <2>5. p * PageSize \in Nat /\ q * PageSize \in Nat /\ PageSize \in Nat /\ PageSize > 0
    BY PagesLater, PageSizeAssumption
  <2>6. q * PageSize <= addr + len - 1 /\ addr + len - 1 < q * PageSize + PageSize
    BY <2>3, <2>5
  <2> QED
    BY <2>2, <2>3, <2>4, <2>5, <2>6
<1>4. count = q - p + 1
  BY <1>3 DEF PageCount
<1> HIDE DEF count, sg
<1>5. PICK f \in Nat : f = first /\ f = IF z - o < len THEN z - o ELSE len
  BY <1>3 DEF Least
<1> HIDE DEF first
\* The entries after the first begin with a page.
<1>6. ASSUME NEW i \in 2..count
      PROVE  /\ (i - 1) * PageSize \in Nat /\ (i - 2) * PageSize \in Nat
             /\ (i - 1) * PageSize = (i - 2) * PageSize + z
             /\ f = z - o /\ f + (i - 2) * PageSize < len
             /\ (p + i - 1) * PageSize = addr + (f + (i - 2) * PageSize)
  <2>1. i - 1 \in Nat /\ i - 2 \in Nat /\ (i - 2) + 1 = i - 1 /\ p + i - 1 \in Nat /\ p + (i - 1) = p + i - 1
    BY <1>1, <1>3
  <2>2. PICK y \in Nat, x \in Nat : y = (i - 1) * PageSize /\ x = (i - 2) * PageSize
    BY <2>1, PagesLater
  <2>3. y = x + z
    BY <1>3, <2>1, <2>2, PagesLater
  <2>4. (p + i - 1) * PageSize = base + y
    BY <1>3, <2>1, <2>2, PagesLater, SMT
  <2>5. p + i - 1 <= q
    BY <1>1, <1>4
  <2>6. base + y <= q * PageSize /\ q * PageSize \in Nat
    BY <1>3, <2>1, <2>4, <2>5, PagesLater
  <2>7. base + y <= addr + len - 1
    BY <1>3, <2>6
  <2>8. f = z - o
    BY <1>3, <1>5, <2>3, <2>7
  <2>9. f + x < len /\ base + y = addr + (f + x)
    <3>1. addr = base + o /\ o < z
      BY <1>3
    <3> QED
      BY <2>3, <2>7, <2>8, <3>1
  <2> QED
    BY <2>2, <2>3, <2>4, <2>8, <2>9
<1>7. U[0] = 0 /\ \A i \in 0..count : U[i] \in Nat
  <2>1. \A i \in 1..count : (i - 1) * PageSize \in Nat
    <3> TAKE i \in 1..count
    <3>1. i - 1 \in Nat
      BY <1>1
    <3> QED
      BY <3>1, PagesLater, Zenon
  <2>2. \A i \in 1..count : f + (i - 1) * PageSize \in Nat
    BY <2>1
  <2> QED
    BY <1>1, <1>5, <2>2 DEF Least
<1>8. U[1] = first
  <2>1. 1 \in 0..count /\ (1 - 1) * PageSize = 0 /\ f + 0 = f /\ f <= len
    BY <1>1, <1>3, <1>5, PageSizeAssumption
  <2> QED
    BY <1>5, <2>1 DEF Least
<1>9. ASSUME NEW i \in 1..count
      PROVE  /\ U[i] = U[i - 1] + sg[i].length
             /\ sg[i].page * PageSize + sg[i].offset = addr + U[i - 1]
  <2>1. CASE i = 1
    <3>1. U[i - 1] = 0
      BY <1>7, <2>1
    <3>2. U[i] = U[i - 1] + sg[i].length
      BY <1>2, <1>5, <1>8, <2>1, <3>1
    <3>3. sg[i].page = p + i - 1 /\ p + i - 1 = p /\ sg[i].offset = o
      BY <1>2, <1>3, <2>1
    <3>4. sg[i].page * PageSize + sg[i].offset = addr /\ addr + 0 = addr
      <4>1. sg[i].page = p /\ sg[i].offset = o
        BY <3>3
      <4>2. base = p * PageSize /\ addr = base + o
        BY <1>3
      <4>3. p * PageSize + o = addr
        BY <4>2
      <4> QED
        BY <4>1, <4>3
    <3> QED
      BY <3>1, <3>2, <3>4
  <2>2. CASE i # 1
    <3>1. i \in 2..count /\ i \in 0..count /\ i - 1 \in 0..count /\ i - 1 # 0 /\ i # 0 /\ (i - 1) - 1 = i - 2
      BY <1>1, <2>2
    <3>2. PICK y \in Nat, x \in Nat :
            /\ y = (i - 1) * PageSize /\ x = (i - 2) * PageSize /\ y = x + z
            /\ f = z - o /\ f + x < len
            /\ (p + i - 1) * PageSize = addr + (f + x)
      BY <1>6, <3>1
    <3>3. U[i - 1] = f + x
      BY <1>5, <3>1, <3>2 DEF Least
    <3>4. U[i] = IF f + y < len THEN f + y ELSE len
      BY <1>5, <3>1, <3>2 DEF Least
    <3>5. sg[i].length = IF len - f - x <= 0 THEN 0 ELSE IF z < len - f - x THEN z ELSE len - f - x
      BY <1>2, <1>3, <1>5, <2>2, <3>2 DEF Least
    <3>6. U[i] = U[i - 1] + sg[i].length
      <4> HIDE DEF U
      <4> QED
        BY <3>2, <3>3, <3>4, <3>5
    <3>7. sg[i].page = p + i - 1 /\ sg[i].offset = 0
      BY <1>2, <1>3, <2>2
    <3>8. sg[i].page * PageSize + sg[i].offset = addr + U[i - 1]
      <4> HIDE DEF U
      <4>1. addr + (f + x) + 0 = addr + (f + x)
        BY <3>2
      <4> QED
        BY <3>2, <3>3, <3>7, <4>1
    <3> QED
      BY <3>6, <3>8
  <2> QED
    BY <2>1, <2>2
<1>10. U[count] = len
  <2>1. CASE count = 1
    <3>1. p = q
      BY <1>3, <1>4, <2>1
    <3>2. q * PageSize = base
      BY <1>3, <3>1
    <3>3. f = len
      BY <1>3, <1>5, <3>2
    <3> QED
      BY <1>5, <1>8, <2>1, <3>3
  <2>2. CASE count # 1
    <3>1. count \in 2..count /\ count \in 0..count /\ p + count - 1 = q
      BY <1>1, <1>4, <2>2
    <3>2. PICK y \in Nat, x \in Nat :
            /\ y = (count - 1) * PageSize /\ x = (count - 2) * PageSize /\ y = x + z
            /\ f = z - o /\ f + x < len
            /\ (p + count - 1) * PageSize = addr + (f + x)
      BY <1>6, <3>1
    <3>3. q * PageSize = addr + (f + x)
      BY <3>1, <3>2
    <3>4. f + y >= len
      BY <1>3, <3>2, <3>3
    <3>5. U[count] = IF f + y < len THEN f + y ELSE len
      BY <1>1, <1>5, <3>1, <3>2 DEF Least
    <3> HIDE DEF U
    <3> QED
      BY <3>2, <3>4, <3>5
  <2> QED
    BY <2>1, <2>2
<1>11. U \in [0..count -> Nat]
  <2>1. U = [i \in 0..count |-> U[i]]
    OBVIOUS
  <2> HIDE DEF U
  <2> QED
    BY <1>7, <2>1
<1> HIDE DEF U
<1>12. ListsFrom(sg, addr, U)
  BY <1>2, <1>7, <1>9, <1>11 DEF ListsFrom
<1> QED
  BY <1>10, <1>12 DEF sg, count

-------------------------------------------------------------------------------
(***************************************************************************)
(* The lists of an operation                                               *)
(***************************************************************************)
LEMMA PrefixOfRange ==
  ASSUME NEW a \in Nat, NEW m \in Nat, NEW n \in Nat, m <= n
  PROVE  IsPrefix(Range1(a, m), Range1(a, n))
<1>1. /\ Range1(a, m) \in Seq(Nat) /\ Len(Range1(a, m)) = m
      /\ Range1(a, n) \in Seq(Nat) /\ Len(Range1(a, n)) = n
      /\ \A k \in 1..m : Range1(a, m)[k] = a + k - 1
      /\ \A k \in 1..n : Range1(a, n)[k] = a + k - 1
  BY RangeIs
<1>2. /\ \A k \in 1..m : k \in 1..n /\ Range1(a, m)[k] \in Nat /\ Range1(a, n)[k] \in Nat
      /\ m - 1 + 1 = m /\ 1 \in Int /\ m \in Int /\ (IF 1 <= m THEN m - 1 + 1 ELSE 0) = m
      /\ \A k \in 1..m : 1 + k - 1 = k
  <2>1. \A k \in 1..m : k \in 1..n /\ a + k - 1 \in Nat /\ 1 + k - 1 = k
    OBVIOUS
  <2>2. m - 1 + 1 = m /\ 1 \in Int /\ m \in Int /\ (IF 1 <= m THEN m - 1 + 1 ELSE 0) = m
    OBVIOUS
  <2> QED
    BY <1>1, <2>1, <2>2
<1>3. /\ SubSeq(Range1(a, m), 1, m) \in Seq(Nat)
      /\ Len(SubSeq(Range1(a, m), 1, m)) = IF 1 <= m THEN m - 1 + 1 ELSE 0
      /\ \A i \in 1..(m - 1 + 1) : SubSeq(Range1(a, m), 1, m)[i] = Range1(a, m)[1 + i - 1]
  BY <1>2, SubSeqProperties
<1>4. /\ SubSeq(Range1(a, n), 1, m) \in Seq(Nat)
      /\ Len(SubSeq(Range1(a, n), 1, m)) = IF 1 <= m THEN m - 1 + 1 ELSE 0
      /\ \A i \in 1..(m - 1 + 1) : SubSeq(Range1(a, n), 1, m)[i] = Range1(a, n)[1 + i - 1]
  BY <1>2, SubSeqProperties
<1>5. /\ Len(SubSeq(Range1(a, m), 1, m)) = m /\ Len(SubSeq(Range1(a, n), 1, m)) = m
      /\ \A i \in 1..m : SubSeq(Range1(a, m), 1, m)[i] = SubSeq(Range1(a, n), 1, m)[i]
  <2>1. Len(SubSeq(Range1(a, m), 1, m)) = m /\ Len(SubSeq(Range1(a, n), 1, m)) = m
    BY <1>2, <1>3, <1>4
  <2>2. ASSUME NEW i \in 1..m PROVE SubSeq(Range1(a, m), 1, m)[i] = SubSeq(Range1(a, n), 1, m)[i]
    <3>1. /\ SubSeq(Range1(a, m), 1, m)[i] = Range1(a, m)[1 + i - 1]
          /\ SubSeq(Range1(a, n), 1, m)[i] = Range1(a, n)[1 + i - 1]
      BY <1>2, <1>3, <1>4
    <3> QED
      BY <1>1, <1>2, <3>1
  <2> QED
    BY <2>1, <2>2
<1>6. SubSeq(Range1(a, m), 1, m) = SubSeq(Range1(a, n), 1, m)
  BY <1>3, <1>4, <1>5, SeqEqual
<1> QED
  BY <1>1, <1>6 DEF IsPrefix

LEMMA SgOfIs ==
  ASSUME NEW addr \in Nat, NEW len \in Nat, NEW count \in Nat
  PROVE  /\ Len(SgOf(addr, len, count)) \in 0..count
         /\ addr # NULL /\ len # 0 /\ count = PageCount(addr, len) =>
               Bytes(SgOf(addr, len, count)) = Range1(addr, len)
<1>1. UserSg(addr, len, count) \in Seq(Entries) /\ Len(UserSg(addr, len, count)) = count
  BY UserSgHas
<1>2. Len(SgOf(addr, len, count)) \in 0..count
  <2>1. CASE addr = NULL \/ len = 0 \/ count = 0
    <3>1. SgOf(addr, len, count) = <<>> /\ Len(<<>>) = 0 /\ 0 \in 0..count
      BY <2>1 DEF SgOf
    <3> QED
      BY <3>1
  <2>2. CASE ~(addr = NULL \/ len = 0 \/ count = 0)
    <3>1. SgOf(addr, len, count) = UserSg(addr, len, count) /\ count \in 0..count
      BY <2>2 DEF SgOf
    <3> QED
      BY <1>1, <3>1
  <2> QED
    BY <2>1, <2>2
<1>3. ASSUME addr # NULL, len # 0, count = PageCount(addr, len)
      PROVE  Bytes(SgOf(addr, len, count)) = Range1(addr, len)
  <2>1. count # 0
    BY <1>3, PagesCover
  <2>2. SgOf(addr, len, count) = UserSg(addr, len, count)
    BY <1>3, <2>1 DEF SgOf
  <2>3. PICK U : ListsFrom(UserSg(addr, len, count), addr, U) /\ U[count] = len
    BY <1>3, UserSgLists
  <2> QED
    BY <1>1, <2>1, <2>2, <2>3, BytesOfList
<1> QED
  BY <1>2, <1>3

LEMMA SlotsLength ==
  ASSUME ArrayInv
  PROVE  arraySize \in Nat /\ Len(slots) \in Nat /\ arraySize <= Len(slots)
  BY DEF ArrayInv

\* The lists are the buffers, see ListsAreTheBuffers.
SourceListed ==
    SrcLen(call) > 0 =>
        IsPrefix(Range1(IF call.kind = "srtp" THEN AuthStart(call) ELSE call.src, SrcLen(call)), Bytes(srcSg))
DestinationListed ==
    DstLen(call) > 0 => IsPrefix(Range1(call.dst, DstLen(call)), Bytes(dstSg))

\* The lists and the pages of an operation have room in the session's arrays.
RoomInv ==
    /\ used <= arraySize
    /\ Len(srcSg) \in Nat /\ Len(dstSg) \in Nat
    /\ Len(srcSg) <= arraySize
    /\ (IF call.kind = "srtp" THEN Len(srcSg) ELSE readonly) + Len(dstSg) <= arraySize

ListsInv ==
    /\ sgRoom \in Nat /\ arraySize <= sgRoom
    /\ pc \in {"idle", "size", "pin", "pin dst"} => dstSg = <<>>
    /\ pc = "pin dst" => Len(srcSg) \in 0..readonly /\ SourceListed
    /\ pc \in {"crypt", "release"} => RoomInv
    /\ pc = "crypt" /\ call.kind # "aead in place" => SourceListed /\ DestinationListed

\* The data is in the destination, and what is authenticated comes before it.
LEMMA BuffersAre ==
  ASSUME NEW c \in Calls
  PROVE  /\ SrcLen(c) # 0 => c.src # NULL /\ SrcLen(c) = c.len
         /\ DstLen(c) # 0 => c.dst # NULL
         /\ c.kind = "tls" => SrcLen(c) <= DstLen(c)
         /\ c.kind = "crypt" /\ InPlace(c) => SrcLen(c) = DstLen(c) /\ c.src = c.dst
         /\ c.kind = "srtp" => /\ AuthLen(c) # 0 /\ SrcLen(c) = c.len /\ DstLen(c) = c.len
                               /\ c.diff < AuthLen(c) /\ AuthLen(c) - c.diff = c.len
                               /\ AuthStart(c) + c.diff = c.dst /\ c.len <= AuthLen(c)
<1>1. /\ c.src \in Nat /\ c.dst \in Nat /\ c.len \in Nat /\ c.diff \in 0..2 /\ c.diff \in Nat
      /\ c.src = NULL => c.len = 0
      /\ c.dst = NULL => c.kind = "crypt"
      /\ c.kind \in {"crypt", "srtp"} => c.len > 0
      /\ c.kind \in {"tls", "srtp", "aead in place"} => c.src = c.dst
  <2>1. c.diff \in 0..2
    BY CallIs
  <2>2. c.diff \in Nat
    BY <2>1
  <2> QED
    BY <2>1, <2>2, CallIs DEF Calls
<1>2. SrcLen(c) = c.len
  BY <1>1, Zenon DEF SrcLen
<1>3. DstLen(c) # 0 => c.dst # NULL
  BY DEF DstLen
<1>4. c.kind = "tls" => SrcLen(c) <= DstLen(c)
  <2> SUFFICES ASSUME c.kind = "tls" PROVE SrcLen(c) <= DstLen(c)
    OBVIOUS
  <2>1. DstLen(c) = c.len + (Blocksize + TagLen)
    BY <1>1 DEF DstLen
  <2>2. c.len <= c.len + (Blocksize + TagLen)
    BY <1>1, BuffersAssumption
  <2> QED
    BY <1>2, <2>1, <2>2
<1>5. c.kind = "crypt" /\ InPlace(c) => SrcLen(c) = DstLen(c) /\ c.src = c.dst
  <2> SUFFICES ASSUME c.kind = "crypt", InPlace(c) PROVE SrcLen(c) = DstLen(c) /\ c.src = c.dst
    OBVIOUS
  <2>1. c.src = c.dst /\ c.src # NULL /\ c.len + 0 = c.len
    BY <1>1 DEF InPlace
  <2>2. DstLen(c) = c.len + 0
    BY <2>1 DEF DstLen
  <2> QED
    BY <1>2, <2>1, <2>2
<1>6. ASSUME c.kind = "srtp"
      PROVE  /\ AuthLen(c) # 0 /\ DstLen(c) = c.len
             /\ c.diff < AuthLen(c) /\ AuthLen(c) - c.diff = c.len
             /\ AuthStart(c) + c.diff = c.dst /\ c.len <= AuthLen(c)
  <2>1. c.dst # NULL /\ c.len > 0 /\ c.src = c.dst /\ c.len + 0 = c.len
    BY <1>1, <1>6
  <2>2. DstLen(c) = c.len + 0
    BY <1>6, <2>1 DEF DstLen
  <2>3. AuthLen(c) = c.len + c.diff /\ AuthStart(c) = c.src - c.diff
    BY DEF AuthLen, AuthStart
  <2>4. /\ c.len + c.diff # 0 /\ c.diff < c.len + c.diff /\ (c.len + c.diff) - c.diff = c.len
        /\ (c.src - c.diff) + c.diff = c.src /\ c.len <= c.len + c.diff
    BY <1>1, <2>1
  <2> QED
    BY <2>1, <2>2, <2>3, <2>4
<1> QED
  BY <1>1, <1>2, <1>3, <1>4, <1>5, <1>6

LEMMA AdjustRoom ==
  ASSUME PowersDouble, ArrayInv, sgRoom \in Nat, arraySize <= sgRoom, dstSg = <<>>,
         NEW count \in Nat, AdjustSgArray(count)
  PROVE  /\ sgRoom' \in Nat /\ arraySize' <= sgRoom' /\ dstSg' = <<>>
         /\ pc' \in {"pin", "idle"}
<1>1. Doubled(count) \in Nat /\ Doubled(count) <= Doubled(count)
  BY DoubledHasRoom DEF ArrayInv
<1> QED
  BY <1>1 DEF AdjustSgArray, Return, array, lists

LEMMA ListsInvSize ==
  ASSUME PowersDouble, PagesInv, ListsInv, Size
  PROVE  ListsInv'
<1>1. /\ call \in Calls /\ ArrayInv /\ sgRoom \in Nat /\ arraySize <= sgRoom /\ dstSg = <<>>
  BY DEF PagesInv, ListsInv, Size
<1>2. sgRoom' \in Nat /\ arraySize' <= sgRoom' /\ dstSg' = <<>> /\ pc' \in {"pin", "idle"}
  <2>1. CASE call.kind = "srtp"
    <3>1. AdjustSgArray(2 * PageCount(AuthStart(call), AuthLen(call)))
      BY <2>1 DEF Size
    <3>2. PageCount(AuthStart(call), AuthLen(call)) \in Nat
      BY <1>1, CallIs, PagesCover
    <3>3. 2 * PageCount(AuthStart(call), AuthLen(call)) \in Nat
      BY <3>2
    <3> QED
      BY <1>1, <3>1, <3>3, AdjustRoom
  <2>2. CASE call.kind # "srtp"
    <3>1. /\ used' = CountPages(call)
          /\ AdjustSgArray(used') \/ (pc' = "pin" /\ UNCHANGED <<array, lists>>)
      BY <2>2 DEF Size
    <3>2. CountPages(call) \in Nat
      BY <1>1, CountsAreNumbers
    <3> QED
      BY <1>1, <3>1, <3>2, AdjustRoom DEF array, lists
  <2> QED
    BY <2>1, <2>2
<1> QED
  BY <1>2 DEF ListsInv

LEMMA ListsInvPin ==
  ASSUME PagesInv, ListsInv, Pin
  PROVE  ListsInv'
<1>1. /\ pc = "pin" /\ call.kind # "srtp" /\ UNCHANGED <<arraySize, sgRoom, used, readonly>>
      /\ IF call.kind = "tls" THEN PinOne(call.dst, DstLen(call))
         ELSE IF InPlace(call) THEN PinOne(call.src, SrcLen(call))
         ELSE PinSource
  BY DEF Pin
<1>2. /\ call \in Calls /\ CountsInv /\ sgRoom \in Nat /\ arraySize \in Nat /\ arraySize <= sgRoom
      /\ dstSg = <<>>
  BY <1>1 DEF PagesInv, ListsInv, ArrayInv
<1>3. /\ call.src \in Nat /\ call.dst \in Nat /\ SrcLen(call) \in Nat /\ DstLen(call) \in Nat
      /\ PageCount(call.src, SrcLen(call)) \in Nat /\ PageCount(call.dst, DstLen(call)) \in Nat
      /\ used \in Nat /\ used = CountPages(call) /\ used <= arraySize
      /\ readonly = IF call.kind = "tls" \/ InPlace(call) THEN 0
                    ELSE PageCount(call.src, SrcLen(call))
  BY <1>2, CallIs, CountsAreNumbers DEF CountsInv
<1>4. CASE pc' = "idle" /\ dstSg' = <<>>
  BY <1>1, <1>2, <1>4 DEF ListsInv
\* In place and for TLS: one list.
<1>5. ASSUME NEW addr, NEW len, call.kind = "tls" \/ InPlace(call),
             IF call.kind = "tls" THEN addr = call.dst /\ len = DstLen(call)
                                  ELSE addr = call.src /\ len = SrcLen(call),
             srcSg' = SgOf(addr, len, used), dstSg' = srcSg', pc' = "crypt", UNCHANGED call
      PROVE  ListsInv'
  <2>1. addr \in Nat /\ len \in Nat /\ readonly = 0
    BY <1>3, <1>5
  <2>2. Len(SgOf(addr, len, used)) \in 0..used
    BY <1>3, <2>1, SgOfIs
  <2>3. RoomInv'
    <3>1. PICK l \in Nat : l = Len(srcSg') /\ l = Len(dstSg') /\ l <= used
      BY <1>3, <1>5, <2>2
    <3>2. /\ used' = used /\ arraySize' = arraySize /\ readonly' = 0 /\ call'.kind # "srtp"
          /\ 0 + l = l /\ l <= arraySize
      BY <1>1, <1>2, <1>3, <1>5, <2>1, <3>1
    <3> QED
      BY <1>3, <3>1, <3>2 DEF RoomInv
  <2>4. ASSUME call.kind # "aead in place" PROVE SourceListed' /\ DestinationListed'
    <3>1. addr = call.dst /\ addr = call.src /\ used = PageCount(addr, len)
          /\ DstLen(call) = len /\ SrcLen(call) <= len
      <4>1. CASE call.kind = "tls"
        BY <1>2, <1>3, <1>5, <4>1, CallIs, CountsAreNumbers, BuffersAre
      <4>2. CASE call.kind = "crypt" /\ InPlace(call)
        <5>1. /\ SrcLen(call) = DstLen(call) /\ call.src = call.dst
              /\ addr = call.src /\ len = SrcLen(call) /\ SrcLen(call) <= SrcLen(call)
          BY <1>2, <1>3, <1>5, <4>2, BuffersAre
        <5>2. CountPages(call) = PageCount(call.src, SrcLen(call))
          BY <4>2, <5>1, Zenon DEF CountPages
        <5> QED
          BY <1>3, <5>1, <5>2
      <4> QED
        BY <1>5, <2>4, <4>1, <4>2 DEF InPlace
    <3>2. ASSUME len # 0
          PROVE  /\ Bytes(srcSg') = Range1(addr, len) /\ Bytes(dstSg') = Range1(addr, len)
                 /\ IsPrefix(Range1(addr, SrcLen(call)), Range1(addr, len))
                 /\ IsPrefix(Range1(addr, DstLen(call)), Range1(addr, len))
      <4>1. addr # NULL
        BY <1>2, <3>1, <3>2, BuffersAre, Zenon
      <4>2. Bytes(SgOf(addr, len, used)) = Range1(addr, len)
        BY <1>3, <2>1, <3>1, <3>2, <4>1, SgOfIs
      <4> QED
        BY <1>3, <1>5, <2>1, <3>1, <4>2, PrefixOfRange
    <3>3. SrcLen(call) > 0 \/ DstLen(call) > 0 => len # 0
      BY <1>3, <2>1, <3>1
    <3> QED
      BY <1>1, <1>5, <3>1, <3>2, <3>3 DEF SourceListed, DestinationListed
  <2> QED
    BY <1>1, <1>2, <1>5, <2>3, <2>4 DEF ListsInv
\* Otherwise: the source's list.
<1>6. ASSUME call.kind # "tls", ~InPlace(call), pc' = "pin dst", UNCHANGED <<call, dstSg>>,
             srcSg' = SgOf(call.src, SrcLen(call), readonly)
      PROVE  ListsInv'
  <2>1. readonly = PageCount(call.src, SrcLen(call)) /\ readonly \in Nat
    BY <1>3, <1>6
  <2>2. Len(srcSg') \in 0..readonly
    BY <1>3, <1>6, <2>1, SgOfIs
  <2>3. SourceListed'
    <3> SUFFICES ASSUME SrcLen(call) > 0
                 PROVE  IsPrefix(Range1(call.src, SrcLen(call)), Bytes(srcSg'))
      BY <1>1, <1>6 DEF SourceListed
    <3>1. SrcLen(call) # 0 /\ SrcLen(call) <= SrcLen(call)
      BY <1>3
    <3>2. Bytes(srcSg') = Range1(call.src, SrcLen(call))
      <4>1. call.src # NULL
        BY <1>2, <3>1, BuffersAre
      <4>2. Bytes(SgOf(call.src, SrcLen(call), readonly)) = Range1(call.src, SrcLen(call))
        BY <1>3, <2>1, <3>1, <4>1, SgOfIs
      <4> QED
        BY <1>6, <4>2
    <3> QED
      BY <1>3, <3>1, <3>2, PrefixOfRange
  <2> QED
    BY <1>1, <1>2, <1>6, <2>2, <2>3 DEF ListsInv
<1>7. ASSUME NEW addr, NEW len, PinOne(addr, len)
      PROVE  \/ pc' = "idle" /\ dstSg' = <<>>
             \/ /\ srcSg' = SgOf(addr, len, used) /\ dstSg' = srcSg'
                /\ pc' = "crypt" /\ UNCHANGED call
  BY <1>7 DEF PinOne, Return
<1>8. ASSUME PinSource
      PROVE  \/ pc' = "idle" /\ dstSg' = <<>>
             \/ /\ srcSg' = SgOf(call.src, SrcLen(call), readonly)
                /\ pc' = "pin dst" /\ UNCHANGED <<call, dstSg>>
  BY <1>8 DEF PinSource, Return
<1> QED
  BY <1>1, <1>4, <1>5, <1>6, <1>7, <1>8

LEMMA ListsInvPinSrtp ==
  ASSUME PagesInv, ListsInv, PinSrtp
  PROVE  ListsInv'
<1> DEFINE start == AuthStart(call)
           len == AuthLen(call)
           count == PageCount(start, len)
           authSg == UserSg(start, len, count)
<1>1. /\ pc = "pin" /\ call.kind = "srtp" /\ UNCHANGED <<arraySize, sgRoom>>
      /\ \/ /\ used' = count /\ readonly' = 0
            /\ srcSg' = authSg /\ dstSg' = SgAdvance(SgCopy(authSg, len), call.diff)
            /\ pc' = "crypt" /\ UNCHANGED call
         \/ Return
  BY DEF PinSrtp
<1>2. /\ call \in Calls /\ sgRoom \in Nat /\ arraySize \in Nat /\ arraySize <= sgRoom
      /\ 2 * count <= arraySize
  BY <1>1 DEF PagesInv, ListsInv, ArrayInv
<1>3. CASE Return
  BY <1>1, <1>2, <1>3 DEF ListsInv, Return
<1>4. CASE /\ used' = count /\ readonly' = 0
           /\ srcSg' = authSg /\ dstSg' = SgAdvance(SgCopy(authSg, len), call.diff)
           /\ pc' = "crypt" /\ UNCHANGED call
  <2>1. /\ start \in Nat /\ len \in Nat /\ len # 0 /\ call.diff \in Nat /\ call.len \in Nat
        /\ SrcLen(call) = call.len /\ DstLen(call) = call.len
        /\ call.diff < len /\ len - call.diff = call.len
        /\ start + call.diff = call.dst /\ call.len <= len /\ call.dst \in Nat
    <3>1. call.diff \in 0..2
      BY <1>2, CallIs
    <3>2. call.diff \in Nat
      BY <3>1
    <3> QED
      BY <1>1, <1>2, <3>2, CallIs, BuffersAre
  <2> HIDE DEF start, len
  <2>2. count \in Nat /\ count # 0
    <3>1. count \in Nat /\ count > 0
      BY <2>1, PagesCover
    <3> HIDE DEF count
    <3> QED
      BY <3>1
  <2>3. Len(authSg) = count
    BY <2>1, <2>2, UserSgHas
  <2>4. PICK U : ListsFrom(authSg, start, U) /\ U[Len(authSg)] = len
    BY <2>1, <2>3, UserSgLists
  <2> HIDE DEF count, authSg
  <2> DEFINE copy == SgCopy(authSg, len)
             data == SgAdvance(copy, call.diff)
  <2>5. PICK V : /\ ListsFrom(copy, start, V)
                 /\ Len(copy) \in 1..Len(authSg) /\ V[Len(copy)] = len
    <3>1. 0 < len /\ len <= U[Len(authSg)]
      BY <2>1, <2>4
    <3> QED
      BY <2>1, <2>4, <3>1, CopyOfList
  <2> HIDE DEF copy
  <2>6. PICK W : /\ ListsFrom(data, start + call.diff, W)
                 /\ Len(data) \in 1..Len(copy) /\ W[Len(data)] = V[Len(copy)] - call.diff
    BY <2>1, <2>5, AdvanceOfList
  <2> HIDE DEF data
  <2>7. Len(data) \in 1..count
    BY <2>2, <2>3, <2>5, <2>6
  <2>8. Bytes(authSg) = Range1(start, len) /\ Bytes(data) = Range1(call.dst, call.len)
    <3>1. Len(authSg) # 0 /\ Len(data) # 0
      BY <2>2, <2>3, <2>7
    <3>2. W[Len(data)] = call.len
      BY <2>1, <2>5, <2>6
    <3>3. Bytes(authSg) = Range1(start, len)
      BY <2>1, <2>4, <3>1, BytesOfList
    <3>4. Bytes(data) = Range1(call.dst, call.len)
      BY <2>1, <2>6, <3>1, <3>2, BytesOfList
    <3> QED
      BY <3>3, <3>4
  <2>9. srcSg' = authSg /\ dstSg' = data
    BY <1>4 DEF data, copy
  <2>10. SourceListed' /\ DestinationListed'
    <3>1. /\ IsPrefix(Range1(start, call.len), Range1(start, len))
          /\ IsPrefix(Range1(call.dst, call.len), Range1(call.dst, call.len))
      <4>1. call.len <= call.len
        BY <2>1
      <4> QED
        BY <2>1, <4>1, PrefixOfRange
    <3> QED
      BY <1>1, <1>4, <2>1, <2>8, <2>9, <3>1 DEF SourceListed, DestinationListed, start
  <2>11. RoomInv'
    <3>1. PICK d \in Nat : d = Len(data) /\ d <= count
      BY <2>7
    <3>2. count <= arraySize /\ count + d <= arraySize
      BY <1>2, <2>2, <3>1 DEF count, start, len
    <3>3. /\ used' = count /\ arraySize' = arraySize /\ call'.kind = "srtp"
          /\ Len(srcSg') = count /\ Len(dstSg') = d
      BY <1>1, <1>4, <2>3, <2>9, <3>1
    <3> QED
      BY <2>2, <3>1, <3>2, <3>3 DEF RoomInv
  <2> QED
    BY <1>1, <1>2, <1>4, <2>10, <2>11 DEF ListsInv
<1> QED
  BY <1>1, <1>3, <1>4

LEMMA ListsInvPinDst ==
  ASSUME PagesInv, ListsInv, PinDst
  PROVE  ListsInv'
<1>1. /\ pc = "pin dst" /\ UNCHANGED <<arraySize, sgRoom>>
      /\ \/ /\ dstSg' = SgOf(call.dst, DstLen(call), used - readonly)
            /\ pc' = "crypt" /\ UNCHANGED <<call, srcSg, used, readonly>>
         \/ Return
  BY DEF PinDst
<1>2. /\ call \in Calls /\ CountsInv /\ call.kind \notin {"tls", "srtp"} /\ ~InPlace(call)
      /\ sgRoom \in Nat /\ arraySize \in Nat /\ arraySize <= sgRoom
      /\ Len(srcSg) \in 0..readonly /\ SourceListed
  BY <1>1 DEF PagesInv, ListsInv, ArrayInv
<1>3. CASE Return
  BY <1>1, <1>2, <1>3 DEF ListsInv, Return
<1>4. CASE /\ dstSg' = SgOf(call.dst, DstLen(call), used - readonly)
           /\ pc' = "crypt" /\ UNCHANGED <<call, srcSg, used, readonly>>
  <2>1. PICK s \in Nat, d \in Nat :
          /\ s = readonly /\ d = PageCount(call.dst, DstLen(call))
          /\ used = s + d /\ used - readonly = d /\ s + d <= arraySize
    <3>1. PICK s \in Nat, d \in Nat :
            s = PageCount(call.src, SrcLen(call)) /\ d = PageCount(call.dst, DstLen(call))
      BY <1>2, CountsAreNumbers
    <3>2. s = readonly /\ used = s + d /\ used <= arraySize
      BY <1>2, <3>1, CountsAreNumbers DEF CountsInv
    <3>3. (s + d) - s = d
      OBVIOUS
    <3> QED
      BY <3>1, <3>2, <3>3
  <2>2. call.dst \in Nat /\ DstLen(call) \in Nat
    BY <1>2, CallIs
  <2>3. Len(dstSg') \in 0..d
    BY <1>4, <2>1, <2>2, SgOfIs
  <2>4. RoomInv'
    <3>1. PICK m \in Nat, n \in Nat : m = Len(srcSg') /\ m <= s /\ n = Len(dstSg') /\ n <= d
      BY <1>2, <1>4, <2>1, <2>3
    <3>2. m <= arraySize /\ s + n <= arraySize /\ used <= arraySize
      BY <1>2, <2>1, <3>1
    <3> QED
      BY <1>1, <1>2, <1>4, <2>1, <3>1, <3>2 DEF RoomInv
  <2>5. SourceListed'
    BY <1>2, <1>4 DEF SourceListed
  <2>6. DestinationListed'
    <3> SUFFICES ASSUME DstLen(call) > 0
                 PROVE  IsPrefix(Range1(call.dst, DstLen(call)), Bytes(dstSg'))
      BY <1>4 DEF DestinationListed
    <3>1. DstLen(call) # 0 /\ DstLen(call) <= DstLen(call)
      BY <2>2
    <3>2. Bytes(dstSg') = Range1(call.dst, DstLen(call))
      <4>1. call.dst # NULL
        BY <1>2, <3>1, BuffersAre
      <4>2. Bytes(SgOf(call.dst, DstLen(call), d)) = Range1(call.dst, DstLen(call))
        BY <2>1, <2>2, <3>1, <4>1, SgOfIs, Zenon
      <4> QED
        BY <1>4, <2>1, <4>2
    <3> QED
      BY <2>2, <3>1, <3>2, PrefixOfRange
  <2> QED
    BY <1>1, <1>2, <1>4, <2>4, <2>5, <2>6 DEF ListsInv
<1> QED
  BY <1>1, <1>3, <1>4

LEMMA ListsInvInit ==
  ASSUME Init
  PROVE  ListsInv
<1>1. Prealloc \in Nat /\ Prealloc <= Prealloc
  BY PreallocAssumption
<1> QED
  BY <1>1 DEF Init, ListsInv

LEMMA ListsInvNext ==
  ASSUME PowersDouble, PagesInv, ListsInv, [CallsNext]_callVars
  PROVE  ListsInv'
<1>1. CASE Next
  <2>1. CASE Begin
    BY <2>1 DEF Begin, array, lists, ListsInv
  <2>2. CASE Crypt
    BY <2>2 DEF Crypt, array, lists, ListsInv, RoomInv
  <2>3. CASE Release
    BY <2>3 DEF Release, ReleaseUserPages, Return, array, ListsInv
  <2> QED
    BY <1>1, <2>1, <2>2, <2>3, ListsInvSize, ListsInvPin, ListsInvPinSrtp, ListsInvPinDst DEF Next
<1>2. CASE UNCHANGED vars
  BY <1>2 DEF vars, ListsInv, RoomInv, SourceListed, DestinationListed
<1> QED
  BY <1>1, <1>2 DEF CallsNext, callVars

LEMMA ListsInvIs ==
  ASSUME PagesInv, ListsInv
  PROVE  ListsAreTheBuffers
<1>1. /\ arraySize <= sgRoom /\ sgRoom \in Nat
      /\ arraySize \in Nat /\ arraySize <= Len(slots)
  BY SlotsLength DEF PagesInv, ListsInv
<1>2. /\ pc = "pin" /\ call.kind = "srtp" => 2 * PageCount(AuthStart(call), AuthLen(call)) <= arraySize
      /\ pc = "pin" /\ call.kind # "srtp" => used <= arraySize
  BY DEF PagesInv, CountsInv
<1>3. pc \in {"pin dst", "crypt", "release"} =>
         /\ used <= arraySize /\ Len(srcSg) <= sgRoom
         /\ (IF call.kind = "srtp" THEN Len(srcSg) ELSE readonly) + Len(dstSg) <= sgRoom
  <2>1. CASE pc = "pin dst"
    <3>1. /\ call \in Calls /\ CountsInv /\ call.kind \notin {"tls", "srtp"} /\ ~InPlace(call)
          /\ Len(srcSg) \in 0..readonly /\ Len(dstSg) = 0
      BY <2>1 DEF PagesInv, ListsInv
    <3>2. PICK s \in Nat, d \in Nat :
            s = PageCount(call.src, SrcLen(call)) /\ d = PageCount(call.dst, DstLen(call))
      BY <3>1, CountsAreNumbers
    <3>3. s = readonly /\ used = s + d /\ used <= arraySize
      BY <3>1, <3>2, CountsAreNumbers DEF CountsInv
    <3>4. PICK n \in Nat : n = Len(srcSg) /\ n <= s
      BY <3>1, <3>3
    <3>5. used <= arraySize /\ n <= sgRoom /\ s + 0 <= sgRoom
      BY <1>1, <3>3, <3>4
    <3> QED
      BY <2>1, <3>1, <3>3, <3>4, <3>5
  <2>2. CASE pc \in {"crypt", "release"}
    <3>1. RoomInv /\ readonly \in Nat
      BY <2>2 DEF PagesInv, ListsInv
    <3>2. PICK m \in Nat : m = IF call.kind = "srtp" THEN Len(srcSg) ELSE readonly
      BY <3>1 DEF RoomInv
    <3>3. PICK s \in Nat, d \in Nat : s = Len(srcSg) /\ d = Len(dstSg)
      BY <3>1 DEF RoomInv
    <3>4. used <= arraySize /\ s <= arraySize /\ m + d <= arraySize
      BY <3>1, <3>2, <3>3 DEF RoomInv
    <3>5. s <= sgRoom /\ m + d <= sgRoom
      BY <1>1, <3>4
    <3> QED
      BY <2>2, <3>2, <3>3, <3>4, <3>5
  <2> QED
    BY <2>1, <2>2
<1> QED
  BY <1>1, <1>2, <1>3 DEF ListsInv, ListsAreTheBuffers, SourceListed, DestinationListed

\* The lists of an operation are its buffers, with tag and padding, however these lie
\* in the pages and whatever sg_copy and sg_advance cut from them; and lists and pages
\* fit the session's arrays, after a krealloc that failed half-way too (get_userbuf,
\* get_userbuf_tls, get_userbuf_srtp, adjust_sg_array).
THEOREM ListsAreAlwaysTheBuffers ==
  ASSUME PowersDouble
  PROVE  CallsSpec => []ListsAreTheBuffers
<1>1. CallsInit => PagesInv /\ ListsInv
  BY PagesInvInit, ListsInvInit DEF CallsInit
<1>2. PagesInv /\ ListsInv /\ [CallsNext]_callVars => PagesInv' /\ ListsInv'
  BY PagesInvNext, ListsInvNext, PowersDouble
<1>3. PagesInv /\ ListsInv => ListsAreTheBuffers
  BY ListsInvIs
<1> QED
  BY <1>1, <1>2, <1>3, PTL DEF CallsSpec

================================================================================
