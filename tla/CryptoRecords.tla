---------------------------- MODULE CryptoRecords ----------------------------
(***************************************************************************)
(* CIOCAUTHCRYPT in TLS and SRTP mode (cryptodev-linux-1.6/authenc.c): one *)
(* session makes a record, the record travels, where a byte may be changed *)
(* or a block lost, and a session with the same keys takes it apart.       *)
(*                                                                         *)
(* Cipher and hash are ideal: a byte of ciphertext is <<"enc", b>> for the *)
(* byte b, and decrypts to b; one that was changed is <<"bad", n>> and     *)
(* decrypts to n; a tag is made of bytes <<"tag", input, i>>.              *)
(***************************************************************************)
EXTENDS Integers, Sequences, SequencesExt

CONSTANTS
    Values,      \* values of bytes of data, and of bytes changed
    Headers,     \* lengths of the data that is only authenticated
    MaxLen,      \* longest data
    MinSrtpLen,  \* shortest data of an SRTP packet
    Blocksize,   \* of the TLS cipher
    TagLen

VARIABLES
    phase,   \* "new", "sent" or "received"
    sent,    \* what was given to the sender: kind, auth (data) and data
    wire,    \* the record
    tag,     \* the tag SRTP leaves beside it
    altered, \* the record was changed on its way
    result   \* what the receiver's call returns: code, data

vars == <<phase, sent, wire, tag, altered, result>>

Byte(n) == <<n>>
Data(len) == [1..len -> {Byte(n) : n \in Values}]
NoResult == [code |-> "none", data |-> <<>>]

Encrypt(bytes) == [i \in DOMAIN bytes |-> <<"enc", bytes[i]>>]
DecryptByte(b) == IF b[1] = "enc" THEN b[2] ELSE Byte(b[2])
Decrypt(bytes) == [i \in DOMAIN bytes |-> DecryptByte(bytes[i])]
Mac(bytes) == [i \in 1..TagLen |-> <<"tag", bytes, i>>]

\* The value of a byte: a tag's may be anything.
IsValue(b, n) == Len(b) = 1 => b[1] = n

-------------------------------------------------------------------------------
\* Variant: each byte the number of bytes.
PaddingOneMore(len) ==
    LET size == Blocksize - (len % Blocksize)
    IN  [i \in 1..size |-> Byte(size)]

\* pad_record: pad_size bytes of value pad_size - 1, a block when the record
\* fills its blocks.
Padding(len) ==
    LET size == Blocksize - (len % Blocksize)
    IN  [i \in 1..size |-> Byte(size - 1)]

\* tls_auth_n_crypt, encryption: tag, padding unless the cipher is a stream's,
\* encryption.
TlsEncrypt(auth, data) ==
    LET record == data \o Mac(auth \o data)
    IN  Encrypt(IF Blocksize > 1 THEN record \o Padding(Len(record)) ELSE record)

\* Variant: the bytes before the last one are not looked at.
PadLengthUnchecked(record, padSize) == IF padSize + 1 <= Len(record) THEN padSize + 1 ELSE 0

\* verify_tls_record_pad, when the last byte has the value padSize: the length
\* of the padding, or 0 for a bad one.
PadLength(record, padSize) ==
    LET len == Len(record)
    IN  IF padSize + 1 <= len /\ \A i \in (len - padSize)..(len - 1) : IsValue(record[i], padSize)
        THEN padSize + 1 ELSE 0

\* tls_auth_n_crypt, decryption.  After a bad padding the tag is still looked
\* for, at the end of the whole record.
Opened(auth, record, padLen) ==
    LET rest == SubSeq(record, 1, Len(record) - padLen)
        len  == Len(rest) - TagLen
        data == SubSeq(rest, 1, len)
    IN  IF len < 0 THEN [code |-> "-EINVAL", data |-> <<>>]
        ELSE IF SubSeq(rest, len + 1, Len(rest)) # Mac(auth \o data) \/ (Blocksize > 1 /\ padLen = 0)
             THEN [code |-> "-EBADMSG", data |-> <<>>]
             ELSE [code |-> "0", data |-> data]

TlsDecrypt(auth, received) ==
    LET record == Decrypt(received)
    IN  IF Blocksize = 1 THEN {Opened(auth, record, 0)}
        ELSE {Opened(auth, record, PadLength(record, n)) :
                 n \in {v \in 0..255 : IsValue(Last(record), v)}}

\* srtp_auth_n_crypt: the tag is of the encrypted data with its header, and
\* goes beside it.  (A packet shorter than its tag is refused when decrypted.)
SrtpDecrypt(auth, received, mac) ==
    IF TagLen > Len(received) THEN [code |-> "-EINVAL", data |-> <<>>]
    ELSE IF mac # Mac(auth \o received) THEN [code |-> "-EBADMSG", data |-> <<>>]
    ELSE [code |-> "0", data |-> Decrypt(received)]

-------------------------------------------------------------------------------
Init ==
    /\ phase = "new"
    /\ sent = [kind |-> "none", auth |-> <<>>, data |-> <<>>]
    /\ wire = <<>> /\ tag = <<>>
    /\ altered = FALSE
    /\ result = NoResult

Send ==
    /\ phase = "new"
    /\ \E len \in 0..MaxLen, header \in Headers, kind \in {"tls", "srtp"} :
          /\ kind = "srtp" => len >= MinSrtpLen
          /\ \E data \in Data(len), auth \in Data(header) :
                /\ sent' = [kind |-> kind, auth |-> auth, data |-> data]
                /\ IF kind = "tls"
                   THEN wire' = TlsEncrypt(auth, data) /\ tag' = <<>>
                   ELSE wire' = Encrypt(data) /\ tag' = Mac(auth \o Encrypt(data))
    /\ phase' = "sent"
    /\ UNCHANGED <<altered, result>>

\* On its way a byte is changed, or a TLS record loses its last blocks.
Alter ==
    /\ phase = "sent" /\ ~altered /\ wire # <<>>
    /\ \/ \E i \in DOMAIN wire, n \in Values : wire' = [wire EXCEPT ![i] = <<"bad", n>>]
       \/ /\ sent.kind = "tls"
          /\ \E blocks \in 1..((Len(wire) - 1) \div Blocksize) : wire' = SubSeq(wire, 1, Len(wire) - blocks * Blocksize)
    /\ altered' = TRUE
    /\ UNCHANGED <<phase, sent, tag, result>>

Receive ==
    /\ phase = "sent"
    /\ IF sent.kind = "tls"
       THEN result' \in TlsDecrypt(sent.auth, wire)
       ELSE result' = SrtpDecrypt(sent.auth, wire, tag)
    /\ phase' = "received"
    /\ UNCHANGED <<sent, wire, tag, altered>>

Again ==
    /\ phase = "received"
    /\ phase' = "new" /\ altered' = FALSE /\ result' = NoResult
    /\ wire' = <<>> /\ tag' = <<>>
    /\ sent' = [kind |-> "none", auth |-> <<>>, data |-> <<>>]

Next == Send \/ Alter \/ Receive \/ Again

Spec == Init /\ [][Next]_vars

-------------------------------------------------------------------------------
\* A record that was not changed is opened, and gives the data that was sent; and
\* its padding is the minimum padding (cryptodev.h) that makes whole blocks, so
\* that it fits in the len + tag_size + block_size bytes the caller has to provide.
HonestIsAccepted ==
    /\ phase = "received" /\ ~altered => result = [code |-> "0", data |-> sent.data]
    /\ phase = "sent" /\ sent.kind = "tls" /\ ~altered =>
          Len(wire) % Blocksize = 0 /\ Len(wire) <= Len(sent.data) + TagLen + Blocksize

\* What is opened is what was sent, to the last byte: the padding too, which no
\* tag covers.
AcceptedIsSent ==
    phase = "received" /\ result.code = "0" =>
        /\ result.data = sent.data
        /\ sent.kind = "tls" => Decrypt(wire) = Decrypt(TlsEncrypt(sent.auth, sent.data))
===============================================================================
