----------------------------- MODULE CryptoDigest -----------------------------
(***************************************************************************)
(* The digest of a session with a cipher and a hash over several calls of  *)
(* CIOCCRYPT (cryptodev-linux-1.6: main.c and the flags of                 *)
(* crypto/cryptodev.h).  A call is one step: it has the session's mutex.   *)
(* Blocks of data are members of Blocks; <<"enc", b>> is block b encrypted. *)
(***************************************************************************)
EXTENDS Naturals, Sequences

CONSTANTS
    Blocks,     \* contents of a block of data
    FlagSets,   \* the combinations of flags the program uses
    MaxBlocks   \* bound on the blocks of a message

VARIABLES
    hash,     \* the state of the hash: what it has taken in, Spent after a digest
    message,  \* what the program has given since it began its message
    begun,    \* whether the program is within a message it may go on with
    digest,   \* the digest the last call returned, or None
    output    \* what the last call wrote to dst

vars == <<hash, message, begun, digest, output>>

Spent == <<"spent">>
None == <<"none">>
Plain(b) == <<"plain", b>>
Cipher(b) == <<"enc", b>>

Init ==
    /\ hash = <<>> /\ message = <<>> /\ begun = TRUE
    /\ digest = None /\ output = None

-------------------------------------------------------------------------------
\* Variant: a call without flags does not reset.
AfterResetOnly(flags) == IF "RESET" \in flags THEN <<>> ELSE hash

\* cryptodev_hash_reset, before anything else.
AfterReset(flags) == IF flags = {} \/ "RESET" \in flags THEN <<>> ELSE hash

\* The source is plain for encryption, encrypted for decryption; the target the
\* other way round.
Source(op, b) == IF op = "encrypt" THEN Plain(b) ELSE Cipher(b)
Target(op, b) == IF op = "encrypt" THEN Cipher(b) ELSE Plain(b)

\* hash_n_crypt: hash before encryption and after decryption.
Hashed(op, b) == IF op = "encrypt" THEN Source(op, b) ELSE Target(op, b)

\* The digest is asked for.
IsFinal(flags, blocks) == "FINAL" \in flags \/ "UPDATE" \notin flags \/ blocks = <<>>

\* What the program means: an update goes on with its message, or begins one
\* with RESET; the final call ends it; a call with neither is a message.
Continues(flags) == flags \cap {"UPDATE", "FINAL"} # {} /\ "RESET" \notin flags
MessageAfter(flags, blocks) == (IF Continues(flags) THEN message ELSE <<>>) \o blocks

CryptoRun(flags, op, blocks) ==
    LET taken == AfterReset(flags) \o [i \in DOMAIN blocks |-> Hashed(op, blocks[i])]
    IN  /\ message' = MessageAfter(flags, blocks)
        /\ output' = [i \in DOMAIN blocks |-> Target(op, blocks[i])]
        /\ IF IsFinal(flags, blocks)
           THEN digest' = taken /\ hash' = Spent /\ begun' = FALSE
           ELSE digest' = None /\ hash' = taken /\ begun' = TRUE

\* The CryptoAPI or a copy fails after some blocks (or the size is not that of
\* blocks, before any): the hash keeps what it has.
CryptoRunFails(flags, op, blocks) ==
    \E n \in 0..Len(blocks) :
        /\ hash' = AfterReset(flags) \o [i \in 1..n |-> Hashed(op, blocks[i])]
        /\ message' = <<>> /\ begun' = FALSE
        /\ digest' = None /\ output' = None

\* The program's calls.  It goes on only with a message it has begun, and bounds
\* its length.
Call ==
    \E flags \in FlagSets, op \in {"encrypt", "decrypt"}, n \in 0..2 :
        \E blocks \in [1..n -> Blocks] :
            /\ Continues(flags) => begun /\ Len(message) + n <= MaxBlocks
            /\ CryptoRun(flags, op, blocks) \/ CryptoRunFails(flags, op, blocks)

Next == Call

Spec == Init /\ [][Next]_vars

-------------------------------------------------------------------------------
\* A digest is that of the message, in plain text, whatever came before it in
\* the session: the digest made when encrypting is the one made when decrypting.
DigestIsOfTheMessage ==
    digest # None => digest = [i \in DOMAIN message |-> Plain(message[i])]

===============================================================================
