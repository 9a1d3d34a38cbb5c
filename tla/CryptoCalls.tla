------------------------------ MODULE CryptoCalls ------------------------------
(***************************************************************************)
(* What the calls of a session do with data, one concern per behaviour:    *)
(* the pages of the buffers (CryptoPages), the records of TLS and SRTP     *)
(* (CryptoRecords), the digest over several calls (CryptoDigest).  They    *)
(* share no state but the session's mutex, which a call holds throughout.  *)
(***************************************************************************)
EXTENDS CryptoPages

CONSTANTS
    Values, Headers, MaxLen, MinSrtpLen, RecordBlocksize, RecordTagLen,  \* of CryptoRecords
    Blocks, FlagSets, MaxBlocks                                          \* of CryptoDigest

ASSUME RecordSizesAssumption == RecordBlocksize \in 1..256 /\ RecordTagLen \in 1..64 /\ MaxLen \in Nat
ASSUME PacketsAssumption == Headers \subseteq Nat /\ MinSrtpLen \in Nat
ASSUME MaxBlocksAssumption == MaxBlocks \in Nat \ {0}

VARIABLES
    concern,                                   \* "pages", "records" or "digest"
    phase, sent, wire, tag, altered, result,   \* of CryptoRecords
    hash, message, begun, digest, output       \* of CryptoDigest

Records == INSTANCE CryptoRecords WITH Blocksize <- RecordBlocksize, TagLen <- RecordTagLen
Digest == INSTANCE CryptoDigest

recordVars == <<phase, sent, wire, tag, altered, result>>
digestVars == <<hash, message, begun, digest, output>>
callVars == <<vars, recordVars, digestVars, concern>>

CallsInit ==
    /\ concern \in {"pages", "records", "digest"}
    /\ Init /\ Records!Init /\ Digest!Init

CallsNext ==
    /\ UNCHANGED concern
    /\ \/ concern = "pages" /\ Next /\ UNCHANGED <<recordVars, digestVars>>
       \/ concern = "records" /\ Records!Next /\ UNCHANGED <<vars, digestVars>>
       \/ concern = "digest" /\ Digest!Next /\ UNCHANGED <<vars, recordVars>>

CallsSpec == CallsInit /\ [][CallsNext]_callVars

-------------------------------------------------------------------------------
\* See CryptoRecords: a record that was not changed is opened, and fits.
HonestIsAccepted == Records!HonestIsAccepted

\* See CryptoRecords: what is opened is what was sent.
AcceptedIsSent == Records!AcceptedIsSent

\* See CryptoDigest: a digest is that of its message.
DigestIsOfTheMessage == Digest!DigestIsOfTheMessage
===============================================================================
