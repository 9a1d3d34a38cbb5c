SPECIFICATION CallsSpec
CONSTANTS
    PageSize = 2
    Pages = {0, 1, 2, 3, 4}
    Starts = {0, 2, 3}
    Lengths = {0, 1, 3}
    Blocksize = 1
    TagLen = 2
    Prealloc = 1
    MaxAstray = 1
    Kinds = {"crypt", "aead", "aead in place", "tls", "srtp"}
    Values = {0, 1, 2, 3}
    Headers = {0, 1}
    MaxLen = 3
    MinSrtpLen = 2
    RecordBlocksize = 3
    RecordTagLen = 2
    Blocks = {a, b}
    FlagSets = {{}, {"UPDATE"}, {"FINAL"}, {"UPDATE", "RESET"}}
    MaxBlocks = 4
INVARIANTS ListsAreTheBuffers HonestIsAccepted AcceptedIsSent DigestIsOfTheMessage
PROPERTY PagesAreReleased
