----------------------------- MODULE CryptoPages -----------------------------
(***************************************************************************)
(* The zero-copy path of one session (cryptodev-linux-1.6: zc.c, main.c    *)
(* and authenc.c), which runs under the session's mutex.  An operation     *)
(* pins the pages its buffers are in, makes scatterlists of them, runs the *)
(* cipher on those and unpins the pages.  Memory may run out (krealloc)    *)
(* and pages may fail to be pinned, all or some.                           *)
(***************************************************************************)
EXTENDS ScatterList, FiniteSets

CONSTANTS
    Pages,       \* the pages of user memory
    Starts,      \* addresses buffers start at, 0 for NULL
    Lengths,     \* lengths of the data of an operation
    Blocksize,   \* of the cipher: the longest TLS padding
    TagLen,      \* length of an authentication tag
    Prealloc,    \* DEFAULT_PREALLOC_PAGES
    MaxAstray,   \* calls that may leave references astray, see astray
    Kinds        \* operations: "crypt", "aead", "aead in place", "tls", "srtp"

ASSUME PagesAssumption == Pages \subseteq Nat
ASSUME BuffersAssumption ==
    Starts \subseteq Nat /\ Lengths \subseteq Nat /\ Blocksize \in Nat /\ TagLen \in Nat
ASSUME PreallocAssumption == Prealloc \in Nat \ {0}
ASSUME AstrayAssumption == MaxAstray \in Nat

VARIABLES
    pc,          \* where the operation is
    call,        \* the operation and its buffers
    arraySize,   \* ses->array_size
    sgRoom,      \* the entries ses->sg has room for
    used, readonly,  \* ses->used_pages, ses->readonly_pages
    slots,       \* ses->pages, with what it held before
    refs,        \* the references the driver has to each page
    flushed,     \* the pages the call's release wrote back
    srcSg, dstSg, \* the scatterlists
    astray       \* history: calls that released other pages than they pinned

vars == <<pc, call, arraySize, sgRoom, used, readonly, slots, refs, flushed, srcSg, dstSg, astray>>

NULL == 0
NoPage == -1
NoCall == [kind |-> "none", src |-> NULL, dst |-> NULL, len |-> 0, encrypt |-> FALSE, diff |-> 0]
InPages(addr, len) == \A k \in 0..len : PageOf(addr + k) \in Pages

\* What the program asks for: buffers in its memory, with room for what is
\* written; TLS and SRTP in place, the SRTP data diff bytes into the
\* authenticated data.  (CIOCCRYPT of no data does not come here.)
Calls ==
    {c \in [kind : Kinds, src : Starts, dst : Starts, len : Lengths, encrypt : BOOLEAN, diff : 0..2] :
        /\ InPages(c.src, c.len) /\ InPages(c.dst, c.len + Blocksize + TagLen)
        /\ c.src = NULL => c.len = 0
        /\ c.dst = NULL => c.kind = "crypt"
        /\ c.kind \in {"crypt", "srtp"} => c.len > 0
        /\ c.kind \in {"tls", "srtp", "aead in place"} => c.src = c.dst
        /\ c.kind = "aead" => c.src # c.dst
        /\ c.diff > 0 => c.kind = "srtp" /\ c.src > c.diff}

InPlace(c) == c.kind \in {"crypt", "aead in place"} /\ c.src = c.dst
SrcLen(c) == IF c.src = NULL THEN 0 ELSE c.len
DstLen(c) ==
    IF c.dst = NULL THEN 0
    ELSE c.len + (IF c.kind = "tls" THEN Blocksize + TagLen
                  ELSE IF c.kind \in {"aead", "aead in place"} /\ c.encrypt THEN TagLen
                  ELSE 0)
AuthStart(c) == c.src - c.diff
AuthLen(c) == c.len + c.diff

Init ==
    /\ pc = "idle" /\ call = NoCall
    /\ arraySize = Prealloc /\ sgRoom = Prealloc
    /\ slots = [i \in 1..Prealloc |-> NoPage]
    /\ used = 0 /\ readonly = 0
    /\ refs = [p \in Pages |-> 0]
    /\ flushed = {}
    /\ srcSg = <<>> /\ dstSg = <<>>
    /\ astray = 0

array == <<arraySize, sgRoom, slots>>
lists == <<srcSg, dstSg>>

\* get_userbuf counts the pages of the tag and pins those of the data: none.
NothingToPin(c) == c.kind = "aead in place" /\ SrcLen(c) = 0 /\ DstLen(c) > 0

Begin ==
    /\ pc = "idle"
    /\ call' \in Calls
    /\ astray' = IF NothingToPin(call') THEN astray + 1 ELSE astray
    /\ astray' <= MaxAstray
    /\ pc' = "size" /\ flushed' = {}
    /\ UNCHANGED <<array, used, readonly, refs, lists>>

\* The operation returns, its lists are of no use any more.
Return ==
    /\ pc' = "idle" /\ call' = NoCall
    /\ srcSg' = <<>> /\ dstSg' = <<>>

-------------------------------------------------------------------------------
\* The least array_size * 2^k with room for count pages.
Doubled(count) ==
    arraySize * 2 ^ (CHOOSE k \in 0..count : arraySize * 2 ^ k >= count /\ (k = 0 \/ arraySize * 2 ^ (k - 1) < count))

Grown(size) == [i \in 1..size |-> IF i \in DOMAIN slots THEN slots[i] ELSE NoPage]

\* adjust_sg_array: either krealloc may fail, the first with nothing changed.
AdjustSgArray(count) ==
    \/ /\ arraySize' = Doubled(count) /\ sgRoom' = Doubled(count)
       /\ slots' = Grown(Doubled(count))
       /\ pc' = "pin" /\ UNCHANGED <<call, lists>>
    \/ Return /\ UNCHANGED array
    \/ Return /\ slots' = Grown(Doubled(count)) /\ UNCHANGED <<arraySize, sgRoom>>

\* get_userbuf and get_userbuf_tls count the pages, get_userbuf_srtp counts
\* those of the authenticated data twice.  An error of CIOCCRYPT falls back to
\* __crypto_run_std, which copies, the other calls return it.
CountPages(c) ==
    LET src == PageCount(c.src, SrcLen(c))
        dst == PageCount(c.dst, DstLen(c))
    IN  IF c.kind = "tls" THEN dst
        ELSE IF InPlace(c) THEN (IF src > dst THEN src ELSE dst)
        ELSE src + dst

Size ==
    /\ pc = "size"
    /\ \/ /\ call.kind = "srtp"
          /\ AdjustSgArray(2 * PageCount(AuthStart(call), AuthLen(call)))
          /\ UNCHANGED <<used, readonly>>
       \/ /\ call.kind # "srtp"
          /\ used' = CountPages(call)
          /\ readonly' = IF call.kind = "tls" \/ InPlace(call) THEN 0 ELSE PageCount(call.src, SrcLen(call))
          /\ IF call.kind = "tls" \/ used' > arraySize
             THEN AdjustSgArray(used')
             ELSE pc' = "pin" /\ UNCHANGED <<call, array, lists>>
    /\ UNCHANGED <<refs, flushed, astray>>

-------------------------------------------------------------------------------
\* get_user_pages puts n pages from addr on into the slots after base.
PinPages(addr, n, base) ==
    /\ slots' = [i \in DOMAIN slots |-> IF i \in (base + 1)..(base + n) THEN PageOf(addr) + i - base - 1 ELSE slots[i]]
    /\ refs' = [p \in Pages |-> IF p \in PageOf(addr)..(PageOf(addr) + n - 1) THEN refs[p] + 1 ELSE refs[p]]

\* __get_userbuf succeeds; no page, no byte or no address is no work.
Pinned(addr, len, count, base) ==
    IF addr = NULL \/ len = 0 \/ count = 0 THEN UNCHANGED <<slots, refs>>
    ELSE PinPages(addr, count, base)
SgOf(addr, len, count) == IF addr = NULL \/ len = 0 \/ count = 0 THEN <<>> ELSE UserSg(addr, len, count)

\* __get_userbuf fails: some pages are pinned all the same.
PinFails(addr, len, count, base) ==
    /\ astray < MaxAstray /\ astray' = astray + 1
    /\ addr # NULL /\ len > 0 /\ count > 0
    /\ \E n \in 0..(count - 1) : PinPages(addr, n, base)

\* In place, TLS: one list.
PinOne(addr, len) ==
    \/ /\ Pinned(addr, len, used, 0)
       /\ srcSg' = SgOf(addr, len, used) /\ dstSg' = srcSg'
       /\ pc' = "crypt" /\ UNCHANGED <<call, astray>>
    \/ PinFails(addr, len, used, 0) /\ Return

\* The source of an operation that is not in place.
PinSource ==
    \/ /\ Pinned(call.src, SrcLen(call), readonly, 0)
       /\ srcSg' = SgOf(call.src, SrcLen(call), readonly)
       /\ pc' = "pin dst" /\ UNCHANGED <<call, dstSg, astray>>
    \/ PinFails(call.src, SrcLen(call), readonly, 0) /\ Return

Pin ==
    /\ pc = "pin" /\ call.kind # "srtp"
    /\ IF call.kind = "tls" THEN PinOne(call.dst, DstLen(call))
       ELSE IF InPlace(call) THEN PinOne(call.src, SrcLen(call))
       ELSE PinSource
    /\ UNCHANGED <<arraySize, sgRoom, used, readonly, flushed>>

\* get_userbuf_srtp: the data's list is the authenticated data's, advanced.
PinSrtp ==
    /\ pc = "pin" /\ call.kind = "srtp"
    /\ LET count == PageCount(AuthStart(call), AuthLen(call))
           authSg == UserSg(AuthStart(call), AuthLen(call), count)
       IN  \/ /\ PinPages(AuthStart(call), count, 0)
              /\ used' = count /\ readonly' = 0
              /\ srcSg' = authSg
              /\ dstSg' = SgAdvance(SgCopy(authSg, AuthLen(call)), call.diff)
              /\ pc' = "crypt" /\ UNCHANGED <<call, astray>>
           \/ /\ PinFails(AuthStart(call), AuthLen(call), count, 0)
              /\ Return /\ UNCHANGED <<used, readonly>>
    /\ UNCHANGED <<arraySize, sgRoom, flushed>>

-------------------------------------------------------------------------------
RefsIn(n, p) == Cardinality({i \in 1..n : slots[i] = p})

\* Variant: the read-only pages are not put.
ReleaseWritableOnly ==
    /\ refs' = [p \in Pages |-> refs[p] - (RefsIn(used, p) - RefsIn(readonly, p))]
    /\ flushed' = {slots[i] : i \in (readonly + 1)..used}
    /\ readonly' = 0
    /\ used' = 0

\* release_user_pages: every used page is marked dirty and put, those after
\* the read-only ones are flushed.
ReleaseUserPages ==
    /\ refs' = [p \in Pages |-> refs[p] - RefsIn(used, p)]
    /\ flushed' = {slots[i] : i \in (readonly + 1)..used}
    /\ readonly' = 0
    /\ used' = 0

\* The destination; when it cannot be pinned all the pages are released.
PinDst ==
    /\ pc = "pin dst"
    /\ \/ /\ Pinned(call.dst, DstLen(call), used - readonly, readonly)
          /\ dstSg' = SgOf(call.dst, DstLen(call), used - readonly)
          /\ pc' = "crypt" /\ UNCHANGED <<call, srcSg, used, readonly, flushed, astray>>
       \/ /\ astray < MaxAstray /\ astray' = astray + 1
          /\ call.dst # NULL /\ DstLen(call) > 0
          /\ \E n \in 0..(used - readonly - 1) :
                LET dst == (readonly + 1)..(readonly + n)
                    now == [i \in DOMAIN slots |-> IF i \in dst THEN PageOf(call.dst) + i - readonly - 1 ELSE slots[i]]
                IN  /\ slots' = now
                    /\ refs' = [p \in Pages |-> refs[p] + Cardinality({i \in dst : now[i] = p})
                                                        - Cardinality({i \in 1..used : now[i] = p})]
          /\ used' = 0 /\ readonly' = 0
          /\ UNCHANGED flushed
          /\ Return
    /\ UNCHANGED <<arraySize, sgRoom>>

\* The cipher and the hash work on the lists, with or without success.
Crypt ==
    /\ pc = "crypt"
    /\ pc' = "release"
    /\ UNCHANGED <<call, array, used, readonly, refs, flushed, lists, astray>>

Release ==
    /\ pc = "release"
    /\ ReleaseUserPages
    /\ Return
    /\ UNCHANGED <<array, astray>>

Next == Begin \/ Size \/ Pin \/ PinSrtp \/ PinDst \/ Crypt \/ Release

Spec == Init /\ [][Next]_vars

-------------------------------------------------------------------------------

\* Between operations the driver has no reference to a page left, and has put
\* none it did not have; and what the cipher wrote is flushed, no page of the
\* destination counted as read-only, whatever failed before (release_user_pages).
\* The references a failed pin and an in-place AEAD encryption of no data leave
\* behind, see astray, are excepted.
PagesAreReleased ==
    [][/\ pc' = "idle" /\ astray' = 0 => \A p \in Pages : refs'[p] = 0
       /\ pc = "release" /\ ~NothingToPin(call) =>
             \A k \in 0..(DstLen(call) - 1) : PageOf(call.dst + k) \in flushed']_vars

\* The lists are the buffers: the cipher reads the bytes of the source and
\* writes those of the destination, tag and padding included.  (get_userbuf
\* lists no room for the tag of an in-place AEAD encryption.)  And lists and pages
\* fit the session's arrays, also after a krealloc that failed half-way.
ListsAreTheBuffers ==
    /\ pc = "crypt" /\ call.kind # "aead in place" =>
        /\ SrcLen(call) > 0 => IsPrefix(Range1(IF call.kind = "srtp" THEN AuthStart(call) ELSE call.src, SrcLen(call)), Bytes(srcSg))
        /\ DstLen(call) > 0 => IsPrefix(Range1(call.dst, DstLen(call)), Bytes(dstSg))
    /\ arraySize <= sgRoom /\ arraySize <= Len(slots)
    /\ pc = "pin" /\ call.kind = "srtp" => 2 * PageCount(AuthStart(call), AuthLen(call)) <= arraySize
    /\ pc = "pin" /\ call.kind # "srtp" => used <= arraySize
    /\ pc \in {"pin dst", "crypt", "release"} =>
          /\ used <= arraySize /\ Len(srcSg) <= sgRoom
          /\ (IF call.kind = "srtp" THEN Len(srcSg) ELSE readonly) + Len(dstSg) <= sgRoom
===============================================================================
