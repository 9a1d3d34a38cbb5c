----------------------------- MODULE ScatterList -----------------------------
(***************************************************************************)
(* Scatterlists over user memory (cryptodev-linux-1.6: zc.c, zc.h and      *)
(* util.c).  Memory is a line of bytes in pages of PageSize; a scatterlist *)
(* is a sequence of runs of bytes, each within a page.                     *)
(***************************************************************************)
EXTENDS Integers, Sequences, SequencesExt

CONSTANT PageSize

ASSUME PageSizeAssumption == PageSize \in Nat \ {0}

PageOf(addr) == addr \div PageSize
PageOffset(addr) == addr % PageSize
Least(a, b) == IF a < b THEN a ELSE b

\* PAGECOUNT: the pages len bytes from addr on are in.
PageCount(addr, len) ==
    IF len = 0 THEN 0 ELSE PageOf(addr + len - 1) - PageOf(addr) + 1

\* The entries __get_userbuf makes for len bytes at addr in pgcount pages: the
\* rest of the first page, whole pages, what is left.
UserSg(addr, len, pgcount) ==
    LET first == Least(PageSize - PageOffset(addr), len)
        left(i) == len - first - (i - 2) * PageSize
    IN  [i \in 1..pgcount |->
            IF i = 1 THEN [page |-> PageOf(addr), offset |-> PageOffset(addr), length |-> first]
            ELSE [page |-> PageOf(addr) + i - 1, offset |-> 0,
                  length |-> IF left(i) <= 0 THEN 0 ELSE Least(PageSize, left(i))]]

SgLength(sg) == FoldLeft(LAMBDA n, e : n + e.length, 0, sg)
Upto(sg, n) == SubSeq(sg, 1, n)

\* sg_copy: entries for the first len bytes of from.
SgCopy(from, len) ==
    LET last == CHOOSE n \in 1..Len(from) : SgLength(Upto(from, n - 1)) < len /\ len <= SgLength(Upto(from, n))
    IN  [i \in 1..last |->
            IF i < last THEN from[i]
            ELSE [from[i] EXCEPT !.length = len - SgLength(Upto(from, last - 1))]]

\* Variant: the length is left as it is.
SgAdvanceOffsetOnly(sg, consumed) ==
    IF consumed >= SgLength(sg) THEN <<>>
    ELSE LET n == CHOOSE i \in 1..Len(sg) : SgLength(Upto(sg, i - 1)) <= consumed /\ consumed < SgLength(Upto(sg, i))
             off == consumed - SgLength(Upto(sg, n - 1))
         IN  <<[sg[n] EXCEPT !.offset = @ + off]>> \o SubSeq(sg, n + 1, Len(sg))

\* sg_advance: the list without its first consumed bytes; nothing (NULL) when
\* no byte is left.
SgAdvance(sg, consumed) ==
    IF consumed >= SgLength(sg) THEN <<>>
    ELSE LET n == CHOOSE i \in 1..Len(sg) : SgLength(Upto(sg, i - 1)) <= consumed /\ consumed < SgLength(Upto(sg, i))
             off == consumed - SgLength(Upto(sg, n - 1))
         IN  <<[sg[n] EXCEPT !.offset = @ + off, !.length = @ - off]>> \o SubSeq(sg, n + 1, Len(sg))

\* What a list means: the bytes it is made of, in order.
EntryBytes(e) == [k \in 1..e.length |-> e.page * PageSize + e.offset + k - 1]
Bytes(sg) == FlattenSeq([i \in DOMAIN sg |-> EntryBytes(sg[i])])
Range1(addr, len) == [k \in 1..len |-> addr + k - 1]
===============================================================================
