--------------------------- MODULE MCFlashSession ---------------------------
(* Small instances of FlashSession.                                        *)
EXTENDS FlashOutcomeInv

File(p, lz4, readable, announced, available) ==
    [kind |-> "file", part |-> p, lz4 |-> lz4, readable |-> readable,
     announced |-> announced, available |-> available]
Other(kind) == [File(0, FALSE, TRUE, 0, 0) EXCEPT !.kind = kind]

Raw(p, n) == File(p, FALSE, TRUE, n, n)
Lz4(p, n) == File(p, TRUE, TRUE, n, n)

Archive(entries) == [matches |-> {1}, intact |-> TRUE, entries |-> entries]
Damaged == [Archive(<<Raw(1, 1)>>) EXCEPT !.intact = FALSE]
Foreign == [Archive(<<Raw(1, 1)>>) EXCEPT !.matches = {}]

Run(archives) ==
    [archives |-> archives, dry_run |-> FALSE, allow_unknown |-> FALSE,
     reboot |-> FALSE, redownload |-> FALSE]
Dry(c) == [c EXCEPT !.dry_run = TRUE]

\* Every kind of entry there is, alone and after or before a good one.
SecondEntries == {Raw(2, 1), Raw(2, 3), Raw(1, 2), Lz4(2, 2), Raw(2, 0),
    File(2, FALSE, TRUE, 3, 2),      \* the archive cannot be read to the end
    File(2, TRUE, FALSE, 1, 1),      \* unreadable LZ4 frame header
    File(2, TRUE, TRUE, 2, 1),       \* LZ4 frame ends early
    File(2, TRUE, TRUE, 1, 2),       \* LZ4 frame longer than declared
    Raw(0, 1), Other("skip"), Other("bad")}

OneArchive == {Run(<<Archive(<<Raw(1, 2), e>>)>>) : e \in SecondEntries}

TwoArchives == {Run(<<Archive(<<e>>), Archive(<<Raw(1, 1)>>)>>) : e \in SecondEntries}
    \cup {Run(<<Archive(<<Raw(1, 1)>>), a>>) : a \in {Damaged, Foreign}}

Tolerant == {[Run(<<Archive(<<Raw(0, 1), Raw(1, 1)>>)>>) EXCEPT !.allow_unknown = TRUE]}

Controls == {[Run(<<>>) EXCEPT !.reboot = b, !.redownload = ~b] : b \in BOOLEAN}
    \cup {[Run(<<Archive(<<Raw(1, 1)>>)>>) EXCEPT !.reboot = TRUE, !.redownload = TRUE]}

FlashRuns == OneArchive \cup TwoArchives \cup Tolerant \cup Controls
DryRuns == {Dry(c) : c \in {d \in FlashRuns : d.archives # <<>>}}
AllRuns == FlashRuns \cup DryRuns

\* One image of one to three parts.
SingleImages == {Run(<<Archive(<<Raw(1, n)>>)>>) : n \in 1..3}
=============================================================================
