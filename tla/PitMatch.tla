-------------------------------- MODULE PitMatch --------------------------------
(***************************************************************************)
(* Names in process_tar_file: from the name of an entry to the PIT entry   *)
(* its image belongs to.  A file name is the sequence of its parts between *)
(* dots; Lower gives the lower case of a part.                             *)
(***************************************************************************)
EXTENDS Naturals, Sequences

CONSTANTS
    Lower     \* a function on the parts of names

ImageExts == {"lz4", "ext4", "img", "bin"}

LowerCase(name) == [k \in 1..Len(name) |-> Lower[name[k]]]

\* sanitize_filename: image extensions are taken off the end, one after the
\* other, in lower case only.
Sanitize(name) ==
    LET kept == CHOOSE k \in 1..Len(name) :
            /\ \A j \in (k + 1)..Len(name) : name[j] \in ImageExts
            /\ k = 1 \/ name[k] \notin ImageExts
    IN  SubSeq(name, 1, kept)

Bare(name) == LowerCase(Sanitize(name))

(***************************************************************************)
(* A PIT entry is [identifier, file, partition], file <<>> if it has none. *)
(* The third test of the code, on the name with its directories, differs   *)
(* from the first only for a PIT file name that contains a slash.          *)
(***************************************************************************)
Matches(e, name) ==
    \/ e.file # <<>> /\ (Bare(e.file) = Bare(name) \/ LowerCase(e.file) = LowerCase(name))
    \/ Bare(e.partition) = Bare(name)

Candidates(pit, name) == {i \in 1..Len(pit) : Matches(pit[i], name)}

\* The first PIT entry that matches, 0 if there is none.
PitEntry(pit, name) ==
    IF Candidates(pit, name) = {} THEN 0
    ELSE CHOOSE i \in Candidates(pit, name) : \A j \in Candidates(pit, name) : i <= j

IsLz4(name) == Len(name) > 1 /\ Lower[name[Len(name)]] = "lz4"
=============================================================================
