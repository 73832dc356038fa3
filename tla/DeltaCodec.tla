----------------------------- MODULE DeltaCodec -----------------------------
(***************************************************************************)
(* pkg/binarydiff: the diff of two serialised collections, the patch that  *)
(* undoes it, and the file around it.  Data is a sequence of cells: a cell *)
(* stands for the bytes of one number, so a diff's header is two cells.    *)
(* A serialised collection is empty or starts with a protobuf tag, which   *)
(* read as a length is far longer than any data (Tag).                     *)
(***************************************************************************)
EXTENDS Integers, Sequences

CONSTANTS
  Tag,         \* what the first bytes of serialised fences are as a length
  Cells,       \* what follows
  MaxPatched,  \* 10 MB: more than this Patch does not build
  MaxAlloc,    \* more than this the reader's machine cannot allocate
  Magic,       \* "GULD"
  Error,       \* PatchFences returned an error, or was not called
  Panic        \* the process ended before PatchFences was called

ASSUME DeltaCodecAssumption ==
  /\ Tag \in Nat /\ Cells \subseteq Nat /\ MaxPatched \in Nat /\ MaxAlloc \in Nat

Data == {s \in Seq(Nat) : s # <<>> => s[1] = Tag}

Least(S) == CHOOSE i \in S : \A j \in S : i <= j
Shorter(a, b) == IF Len(b) < Len(a) THEN Len(b) ELSE Len(a)

\* The loop returns the first place where the two differ, or the shorter length.
CommonPrefixLen(a, b) ==
  Least({i \in 0..Shorter(a, b) : i = Shorter(a, b) \/ a[i + 1] # b[i + 1]})

CommonSuffixLen(a, b) ==
  Least({i \in 0..Shorter(a, b) :
           i = Shorter(a, b) \/ a[Len(a) - i] # b[Len(b) - i]})

From(s, n) == SubSeq(s, n + 1, Len(s))

\* Smaller, or more than half as long again; with an old length of 0 the
\* quotient is NaN or infinite, and only the second exceeds the threshold.
TooDifferent(old, new) ==
  \/ Len(new) < Len(old)
  \/ 2 * (Len(new) - Len(old)) > Len(old)

\* The suffix is taken over the whole of both, and may overlap the prefix.
ComputeDiffOverlapping(old, new) ==
  IF TooDifferent(old, new) THEN new
  ELSE LET p == CommonPrefixLen(old, new)
           s == CommonSuffixLen(old, new)
       IN <<p, s>> \o SubSeq(new, p + 1, Len(new) - s)

\* computeDiff
ComputeDiff(old, new) ==
  IF TooDifferent(old, new) THEN new
  ELSE LET p == CommonPrefixLen(old, new)
           s == CommonSuffixLen(From(old, p), From(new, p))
       IN <<p, s>> \o SubSeq(new, p + 1, Len(new) - s)

\* Patch: what does not look like a header is taken for the new data itself.
Patch(old, diff) ==
  IF Len(diff) < 2 THEN diff
  ELSE LET p == diff[1]
           s == diff[2]
           middle == From(diff, 2)
       IN IF \/ p > Len(old) \/ s > Len(old)
             \/ p + Len(middle) + s > MaxPatched
            THEN diff
            ELSE SubSeq(old, 1, p) \o middle
                   \o (IF s > 0 /\ p + s <= Len(old)
                         THEN From(old, Len(old) - s) ELSE <<>>)

-----------------------------------------------------------------------------
(* The file: magic number, format, versions, sizes, the hash of the diff (two *)
(* cells, and ideal), and the diff.                                          *)

HeaderLen == 7
SizeAt    == 7  \* the length of the diff
HashLen   == 2
HashOf(d) == <<[of |-> d, part |-> 1], [of |-> d, part |-> 2]>>

\* binaryWriteHeader
Header(old, new, diff, from, to) ==
  <<Magic, 1, from, to, Len(old), Len(new), Len(diff)>> \o HashOf(diff)

WriteDeltaFile(old, new, from, to) ==
  LET diff == ComputeDiff(old, new) IN Header(old, new, diff, from, to) \o diff

\* binaryReadHeader fails unless the file has this much of a header; of the hash
\* it reads what is there.
HasHeader(file) == Len(file) >= HeaderLen /\ file[1] = Magic
ReadHeader(file) ==
  LET rest == From(file, HeaderLen) IN
  [format |-> file[2], from |-> file[3], to |-> file[4], size |-> file[SizeAt],
   hash |-> SubSeq(rest, 1, Shorter(rest, HashOf(<<>>)))]

\* What ReadDeltaFile returns instead of a delta.
Refused == [res |-> "error"]
Died    == [res |-> "panic"]

\* The hash is skipped.
ReadDeltaFileTrusting(file, expected) ==
  LET h    == ReadHeader(file)
      body == From(file, HeaderLen + HashLen)
  IN IF ~HasHeader(file) \/ h.format # 1 \/ h.to # expected THEN Refused
     ELSE IF h.size > MaxAlloc THEN Died
     ELSE IF h.size > Len(body) THEN Refused
     ELSE [res |-> "ok", from |-> h.from, to |-> h.to, hash |-> <<>>,
           diff |-> SubSeq(body, 1, h.size)]

\* ReadDeltaFile: a buffer of the size in the header is made before anything is
\* read into it.  A file that ends inside the hash is accepted so far, and only
\* a diff of no cells can follow.
ReadDeltaFile(file, expected) ==
  LET h    == ReadHeader(file)
      body == From(file, HeaderLen + HashLen)
  IN IF ~HasHeader(file) \/ h.format # 1 \/ h.to # expected THEN Refused
     ELSE IF h.size > MaxAlloc THEN Died
     ELSE IF h.size > Len(body) THEN Refused
     ELSE LET diff == SubSeq(body, 1, h.size) IN
          IF Len(h.hash) = HashLen /\ h.hash # HashOf(diff) THEN Refused
          ELSE [res |-> "ok", from |-> h.from, to |-> h.to, hash |-> h.hash,
                diff |-> diff]

\* PatchFences on a delta that was read, if it was: it compares a hash of any
\* length.
PatchFences(old, delta) ==
  CASE delta.res = "panic" -> Panic
    [] delta.res = "error" -> Error
    [] delta.res = "ok"    ->
         IF delta.hash # <<>> /\ delta.hash # HashOf(delta.diff) THEN Error
         ELSE Patch(old, delta.diff)
=============================================================================
