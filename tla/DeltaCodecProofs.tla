-------------------------- MODULE DeltaCodecProofs --------------------------
(***************************************************************************)
(* A patch undoes the diff it was made from, for data of any length and    *)
(* content: the prefix and the suffix that computeDiff leaves out do not    *)
(* overlap, and Patch takes them for what they are although it guesses      *)
(* which of the two forms of a diff it was given.                           *)
(***************************************************************************)
EXTENDS DeltaCodec, SequenceTheorems, WellFoundedInduction, TLAPS

-----------------------------------------------------------------------------
(* Common prefixes and suffixes. *)

\* Least finds an element below all others.
LEMMA LeastOfNats ==
  ASSUME NEW S \in SUBSET Nat, S # {}
  PROVE  Least(S) \in S /\ \A j \in S : Least(S) <= j
  <1> DEFINE R == OpToRel(<, Nat)
  <1>1. \A i, j \in Nat : i < j => <<i, j>> \in R
    BY DEF OpToRel
  <1>2. IsWellFoundedOn(R, Nat)
    BY NatLessThanWellFounded
  <1> HIDE DEF R
  <1>3. PICK i \in S : \A j \in S : ~(<<j, i>> \in R)
    BY <1>2, WFMin
  <1>4. ASSUME NEW j \in S PROVE i <= j
    <2>1. i \in Nat /\ j \in Nat
      OBVIOUS
    <2>2. ~(j < i)
      BY <2>1, <1>1, <1>3
    <2> QED
      BY <2>1, <2>2
  <1> QED
    BY <1>3, <1>4 DEF Least

LEMMA ShorterType ==
  ASSUME NEW a \in Seq(Nat), NEW b \in Seq(Nat)
  PROVE  /\ Shorter(a, b) \in Nat
         /\ Shorter(a, b) <= Len(a) /\ Shorter(a, b) <= Len(b)
  BY DEF Shorter

\* commonPrefixLen: the two agree up to there.
LEMMA PrefixIsCommon ==
  ASSUME NEW a \in Seq(Nat), NEW b \in Seq(Nat), NEW p, p = CommonPrefixLen(a, b)
  PROVE  /\ p \in Nat /\ p <= Len(a) /\ p <= Len(b)
         /\ \A i \in 1..p : a[i] = b[i]
  <1> DEFINE m == Shorter(a, b)
             S == {i \in 0..m : i = m \/ a[i + 1] # b[i + 1]}
  <1>1. m \in Nat /\ m <= Len(a) /\ m <= Len(b)
    BY ShorterType
  <1>2. S \in SUBSET Nat /\ m \in S
    BY <1>1
  <1>3. p \in S /\ \A j \in S : p <= j
    BY <1>2, LeastOfNats DEF CommonPrefixLen
  <1>4. ASSUME NEW i \in 1..p PROVE a[i] = b[i]
    <2>1. i - 1 \in 0..m /\ i - 1 < p
      BY <1>1, <1>3
    <2>2. i - 1 \notin S
      BY <2>1, <1>1, <1>3
    <2> QED
      BY <2>1, <2>2
  <1> QED
    BY <1>1, <1>3, <1>4

\* commonSuffixLen: the two agree from there.
LEMMA SuffixIsCommon ==
  ASSUME NEW a \in Seq(Nat), NEW b \in Seq(Nat)
  PROVE  LET s == CommonSuffixLen(a, b) IN
         /\ s \in Nat /\ s <= Len(a) /\ s <= Len(b)
         /\ \A i \in 0..(s - 1) : a[Len(a) - i] = b[Len(b) - i]
  <1> DEFINE s == CommonSuffixLen(a, b)
             m == Shorter(a, b)
             S == {i \in 0..m : i = m \/ a[Len(a) - i] # b[Len(b) - i]}
  <1>1. m \in Nat /\ m <= Len(a) /\ m <= Len(b)
    BY ShorterType
  <1>2. S \in SUBSET Nat /\ m \in S
    BY <1>1
  <1>3. s \in S /\ \A j \in S : s <= j
    BY <1>2, LeastOfNats DEF CommonSuffixLen
  <1> HIDE DEF m, s
  <1>4. ASSUME NEW i \in 0..(s - 1) PROVE a[Len(a) - i] = b[Len(b) - i]
    <2>1. i \in 0..m /\ i < s
      BY <1>1, <1>3
    <2>2. i \notin S
      BY <2>1, <1>1, <1>3
    <2> QED
      BY <2>1, <2>2
  <1>5. s \in Nat /\ s <= m
    BY <1>1, <1>3
  <1> QED
    BY <1>1, <1>4, <1>5 DEF s

-----------------------------------------------------------------------------
(* Diff and patch. *)

LEMMA FromType ==
  ASSUME NEW a \in Seq(Nat), NEW n \in Nat, n <= Len(a)
  PROVE  /\ From(a, n) \in Seq(Nat) /\ Len(From(a, n)) = Len(a) - n
         /\ \A i \in 1..(Len(a) - n) : From(a, n)[i] = a[n + i]
  BY SubSeqProperties DEF From

LEMMA FromTheEnd ==
  ASSUME NEW n \in Nat, NEW p \in Nat, NEW s \in Nat, p + s <= n,
         NEW i \in 0..(s - 1)
  PROVE  n - p - i \in 1..(n - p) /\ p + (n - p - i) = n - i
  OBVIOUS

\* The same for what follows the first p cells of two pieces of data.
LEMMA SuffixOfRest ==
  ASSUME NEW old \in Seq(Nat), NEW new \in Seq(Nat), NEW p \in Nat,
         p <= Len(old), p <= Len(new)
  PROVE  LET s == CommonSuffixLen(From(old, p), From(new, p)) IN
         /\ s \in Nat /\ p + s <= Len(old) /\ p + s <= Len(new)
         /\ \A i \in 0..(s - 1) : old[Len(old) - i] = new[Len(new) - i]
  <1> DEFINE a == From(old, p)
             b == From(new, p)
             s == CommonSuffixLen(a, b)
  <1>1. /\ a \in Seq(Nat) /\ Len(a) = Len(old) - p
        /\ \A i \in 1..(Len(old) - p) : a[i] = old[p + i]
    BY FromType
  <1>2. /\ b \in Seq(Nat) /\ Len(b) = Len(new) - p
        /\ \A i \in 1..(Len(new) - p) : b[i] = new[p + i]
    BY FromType
  <1> HIDE DEF a, b
  <1>3. /\ s \in Nat /\ s <= Len(a) /\ s <= Len(b)
        /\ \A i \in 0..(s - 1) : a[Len(a) - i] = b[Len(b) - i]
    BY <1>1, <1>2, SuffixIsCommon
  <1> HIDE DEF s
  <1>4. p + s <= Len(old) /\ p + s <= Len(new)
    BY <1>1, <1>2, <1>3
  <1>5. ASSUME NEW i \in 0..(s - 1) PROVE old[Len(old) - i] = new[Len(new) - i]
    <2>1. /\ Len(old) - p - i \in 1..(Len(old) - p)
          /\ p + (Len(old) - p - i) = Len(old) - i
      BY <1>3, <1>4, FromTheEnd
    <2>2. /\ Len(new) - p - i \in 1..(Len(new) - p)
          /\ p + (Len(new) - p - i) = Len(new) - i
      BY <1>3, <1>4, FromTheEnd
    <2>3. a[Len(old) - p - i] = b[Len(new) - p - i]
      BY <1>1, <1>2, <1>3
    <2> QED
      BY <1>1, <1>2, <2>1, <2>2, <2>3
  <1> QED
    BY <1>3, <1>4, <1>5 DEF s, a, b

\* A sequence is known by its length and its cells.
LEMMA SameCells ==
  ASSUME NEW a \in Seq(Nat), NEW b \in Seq(Nat), Len(a) = Len(b),
         \A i \in 1..Len(a) : a[i] = b[i]
  PROVE  a = b
  OBVIOUS

\* The cells from m to n.
LEMMA PieceType ==
  ASSUME NEW a \in Seq(Nat), NEW m \in Nat, NEW n \in Nat,
         m <= n, n <= Len(a)
  PROVE  /\ SubSeq(a, m + 1, n) \in Seq(Nat) /\ Len(SubSeq(a, m + 1, n)) = n - m
         /\ \A i \in 1..(n - m) : SubSeq(a, m + 1, n)[i] = a[m + i]
  <1>1. \A i \in (m + 1)..n : a[i] \in Nat
    OBVIOUS
  <1>2. m + 1 \in Int
    OBVIOUS
  <1>3. /\ SubSeq(a, m + 1, n) \in Seq(Nat)
        /\ Len(SubSeq(a, m + 1, n)) = IF m + 1 <= n THEN n - (m + 1) + 1 ELSE 0
        /\ \A i \in 1..(n - (m + 1) + 1) : SubSeq(a, m + 1, n)[i] = a[(m + 1) + i - 1]
    BY <1>1, <1>2, SubSeqProperties
  <1>4. n - (m + 1) + 1 = n - m
    OBVIOUS
  <1>5. \A i \in Int : (m + 1) + i - 1 = m + i
    OBVIOUS
  <1>6. Len(SubSeq(a, m + 1, n)) = n - m
    BY <1>3
  <1> QED
    BY <1>3, <1>4, <1>5, <1>6

LEMMA TwoPieces ==
  ASSUME NEW u \in Seq(Nat), NEW v \in Seq(Nat)
  PROVE  /\ u \o v \in Seq(Nat) /\ Len(u \o v) = Len(u) + Len(v)
         /\ \A i \in 1..Len(u) : (u \o v)[i] = u[i]
         /\ \A i \in 1..Len(v) : (u \o v)[Len(u) + i] = v[i]
  OBVIOUS

\* The first p cells and the last s of the old data around the middle of the
\* new: what Patch puts together.
LEMMA Reassembled ==
  ASSUME NEW old \in Seq(Nat), NEW new \in Seq(Nat), NEW p \in Nat, NEW s \in Nat,
         p + s <= Len(old), p + s <= Len(new),
         \A i \in 1..p : old[i] = new[i],
         \A i \in 0..(s - 1) : old[Len(old) - i] = new[Len(new) - i]
  PROVE  SubSeq(old, 1, p) \o SubSeq(new, p + 1, Len(new) - s)
           \o From(old, Len(old) - s) = new
  <1> DEFINE d == Len(old) - s
             e == Len(new) - s
             u == SubSeq(old, 1, p)
             v == SubSeq(new, p + 1, e)
             w == From(old, d)
             x == u \o v
             t == x \o w
  <1>0. d \in Nat /\ e \in Nat /\ Len(old) = d + s /\ Len(new) = e + s
        /\ p <= e /\ p <= Len(old)
    OBVIOUS
  <1> HIDE DEF d, e
  <1>1. u \in Seq(Nat) /\ Len(u) = p /\ \A i \in 1..p : u[i] = old[i]
    <2>1. /\ SubSeq(old, 0 + 1, p) \in Seq(Nat) /\ Len(SubSeq(old, 0 + 1, p)) = p - 0
          /\ \A i \in 1..(p - 0) : SubSeq(old, 0 + 1, p)[i] = old[0 + i]
      BY <1>0, PieceType
    <2>2. 0 + 1 = 1 /\ p - 0 = p /\ \A i \in 1..p : 0 + i = i
      OBVIOUS
    <2> QED
      BY <2>1, <2>2
  <1>2. v \in Seq(Nat) /\ Len(v) = e - p /\ \A i \in 1..(e - p) : v[i] = new[p + i]
    <2>1. e <= Len(new)
      BY <1>0
    <2> QED
      BY <2>1, <1>0, PieceType
  <1>3. w \in Seq(Nat) /\ Len(w) = s /\ \A i \in 1..s : w[i] = old[d + i]
    <2>1. d <= Len(old) /\ Len(old) - d = s
      BY <1>0
    <2> QED
      BY <2>1, <1>0, FromType
  <1> HIDE DEF u, v, w
  <1>4. /\ x \in Seq(Nat) /\ Len(x) = Len(u) + Len(v)
        /\ \A i \in 1..Len(u) : x[i] = u[i]
        /\ \A i \in 1..Len(v) : x[Len(u) + i] = v[i]
    BY <1>1, <1>2, TwoPieces
  <1> HIDE DEF x
  <1>5. /\ t \in Seq(Nat) /\ Len(t) = Len(x) + Len(w)
        /\ \A i \in 1..Len(x) : t[i] = x[i]
        /\ \A i \in 1..Len(w) : t[Len(x) + i] = w[i]
    BY <1>3, <1>4, TwoPieces
  <1> HIDE DEF t
  <1>6. Len(x) = e /\ Len(t) = Len(new)
    BY <1>0, <1>1, <1>2, <1>3, <1>4, <1>5
  <1>7. ASSUME NEW i \in 1..Len(new) PROVE t[i] = new[i]
    <2>1. CASE i <= p
      <3>1. i \in 1..p /\ i \in 1..Len(u) /\ i \in 1..Len(x)
        BY <2>1, <1>0, <1>1, <1>6
      <3>2. t[i] = x[i] /\ x[i] = u[i]
        BY <3>1, <1>4, <1>5
      <3>3. u[i] = old[i] /\ old[i] = new[i]
        BY <3>1, <1>1
      <3> QED
        BY <3>2, <3>3
    <2>2. CASE p < i /\ i <= e
      <3>1. i - p \in 1..(e - p) /\ i = p + (i - p)
        BY <2>2, <1>0
      <3>2. x[p + (i - p)] = v[i - p] /\ v[i - p] = new[p + (i - p)]
        BY <3>1, <1>1, <1>2, <1>4
      <3>3. t[i] = x[i]
        BY <2>2, <1>5, <1>6
      <3> QED
        BY <3>1, <3>2, <3>3
    <2>3. CASE e < i
      <3>1. i - e \in 1..s /\ i = e + (i - e)
        BY <2>3, <1>0
      <3>2. t[e + (i - e)] = w[i - e] /\ w[i - e] = old[d + (i - e)]
        BY <3>1, <1>3, <1>5, <1>6
      <3>3. /\ s - (i - e) \in 0..(s - 1)
            /\ Len(old) - (s - (i - e)) = d + (i - e)
            /\ Len(new) - (s - (i - e)) = i
        BY <3>1, <1>0
      <3> QED
        BY <3>1, <3>2, <3>3
    <2> QED
      BY <2>1, <2>2, <2>3, <1>0
  <1>8. t = new
    BY <1>5, <1>7, <1>6, SameCells
  <1> QED
    BY <1>8 DEF d, e, u, v, w, x, t

\* The first two cells of a diff are the header, the others the middle.
LEMMA HeaderAndMiddle ==
  ASSUME NEW p \in Nat, NEW s \in Nat, NEW m \in Seq(Nat)
  PROVE  LET d == <<p, s>> \o m IN
         d \in Seq(Nat) /\ Len(d) = 2 + Len(m) /\ d[1] = p /\ d[2] = s /\ From(d, 2) = m
  <1> DEFINE h == <<p, s>>
             d == h \o m
             f == From(d, 2)
  <1>1. h \in Seq(Nat) /\ Len(h) = 2 /\ h[1] = p /\ h[2] = s
    OBVIOUS
  <1> HIDE DEF h
  <1>2. /\ d \in Seq(Nat) /\ Len(d) = Len(h) + Len(m)
        /\ \A i \in 1..Len(h) : d[i] = h[i]
        /\ \A i \in 1..Len(m) : d[Len(h) + i] = m[i]
    BY <1>1, TwoPieces
  <1> HIDE DEF d
  <1>3. Len(m) \in Nat /\ Len(d) = 2 + Len(m) /\ Len(d) - 2 = Len(m) /\ 2 <= Len(d)
    BY <1>1, <1>2
  <1>4. d[1] = p /\ d[2] = s
    BY <1>1, <1>2
  <1>5. /\ f \in Seq(Nat) /\ Len(f) = Len(d) - 2
        /\ \A i \in 1..(Len(d) - 2) : f[i] = d[2 + i]
    <2>1. d \in Seq(Nat) /\ 2 \in Nat /\ 2 <= Len(d)
      BY <1>2, <1>3
    <2> QED
      BY <2>1, FromType, Zenon
  <1> HIDE DEF f
  <1>6. f = m
    <2>1. Len(f) = Len(m)
      BY <1>3, <1>5
    <2>2. ASSUME NEW i \in 1..Len(f) PROVE f[i] = m[i]
      BY <1>1, <1>2, <1>3, <1>5
    <2> QED
      BY <1>5, <2>1, <2>2, SameCells
  <1> QED
    BY <1>2, <1>3, <1>4, <1>6 DEF d, h, f

\* A diff that is the new data itself is recognised: its first cell is a
\* protobuf tag, which is no length of anything.
LEMMA RawIsTaken ==
  ASSUME NEW old \in Seq(Nat), Len(old) < Tag, NEW new \in Data
  PROVE  Patch(old, new) = new
  <1>1. CASE Len(new) < 2
    BY <1>1 DEF Patch
  <1>2. CASE ~(Len(new) < 2)
    <2>1. new[1] = Tag
      BY <1>2 DEF Data
    <2>2. new[1] > Len(old)
      BY <2>1, DeltaCodecAssumption
    <2> QED
      BY <1>2, <2>2 DEF Patch
  <1> QED
    BY <1>1, <1>2

\* Patch undoes computeDiff, for all data that is shorter than its first bytes
\* read as a length say, and new data of up to 10 MB if it is not sent whole.
THEOREM PatchUndoesDiff ==
  ASSUME NEW old \in Data, Len(old) < Tag,
         NEW new \in Data, TooDifferent(old, new) \/ Len(new) <= MaxPatched
  PROVE  Patch(old, ComputeDiff(old, new)) = new
  <1>0. old \in Seq(Nat) /\ new \in Seq(Nat)
    BY DEF Data
  <1>1. CASE TooDifferent(old, new)
    BY <1>0, <1>1, RawIsTaken DEF ComputeDiff
  <1>2. CASE ~TooDifferent(old, new)
    <2> DEFINE p == CommonPrefixLen(old, new)
               s == CommonSuffixLen(From(old, p), From(new, p))
               m == SubSeq(new, p + 1, Len(new) - s)
               d == <<p, s>> \o m
    <2>1. ComputeDiff(old, new) = d
      BY <1>2 DEF ComputeDiff
    <2>2. /\ p \in Nat /\ p <= Len(old) /\ p <= Len(new)
          /\ \A i \in 1..p : old[i] = new[i]
      BY <1>0, PrefixIsCommon
    <2>3. /\ s \in Nat /\ p + s <= Len(old) /\ p + s <= Len(new)
          /\ \A i \in 0..(s - 1) : old[Len(old) - i] = new[Len(new) - i]
      <3> HIDE DEF p
      <3> QED
        BY <1>0, <2>2, SuffixOfRest
    <2> HIDE DEF p, s
    <2>4. /\ Len(new) - s \in Nat /\ p <= Len(new) - s /\ Len(new) - s <= Len(new)
      BY <1>0, <2>2, <2>3
    <2>5. m \in Seq(Nat) /\ Len(m) = (Len(new) - s) - p
      BY <1>0, <2>2, <2>4, PieceType
    <2>6. SubSeq(old, 1, p) \o m \o From(old, Len(old) - s) = new
      BY <1>0, <2>2, <2>3, Reassembled
    <2> HIDE DEF m
    <2>7. Len(d) = 2 + Len(m) /\ d[1] = p /\ d[2] = s /\ From(d, 2) = m
      <3>1. p \in Nat /\ s \in Nat /\ m \in Seq(Nat)
        BY <2>2, <2>3, <2>5
      <3> QED
        BY <3>1, HeaderAndMiddle
    <2> HIDE DEF d
    <2>8. /\ ~(Len(d) < 2)
          /\ ~(p > Len(old)) /\ ~(s > Len(old))
          /\ ~(p + Len(m) + s > MaxPatched)
      BY <1>0, <1>2, <2>2, <2>3, <2>5, <2>7, DeltaCodecAssumption
    <2>9. Patch(old, d) = SubSeq(old, 1, p) \o m
                          \o (IF s > 0 /\ p + s <= Len(old)
                                THEN From(old, Len(old) - s) ELSE <<>>)
      BY <2>7, <2>8 DEF Patch
    <2>10. s = 0 => From(old, Len(old) - s) = <<>>
      BY <1>0 DEF From
    <2>11. (IF s > 0 /\ p + s <= Len(old) THEN From(old, Len(old) - s) ELSE <<>>)
             = From(old, Len(old) - s)
      BY <2>3, <2>10
    <2>12. Patch(old, d) = new
      BY <2>6, <2>9, <2>11
    <2> QED
      BY <2>1, <2>12
  <1> QED
    BY <1>1, <1>2

-----------------------------------------------------------------------------
(* The delta file. *)

\* An ideal hash is of one diff only.
LEMMA HashIsIdeal == ASSUME NEW a, NEW b, HashOf(a) = HashOf(b) PROVE a = b
  <1>1. HashOf(a)[1] = HashOf(b)[1]
    OBVIOUS
  <1>2. HashOf(a)[1].of = a /\ HashOf(b)[1].of = b
    BY DEF HashOf
  <1> QED
    BY <1>1, <1>2

LEMMA ShorterIs ==
  ASSUME NEW a, NEW b, NEW n \in Nat, Len(b) = n, Len(a) \in Nat, Len(a) >= n
  PROVE  Shorter(a, b) = n
  BY DEF Shorter

\* Whatever else of a delta file is damaged or missing, if its hash is the one
\* WriteDeltaFile put there, ReadDeltaFile and PatchFences return an error or
\* turn the old data into the new, as DeltaFileRestores asks, and the process
\* ends in them only if the header names a diff that does not fit in memory.
THEOREM HashProtectsFile ==
  ASSUME NEW old \in Data, Len(old) < Tag,
         NEW new \in Data, TooDifferent(old, new) \/ Len(new) <= MaxPatched,
         NEW S, NEW file \in Seq(S), NEW expected,
         Len(file) >= HeaderLen + HashLen,
         SubSeq(file, HeaderLen + 1, HeaderLen + HashLen) = HashOf(ComputeDiff(old, new))
  PROVE  LET answer == PatchFences(old, ReadDeltaFile(file, expected)) IN
         \/ answer \in {new, Error}
         \/ answer = Panic /\ file[SizeAt] > MaxAlloc
  <1> DEFINE r == ReadDeltaFile(file, expected)
             h == ReadHeader(file)
             wanted == ComputeDiff(old, new)
             answer == PatchFences(old, r)
  <1> SUFFICES \/ answer \in {new, Error}
               \/ answer = Panic /\ file[SizeAt] > MaxAlloc
    OBVIOUS
  <1>1. CASE r = Refused
    <2>1. r.res = "error"
      BY <1>1 DEF Refused
    <2> HIDE DEF r
    <2>2. answer = Error
      BY <2>1 DEF PatchFences
    <2> QED
      BY <2>2
  <1>2. CASE r = Died /\ h.size > MaxAlloc
    <2>1. r.res = "panic"
      BY <1>2 DEF Died
    <2>2. h.size = file[SizeAt]
      BY DEF ReadHeader
    <2> HIDE DEF r
    <2>3. answer = Panic
      BY <2>1 DEF PatchFences
    <2> QED
      BY <1>2, <2>2, <2>3
  <1>3. CASE ~(r = Refused) /\ ~(r = Died /\ h.size > MaxAlloc)
    <2>1. HasHeader(file)
      BY <1>3 DEF ReadDeltaFile
    <2>2. PICK diff :
            /\ r = [res |-> "ok", from |-> h.from, to |-> h.to,
                    hash |-> h.hash, diff |-> diff]
            /\ Len(h.hash) = HashLen => h.hash = HashOf(diff)
      <3> HIDE DEF h
      <3> QED
        BY <1>3, <2>1 DEF ReadDeltaFile, h
    <2>3. h.hash = HashOf(wanted)
      <3> DEFINE rest == From(file, HeaderLen)
      <3>1. h.hash = SubSeq(rest, 1, Shorter(rest, HashOf(<<>>)))
        <4> HIDE DEF rest
        <4> QED
          BY DEF ReadHeader, rest
      <3>2. /\ rest = SubSeq(file, 8, Len(file))
            /\ Len(rest) \in Nat /\ Len(rest) >= 2
        BY DEF From, HeaderLen, HashLen
      <3>3. Shorter(rest, HashOf(<<>>)) = 2
        <4>1. Len(HashOf(<<>>)) = 2
          BY DEF HashOf
        <4> HIDE DEF rest
        <4> QED
          BY <3>2, <4>1, ShorterIs
      <3>4. SubSeq(SubSeq(file, 8, Len(file)), 1, 2) = SubSeq(file, 8 + 1 - 1, 8 + 2 - 1)
        BY SubSeqOfSubSeq DEF HeaderLen, HashLen
      <3> HIDE DEF rest, h
      <3>5. h.hash = SubSeq(file, 8, 9)
        BY <3>1, <3>2, <3>3, <3>4
      <3> QED
        BY <3>5 DEF HeaderLen, HashLen
    <2>4. Len(h.hash) = HashLen
      BY <2>3 DEF HashOf, HashLen
    <2>5. diff = wanted
      BY <2>2, <2>3, <2>4, HashIsIdeal
    <2>6. r.hash = HashOf(r.diff) /\ r.diff = wanted /\ r.res = "ok"
      BY <2>2, <2>4, <2>5
    <2> HIDE DEF r
    <2>7. answer = Patch(old, wanted)
      BY <2>6 DEF PatchFences
    <2>8. Patch(old, wanted) = new
      BY PatchUndoesDiff
    <2> QED
      BY <2>7, <2>8
  <1> QED
    BY <1>1, <1>2, <1>3
=============================================================================
