------------------------- MODULE OverlayStoreProofs -------------------------
(***************************************************************************)
(* PublishedSurvivesCrash and MemoryMatchesLog, proved for any paths and   *)
(* values, any frame length, batch size and number of crashes and errors.  *)
(***************************************************************************)
EXTENDS OverlayStore, SequenceTheorems, WellFoundedInduction, TLAPS

-----------------------------------------------------------------------------
(* The inductive invariant *)

\* Frames follow each other: a frame is begun after any cell, and continued
\* only behind its own cells.  Torn frames are allowed.
Chained(f) ==
    /\ f # <<>> => f[1].k = 1
    /\ \A p \in 1..(Len(f) - 1) :
          f[p + 1].k = 1 \/ f[p + 1] = [rec |-> f[p].rec, k |-> f[p].k + 1]

\* f begins with the complete frames of recs, one after the other.
Starts(f, recs) ==
    /\ FrameStart(Len(recs) + 1) <= Len(f) + 1
    /\ \A i \in 1..Len(recs) : \A k \in 1..FrameLen :
          f[FrameStart(i) + k - 1] = [rec |-> recs[i], k |-> k]

\* f is the frames of recs and nothing else.
Framed(f, recs) == Starts(f, recs) /\ FrameStart(Len(recs) + 1) = Len(f) + 1

FileInv == Chained(file) /\ Chained(disk)

PhaseInv ==
    /\ intact => store
    /\ phase = "down" => disk = file /\ published = <<>>
    /\ phase \notin {"append", "publish"} => batch = <<>>
    /\ phase = "publish" /\ store => done = Len(batch)
    /\ phase = "clearing" /\ intact => file = <<>>

\* What was published, and what the append loop has been through with since.
Written == published \o SubSeq(batch, 1, done)

\* An intact log is the frames of these; what was published has been synced.
LogInv ==
    intact /\ phase \notin {"clearing", "down"} =>
        /\ Framed(file, Written)
        /\ published # <<>> => /\ IsPrefix(disk, file)
                               /\ FrameStart(Len(published) + 1) <= Len(disk) + 1
        /\ phase = "publish" => disk = file

MemInv == mem = apply_records(Empty, published)

IInv == TypeOK /\ FileInv /\ PhaseInv /\ LogInv /\ MemInv

-----------------------------------------------------------------------------
(* Frames *)

\* Where frames begin.  FrameStart is not expanded below this lemma.
LEMMA FrameStarts ==
    /\ FrameLen \in Nat \ {0} /\ BodyLen \in Nat /\ BodyLen = FrameLen - 1
    /\ FrameStart(1) = 1
    /\ \A i \in Nat \ {0} : FrameStart(i) \in Nat /\ i <= FrameStart(i)
    /\ \A i \in Nat \ {0} : FrameStart(i + 1) = FrameStart(i) + FrameLen
    /\ \A i, j \in Nat \ {0} : i < j => FrameStart(i) + FrameLen <= FrameStart(j)
<1>1. FrameLen \in Nat \ {0} /\ BodyLen \in Nat /\ BodyLen = FrameLen - 1
  BY StoreAssumption DEF FrameLen
<1> DEFINE w == FrameLen
<1>w. w \in Nat \ {0}
  BY <1>1
<1> HIDE DEF w
<1>2. \A d \in Nat : d * w \in Nat /\ d <= d * w
  BY <1>w
<1>3. \A i \in Nat \ {0} : (i - 1) * w + 1 \in Nat /\ i <= (i - 1) * w + 1
  <2> TAKE i \in Nat \ {0}
  <2>1. i - 1 \in Nat
    OBVIOUS
  <2>2. (i - 1) * w \in Nat /\ i - 1 <= (i - 1) * w
    BY <1>2, <2>1
  <2> QED BY <2>2
<1>4. \A i \in Nat \ {0} : ((i + 1) - 1) * w + 1 = ((i - 1) * w + 1) + w
  BY <1>w
<1>5. \A i, j \in Nat \ {0} : i < j => ((i - 1) * w + 1) + w <= (j - 1) * w + 1
  <2> SUFFICES ASSUME NEW i \in Nat \ {0}, NEW j \in Nat \ {0}, i < j
               PROVE  ((i - 1) * w + 1) + w <= (j - 1) * w + 1
    OBVIOUS
  <2>1. j - 1 - i \in Nat
    OBVIOUS
  <2>2. (j - 1 - i) * w \in Nat
    BY <1>2, <2>1
  <2>3. (j - 1) * w = (j - 1 - i) * w + (i - 1) * w + w
    BY <1>w
  <2> QED BY <2>2, <2>3, <1>w
<1>6. (1 - 1) * w + 1 = 1
  BY <1>w
<1> QED BY <1>1, <1>3, <1>4, <1>5, <1>6 DEF FrameStart, w

\* A set of natural numbers has a least element.
LEMMA LeastNatural ==
    ASSUME NEW T \in SUBSET Nat, T # {}
    PROVE  \E x \in T : \A y \in T : x <= y
<1>1. PICK x \in T : \A y \in T : ~(<<y, x>> \in OpToRel(<, Nat))
  BY NatLessThanWellFounded, WFMin
<1>2. \A y \in T : ~(y < x)
  BY <1>1 DEF OpToRel
<1> QED BY <1>2

\* A bounded set of natural numbers has a greatest element.
LEMMA GreatestNatural ==
    ASSUME NEW n \in Nat, NEW T \in SUBSET (0..n), T # {}
    PROVE  \E x \in T : \A y \in T : x >= y
<1> DEFINE U == {k \in Nat : n - k \in T}
<1>1. \A y \in T : n - y \in U /\ n - (n - y) = y
  <2> TAKE y \in T
  <2>1. n - y \in Nat /\ n - (n - y) = y
    OBVIOUS
  <2> QED BY <2>1
<1>2. U \in SUBSET Nat /\ U # {}
  BY <1>1
<1>3. \A x \in U : x \in Nat /\ n - x \in T
  OBVIOUS
<1> HIDE DEF U
<1>4. PICK x \in U : \A y \in U : x <= y
  BY <1>2, LeastNatural
<1>5. \A y \in T : n - x >= y
  <2> TAKE y \in T
  <2>1. x <= n - y /\ y \in Nat /\ x \in Nat
    BY <1>1, <1>3, <1>4
  <2> QED BY <2>1
<1> QED BY <1>3, <1>5

\* The decoder takes the longest run of frames that decode.
LEMMA DecodedRun ==
    ASSUME NEW f \in Seq(Cell), NEW luck \in BOOLEAN
    PROVE  \E n \in 0..Len(f) :
              /\ \A i \in 1..n : Decodes(f, FrameStart(i), luck)
              /\ n < Len(f) => ~Decodes(f, FrameStart(n + 1), luck)
              /\ decode_records(f, luck) = [i \in 1..n |-> DecodedAt(f, FrameStart(i))]
<1> DEFINE D(i) == Decodes(f, FrameStart(i), luck)
           T == {m \in 0..Len(f) : \A i \in 1..m : D(i)}
           n == Max(T)
<1>0. Len(f) \in Nat
  BY LenProperties
<1>1. decode_records(f, luck) = [i \in 1..n |-> DecodedAt(f, FrameStart(i))]
  BY DEF decode_records
<1> HIDE DEF D
<1>2. 0 \in T
  BY <1>0
<1>3. \E x \in T : \A y \in T : x >= y
  BY <1>0, <1>2, GreatestNatural
<1>4. n \in T /\ \A y \in T : n >= y
  BY <1>3 DEF Max
<1>5. n < Len(f) => ~D(n + 1)
  <2> SUFFICES ASSUME n < Len(f), D(n + 1) PROVE FALSE
    OBVIOUS
  <2>1. n \in 0..Len(f) /\ \A i \in 1..n : D(i)
    BY <1>4
  <2> HIDE DEF n
  <2>2. \A i \in 1..(n + 1) : D(i)
    BY <2>1
  <2>3. n + 1 \in T
    BY <1>0, <2>1, <2>2
  <2> QED BY <1>4, <2>1, <2>3
<1>6. n \in 0..Len(f) /\ \A i \in 1..n : D(i)
  BY <1>4
<1> QED BY <1>1, <1>5, <1>6 DEF D

\* The decoder returns records.
LEMMA DecodeType ==
    ASSUME NEW f \in Seq(Cell), NEW luck \in BOOLEAN
    PROVE  decode_records(f, luck) \in Seq(Replayed)
<1>1. PICK n \in 0..Len(f) :
              /\ \A i \in 1..n : Decodes(f, FrameStart(i), luck)
              /\ decode_records(f, luck) = [i \in 1..n |-> DecodedAt(f, FrameStart(i))]
  BY DecodedRun
<1>2. ASSUME NEW i \in 1..n PROVE DecodedAt(f, FrameStart(i)) \in Replayed
  <2>0. FrameStart(i) + BodyLen <= Len(f)
    BY <1>1 DEF Decodes
  <2>1. FrameStart(i) \in 1..Len(f)
    <3>1. i \in Nat \ {0} /\ Len(f) \in Nat
      BY LenProperties
    <3> DEFINE s == FrameStart(i)
    <3>2. s \in Nat /\ i <= s /\ BodyLen \in Nat /\ s + BodyLen <= Len(f)
      BY <2>0, <3>1, FrameStarts
    <3> HIDE DEF s
    <3>3. s \in 1..Len(f)
      BY <3>1, <3>2
    <3> QED BY <3>3 DEF s
  <2>2. f[FrameStart(i)] \in Cell
    BY <2>1, ElementOfSeq
  <2>3. f[FrameStart(i)].rec \in WalRecord
    BY <2>2 DEF Cell
  <2> QED BY <2>3 DEF DecodedAt, Replayed, WalRecord, Value
<1>3. n \in Nat
  BY LenProperties
<1> QED BY <1>1, <1>2, <1>3, IsASeq

\* A frame of Starts is whole and decodes to its record.
LEMMA StartsDecodes ==
    ASSUME NEW f \in Seq(Cell), NEW R, NEW recs \in Seq(R), NEW luck \in BOOLEAN,
           Starts(f, recs), NEW i \in 1..Len(recs)
    PROVE  /\ Decodes(f, FrameStart(i), luck)
           /\ DecodedAt(f, FrameStart(i)) = recs[i]
<1> DEFINE s == FrameStart(i)
           t == FrameStart(Len(recs) + 1)
<1>0. Len(f) \in Nat /\ Len(recs) \in Nat
  BY LenProperties
<1>1. i \in Nat \ {0} /\ Len(recs) + 1 \in Nat \ {0} /\ i < Len(recs) + 1
  BY <1>0
<1>2. /\ s \in Nat /\ i <= s /\ s + FrameLen <= t /\ t \in Nat
      /\ FrameLen \in Nat \ {0} /\ BodyLen = FrameLen - 1
  BY <1>1, FrameStarts
<1>3. t <= Len(f) + 1
  BY DEF Starts
<1>4. \A k \in 1..FrameLen : f[s + k - 1] = [rec |-> recs[i], k |-> k]
  BY DEF Starts
<1> HIDE DEF s, t
<1>5. s + BodyLen <= Len(f)
  BY <1>0, <1>2, <1>3
<1>6. 1 \in 1..FrameLen /\ s + 1 - 1 = s
  BY <1>2
<1>7. f[s] = [rec |-> recs[i], k |-> 1]
  BY <1>4, <1>6
<1>8. f[s].rec = recs[i] /\ f[s].k = 1
  BY <1>7
<1>9. WholeFrame(f, s)
  BY <1>4, <1>8 DEF WholeFrame
<1>10. Decodes(f, s, luck) /\ DecodedAt(f, s) = recs[i]
  BY <1>5, <1>8, <1>9 DEF Decodes, DecodedAt
<1> QED BY <1>10 DEF s

\* Replaying a file that begins with the frames of recs gives recs first.
LEMMA ReplayBegins ==
    ASSUME NEW f \in Seq(Cell), NEW recs \in Seq(Replayed), NEW luck \in BOOLEAN,
           Starts(f, recs)
    PROVE  IsPrefix(recs, decode_records(f, luck))
<1> DEFINE d == decode_records(f, luck)
           m == Len(recs)
<1>1. PICK n \in 0..Len(f) :
              /\ n < Len(f) => ~Decodes(f, FrameStart(n + 1), luck)
              /\ d = [i \in 1..n |-> DecodedAt(f, FrameStart(i))]
  BY DecodedRun
<1>2. d \in Seq(Replayed)
  BY DecodeType
<1>3. Len(f) \in Nat /\ m \in Nat /\ n \in Nat
  BY LenProperties
<1>4. Len(d) = n
  BY <1>1, <1>2, <1>3, LenProperties
<1>5. m <= Len(f)
  <2> DEFINE t == FrameStart(m + 1)
  <2>1. m + 1 \in Nat \ {0}
    BY <1>3
  <2>2. t <= Len(f) + 1 /\ m + 1 <= t /\ t \in Nat
    BY <2>1, FrameStarts DEF Starts
  <2> HIDE DEF t, m
  <2> QED BY <1>3, <2>2
<1>6. m <= n
  <2> SUFFICES ASSUME n < m PROVE FALSE
    BY <1>3
  <2>1. n + 1 \in 1..Len(recs) /\ n < Len(f)
    BY <1>3, <1>5
  <2>2. Decodes(f, FrameStart(n + 1), luck)
    BY <2>1, StartsDecodes
  <2> QED BY <1>1, <2>1, <2>2
<1>7. \A i \in 1..m : d[i] = recs[i]
  <2> TAKE i \in 1..m
  <2>1. DecodedAt(f, FrameStart(i)) = recs[i]
    BY StartsDecodes
  <2>2. i \in 1..n
    BY <1>3, <1>6
  <2> QED BY <1>1, <2>1, <2>2
<1> HIDE DEF d
<1>8. SubSeq(recs, 1, m) = SubSeq(d, 1, m)
  BY <1>2, <1>3, <1>4, <1>6, <1>7
<1>9. IsPrefix(recs, d)
  BY <1>3, <1>4, <1>6, <1>8 DEF IsPrefix
<1> QED BY <1>9 DEF d

\* Replaying a file of the frames of recs gives recs.
LEMMA ReplayExact ==
    ASSUME NEW f \in Seq(Cell), NEW recs \in Seq(Replayed), NEW luck \in BOOLEAN,
           Framed(f, recs)
    PROVE  decode_records(f, luck) = recs
<1> DEFINE d == decode_records(f, luck)
           m == Len(recs)
<1>1. PICK n \in 0..Len(f) :
              /\ \A i \in 1..n : Decodes(f, FrameStart(i), luck)
              /\ d = [i \in 1..n |-> DecodedAt(f, FrameStart(i))]
  BY DecodedRun
<1>2. d \in Seq(Replayed) /\ IsPrefix(recs, d)
  BY DecodeType, ReplayBegins DEF Framed
<1>3. Len(f) \in Nat /\ m \in Nat /\ n \in Nat
  BY LenProperties
<1>4. Len(d) = n
  BY <1>1, <1>2, <1>3, LenProperties
<1>5. m <= n
  BY <1>2, <1>4 DEF IsPrefix
<1>6. n <= m
  <2> SUFFICES ASSUME m < n PROVE FALSE
    BY <1>3
  <2> DEFINE t == FrameStart(m + 1)
  <2>1. m + 1 \in 1..n /\ m + 1 \in Nat \ {0}
    BY <1>3
  <2>2. t + BodyLen <= Len(f)
    BY <1>1, <2>1 DEF Decodes
  <2>3. t = Len(f) + 1 /\ BodyLen \in Nat
    BY FrameStarts DEF Framed
  <2> HIDE DEF t
  <2> QED BY <1>3, <2>2, <2>3
<1>7. \A i \in 1..m : d[i] = recs[i]
  <2> TAKE i \in 1..m
  <2>1. DecodedAt(f, FrameStart(i)) = recs[i]
    BY StartsDecodes DEF Framed
  <2>2. i \in 1..n
    BY <1>3, <1>5
  <2> QED BY <1>1, <2>1, <2>2
<1>8. m = n
  BY <1>3, <1>5, <1>6
<1> HIDE DEF d
<1>9. d = recs
  BY <1>2, <1>3, <1>4, <1>7, <1>8, SeqEqual
<1> QED BY <1>9 DEF d

\* A log that decodes whole, with no torn frame, is the frames of its records.
LEMMA UntornIsFramed ==
    ASSUME NEW f \in Seq(Cell), NEW luck \in BOOLEAN, Chained(f), ~HasTornFrame(f)
    PROVE  Framed(f, decode_records(f, luck))
<1> DEFINE d == decode_records(f, luck)
<1>1. PICK n \in 0..Len(f) :
              /\ \A i \in 1..n : Decodes(f, FrameStart(i), luck)
              /\ n < Len(f) => ~Decodes(f, FrameStart(n + 1), luck)
              /\ d = [i \in 1..n |-> DecodedAt(f, FrameStart(i))]
  BY DecodedRun
<1>2. d \in Seq(Replayed)
  BY DecodeType
<1>3. Len(f) \in Nat /\ n \in Nat
  BY LenProperties
<1>4. Len(d) = n
  BY <1>1, <1>2, <1>3, LenProperties
<1> HIDE DEF d
<1> DEFINE t == FrameStart(n + 1)
<1>5. ASSUME NEW p \in 1..Len(f), f[p].k = 1
      PROVE  p + BodyLen <= Len(f) /\ WholeFrame(f, p)
  <2>1. p \in DOMAIN f
    BY LenProperties
  <2>2. BodyLen \in Nat /\ p \in Nat
    BY FrameStarts, <1>3
  <2> QED BY <1>3, <1>5, <2>1, <2>2 DEF HasTornFrame
<1>6. ASSUME NEW i \in 1..n
      PROVE  /\ FrameStart(i) \in 1..Len(f) /\ FrameStart(i) + BodyLen <= Len(f)
             /\ WholeFrame(f, FrameStart(i))
  <2> DEFINE s == FrameStart(i)
  <2>1. s + BodyLen <= Len(f) /\ f[s].k = 1
    BY <1>1 DEF Decodes
  <2>2. i \in Nat \ {0}
    BY <1>3
  <2>3. s \in Nat /\ i <= s /\ BodyLen \in Nat
    BY <2>2, FrameStarts
  <2> HIDE DEF s
  <2>4. s \in 1..Len(f)
    BY <1>3, <2>1, <2>2, <2>3
  <2>5. WholeFrame(f, s)
    BY <1>5, <2>1, <2>4
  <2> QED BY <2>1, <2>4, <2>5 DEF s
<1>7. t \in Nat \ {0} /\ t <= Len(f) + 1
  <2>1. CASE n = 0
    <3>1. t = 1
      BY <2>1, FrameStarts
    <3> QED BY <1>3, <3>1
  <2>2. CASE n # 0
    <3>1. n \in 1..n /\ n \in Nat \ {0}
      BY <1>3, <2>2
    <3> DEFINE s == FrameStart(n)
    <3>2. s + BodyLen <= Len(f) /\ s \in 1..Len(f)
      BY <1>6, <3>1
    <3>3. t = s + FrameLen /\ FrameLen \in Nat \ {0} /\ BodyLen = FrameLen - 1
      BY <3>1, FrameStarts
    <3> HIDE DEF s, t
    <3> QED BY <1>3, <3>2, <3>3
  <2> QED BY <2>1, <2>2
<1>8. ASSUME t <= Len(f) PROVE f[t].k = 1
  <2>0. f[t] \in Cell
    BY <1>3, <1>7, <1>8, ElementOfSeq
  <2>1. CASE n = 0
    <3>1. t = 1
      BY <2>1, FrameStarts
    <3>2. f # <<>>
      BY <1>8, <3>1
    <3> QED BY <3>1, <3>2 DEF Chained
  <2>2. CASE n # 0
    <3>1. n \in 1..n /\ n \in Nat \ {0}
      BY <1>3, <2>2
    <3> DEFINE s == FrameStart(n)
    <3>2. s + BodyLen <= Len(f) /\ s \in 1..Len(f) /\ WholeFrame(f, s)
      BY <1>6, <3>1
    <3>3. t = s + FrameLen /\ FrameLen \in Nat \ {0} /\ BodyLen = FrameLen - 1
      BY <3>1, FrameStarts
    <3>4. f[s + FrameLen - 1] = [rec |-> f[s].rec, k |-> FrameLen]
      BY <3>2, <3>3 DEF WholeFrame
    <3> HIDE DEF s, t
    <3> DEFINE p == t - 1
    <3>5. p \in 1..(Len(f) - 1) /\ p + 1 = t /\ p = s + FrameLen - 1
      BY <1>3, <1>8, <3>2, <3>3
    <3>6. f[p].k = FrameLen
      BY <3>4, <3>5
    <3> HIDE DEF p
    <3>7. f[t].k = 1 \/ f[t] = [rec |-> f[p].rec, k |-> FrameLen + 1]
      BY <3>5, <3>6 DEF Chained
    <3>8. f[t].k \in 1..FrameLen
      BY <2>0 DEF Cell
    <3> QED BY <3>3, <3>7, <3>8
  <2> QED BY <2>1, <2>2
<1>9. t = Len(f) + 1
  <2> SUFFICES ASSUME t <= Len(f) PROVE FALSE
    BY <1>3, <1>7
  <2>1. f[t].k = 1 /\ t \in 1..Len(f)
    BY <1>3, <1>7, <1>8
  <2>2. t + BodyLen <= Len(f) /\ WholeFrame(f, t)
    BY <1>5, <2>1
  <2>3. Decodes(f, t, luck)
    BY <2>1, <2>2 DEF Decodes
  <2>4. n + 1 <= t
    BY <1>3, FrameStarts
  <2>5. n < Len(f)
    BY <1>3, <1>7, <2>4
  <2> QED BY <1>1, <2>3, <2>5
<1>10. ASSUME NEW i \in 1..n, NEW k \in 1..FrameLen
       PROVE  f[FrameStart(i) + k - 1] = [rec |-> d[i], k |-> k]
  <2>1. WholeFrame(f, FrameStart(i))
    BY <1>6
  <2>2. d[i] = f[FrameStart(i)].rec
    BY <1>1, <2>1 DEF DecodedAt
  <2> QED BY <2>1, <2>2 DEF WholeFrame
<1>11. Framed(f, d)
  BY <1>3, <1>4, <1>7, <1>9, <1>10 DEF Framed, Starts
<1> QED BY <1>11 DEF d

\* What is appended begins with a header, so a file stays a chain of frames.
LEMMA ChainedConcat ==
    ASSUME NEW f \in Seq(Cell), NEW g \in Seq(Cell), Chained(f), Chained(g)
    PROVE  f \o g \in Seq(Cell) /\ Chained(f \o g)
<1> DEFINE h == f \o g
           a == Len(f)
           b == Len(g)
<1>1. h \in Seq(Cell) /\ Len(h) = a + b /\ a \in Nat /\ b \in Nat
  BY LenProperties, ConcatProperties
<1>2. \A p \in 1..a : h[p] = f[p]
  BY ConcatProperties, <1>1
<1>3. \A p \in 1..b : h[a + p] = g[p]
  BY ConcatProperties, <1>1
<1>4. a = 0 => f = <<>>
  BY EmptySeq
<1>5. b = 0 => g = <<>>
  BY EmptySeq
<1>6. a # 0 => f # <<>>
  BY EmptySeq
<1>7. b # 0 => g # <<>>
  BY EmptySeq
<1>h. h # <<>> => a + b # 0
  BY <1>1, EmptySeq
<1> HIDE DEF h, a, b
<1>8. ASSUME h # <<>> PROVE h[1].k = 1
  <2>1. CASE a # 0
    <3>1. 1 \in 1..a
      BY <1>1, <2>1
    <3> QED BY <1>2, <1>6, <2>1, <3>1 DEF Chained
  <2>2. CASE a = 0
    <3>1. b # 0 /\ 1 \in 1..b /\ a + 1 = 1
      BY <1>1, <1>8, <1>h, <2>2
    <3>2. h[1] = g[1]
      BY <1>3, <3>1
    <3> QED BY <1>7, <3>1, <3>2 DEF Chained
  <2> QED BY <2>1, <2>2
<1>9. ASSUME NEW p \in 1..(Len(h) - 1)
      PROVE  h[p + 1].k = 1 \/ h[p + 1] = [rec |-> h[p].rec, k |-> h[p].k + 1]
  <2>1. CASE p < a
    <3>1. p \in 1..a /\ p + 1 \in 1..a /\ p \in 1..(a - 1)
      BY <1>1, <2>1
    <3>2. h[p] = f[p] /\ h[p + 1] = f[p + 1]
      BY <1>2, <3>1
    <3>3. p \in 1..(Len(f) - 1)
      BY <3>1 DEF a
    <3> QED BY <3>2, <3>3 DEF Chained
  <2>2. CASE p = a
    <3>1. b # 0 /\ 1 \in 1..b
      BY <1>1, <2>2
    <3>2. h[p + 1] = g[1]
      BY <1>3, <2>2, <3>1
    <3> QED BY <1>7, <3>1, <3>2 DEF Chained
  <2>3. CASE p > a
    <3> DEFINE q == p - a
    <3>1. q \in 1..b /\ q + 1 \in 1..b /\ q \in 1..(b - 1) /\ a + q = p /\ a + (q + 1) = p + 1
      BY <1>1, <2>3
    <3> HIDE DEF q
    <3>2. h[p] = g[q] /\ h[p + 1] = g[q + 1]
      BY <1>3, <3>1
    <3>3. q \in 1..(Len(g) - 1)
      BY <3>1 DEF b
    <3> QED BY <3>2, <3>3 DEF Chained
  <2> QED BY <1>1, <2>1, <2>2, <2>3
<1>10. Chained(h)
  BY <1>8, <1>9 DEF Chained
<1> QED BY <1>1, <1>10 DEF h

\* A prefix of a chain of frames is one.
LEMMA ChainedPrefix ==
    ASSUME NEW f \in Seq(Cell), Chained(f), NEW n \in 0..Len(f)
    PROVE  /\ SubSeq(f, 1, n) \in Seq(Cell) /\ Len(SubSeq(f, 1, n)) = n
           /\ \A p \in 1..n : SubSeq(f, 1, n)[p] = f[p]
           /\ Chained(SubSeq(f, 1, n))
<1> DEFINE g == SubSeq(f, 1, n)
<1>0. Len(f) \in Nat /\ n \in Nat
  BY LenProperties
<1>1. g \in Seq(Cell) /\ Len(g) = n /\ \A p \in 1..n : g[p] = f[p]
  BY <1>0
<1> HIDE DEF g
<1>2. g # <<>> => n # 0
  BY <1>1, EmptySeq
<1>3. ASSUME g # <<>> PROVE g[1].k = 1
  <2>1. 1 \in 1..n /\ f # <<>>
    BY <1>0, <1>2, <1>3, EmptySeq
  <2> QED BY <1>1, <2>1 DEF Chained
<1>4. ASSUME NEW p \in 1..(Len(g) - 1)
      PROVE  g[p + 1].k = 1 \/ g[p + 1] = [rec |-> g[p].rec, k |-> g[p].k + 1]
  <2>1. p \in 1..n /\ p + 1 \in 1..n /\ p \in 1..(Len(f) - 1)
    BY <1>0, <1>1
  <2> QED BY <1>1, <2>1 DEF Chained
<1>5. Chained(g)
  BY <1>3, <1>4 DEF Chained
<1> QED BY <1>1, <1>5 DEF g

\* encode_record makes one complete frame.
LEMMA EncodedFrame ==
    ASSUME NEW rec \in WalRecord
    PROVE  /\ encode_record(rec) \in Seq(Cell) /\ Len(encode_record(rec)) = FrameLen
           /\ Chained(encode_record(rec))
<1> DEFINE e == encode_record(rec)
<1>0. FrameLen \in Nat \ {0}
  BY FrameStarts
<1>1. \A k \in 1..FrameLen : e[k] = [rec |-> rec, k |-> k]
  BY DEF encode_record
<1>c. \A k \in 1..FrameLen : [rec |-> rec, k |-> k] \in Cell
  BY DEF Cell
<1>2. e = [k \in 1..FrameLen |-> [rec |-> rec, k |-> k]]
  BY DEF encode_record
<1>3. e \in Seq(Cell)
  BY <1>0, <1>c, <1>2, IsASeq
<1>4. Len(e) = FrameLen
  BY <1>0, <1>2, <1>3, LenProperties
<1> HIDE DEF e
<1>5. e[1].k = 1
  <2>1. e[1] = [rec |-> rec, k |-> 1]
    BY <1>0, <1>1
  <2> QED BY <2>1
<1>6. ASSUME NEW p \in 1..(Len(e) - 1)
      PROVE  e[p + 1] = [rec |-> e[p].rec, k |-> e[p].k + 1]
  <2>1. p \in 1..FrameLen /\ p + 1 \in 1..FrameLen
    BY <1>0, <1>4
  <2>2. e[p] = [rec |-> rec, k |-> p] /\ e[p + 1] = [rec |-> rec, k |-> p + 1]
    BY <1>1, <2>1
  <2> QED BY <2>2
<1>7. Chained(e)
  BY <1>5, <1>6 DEF Chained
<1> QED BY <1>3, <1>4, <1>7 DEF e

\* Appending a frame to a log of frames appends its record.
LEMMA FramedAppend ==
    ASSUME NEW f \in Seq(Cell), NEW recs \in Seq(Replayed), NEW rec \in WalRecord,
           Framed(f, recs)
    PROVE  Framed(f \o encode_record(rec), Append(recs, rec))
<1> DEFINE e == encode_record(rec)
           g == f \o e
           more == Append(recs, rec)
           m == Len(recs)
           t == FrameStart(m + 1)
<1>0. /\ Len(f) \in Nat /\ m \in Nat /\ FrameLen \in Nat \ {0}
      /\ e \in Seq(Cell) /\ Len(e) = FrameLen
  BY LenProperties, EncodedFrame, FrameStarts
<1>1. \A k \in 1..FrameLen : e[k] = [rec |-> rec, k |-> k]
  BY DEF encode_record
<1>2. /\ g \in Seq(Cell) /\ Len(g) = Len(f) + FrameLen
      /\ \A p \in 1..Len(f) : g[p] = f[p]
      /\ \A k \in 1..FrameLen : g[Len(f) + k] = e[k]
  <2> HIDE DEF e
  <2>1. g \in Seq(Cell) /\ Len(g) = Len(f) + FrameLen
    BY <1>0, ConcatProperties
  <2>2. \A p \in 1..Len(f) : g[p] = f[p]
    BY <1>0, ConcatProperties
  <2>3. \A k \in 1..FrameLen : g[Len(f) + k] = e[k]
    BY <1>0, ConcatProperties
  <2> QED BY <2>1, <2>2, <2>3
<1>3. rec \in Replayed
  BY DEF WalRecord, Replayed, Value
<1>4. /\ Len(more) = m + 1 /\ more[m + 1] = rec
      /\ \A i \in 1..m : more[i] = recs[i]
  BY <1>3, AppendProperties
<1>5. t = Len(f) + 1 /\ m + 1 \in Nat \ {0}
  BY <1>0 DEF Framed
<1>6. FrameStart(Len(more) + 1) = Len(g) + 1
  <2>1. FrameStart((m + 1) + 1) = t + FrameLen
    BY <1>5, FrameStarts
  <2> QED BY <1>0, <1>2, <1>4, <1>5, <2>1
<1> HIDE DEF g, more, e
<1>7. ASSUME NEW i \in 1..Len(more), NEW k \in 1..FrameLen
      PROVE  g[FrameStart(i) + k - 1] = [rec |-> more[i], k |-> k]
  <2>1. CASE i = m + 1
    <3>1. FrameStart(i) + k - 1 = Len(f) + k
      BY <1>0, <1>5, <2>1
    <3> QED BY <1>1, <1>2, <1>4, <2>1, <3>1, SMTT(60)
  <2>2. CASE i # m + 1
    <3> DEFINE s == FrameStart(i)
    <3>1. i \in 1..m /\ i \in Nat \ {0} /\ i < m + 1
      BY <1>0, <1>4, <2>2
    <3>2. s \in Nat /\ i <= s /\ s + FrameLen <= t
      BY <1>5, <3>1, FrameStarts
    <3>3. f[s + k - 1] = [rec |-> recs[i], k |-> k]
      BY <3>1 DEF Framed, Starts
    <3> HIDE DEF s, t
    <3>4. s + k - 1 \in 1..Len(f)
      BY <1>0, <1>5, <3>1, <3>2
    <3>5. g[s + k - 1] = [rec |-> more[i], k |-> k]
      BY <1>2, <1>4, <3>1, <3>3, <3>4
    <3> QED BY <3>5 DEF s
  <2> QED BY <2>1, <2>2
<1>8. Framed(g, more)
  BY <1>0, <1>2, <1>6, <1>7, SMTT(60) DEF Framed, Starts
<1> QED BY <1>8 DEF g, more, e

-----------------------------------------------------------------------------
(* Replayed records *)

\* Applying records gives a value to each path they name.
LEMMA ApplyType ==
    ASSUME NEW m \in [Path -> {"cold"} \cup Value], NEW recs \in Seq(Replayed)
    PROVE  apply_records(m, recs) \in [Path -> {"cold"} \cup Value]
<1>1. ASSUME NEW p \in Path
      PROVE  apply_records(m, recs)[p] \in {"cold"} \cup Value
  <2> DEFINE at == {i \in DOMAIN recs : recs[i].path = p}
             last == CHOOSE i \in at : \A j \in at : j <= i
  <2>1. CASE at = {}
    BY <2>1 DEF apply_records
  <2>2. CASE at # {}
    <3>1. at \in SUBSET (0..Len(recs)) /\ Len(recs) \in Nat
      BY LenProperties
    <3>2. \E i \in at : \A j \in at : i >= j
      BY <2>2, <3>1, GreatestNatural
    <3>3. \E i \in at : \A j \in at : j <= i
      BY <3>1, <3>2
    <3>4. last \in DOMAIN recs
      BY <3>3
    <3>5. recs[last] \in Replayed
      BY <3>4, ElementOfSeq, LenProperties
    <3>6. apply_records(m, recs)[p] = recs[last].val
      BY <2>2 DEF apply_records
    <3> QED BY <3>5, <3>6 DEF Replayed
  <2> QED BY <2>1, <2>2
<1> QED BY <1>1 DEF apply_records

\* Applying one batch after another is applying them in one go.
LEMMA ApplyConcat ==
    ASSUME NEW m \in [Path -> {"cold"} \cup Value],
           NEW a \in Seq(Replayed), NEW b \in Seq(Replayed)
    PROVE  apply_records(apply_records(m, a), b) = apply_records(m, a \o b)
<1> DEFINE c == a \o b
           la == Len(a)
           lb == Len(b)
<1>1. /\ la \in Nat /\ lb \in Nat /\ c \in Seq(Replayed)
      /\ DOMAIN a = 1..la /\ DOMAIN b = 1..lb /\ DOMAIN c = 1..(la + lb)
      /\ \A i \in 1..la : c[i] = a[i]
      /\ \A i \in 1..lb : c[la + i] = b[i]
  BY LenProperties, ConcatProperties
<1> HIDE DEF c, la, lb
<1>2. ASSUME NEW p \in Path
      PROVE  apply_records(apply_records(m, a), b)[p] = apply_records(m, c)[p]
  <2> DEFINE ata == {i \in DOMAIN a : a[i].path = p}
             atb == {i \in DOMAIN b : b[i].path = p}
             atc == {i \in DOMAIN c : c[i].path = p}
             lasta == CHOOSE i \in ata : \A j \in ata : j <= i
             lastb == CHOOSE i \in atb : \A j \in atb : j <= i
             lastc == CHOOSE i \in atc : \A j \in atc : j <= i
  <2>a. apply_records(m, a)[p] = IF ata = {} THEN m[p] ELSE a[lasta].val
    BY DEF apply_records
  <2>b. apply_records(apply_records(m, a), b)[p]
           = IF atb = {} THEN apply_records(m, a)[p] ELSE b[lastb].val
    BY DEF apply_records
  <2>c. apply_records(m, c)[p] = IF atc = {} THEN m[p] ELSE c[lastc].val
    BY DEF apply_records
  <2>1. /\ \A i \in 1..la : i \in atc <=> i \in ata
        /\ \A i \in 1..lb : la + i \in atc <=> i \in atb
        /\ ata \subseteq 1..la /\ atb \subseteq 1..lb /\ atc \subseteq 1..(la + lb)
    BY <1>1
  <2>2. /\ ata # {} => lasta \in ata /\ \A j \in ata : j <= lasta
        /\ atb # {} => lastb \in atb /\ \A j \in atb : j <= lastb
        /\ atc # {} => lastc \in atc /\ \A j \in atc : j <= lastc
    <3>1. ASSUME NEW n \in Nat, NEW T \in SUBSET (1..n), T # {}
          PROVE  \E i \in T : \A j \in T : j <= i
      <4>1. T \in SUBSET (0..n)
        OBVIOUS
      <4>2. \E i \in T : \A j \in T : i >= j
        BY <3>1, <4>1, GreatestNatural
      <4> QED BY <4>1, <4>2
    <3> HIDE DEF ata, atb, atc
    <3>2. la + lb \in Nat
      BY <1>1
    <3> QED BY <1>1, <2>1, <3>1, <3>2
  <2> HIDE DEF ata, atb, atc, lasta, lastb, lastc
  <2>3. CASE atb # {}
    <3>1. lastb \in 1..lb /\ la + lastb \in atc
      BY <2>1, <2>2, <2>3
    <3>2. lastc \in atc /\ la + lastb <= lastc /\ lastc \in 1..(la + lb)
      BY <2>1, <2>2, <3>1
    <3> DEFINE q == lastc - la
    <3>3. q \in 1..lb /\ la + q = lastc
      BY <1>1, <3>1, <3>2
    <3> HIDE DEF q
    <3>4. q \in atb /\ q <= lastb
      BY <2>1, <2>2, <2>3, <3>2, <3>3
    <3>5. lastc = la + lastb
      BY <1>1, <3>1, <3>2, <3>3, <3>4
    <3>6. c[lastc] = b[lastb]
      BY <1>1, <3>1, <3>5
    <3> QED BY <2>3, <2>b, <2>c, <3>1, <3>6
  <2>4. CASE atb = {} /\ ata # {}
    <3>1. lasta \in 1..la /\ lasta \in atc
      BY <2>1, <2>2, <2>4
    <3>2. lastc \in atc /\ lasta <= lastc /\ lastc \in 1..(la + lb)
      BY <2>1, <2>2, <3>1
    <3>3. lastc \in 1..la
      <4> SUFFICES ASSUME la < lastc PROVE FALSE
        BY <1>1, <3>2
      <4>1. lastc - la \in 1..lb /\ la + (lastc - la) = lastc
        BY <1>1, <3>2
      <4> QED BY <2>1, <2>4, <3>2, <4>1
    <3>4. lastc \in ata /\ lastc <= lasta
      BY <2>1, <2>2, <2>4, <3>2, <3>3
    <3>5. lastc = lasta
      BY <3>1, <3>2, <3>4
    <3> QED BY <1>1, <2>4, <2>a, <2>b, <2>c, <3>1, <3>5
  <2>5. CASE atb = {} /\ ata = {}
    <3>1. atc = {}
      <4> SUFFICES ASSUME NEW i \in atc PROVE FALSE
        OBVIOUS
      <4>1. CASE i <= la
        BY <2>1, <2>5, <4>1
      <4>2. CASE i > la
        <5>1. i - la \in 1..lb /\ la + (i - la) = i
          BY <1>1, <2>1, <4>2
        <5> QED BY <2>1, <2>5, <5>1
      <4> QED BY <1>1, <2>1, <4>1, <4>2
    <3> QED BY <2>5, <2>a, <2>b, <2>c, <3>1
  <2> QED BY <2>3, <2>4, <2>5
<1>3. apply_records(apply_records(m, a), b) = apply_records(m, c)
  <2>1. \A x, r : apply_records(x, r) = [p \in Path |-> apply_records(x, r)[p]]
    BY DEF apply_records
  <2> QED BY <1>2, <2>1
<1> QED BY <1>3 DEF c

\* Applying nothing changes nothing.
LEMMA ApplyNothing ==
    ASSUME NEW m \in [Path -> {"cold"} \cup Value]
    PROVE  apply_records(m, <<>>) = m
<1>1. \A p \in Path : {i \in DOMAIN <<>> : <<>>[i].path = p} = {}
  OBVIOUS
<1> QED BY <1>1 DEF apply_records

-----------------------------------------------------------------------------
(* The invariant is kept *)

\* Records of a batch are records.
LEMMA BatchType ==
    ASSUME NEW b \in Seq(WalRecord)
    PROVE  b \in Seq(Replayed)
<1>1. WalRecord \subseteq Replayed
  BY DEF WalRecord, Replayed, Value
<1> QED BY <1>1, SeqMonotonic

\* How what has been written grows.
LEMMA WrittenGrows ==
    ASSUME NEW pub \in Seq(Replayed), NEW b \in Seq(WalRecord), NEW n \in 0..Len(b)
    PROVE  /\ pub \o SubSeq(b, 1, n) \in Seq(Replayed)
           /\ n = 0 => pub \o SubSeq(b, 1, n) = pub
           /\ n = Len(b) => pub \o SubSeq(b, 1, n) = pub \o b
           /\ n < Len(b) =>
                pub \o SubSeq(b, 1, n + 1) = Append(pub \o SubSeq(b, 1, n), b[n + 1])
<1>1. b \in Seq(Replayed)
  BY BatchType
<1>3. Len(b) \in Nat /\ n \in Nat /\ n <= Len(b)
  BY <1>1, LenProperties
<1>4. SubSeq(b, 1, n) \in Seq(Replayed) /\ pub \o SubSeq(b, 1, n) \in Seq(Replayed)
  BY <1>1, <1>3
<1>5. n = 0 => pub \o SubSeq(b, 1, n) = pub
  <2>1. n = 0 => SubSeq(b, 1, n) = <<>>
    BY <1>1, <1>3, SubSeqEmpty
  <2> QED BY <2>1, ConcatEmptySeq
<1>6. n = Len(b) => pub \o SubSeq(b, 1, n) = pub \o b
  BY <1>1, SubSeqFull
<1>7. ASSUME n < Len(b)
      PROVE  pub \o SubSeq(b, 1, n + 1) = Append(pub \o SubSeq(b, 1, n), b[n + 1])
  <2> DEFINE x == SubSeq(b, 1, n)
             r == b[n + 1]
  <2>1. SubSeq(b, 1, n + 1) = Append(x, r) /\ r \in Replayed /\ x \in Seq(Replayed)
    BY <1>1, <1>3, <1>7
  <2> HIDE DEF x, r
  <2>2. pub \o Append(x, r) = Append(pub \o x, r)
    BY <2>1, SMTT(60)
  <2> QED BY <2>1, <2>2 DEF x, r
<1> QED BY <1>4, <1>5, <1>6, <1>7

\* A file that only grew still begins with what was synced.
LEMMA PrefixGrows ==
    ASSUME NEW f \in Seq(Cell), NEW d \in Seq(Cell), NEW g \in Seq(Cell), IsPrefix(d, f)
    PROVE  IsPrefix(d, f \o g)
<1>1. Len(d) \in Nat /\ Len(f) \in Nat /\ Len(g) \in Nat
  BY LenProperties
<1>2. Len(d) <= Len(f) /\ SubSeq(d, 1, Len(d)) = SubSeq(f, 1, Len(d))
  BY DEF IsPrefix
<1>3. Len(f \o g) = Len(f) + Len(g) /\ \A i \in 1..Len(f) : (f \o g)[i] = f[i]
  BY ConcatProperties
<1>4. f \o g \in Seq(Cell)
  BY ConcatProperties
<1>5. SubSeq(f \o g, 1, Len(d)) = SubSeq(f, 1, Len(d))
  BY <1>1, <1>2, <1>3, <1>4
<1> QED BY <1>1, <1>2, <1>3, <1>5 DEF IsPrefix

LEMMA PrefixSelf ==
    ASSUME NEW f \in Seq(Cell)
    PROVE  IsPrefix(f, f)
BY LenProperties DEF IsPrefix

\* What a crash leaves is a chain of frames.
LEMMA CrashImageType ==
    ASSUME TypeOK, FileInv, NEW f \in CrashImages
    PROVE  f \in Seq(Cell) /\ Chained(f)
<1>1. file \in Seq(Cell) /\ disk \in Seq(Cell) /\ Chained(file) /\ Chained(disk)
  BY DEF TypeOK, FileInv
<1>2. ASSUME NEW lo \in Nat, NEW n \in lo..Len(file)
      PROVE  SubSeq(file, 1, n) \in Seq(Cell) /\ Chained(SubSeq(file, 1, n))
  <2>1. n \in 0..Len(file)
    BY LenProperties, <1>1
  <2> QED BY <1>1, <2>1, ChainedPrefix
<1>3. (IF IsPrefix(disk, file) THEN Len(disk) ELSE 0) \in Nat
  BY <1>1, LenProperties
<1>4. f = disk \/ \E n \in (IF IsPrefix(disk, file) THEN Len(disk) ELSE 0)..Len(file) :
                      f = SubSeq(file, 1, n)
  BY DEF CrashImages
<1> QED BY <1>1, <1>2, <1>3, <1>4

LEMMA InitIInv == Init => IInv
<1> SUFFICES ASSUME Init PROVE IInv
  OBVIOUS
<1> USE DEF Init
<1>e. Empty \in [Path -> {"cold"} \cup Value]
  BY DEF Empty
<1>1. TypeOK
  <2>1. <<>> \in Seq(Cell) /\ <<>> \in Seq(WalRecord) /\ <<>> \in Seq(Replayed) /\ Len(<<>>) = 0
    OBVIOUS
  <2> QED BY <1>e, <2>1, StoreAssumption DEF TypeOK
<1>2. FileInv
  BY DEF FileInv, Chained
<1>3. PhaseInv
  BY DEF PhaseInv
<1>4. LogInv
  <2>1. Written = <<>>
    BY DEF Written
  <2>2. Framed(<<>>, <<>>)
    BY FrameStarts DEF Framed, Starts
  <2> QED BY <2>1, <2>2 DEF LogInv
<1>5. MemInv
  BY <1>e, ApplyNothing DEF MemInv
<1> QED BY <1>1, <1>2, <1>3, <1>4, <1>5 DEF IInv

\* The bounded counters stay within their bounds.
LEMMA Bounds ==
    ASSUME IInv
    PROVE  /\ errors < MaxErrors => errors + 1 \in 0..MaxErrors
           /\ crashes < MaxCrashes => crashes + 1 \in 0..MaxCrashes
<1>1. MaxErrors \in Nat /\ MaxCrashes \in Nat
  BY StoreAssumption
<1>2. errors \in 0..MaxErrors /\ crashes \in 0..MaxCrashes
  BY DEF IInv, TypeOK
<1> QED BY <1>1, <1>2

\* RecordBatch: nothing is written yet.
LEMMA RecordBatchStep ==
    ASSUME IInv, NEW recs \in Batches, RecordBatch(recs)
    PROVE  IInv'
<1> USE DEF RecordBatch
<1>1. recs \in Seq(WalRecord) /\ Len(recs) \in Nat
  BY LenProperties, StoreAssumption DEF Batches
<1>2. TypeOK'
  BY <1>1 DEF IInv, TypeOK
<1>3. FileInv' /\ MemInv'
  BY DEF IInv, FileInv, MemInv
<1>4. PhaseInv'
  BY DEF IInv, PhaseInv
<1>5. LogInv'
  <2> SUFFICES ASSUME intact'
               PROVE  /\ Framed(file', Written')
                      /\ published # <<>> => /\ IsPrefix(disk, file)
                                             /\ FrameStart(Len(published) + 1) <= Len(disk) + 1
                      /\ phase' # "publish"
    BY DEF LogInv
  <2>1. batch = <<>> /\ done = 0
    BY DEF IInv, PhaseInv, TypeOK
  <2>2. Written = published /\ Written' = published'
    <3>1. published \in Seq(Replayed) /\ batch \in Seq(WalRecord) /\ done \in 0..Len(batch)
      BY DEF IInv, TypeOK
    <3>2. batch' \in Seq(WalRecord) /\ done' \in 0..Len(batch') /\ published' = published /\ done' = 0
      BY <1>2 DEF TypeOK
    <3> QED BY <2>1, <3>1, <3>2, WrittenGrows DEF Written
  <2> QED BY <2>2 DEF IInv, LogInv, PhaseInv
<1> QED BY <1>2, <1>3, <1>4, <1>5 DEF IInv

\* append: one more frame.
LEMMA AppendStep ==
    ASSUME IInv, append
    PROVE  IInv'
<1> USE DEF append
<1> DEFINE rec == batch[done + 1]
           e == encode_record(rec)
<1>0. file \in Seq(Cell) /\ disk \in Seq(Cell) /\ Chained(file) /\ Chained(disk)
  BY DEF IInv, TypeOK, FileInv
<1>1. rec \in WalRecord /\ done + 1 \in 0..Len(batch)
  <2>1. done + 1 \in 1..Len(batch) /\ batch \in Seq(WalRecord)
    BY LenProperties DEF IInv, TypeOK
  <2> QED BY <2>1, ElementOfSeq
<1> HIDE DEF rec
<1>2. e \in Seq(Cell) /\ Chained(e)
  BY <1>1, EncodedFrame
<1>3. file' = file \o e /\ file' \in Seq(Cell) /\ Chained(file')
  BY <1>0, <1>2, ChainedConcat DEF rec
<1> HIDE DEF e
<1>4. TypeOK'
  BY <1>1, <1>3 DEF IInv, TypeOK
<1>5. FileInv' /\ MemInv'
  BY <1>3 DEF IInv, FileInv, MemInv
<1>6. PhaseInv'
  BY DEF IInv, PhaseInv
<1>7. LogInv'
  <2> SUFFICES ASSUME intact'
               PROVE  /\ Framed(file', Written')
                      /\ published # <<>> => /\ IsPrefix(disk, file')
                                             /\ FrameStart(Len(published) + 1) <= Len(disk) + 1
    BY DEF LogInv
  <2>1. /\ Framed(file, Written)
        /\ published # <<>> => /\ IsPrefix(disk, file)
                               /\ FrameStart(Len(published) + 1) <= Len(disk) + 1
    BY DEF IInv, LogInv
  <2>2. Written \in Seq(Replayed) /\ Written' = Append(Written, rec)
    <3>1. Written' = published \o SubSeq(batch, 1, done + 1)
      BY DEF Written
    <3>2. published \in Seq(Replayed) /\ batch \in Seq(WalRecord) /\ done \in 0..Len(batch)
      BY DEF IInv, TypeOK
    <3> QED BY <3>1, <3>2, WrittenGrows, SMTT(60) DEF Written, rec
  <2>3. Framed(file \o encode_record(rec), Append(Written, rec))
    BY <1>0, <1>1, <2>1, <2>2, FramedAppend
  <2>4. IsPrefix(disk, file) => IsPrefix(disk, file')
    BY <1>0, <1>2, <1>3, PrefixGrows
  <2> QED BY <1>3, <2>1, <2>2, <2>3, <2>4 DEF e
<1> QED BY <1>4, <1>5, <1>6, <1>7 DEF IInv

\* appendFails: the log is no longer intact, but still a chain of frames.
LEMMA AppendFailsStep ==
    ASSUME IInv, NEW k \in 0..BodyLen, appendFails(k)
    PROVE  IInv'
<1> USE DEF appendFails
<1> DEFINE rec == batch[done + 1]
           e == encode_record(rec)
           g == SubSeq(e, 1, k)
<1>0. file \in Seq(Cell) /\ disk \in Seq(Cell) /\ Chained(file) /\ Chained(disk)
  BY DEF IInv, TypeOK, FileInv
<1>1. rec \in WalRecord /\ done + 1 \in 0..Len(batch)
  <2>1. done + 1 \in 1..Len(batch) /\ batch \in Seq(WalRecord)
    BY LenProperties DEF IInv, TypeOK
  <2> QED BY <2>1, ElementOfSeq
<1> HIDE DEF rec
<1>2. e \in Seq(Cell) /\ Chained(e) /\ k \in 0..Len(e)
  BY <1>1, EncodedFrame, FrameStarts
<1> HIDE DEF e
<1>3. g \in Seq(Cell) /\ Chained(g)
  BY <1>2, ChainedPrefix
<1> HIDE DEF g
<1>4. file' = file \o g
  BY DEF g, e, rec
<1>5. file' \in Seq(Cell) /\ Chained(file')
  BY <1>0, <1>3, <1>4, ChainedConcat
<1>6. TypeOK'
  BY <1>1, <1>5, Bounds DEF IInv, TypeOK
<1>7. FileInv' /\ MemInv' /\ LogInv'
  BY <1>5 DEF IInv, FileInv, MemInv, LogInv
<1>8. PhaseInv'
  BY DEF IInv, PhaseInv
<1> QED BY <1>6, <1>7, <1>8 DEF IInv

\* sync, or its failure.
LEMMA SyncStep ==
    ASSUME IInv, sync \/ syncFails
    PROVE  IInv'
<1>1. TypeOK'
  BY Bounds DEF IInv, TypeOK, sync, syncFails
<1>2. FileInv' /\ MemInv'
  BY DEF IInv, FileInv, MemInv, sync, syncFails
<1>3. PhaseInv'
  BY DEF IInv, PhaseInv, sync, syncFails
<1>4. CASE syncFails
  <2>1. LogInv'
    BY <1>4 DEF LogInv, syncFails
  <2> QED BY <1>1, <1>2, <1>3, <2>1 DEF IInv
<1>5. CASE sync
  <2>1. Written' = Written
    BY <1>5 DEF Written, sync
  <2>2. file \in Seq(Cell) /\ published \in Seq(Replayed) /\ batch \in Seq(Replayed)
    BY BatchType DEF IInv, TypeOK
  <2>3. IsPrefix(file, file)
    BY <2>2, PrefixSelf
  <2>4. ASSUME intact PROVE FrameStart(Len(published) + 1) <= Len(file) + 1
    <3>1. Framed(file, Written)
      BY <1>5, <2>4 DEF IInv, LogInv, sync
    <3>2. Written = published \o batch
      <4>1. batch \in Seq(WalRecord) /\ done \in 0..Len(batch) /\ done = Len(batch)
        BY <1>5 DEF IInv, TypeOK, sync
      <4> QED BY <2>2, <4>1, WrittenGrows DEF Written
    <3>3. Len(Written) = Len(published) + Len(batch)
      BY <2>2, <3>2, ConcatProperties
    <3> DEFINE a == Len(published) + 1
               b == Len(Written) + 1
    <3>4. a \in Nat \ {0} /\ b \in Nat \ {0} /\ a <= b /\ Len(file) \in Nat
      BY <2>2, <3>3, LenProperties
    <3>5. FrameStart(b) = Len(file) + 1
      BY <3>1 DEF Framed
    <3> HIDE DEF a, b
    <3>6. a = b \/ FrameStart(a) + FrameLen <= FrameStart(b)
      BY <3>4, FrameStarts
    <3>7. FrameStart(a) \in Nat /\ FrameLen \in Nat
      BY <3>4, FrameStarts
    <3>8. FrameStart(a) <= Len(file) + 1
      BY <3>4, <3>5, <3>6, <3>7
    <3> QED BY <3>8 DEF a
  <2>5. LogInv'
    BY <1>5, <2>1, <2>3, <2>4 DEF IInv, LogInv, sync
  <2> QED BY <1>1, <1>2, <1>3, <2>5 DEF IInv
<1> QED BY <1>4, <1>5

\* Publish: the log holds the batch already.
LEMMA PublishStep ==
    ASSUME IInv, Publish
    PROVE  IInv'
<1> USE DEF Publish
<1>0. /\ published \in Seq(Replayed) /\ batch \in Seq(Replayed)
      /\ file \in Seq(Cell) /\ mem \in [Path -> {"cold"} \cup Value]
      /\ Empty \in [Path -> {"cold"} \cup Value]
  BY BatchType DEF IInv, TypeOK, Empty
<1>1. TypeOK'
  <2>1. published' \in Seq(Replayed) /\ mem' \in [Path -> {"cold"} \cup Value]
    BY <1>0, ConcatProperties, ApplyType
  <2> QED BY <2>1 DEF IInv, TypeOK
<1>2. FileInv' /\ PhaseInv'
  BY DEF IInv, FileInv, PhaseInv
<1>3. MemInv'
  <2>1. mem = apply_records(Empty, published)
    BY DEF IInv, MemInv
  <2>2. apply_records(mem, batch) = apply_records(Empty, published \o batch)
    BY <1>0, <2>1, ApplyConcat
  <2> QED BY <2>2 DEF MemInv
<1>4. LogInv'
  <2> SUFFICES ASSUME intact
               PROVE  /\ Framed(file', Written')
                      /\ IsPrefix(disk', file')
                      /\ FrameStart(Len(published') + 1) <= Len(disk') + 1
    BY DEF LogInv
  <2>1. Framed(file, Written) /\ disk = file /\ done = Len(batch)
    BY DEF IInv, LogInv, PhaseInv
  <2>2. Written = published' /\ Written' = published'
    <3>1. batch \in Seq(WalRecord) /\ done \in 0..Len(batch)
      BY DEF IInv, TypeOK
    <3>2. published' \in Seq(Replayed) /\ batch' \in Seq(WalRecord) /\ done' \in 0..Len(batch')
      BY <1>1 DEF TypeOK
    <3>3. Written = published \o batch
      BY <1>0, <2>1, <3>1, WrittenGrows DEF Written
    <3>4. Written' = published'
      BY <3>2, WrittenGrows DEF Written
    <3> QED BY <3>3, <3>4
  <2>3. FrameStart(Len(published') + 1) = Len(disk) + 1
    BY <2>1, <2>2 DEF Framed
  <2>4. Len(disk) \in Nat /\ IsPrefix(disk, file)
    BY <1>0, <2>1, LenProperties, PrefixSelf
  <2> QED BY <2>1, <2>2, <2>3, <2>4
<1> QED BY <1>1, <1>2, <1>3, <1>4 DEF IInv

\* clear: the log is emptied, or this fails; then the overlay is.
LEMMA ClearStep ==
    ASSUME IInv, truncate \/ truncateFails \/ PublishEmpty
    PROVE  IInv'
<1>e. Empty \in [Path -> {"cold"} \cup Value] /\ <<>> \in Seq(Replayed) /\ <<>> \in Seq(Cell)
  BY DEF Empty
<1>1. TypeOK'
  BY <1>e, Bounds DEF IInv, TypeOK, truncate, truncateFails, PublishEmpty
<1>2. FileInv'
  <2>1. Chained(<<>>)
    BY DEF Chained
  <2> QED BY <2>1 DEF IInv, FileInv, truncate, truncateFails, PublishEmpty
<1>3. PhaseInv'
  BY DEF IInv, TypeOK, PhaseInv, truncate, truncateFails, PublishEmpty
<1>4. MemInv'
  BY <1>e, ApplyNothing DEF IInv, MemInv, truncate, truncateFails, PublishEmpty
<1>5. LogInv'
  <2>1. CASE truncate \/ truncateFails
    BY <2>1 DEF LogInv, truncate, truncateFails
  <2>2. CASE PublishEmpty
    <3>1. intact => file = <<>>
      BY <2>2 DEF IInv, PhaseInv, PublishEmpty
    <3>2. done' = 0
      BY <2>2 DEF IInv, PhaseInv, TypeOK, PublishEmpty
    <3>3. Written' = <<>>
      <4>1. published' = <<>> /\ batch' \in Seq(WalRecord) /\ done' \in 0..Len(batch')
        BY <1>1, <2>2 DEF TypeOK, PublishEmpty
      <4> QED BY <1>e, <3>2, <4>1, WrittenGrows DEF Written
    <3>4. Framed(<<>>, <<>>)
      BY FrameStarts DEF Framed, Starts
    <3> QED BY <2>2, <3>1, <3>3, <3>4 DEF LogInv, PublishEmpty
  <2> QED BY <2>1, <2>2
<1> QED BY <1>1, <1>2, <1>3, <1>4, <1>5 DEF IInv

\* Crash: of the log some image is left, of the memory nothing.
LEMMA CrashStep ==
    ASSUME IInv, NEW f \in CrashImages, Crash(f)
    PROVE  IInv'
<1> USE DEF Crash
<1>e. Empty \in [Path -> {"cold"} \cup Value] /\ <<>> \in Seq(Replayed) /\ <<>> \in Seq(WalRecord)
  BY DEF Empty
<1>0. f \in Seq(Cell) /\ Chained(f)
  BY CrashImageType DEF IInv
<1>1. TypeOK'
  <2>1. batch' \in Seq(WalRecord) /\ done' \in 0..Len(batch')
    <3>1. Len(<<>>) = 0
      OBVIOUS
    <3> QED BY <1>e, <3>1
  <2> QED BY <1>0, <1>e, <2>1, Bounds DEF IInv, TypeOK
<1>2. FileInv' /\ PhaseInv' /\ LogInv'
  BY <1>0 DEF FileInv, PhaseInv, LogInv
<1>3. MemInv'
  BY <1>e, ApplyNothing DEF MemInv
<1> QED BY <1>1, <1>2, <1>3 DEF IInv

\* open: memory is what the log replays to; the log is intact when it has no
\* torn frame.
LEMMA OpenStep ==
    ASSUME IInv, NEW luck \in BOOLEAN, open(luck)
    PROVE  IInv'
<1> USE DEF open
<1> DEFINE d == decode_records(file, luck)
<1>e. Empty \in [Path -> {"cold"} \cup Value]
  BY DEF Empty
<1>0. file \in Seq(Cell) /\ Chained(file) /\ disk = file /\ batch = <<>> /\ done = 0
  BY DEF IInv, TypeOK, FileInv, PhaseInv
<1>1. d \in Seq(Replayed) /\ published' = d /\ mem' = apply_records(Empty, d)
  BY <1>0, DecodeType
<1>f. ~HasTornFrame(file) => Framed(file, d)
  BY <1>0, UntornIsFramed
<1> HIDE DEF d
<1>2. apply_records(Empty, d) \in [Path -> {"cold"} \cup Value]
  BY <1>1, <1>e, ApplyType
<1>3. TypeOK'
  <2>1. intact' \in BOOLEAN
    BY DEF HasTornFrame
  <2> QED BY <1>1, <1>2, <2>1 DEF IInv, TypeOK
<1>4. FileInv' /\ PhaseInv'
  BY <1>0 DEF IInv, FileInv, PhaseInv
<1>5. MemInv'
  BY <1>1 DEF MemInv
<1>6. LogInv'
  <2> SUFFICES ASSUME intact'
               PROVE  /\ Framed(file, Written')
                      /\ IsPrefix(disk, file)
                      /\ FrameStart(Len(d) + 1) <= Len(disk) + 1
    BY <1>1 DEF LogInv
  <2>1. Framed(file, d)
    BY <1>f
  <2>2. Written' = d
    <3>1. batch \in Seq(WalRecord) /\ done \in 0..Len(batch) /\ done' = 0 /\ batch' = batch
      BY <1>0 DEF IInv, TypeOK
    <3> QED BY <1>0, <1>1, <3>1, WrittenGrows DEF Written
  <2>3. Len(file) \in Nat
    BY <1>0, LenProperties
  <2> QED BY <1>0, <2>1, <2>2, <2>3, PrefixSelf DEF Framed
<1> QED BY <1>3, <1>4, <1>5, <1>6 DEF IInv

\* openFails: nothing is claimed of the log until it is emptied.
LEMMA OpenFailsStep ==
    ASSUME IInv, openFails
    PROVE  IInv'
<1> USE DEF openFails
<1> DEFINE d == decode_records(file, FALSE)
<1>e. Empty \in [Path -> {"cold"} \cup Value] /\ <<>> \in Seq(Replayed)
  BY DEF Empty
<1>0. file \in Seq(Cell)
  BY DEF IInv, TypeOK
<1>1. d \in Seq(Replayed)
  BY <1>0, DecodeType
<1>p. published' \in Seq(Replayed) /\ mem' = apply_records(Empty, published') /\ store' \in BOOLEAN
  BY <1>1, <1>e, ApplyNothing
<1>2. mem' \in [Path -> {"cold"} \cup Value]
  BY <1>p, <1>e, ApplyType
<1>3. TypeOK'
  BY <1>p, <1>2, Bounds DEF IInv, TypeOK
<1>4. FileInv' /\ PhaseInv' /\ LogInv'
  BY DEF IInv, FileInv, PhaseInv, LogInv
<1>5. MemInv'
  BY <1>p DEF MemInv
<1> QED BY <1>3, <1>4, <1>5 DEF IInv

\* The inductive invariant holds in every reachable state.
THEOREM InvHolds == Spec => []IInv
<1>1. ASSUME IInv, [Next]_vars PROVE IInv'
  <2>1. CASE UNCHANGED vars
    <3> USE <1>1, <2>1 DEF vars
    <3>1. TypeOK'
      BY DEF IInv, TypeOK
    <3>2. FileInv' /\ MemInv' /\ PhaseInv'
      BY DEF IInv, FileInv, MemInv, PhaseInv
    <3>3. LogInv'
      <4>1. Written' = Written
        BY DEF Written
      <4> QED BY <4>1 DEF IInv, LogInv
    <3> QED BY <3>1, <3>2, <3>3 DEF IInv
  <2>2. ASSUME NEW recs \in Batches, RecordBatch(recs) PROVE IInv'
    BY <1>1, <2>2, RecordBatchStep
  <2>3. CASE append
    BY <1>1, <2>3, AppendStep
  <2>4. ASSUME NEW k \in 0..BodyLen, appendFails(k) PROVE IInv'
    BY <1>1, <2>4, AppendFailsStep
  <2>5. CASE sync \/ syncFails
    BY <1>1, <2>5, SyncStep
  <2>6. CASE Publish
    BY <1>1, <2>6, PublishStep
  <2>7. CASE truncate \/ truncateFails \/ PublishEmpty
    BY <1>1, <2>7, ClearStep
  <2>8. ASSUME NEW f \in CrashImages, Crash(f) PROVE IInv'
    BY <1>1, <2>8, CrashStep
  <2>9. ASSUME NEW luck \in BOOLEAN, open(luck) PROVE IInv'
    BY <1>1, <2>9, OpenStep
  <2>10. CASE openFails
    BY <1>1, <2>10, OpenFailsStep
  <2> QED BY <1>1, <2>1, <2>2, <2>3, <2>4, <2>5, <2>6, <2>7, <2>8, <2>9, <2>10 DEF Next
<1> QED BY <1>1, InitIInv, PTL DEF Spec

-----------------------------------------------------------------------------
(* The properties *)

\* The state of the handle and of its log has its type, and the append loop
\* stays within its batch.
THEOREM TypeCorrect == Spec => []TypeOK
BY InvHolds, PTL DEF IInv

\* Whatever a crash leaves of an intact log, replaying it applies every record
\* that record_and_apply has published, in order: sync comes before publish.
THEOREM PublishedSurvives == Spec => []PublishedSurvivesCrash
<1>1. ASSUME IInv PROVE PublishedSurvivesCrash
  <2> SUFFICES ASSUME intact, phase \notin {"clearing", "down"},
                      NEW f \in CrashImages, NEW luck \in BOOLEAN
               PROVE  IsPrefix(published, decode_records(f, luck))
    BY DEF PublishedSurvivesCrash
  <2>0. /\ published \in Seq(Replayed) /\ file \in Seq(Cell) /\ disk \in Seq(Cell)
        /\ batch \in Seq(WalRecord) /\ done \in 0..Len(batch) /\ Chained(file)
    BY <1>1 DEF IInv, TypeOK, FileInv
  <2>1. f \in Seq(Cell)
    BY <1>1, CrashImageType DEF IInv
  <2>2. decode_records(f, luck) \in Seq(Replayed)
    BY <2>1, DecodeType
  <2>3. CASE published = <<>>
    <3> DEFINE d == decode_records(f, luck)
    <3>1. Len(d) \in Nat /\ d \in Seq(Replayed)
      BY <2>2, LenProperties
    <3> HIDE DEF d
    <3>2. Len(<<>>) = 0 /\ SubSeq(<<>>, 1, 0) = <<>> /\ SubSeq(d, 1, 0) = <<>>
      BY <3>1
    <3>3. IsPrefix(<<>>, d)
      BY <3>1, <3>2 DEF IsPrefix
    <3> QED BY <2>3, <3>3 DEF d
  <2>4. CASE published # <<>>
    <3>1. /\ Framed(file, Written) /\ IsPrefix(disk, file)
          /\ FrameStart(Len(published) + 1) <= Len(disk) + 1
      BY <1>1, <2>4 DEF IInv, LogInv
    <3>2. PICK n \in Len(disk)..Len(file) : f = SubSeq(file, 1, n)
      BY <3>1 DEF CrashImages
    <3>3. n \in 0..Len(file) /\ Len(disk) \in Nat /\ Len(file) \in Nat /\ Len(disk) <= n
      BY <2>0, LenProperties
    <3>4. Len(f) = n /\ \A p \in 1..n : f[p] = file[p]
      BY <2>0, <3>2, <3>3, ChainedPrefix
    <3> DEFINE m == Len(published)
               t == FrameStart(m + 1)
    <3>5. /\ m \in Nat /\ m <= Len(Written)
          /\ \A i \in 1..m : Written[i] = published[i]
      <4> DEFINE b == SubSeq(batch, 1, done)
      <4>1. b \in Seq(WalRecord)
        BY <2>0
      <4>2. b \in Seq(Replayed)
        BY <4>1, BatchType
      <4> HIDE DEF b
      <4>3. Written = published \o b
        BY DEF Written, b
      <4>4. m \in Nat /\ Len(b) \in Nat
        BY <2>0, <4>2, LenProperties
      <4>5. Len(published \o b) = m + Len(b) /\ \A i \in 1..m : (published \o b)[i] = published[i]
        BY <2>0, <4>2, <4>4, ConcatProperties
      <4> QED BY <4>3, <4>4, <4>5
    <3>w. Len(Written) \in Nat
      BY <2>0, WrittenGrows, LenProperties DEF Written
    <3>6. t \in Nat /\ t <= n + 1
      <4>1. m + 1 \in Nat \ {0}
        BY <3>5
      <4>2. t \in Nat /\ t <= Len(disk) + 1
        BY <3>1, <4>1, FrameStarts
      <4> HIDE DEF t
      <4> QED BY <3>3, <4>2
    <3>7. ASSUME NEW i \in 1..m, NEW k \in 1..FrameLen
          PROVE  f[FrameStart(i) + k - 1] = [rec |-> published[i], k |-> k]
      <4> DEFINE s == FrameStart(i)
      <4>1. i \in Nat \ {0} /\ i < m + 1 /\ m + 1 \in Nat \ {0} /\ i \in 1..Len(Written)
        BY <3>5, <3>w
      <4>2. s \in Nat /\ i <= s /\ s + FrameLen <= t /\ FrameLen \in Nat \ {0}
        BY <4>1, FrameStarts
      <4>3. file[s + k - 1] = [rec |-> Written[i], k |-> k]
        BY <3>1, <4>1 DEF Framed, Starts
      <4> HIDE DEF s, t
      <4>4. s + k - 1 \in 1..n
        BY <3>3, <3>6, <4>1, <4>2
      <4>5. f[s + k - 1] = [rec |-> published[i], k |-> k]
        BY <3>4, <3>5, <4>3, <4>4
      <4> QED BY <4>5 DEF s
    <3>8. Starts(f, published)
      BY <3>4, <3>6, <3>7 DEF Starts
    <3> QED BY <2>0, <2>1, <3>8, ReplayBegins
  <2> QED BY <2>3, <2>4
<1> QED BY <1>1, InvHolds, PTL

\* Between batches the overlay that queries read is what a restart would
\* rebuild from an intact log.
THEOREM MemoryIsLog == Spec => []MemoryMatchesLog
<1>1. ASSUME IInv PROVE MemoryMatchesLog
  <2> SUFFICES ASSUME intact, phase = "idle", NEW luck \in BOOLEAN
               PROVE  mem = apply_records(Empty, decode_records(file, luck))
    BY DEF MemoryMatchesLog
  <2>1. Framed(file, Written) /\ file \in Seq(Cell) /\ published \in Seq(Replayed)
    BY <1>1 DEF IInv, LogInv, TypeOK
  <2>2. batch \in Seq(WalRecord) /\ done \in 0..Len(batch) /\ done = 0
    BY <1>1 DEF IInv, TypeOK, PhaseInv
  <2>3. Written = published
    BY <2>1, <2>2, WrittenGrows DEF Written
  <2>4. decode_records(file, luck) = published
    BY <2>1, <2>3, ReplayExact
  <2> QED BY <1>1, <2>4 DEF IInv, MemInv
<1> QED BY <1>1, InvHolds, PTL

=============================================================================
