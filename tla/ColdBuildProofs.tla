--------------------------- MODULE ColdBuildProofs ---------------------------
(***************************************************************************)
(* The invariants of the build pipeline, proved for every tree, any number *)
(* of workers, any capacity of the channel and any flush size.             *)
(*                                                                         *)
(* Between Begin and the return of the build an entry is in exactly one    *)
(* place: not found yet, found and not visited, held by a worker, in the   *)
(* channel, or in the filename builder.  WalkInv says so for the sets of   *)
(* entries alone, ContentsInv relates the builders and the shard files.    *)
(* Both are void once the consumer has failed: the channel was dropped,    *)
(* and the build will not return Ok.                                       *)
(***************************************************************************)
EXTENDS ColdBuild, SequenceTheorems, FiniteSetTheorems, TLAPS

-----------------------------------------------------------------------------
(* The inductive invariant *)

Elems(s) == {s[i] : i \in 1..Len(s)}
Distinct(s) == \A i, j \in 1..Len(s) : s[i] = s[j] => i = j
Text(S) == {d \in S : HasContent(d)}

ShardEntry == [id : Nat, base : Nat, num : Nat]

\* Sizes and types that TypeOK needs to be inductive.
TypeInv ==
    /\ TypeOK
    /\ entries \in Seq(ShardEntry) /\ manifest \in Seq(ShardEntry)
    /\ quit \in BOOLEAN /\ ok \in BOOLEAN /\ built \in 0..gen
    /\ phase # "idle" => gen >= 1
    /\ IsFiniteSet(shard) /\ IsFiniteSet(fnb)
    /\ consumer = "start" => shard = {}
    /\ consumer = "recv" => Cardinality(shard) < FlushDocs

\* Where the three kinds of threads can be at the same time.
ControlInv ==
    /\ \A w \in Worker : Sending(w) => phase = "walk"
    /\ ok => phase = "idle"
    /\ phase = "idle" => consumer \in {"done", "failed"}
    /\ phase \in {"db", "manifest"} => consumer = "done"
    /\ phase # "idle" /\ quit => consumer = "failed"
    /\ consumer \in {"last", "done", "failed"} => chan = <<>>
    /\ phase # "idle" /\ consumer = "done" => shard = {}
    /\ consumer = "last" => phase = "join"
    /\ consumer = "done" => phase # "walk"
    /\ phase # "idle" /\ phase # "walk" /\ consumer # "failed" => todo = {}

\* The shards written so far follow each other and are in their files.
ShardsInv ==
    \A i \in 1..Len(entries) :
        /\ entries[i].id = i /\ i \in DOMAIN files
        /\ files[i] \subseteq Text(fnb)
        /\ entries[i].num = Cardinality(files[i])
        /\ entries[i].base = IF i = 1 THEN 0 ELSE entries[i - 1].base + entries[i - 1].num

\* The builders and the shard files of the running build: all documents are
\* its own, and each text document is in one shard.
ContentsInv ==
    /\ \A d \in fnb \cup Elems(chan) : d.gen = gen
    /\ shard \subseteq Text(fnb)
    /\ ShardsInv
    /\ Text(fnb) \subseteq shard \cup UNION {files[i] : i \in 1..Len(entries)}
    /\ NextBase + Cardinality(shard) = Cardinality(Text(fnb))
    /\ phase = "manifest" => db = fnb

\* An entry that is the root, or in a directory of S.
FoundBy(e, S) == e = Root \/ (Parent[e] \in S /\ Kind[Parent[e]] = "dir")

\* The walk of tree t with the entries T to be visited, H held by workers and
\* S sent: the three are disjoint, come from directories that were sent, and
\* with the directories sent nothing in them is forgotten.
WalkInv(T, H, S, t) ==
    /\ T \cap H = {} /\ T \cap S = {} /\ H \cap S = {}
    /\ \A e \in T \cup H \cup S : e \in t /\ FoundBy(e, S)
    /\ \A e \in H \cup S : Kind[e] \in Filed
    /\ \A e \in t : FoundBy(e, S) /\ Kind[e] \in Filed => e \in T \cup H \cup S

Held == {worker[w] : w \in Worker} \ {Free}
Sent == {d.entry : d \in fnb \cup Elems(chan)}

\* The walk of the running build; nothing is twice in it.
OnceInv ==
    /\ tree \in Trees
    /\ \A v, w \in Worker : Sending(v) /\ worker[v] = worker[w] => v = w
    /\ Distinct(chan) /\ Elems(chan) \cap fnb = {}
    /\ WalkInv(todo, Held, Sent, tree)

\* A build that can still return Ok.
Running == phase # "idle" /\ consumer # "failed"

IInv == /\ TypeInv /\ ControlInv
        /\ phase # "idle" => ContentsInv
        /\ Running => OnceInv
        /\ OkIsComplete /\ ManifestDescribesShards /\ ShardsNeverOlder

-----------------------------------------------------------------------------
(* Sequences without repetitions: the channel *)

\* A record sent is the one element the channel gains.
LEMMA ElemsAppend ==
    ASSUME NEW S, NEW s \in Seq(S), NEW d \in S
    PROVE  /\ Elems(Append(s, d)) = Elems(s) \cup {d}
           /\ Distinct(s) /\ d \notin Elems(s) => Distinct(Append(s, d))
<1>1. /\ Append(s, d) \in Seq(S) /\ Len(s) \in Nat
      /\ Len(Append(s, d)) = Len(s) + 1
      /\ \A i \in 1..Len(s) : Append(s, d)[i] = s[i]
      /\ Append(s, d)[Len(s) + 1] = d
  BY AppendProperties, LenProperties
<1>2. 1..(Len(s) + 1) = 1..Len(s) \cup {Len(s) + 1}
  BY <1>1
<1>3. Elems(Append(s, d)) = Elems(s) \cup {d}
  BY <1>1, <1>2 DEF Elems
<1>4. ASSUME Distinct(s), d \notin Elems(s)
      PROVE  Distinct(Append(s, d))
  BY <1>1, <1>2, <1>4 DEF Elems, Distinct
<1> QED BY <1>3, <1>4

\* The record received is the one element the channel loses.
LEMMA ElemsTail ==
    ASSUME NEW S, NEW s \in Seq(S), s # <<>>
    PROVE  /\ Head(s) \in S /\ Tail(s) \in Seq(S) /\ Len(Tail(s)) = Len(s) - 1
           /\ Elems(s) = Elems(Tail(s)) \cup {Head(s)}
           /\ Distinct(s) => Distinct(Tail(s)) /\ Head(s) \notin Elems(Tail(s))
<1>1. /\ Head(s) \in S /\ Tail(s) \in Seq(S)
      /\ Len(Tail(s)) = Len(s) - 1
      /\ \A i \in 1..Len(Tail(s)) : Tail(s)[i] = s[i + 1]
      /\ Len(s) \in Nat \ {0}
  BY HeadTailProperties, EmptySeq
<1>2. Head(s) = s[1]
  OBVIOUS
<1>3. Elems(s) \subseteq Elems(Tail(s)) \cup {Head(s)}
  <2> SUFFICES ASSUME NEW i \in 1..Len(s), i # 1
               PROVE  s[i] \in Elems(Tail(s))
    BY <1>2 DEF Elems
  <2>1. i - 1 \in 1..Len(Tail(s)) /\ Tail(s)[i - 1] = s[i]
    BY <1>1
  <2> QED BY <2>1 DEF Elems
<1>4. Elems(Tail(s)) \cup {Head(s)} \subseteq Elems(s)
  <2>1. Head(s) \in Elems(s)
    BY <1>1, <1>2 DEF Elems
  <2>2. ASSUME NEW i \in 1..Len(Tail(s))
        PROVE  Tail(s)[i] \in Elems(s)
    <3>1. i + 1 \in 1..Len(s)
      BY <1>1
    <3> QED BY <1>1, <3>1 DEF Elems
  <2> QED BY <2>1, <2>2 DEF Elems
<1>5. ASSUME Distinct(s)
      PROVE  Distinct(Tail(s)) /\ Head(s) \notin Elems(Tail(s))
  <2>1. Distinct(Tail(s))
    <3> SUFFICES ASSUME NEW i \in 1..Len(Tail(s)), NEW j \in 1..Len(Tail(s)),
                        Tail(s)[i] = Tail(s)[j]
                 PROVE  i = j
      BY DEF Distinct
    <3>1. /\ i + 1 \in 1..Len(s) /\ j + 1 \in 1..Len(s)
          /\ s[i + 1] = s[j + 1]
      BY <1>1
    <3>2. i + 1 = j + 1
      BY <3>1, <1>5 DEF Distinct
    <3> QED BY <3>2
  <2>2. ASSUME NEW i \in 1..Len(Tail(s)), Tail(s)[i] = Head(s)
        PROVE  FALSE
    <3>1. i + 1 \in 1..Len(s) /\ 1 \in 1..Len(s) /\ s[i + 1] = s[1]
      BY <1>1, <1>2, <2>2
    <3>2. i + 1 = 1
      BY <3>1, <1>5 DEF Distinct
    <3> QED BY <3>2
  <2> QED BY <2>1, <2>2 DEF Elems
<1> QED BY <1>1, <1>3, <1>4, <1>5

-----------------------------------------------------------------------------
(* The walk as a step of three sets of entries *)

\* Begin: only the root is to be visited.
LEMMA WalkBegins ==
    ASSUME NEW t \in Trees
    PROVE  WalkInv({Root}, {}, {}, t)
BY TreeAssumption DEF WalkInv, FoundBy

\* Visit takes an entry up, or drops it when it is filtered out.
LEMMA WalkVisits ==
    ASSUME NEW T, NEW H, NEW S, NEW t, WalkInv(T, H, S, t), NEW e \in T
    PROVE  /\ Kind[e] \in Filed => WalkInv(T \ {e}, H \cup {e}, S, t)
           /\ Kind[e] \notin Filed => WalkInv(T \ {e}, H, S, t)
BY DEF WalkInv, FoundBy

\* Send moves an entry on; nothing in a directory was found before the
\* directory was sent.
LEMMA WalkSends ==
    ASSUME NEW T, NEW H, NEW S, NEW t \in Trees, WalkInv(T, H, S, t), NEW e \in H
    PROVE  LET below == IF Kind[e] = "dir" THEN {c \in t \ {Root} : Parent[c] = e} ELSE {}
           IN  WalkInv(T \cup below, H \ {e}, S \cup {e}, t)
<1> DEFINE below == IF Kind[e] = "dir" THEN {c \in t \ {Root} : Parent[c] = e} ELSE {}
<1>1. e \notin S
  BY DEF WalkInv
<1>2. \A c \in below : c \in t /\ c # Root /\ Parent[c] = e /\ Kind[e] = "dir"
  OBVIOUS
<1>3. \A c \in t : FoundBy(c, S \cup {e}) => FoundBy(c, S) \/ c \in below
  BY DEF FoundBy
<1>4. \A c \in below : ~FoundBy(c, S) /\ FoundBy(c, S \cup {e})
  BY <1>1, <1>2 DEF FoundBy
<1>5. \A c \in below : c \notin T \cup H \cup S
  BY <1>4 DEF WalkInv
<1>6. \A c : FoundBy(c, S) => FoundBy(c, S \cup {e})
  BY DEF FoundBy
<1> HIDE DEF below
<1>7. WalkInv(T \cup below, H \ {e}, S \cup {e}, t)
  BY <1>1, <1>2, <1>3, <1>4, <1>5, <1>6 DEF WalkInv
<1> QED BY <1>7 DEF below

\* When nothing is left to visit and no worker holds an entry, what was sent is
\* what the tree asks for.
LEMMA WalkIsComplete ==
    ASSUME NEW S, NEW t \in Trees, WalkInv({}, {}, S, t)
    PROVE  S = ToFile(t)
<1>1. /\ S \subseteq t /\ t \subseteq Entry
      /\ \A e \in S : Kind[e] \in Filed /\ FoundBy(e, S)
      /\ \A e \in t : FoundBy(e, S) /\ Kind[e] \in Filed => e \in S
  BY TreeAssumption DEF WalkInv
<1>2. ASSUME NEW e \in S, NEW a \in Above[e]
      PROVE  Kind[a] = "dir"
  <2> DEFINE D == {x \in S : Kind[x] = "dir"}
  <2>1. e # Root /\ \A Q \in SUBSET Entry : Parent[e] \in Q /\ Upward(Q) => a \in Q
    BY <1>1, <1>2 DEF Above
  <2>2. D \in SUBSET Entry /\ Upward(D)
    BY <1>1 DEF Upward, FoundBy
  <2>3. Parent[e] \in D
    BY <1>1, <2>1 DEF FoundBy
  <2>4. a \in D
    BY <2>1, <2>2, <2>3
  <2> QED BY <2>4
<1>3. S \subseteq ToFile(t)
  BY <1>1, <1>2 DEF ToFile
<1>4. ASSUME NEW e \in ToFile(t), e # Root
      PROVE  Parent[e] \in ToFile(t) /\ Kind[Parent[e]] = "dir"
  <2>1. e \in t /\ e \in Entry /\ \A a \in Above[e] : Kind[a] = "dir"
    BY <1>1, <1>4 DEF ToFile
  <2>2. Parent[e] \in t /\ Parent[e] \in Entry
    BY <1>1, <1>4, <2>1, TreeAssumption, ParentAssumption
  <2>3. Parent[e] \in Above[e]
    BY <1>4, <2>1, <2>2 DEF Above
  <2>4. Above[Parent[e]] \subseteq Above[e]
    <3> SUFFICES ASSUME NEW a \in Above[Parent[e]]
                 PROVE  a \in Above[e]
      OBVIOUS
    <3>1. /\ a \in Entry /\ Parent[e] # Root
          /\ \A Q \in SUBSET Entry : Parent[Parent[e]] \in Q /\ Upward(Q) => a \in Q
      BY <2>2 DEF Above
    <3>2. ASSUME NEW Q \in SUBSET Entry, Parent[e] \in Q, Upward(Q)
          PROVE  a \in Q
      BY <3>1, <3>2 DEF Upward
    <3> QED BY <1>4, <2>1, <3>1, <3>2 DEF Above
  <2> QED BY <2>1, <2>2, <2>3, <2>4 DEF ToFile, Filed
<1>5. ToFile(t) \subseteq S
  <2> DEFINE M == ToFile(t) \ S
  <2> SUFFICES ASSUME M # {} PROVE FALSE
    OBVIOUS
  <2>1. M \in SUBSET Entry
    BY <1>1 DEF ToFile
  <2>2. PICK e \in M : e = Root \/ Parent[e] \notin M
    BY <2>1, ParentAssumption
  <2>3. e \in t /\ Kind[e] \in Filed
    BY DEF ToFile
  <2>4. FoundBy(e, S)
    BY <1>4, <2>2 DEF FoundBy
  <2> QED BY <1>1, <2>3, <2>4
<1> QED BY <1>3, <1>5

-----------------------------------------------------------------------------
(* Types and sizes *)

\* The entry a flush appends is well typed.
LEMMA NextEntryType ==
    ASSUME TypeInv
    PROVE  /\ NextBase \in Nat /\ NextEntry \in ShardEntry
           /\ Len(entries) \in Nat /\ NextEntry.id = Len(entries) + 1
<1>1. Len(entries) \in Nat /\ entries \in Seq(ShardEntry)
  BY LenProperties DEF TypeInv
<1>2. NextBase \in Nat
  <2>1. CASE entries = <<>>
    BY <2>1 DEF NextBase
  <2>2. CASE entries # <<>>
    <3>1. Len(entries) \in 1..Len(entries)
      BY <1>1, <2>2, EmptySeq
    <3>2. entries[Len(entries)] \in ShardEntry
      BY <1>1, <3>1, ElementOfSeq
    <3>3. entries[Len(entries)].base \in Nat /\ entries[Len(entries)].num \in Nat
      BY <3>2 DEF ShardEntry
    <3> QED BY <2>2, <3>3 DEF NextBase
  <2> QED BY <2>1, <2>2
<1>3. Cardinality(shard) \in Nat
  BY FS_CardinalityType DEF TypeInv
<1>4. Len(entries) + 1 \in Nat
  BY <1>1
<1> QED BY <1>1, <1>2, <1>3, <1>4 DEF NextEntry, ShardEntry

\* TypeInv is inductive with ControlInv.
LEMMA TypeStep ==
    ASSUME TypeInv, ControlInv, [Next]_vars
    PROVE  TypeInv'
<1> USE TreeAssumption, BoundAssumption
<1>0. CASE UNCHANGED vars
  BY <1>0 DEF vars, threads, cold, TypeInv, TypeOK, Document
<1>1. ASSUME NEW t \in Trees, Begin(t) PROVE TypeInv'
  <2>1. <<>> \in Seq(Document) /\ Len(<<>>) = 0 /\ <<>> \in Seq(ShardEntry)
    BY EmptySeq
  <2>2. IsFiniteSet({}) /\ Cardinality({}) = 0
    BY FS_EmptySet
  <2>3. t \cup {Root} \subseteq Entry
    OBVIOUS
  <2>4. gen' \in 0..MaxBuilds /\ gen' >= 1 /\ built' \in 0..gen'
    BY <1>1, SMTT(60) DEF Begin, cold, TypeInv, TypeOK
  <2>5. Len(chan') <= ChannelCap /\ Cardinality(shard') <= FlushDocs
    BY <1>1, <2>1, <2>2 DEF Begin
  <2>6. TypeOK'
    BY <1>1, <2>1, <2>3, <2>4, <2>5 DEF Begin, cold, TypeInv, TypeOK
  <2> QED BY <1>1, <2>1, <2>2, <2>4, <2>6 DEF Begin, cold, TypeInv
<1>2. ASSUME NEW w \in Worker, NEW e \in Entry, Visit(w, e) PROVE TypeInv'
  BY <1>2 DEF Visit, cold, TypeInv, TypeOK
<1>3. ASSUME NEW w \in Worker, Send(w) PROVE TypeInv'
  <2>1. worker[w] \in Entry /\ gen \in 1..MaxBuilds
    BY <1>3 DEF Send, Sending, TypeInv, TypeOK, ControlInv
  <2>2. Doc(worker[w]) \in Document
    BY <2>1 DEF Doc, Document
  <2>3. chan' \in Seq(Document) /\ Len(chan') <= ChannelCap
    BY <1>3, <2>2, AppendProperties, LenProperties DEF Send, TypeInv, TypeOK
  <2>4. todo' \subseteq Entry /\ worker' \in [Worker -> Entry \cup {Free}]
    BY <1>3 DEF Send, TypeInv, TypeOK
  <2> QED BY <1>3, <2>3, <2>4 DEF Send, cold, TypeInv, TypeOK
<1>4. ASSUME NEW w \in Worker, SendFails(w) PROVE TypeInv'
  BY <1>4 DEF SendFails, cold, TypeInv, TypeOK
<1>5. ASSUME CreateDir PROVE TypeInv'
  <2>1. Cardinality(shard) = 0
    BY <1>5, FS_EmptySet DEF CreateDir, TypeInv
  <2> QED BY <1>5, <2>1 DEF CreateDir, cold, TypeInv, TypeOK
<1>6. ASSUME Recv PROVE TypeInv'
  <2>1. /\ Head(chan) \in Document /\ chan' \in Seq(Document)
        /\ Len(chan') <= ChannelCap
    BY <1>6, ElemsTail, LenProperties DEF Recv, TypeInv, TypeOK
  <2>2. IsFiniteSet(fnb') /\ fnb' \subseteq Document
    BY <1>6, <2>1, FS_AddElement DEF Recv, TypeInv, TypeOK
  <2>3. /\ IsFiniteSet(shard') /\ shard' \subseteq Document
        /\ Cardinality(shard') \in Nat /\ Cardinality(shard') <= FlushDocs
    <3>1. /\ IsFiniteSet(shard) /\ shard \subseteq Document
          /\ Cardinality(shard) \in Nat /\ Cardinality(shard) < FlushDocs
      BY <1>6, FS_CardinalityType DEF Recv, TypeInv, TypeOK
    <3>2. CASE HasContent(Head(chan))
      <4>1. shard' = shard \cup {Head(chan)}
        BY <1>6, <3>2 DEF Recv
      <4>2. /\ IsFiniteSet(shard')
            /\ Cardinality(shard') \in {Cardinality(shard), Cardinality(shard) + 1}
        BY <3>1, <4>1, FS_AddElement
      <4> QED BY <2>1, <3>1, <4>1, <4>2
    <3>3. CASE ~HasContent(Head(chan))
      BY <1>6, <3>1, <3>3 DEF Recv
    <3> QED BY <3>2, <3>3
  <2> QED BY <1>6, <2>1, <2>2, <2>3, SMTT(60) DEF Recv, cold, TypeInv, TypeOK
<1>7. ASSUME Finalize PROVE TypeInv'
  BY <1>7 DEF Finalize, cold, TypeInv, TypeOK
<1>8. ASSUME Flush PROVE TypeInv'
  <2>1. entries' \in Seq(ShardEntry)
    BY <1>8, NextEntryType, AppendProperties DEF Flush, TypeInv
  <2>2. IsFiniteSet({}) /\ Cardinality({}) = 0
    BY FS_EmptySet
  <2>3. \A i \in DOMAIN files' : files'[i] \subseteq Document
    BY <1>8 DEF Flush, TypeInv, TypeOK
  <2>4. consumer' \in {"done", "recv"} /\ shard' = {}
    BY <1>8 DEF Flush
  <2> QED BY <1>8, <2>1, <2>2, <2>3, <2>4 DEF Flush, TypeInv, TypeOK
<1>9. ASSUME ConsumerFails PROVE TypeInv'
  <2>1. <<>> \in Seq(Document) /\ Len(<<>>) = 0
    BY EmptySeq
  <2> QED BY <1>9, <2>1 DEF ConsumerFails, cold, TypeInv, TypeOK
<1>10. ASSUME WalkEnds \/ Join \/ WriteFails PROVE TypeInv'
  BY <1>10, SMTT(60) DEF WalkEnds, Join, WriteFails, threads, cold, TypeInv, TypeOK
<1>11. ASSUME WriteDb PROVE TypeInv'
  BY <1>11 DEF WriteDb, threads, TypeInv, TypeOK
<1>12. ASSUME WriteManifest PROVE TypeInv'
  <2>1. manifest' \in Seq(ShardEntry) /\ built' \in 0..gen'
    BY <1>12 DEF WriteManifest, threads, TypeInv, TypeOK
  <2> QED BY <1>12, <2>1 DEF WriteManifest, threads, TypeInv, TypeOK
<1>13. ASSUME Crash PROVE TypeInv'
  <2>1. <<>> \in Seq(Document) /\ Len(<<>>) = 0
    BY EmptySeq
  <2> QED BY <1>13, <2>1 DEF Crash, cold, TypeInv, TypeOK
<1> QED BY <1>0, <1>1, <1>2, <1>3, <1>4, <1>5, <1>6, <1>7, <1>8, <1>9, <1>10,
           <1>11, <1>12, <1>13 DEF Next, WorkerNext, ConsumerNext, CallerNext

\* ControlInv is inductive with TypeInv.
LEMMA ControlStep ==
    ASSUME TypeInv, ControlInv, [Next]_vars
    PROVE  ControlInv'
<1>0. CASE UNCHANGED vars
  BY <1>0 DEF vars, threads, cold, ControlInv, Sending
<1>1. ASSUME NEW t \in Trees, Begin(t) PROVE ControlInv'
  BY <1>1 DEF Begin, ControlInv, Sending
<1>2. ASSUME NEW w \in Worker, NEW e \in Entry, Visit(w, e) PROVE ControlInv'
  BY <1>2 DEF Visit, ControlInv, Sending, TypeInv, TypeOK
<1>3. ASSUME NEW w \in Worker, Send(w) PROVE ControlInv'
  <2>1. phase = "walk" /\ consumer \notin {"last", "done", "failed"}
    BY <1>3 DEF Send, ControlInv, TypeInv, TypeOK
  <2> QED BY <1>3, <2>1 DEF Send, ControlInv, Sending, TypeInv, TypeOK
<1>4. ASSUME NEW w \in Worker, SendFails(w) PROVE ControlInv'
  BY <1>4 DEF SendFails, ControlInv, Sending, TypeInv, TypeOK
<1>5. ASSUME CreateDir PROVE ControlInv'
  BY <1>5 DEF CreateDir, ControlInv, Sending
<1>6. ASSUME Recv PROVE ControlInv'
  BY <1>6 DEF Recv, ControlInv, Sending
<1>7. ASSUME Finalize PROVE ControlInv'
  BY <1>7 DEF Finalize, ControlInv, Sending
<1>8. ASSUME Flush PROVE ControlInv'
  BY <1>8 DEF Flush, ControlInv, Sending
<1>9. ASSUME ConsumerFails PROVE ControlInv'
  BY <1>9 DEF ConsumerFails, ControlInv, Sending
<1>10. ASSUME WalkEnds PROVE ControlInv'
  BY <1>10 DEF WalkEnds, threads, ControlInv, Sending
<1>11. ASSUME Join PROVE ControlInv'
  BY <1>11 DEF Join, threads, ControlInv, Sending
<1>12. ASSUME WriteDb \/ WriteManifest \/ WriteFails PROVE ControlInv'
  BY <1>12 DEF WriteDb, WriteManifest, WriteFails, threads, ControlInv, Sending
<1>13. ASSUME Crash PROVE ControlInv'
  BY <1>13 DEF Crash, ControlInv, Sending
<1> QED BY <1>0, <1>1, <1>2, <1>3, <1>4, <1>5, <1>6, <1>7, <1>8, <1>9, <1>10,
           <1>11, <1>12, <1>13 DEF Next, WorkerNext, ConsumerNext, CallerNext

-----------------------------------------------------------------------------
(* Every entry once *)

\* OnceInv is established by Begin and kept while the build can return Ok.
LEMMA OnceStep ==
    ASSUME TypeInv, ControlInv, Running => OnceInv, [Next]_vars, Running'
    PROVE  OnceInv'
<1> USE TreeAssumption
<1>0. CASE UNCHANGED vars
  <2>1. OnceInv
    BY <1>0 DEF vars, threads, Running
  <2> QED BY <1>0, <2>1 DEF vars, threads, OnceInv, Sending, Held, Sent
<1>1. ASSUME NEW t \in Trees, Begin(t) PROVE OnceInv'
  <2>1. \A w \in Worker : worker'[w] = Free
    BY <1>1 DEF Begin, ControlInv, Sending
  <2>2. Elems(chan') = {} /\ Distinct(chan') /\ fnb' = {}
    BY <1>1, EmptySeq DEF Begin, Elems, Distinct
  <2>3. Held' = {} /\ Sent' = {}
    BY <2>1, <2>2 DEF Held, Sent
  <2>4. WalkInv(todo', Held', Sent', tree')
    BY <1>1, <2>3, WalkBegins DEF Begin
  <2> QED BY <1>1, <2>1, <2>2, <2>4 DEF Begin, OnceInv, Sending
<1>2. ASSUME NEW w \in Worker, NEW e \in Entry, Visit(w, e) PROVE OnceInv'
  <2>1. OnceInv /\ worker[w] = Free /\ e \in todo /\ Free \notin Entry
    BY <1>2 DEF Visit, Running
  <2>2. Sent' = Sent /\ tree' = tree /\ chan' = chan /\ fnb' = fnb
    BY <1>2 DEF Visit, Sent
  <2>3. CASE Kind[e] \in Filed
    <3>1. worker' = [worker EXCEPT ![w] = e] /\ todo' = todo \ {e}
      BY <1>2, <2>3 DEF Visit
    <3>2. Held' = Held \cup {e}
      BY <2>1, <3>1 DEF Held, TypeInv, TypeOK
    <3>3. e \notin Held
      BY <2>1 DEF OnceInv, WalkInv
    <3>4. \A u \in Worker : worker[u] # e
      BY <2>1, <3>3 DEF Held
    <3>5. \A u, v \in Worker : worker'[u] # Free /\ worker'[u] = worker'[v] => u = v
      BY <2>1, <3>1, <3>4 DEF OnceInv, Sending, TypeInv, TypeOK
    <3>6. WalkInv(todo', Held', Sent', tree')
      BY <2>1, <2>2, <2>3, <3>1, <3>2, WalkVisits DEF OnceInv
    <3> QED BY <2>1, <2>2, <3>5, <3>6 DEF OnceInv, Sending
  <2>4. CASE Kind[e] \notin Filed
    <3>1. worker' = worker /\ todo' = todo \ {e} /\ Held' = Held
      BY <1>2, <2>4 DEF Visit, Held
    <3>2. WalkInv(todo', Held', Sent', tree')
      BY <2>1, <2>2, <2>4, <3>1, WalkVisits DEF OnceInv
    <3> QED BY <2>1, <2>2, <3>1, <3>2 DEF OnceInv, Sending
  <2> QED BY <2>3, <2>4
<1>3. ASSUME NEW w \in Worker, Send(w) PROVE OnceInv'
  <2> DEFINE e == worker[w]
             below == IF Kind[e] = "dir" THEN {c \in tree \ {Root} : Parent[c] = e} ELSE {}
  <2>1. OnceInv /\ e \in Entry /\ e # Free /\ gen \in 1..MaxBuilds
    BY <1>3 DEF Send, Sending, Running, ControlInv, TypeInv, TypeOK
  <2>2. Doc(e) \in Document /\ Doc(e).entry = e
    BY <2>1 DEF Doc, Document
  <2>3. /\ worker' = [worker EXCEPT ![w] = Free] /\ chan' = Append(chan, Doc(e))
        /\ todo' = todo \cup below /\ tree' = tree /\ fnb' = fnb
    BY <1>3 DEF Send
  <2>4. e \in Held /\ e \notin Sent
    BY <2>1 DEF Held, OnceInv, WalkInv
  <2>5. Doc(e) \notin fnb \cup Elems(chan)
    BY <2>2, <2>4 DEF Sent
  <2>6. Elems(chan') = Elems(chan) \cup {Doc(e)} /\ Distinct(chan')
    BY <2>1, <2>2, <2>3, <2>5, ElemsAppend DEF OnceInv, TypeInv, TypeOK
  <2>7. Sent' = Sent \cup {e}
    BY <2>2, <2>3, <2>6 DEF Sent
  <2>8. Held' = Held \ {e}
    BY <2>1, <2>3 DEF Held, OnceInv, Sending, TypeInv, TypeOK
  <2>9. WalkInv(todo', Held', Sent', tree')
    <3> HIDE DEF e
    <3> QED BY <2>1, <2>3, <2>4, <2>7, <2>8, WalkSends DEF OnceInv
  <2>10. \A u, v \in Worker : worker'[u] # Free /\ worker'[u] = worker'[v] => u = v
    BY <2>1, <2>3 DEF OnceInv, Sending, TypeInv, TypeOK
  <2> QED BY <2>1, <2>3, <2>5, <2>6, <2>9, <2>10 DEF OnceInv, Sending
<1>4. ASSUME Recv PROVE OnceInv'
  <2>1. OnceInv
    BY <1>4 DEF Recv, Running, ControlInv
  <2>2. /\ Elems(chan) = Elems(chan') \cup {Head(chan)}
        /\ Distinct(chan') /\ Head(chan) \notin Elems(chan')
    BY <1>4, <2>1, ElemsTail DEF Recv, OnceInv, TypeInv, TypeOK
  <2>3. fnb' = fnb \cup {Head(chan)}
    BY <1>4 DEF Recv
  <2>4. fnb' \cup Elems(chan') = fnb \cup Elems(chan)
    BY <2>2, <2>3
  <2>5. Sent' = Sent /\ Held' = Held
    BY <1>4, <2>4 DEF Recv, Sent, Held
  <2>6. Elems(chan') \cap fnb' = {}
    BY <2>1, <2>2, <2>3 DEF OnceInv
  <2> QED BY <1>4, <2>1, <2>2, <2>5, <2>6 DEF Recv, OnceInv, Sending
<1>5. ASSUME CreateDir \/ Finalize \/ Flush PROVE OnceInv'
  <2>1. OnceInv
    BY <1>5 DEF CreateDir, Finalize, Flush, Running, ControlInv
  <2>2. UNCHANGED <<tree, todo, worker, chan, fnb>>
    BY <1>5 DEF CreateDir, Finalize, Flush
  <2>3. Held' = Held /\ Sent' = Sent
    BY <2>2 DEF Held, Sent
  <2> QED BY <2>1, <2>2, <2>3 DEF OnceInv, Sending
<1>6. ASSUME WalkEnds \/ Join \/ WriteDb PROVE OnceInv'
  <2>1. OnceInv
    BY <1>6 DEF WalkEnds, Join, WriteDb, Running, threads
  <2>2. UNCHANGED <<tree, todo, worker, chan, fnb>>
    BY <1>6 DEF WalkEnds, Join, WriteDb, threads
  <2>3. Held' = Held /\ Sent' = Sent
    BY <2>2 DEF Held, Sent
  <2> QED BY <2>1, <2>2, <2>3 DEF OnceInv, Sending
<1>7. ASSUME WriteManifest \/ WriteFails \/ Crash \/ ConsumerFails PROVE FALSE
  BY <1>7 DEF WriteManifest, WriteFails, Crash, ConsumerFails, Running
<1>8. ASSUME NEW w \in Worker, SendFails(w) PROVE FALSE
  BY <1>8 DEF SendFails, Running
<1> QED BY <1>0, <1>1, <1>2, <1>3, <1>4, <1>5, <1>6, <1>7, <1>8
           DEF Next, WorkerNext, ConsumerNext, CallerNext

-----------------------------------------------------------------------------
(* What the builders and the shard files hold *)

\* Steps that leave the builders and the files alone keep ContentsInv.
LEMMA ContentsFrame ==
    ASSUME ContentsInv, UNCHANGED <<gen, fnb, shard, entries, files>>,
           \A d \in Elems(chan') : d.gen = gen,
           phase' = "manifest" => db' = fnb
    PROVE  ContentsInv'
<1>1. ShardsInv' /\ NextBase' = NextBase /\ Text(fnb)' = Text(fnb)
  BY DEF ContentsInv, ShardsInv, NextBase, Text, HasContent
<1> QED BY <1>1 DEF ContentsInv

\* Recv files one document more, and as it was never filed before, the shard
\* and the text documents grow together.
LEMMA ContentsRecv ==
    ASSUME TypeInv, ControlInv, ContentsInv, OnceInv, Recv
    PROVE  ContentsInv'
<1> DEFINE h == Head(chan)
<1>1. /\ Elems(chan) = Elems(chan') \cup {h} /\ h \notin fnb
      /\ fnb' = fnb \cup {h}
  BY ElemsTail DEF Recv, OnceInv, TypeInv, TypeOK
<1>2. \A d \in fnb' \cup Elems(chan') : d.gen = gen'
  BY <1>1 DEF Recv, ContentsInv
<1>3. UNCHANGED <<entries, files, gen, phase>>
  BY DEF Recv, cold
<1>4. phase' # "manifest"
  BY <1>3 DEF Recv, ControlInv
<1>5. NextBase' = NextBase /\ NextBase \in Nat
  BY <1>3, NextEntryType DEF NextBase
<1>6. Text(fnb) \subseteq Text(fnb)'
  BY <1>1 DEF Text, HasContent
<1>7. ShardsInv'
  BY <1>3, <1>6 DEF ShardsInv, ContentsInv
<1>8. IsFiniteSet(Text(fnb)) /\ Cardinality(Text(fnb)) \in Nat
  BY FS_Subset, FS_CardinalityType DEF Text, TypeInv
<1>9. Cardinality(shard) \in Nat
  BY FS_CardinalityType DEF TypeInv
<1>10. CASE HasContent(h)
  <2>1. shard' = shard \cup {h} /\ Text(fnb)' = Text(fnb) \cup {h}
    BY <1>1, <1>10 DEF Recv, Text, HasContent
  <2>2. h \notin shard /\ h \notin Text(fnb)
    BY <1>1 DEF ContentsInv, Text
  <2>3. /\ Cardinality(shard') = Cardinality(shard) + 1
        /\ Cardinality(Text(fnb)') = Cardinality(Text(fnb)) + 1
    BY <1>8, <2>1, <2>2, FS_AddElement DEF TypeInv
  <2>4. NextBase' + Cardinality(shard') = Cardinality(Text(fnb)')
    BY <1>5, <1>8, <1>9, <2>3 DEF ContentsInv
  <2>5. /\ shard' \subseteq Text(fnb)'
        /\ Text(fnb)' \subseteq shard' \cup UNION {files'[i] : i \in 1..Len(entries')}
    BY <1>3, <2>1 DEF ContentsInv
  <2> QED BY <1>2, <1>4, <1>7, <2>4, <2>5 DEF ContentsInv
<1>11. CASE ~HasContent(h)
  <2>1. shard' = shard /\ Text(fnb)' = Text(fnb)
    BY <1>1, <1>11 DEF Recv, Text, HasContent
  <2>2. /\ shard' \subseteq Text(fnb)'
        /\ Text(fnb)' \subseteq shard' \cup UNION {files'[i] : i \in 1..Len(entries')}
        /\ NextBase' + Cardinality(shard') = Cardinality(Text(fnb)')
    BY <1>3, <1>5, <2>1 DEF ContentsInv
  <2> QED BY <1>2, <1>4, <1>7, <2>2 DEF ContentsInv
<1> QED BY <1>10, <1>11

\* Flush moves the documents of the shard builder to the file of the next
\* number, and base_docid on by as many.
LEMMA ContentsFlush ==
    ASSUME TypeInv, ControlInv, ContentsInv, Flush
    PROVE  ContentsInv'
<1> DEFINE n == Len(entries) + 1
<1>1. /\ Len(entries) \in Nat /\ n \in Nat /\ NextBase \in Nat
      /\ NextEntry \in ShardEntry /\ NextEntry.id = n
  BY NextEntryType
<1>2. NextEntry.base = NextBase /\ NextEntry.num = Cardinality(shard)
  BY DEF NextEntry
<1>3. /\ entries' \in Seq(ShardEntry) /\ Len(entries') = n
      /\ \A i \in 1..Len(entries) : entries'[i] = entries[i]
      /\ entries'[n] = NextEntry
  BY <1>1, AppendProperties DEF Flush, TypeInv
<1>4. /\ DOMAIN files' = DOMAIN files \cup {n} /\ files'[n] = shard
      /\ \A i \in DOMAIN files : i # n => files'[i] = files[i]
  BY <1>1 DEF Flush
<1>5. /\ UNCHANGED <<gen, fnb, chan, phase>> /\ shard' = {}
      /\ Text(fnb)' = Text(fnb)
  BY DEF Flush, Text, HasContent
<1>6. 1..n = 1..Len(entries) \cup {n} /\ n \notin 1..Len(entries)
  BY <1>1
<1>7. NextBase = IF n = 1 THEN 0 ELSE entries[n - 1].base + entries[n - 1].num
  <2>1. entries = <<>> <=> Len(entries) = 0
    BY EmptySeq, <1>1 DEF TypeInv
  <2> QED BY <1>1, <2>1 DEF NextBase
<1>8. \A i \in 1..Len(entries) : i \in DOMAIN files /\ files'[i] = files[i]
  BY <1>4, <1>6 DEF ContentsInv, ShardsInv
<1>9. ShardsInv'
  <2>1. ASSUME NEW i \in 1..Len(entries)
        PROVE  /\ entries'[i].id = i /\ i \in DOMAIN files'
               /\ files'[i] \subseteq Text(fnb)'
               /\ entries'[i].num = Cardinality(files'[i])
               /\ entries'[i].base = IF i = 1 THEN 0
                                     ELSE entries'[i - 1].base + entries'[i - 1].num
    <3>1. i # 1 => i - 1 \in 1..Len(entries)
      BY <1>1
    <3>2. i # 1 => entries'[i - 1] = entries[i - 1]
      BY <1>3, <3>1
    <3> QED BY <1>3, <1>4, <1>5, <1>8, <3>2 DEF ContentsInv, ShardsInv
  <2>2. /\ entries'[n].id = n /\ n \in DOMAIN files'
        /\ files'[n] \subseteq Text(fnb)'
        /\ entries'[n].num = Cardinality(files'[n])
    BY <1>1, <1>2, <1>3, <1>4, <1>5 DEF ContentsInv
  <2>3. entries'[n].base = IF n = 1 THEN 0
                           ELSE entries'[n - 1].base + entries'[n - 1].num
    <3>1. n # 1 => n - 1 \in 1..Len(entries)
      BY <1>1
    <3>2. n # 1 => entries'[n - 1] = entries[n - 1]
      BY <1>3, <3>1
    <3> QED BY <1>2, <1>3, <1>7, <3>2
  <2> HIDE DEF n
  <2> QED BY <1>3, <1>6, <2>1, <2>2, <2>3 DEF ShardsInv
<1>10. Text(fnb)' \subseteq shard' \cup UNION {files'[i] : i \in 1..Len(entries')}
  <2> SUFFICES ASSUME NEW d \in Text(fnb)
               PROVE  \E i \in 1..Len(entries') : d \in files'[i]
    BY <1>5
  <2>1. CASE d \in shard
    BY <1>3, <1>4, <1>6, <2>1
  <2>2. CASE d \notin shard
    <3>1. PICK i \in 1..Len(entries) : d \in files[i]
      BY <2>2 DEF ContentsInv
    <3> QED BY <1>3, <1>6, <1>8, <3>1
  <2> QED BY <2>1, <2>2
<1>11. NextBase' + Cardinality(shard') = Cardinality(Text(fnb)')
  <2>1. entries' # <<>>
    BY <1>1, <1>3, EmptySeq
  <2>2. NextBase' = NextBase + Cardinality(shard)
    BY <1>2, <1>3, <2>1 DEF NextBase
  <2>3. Cardinality(shard') = 0
    BY <1>5, FS_EmptySet
  <2>4. Cardinality(shard) \in Nat
    BY FS_CardinalityType DEF TypeInv
  <2> QED BY <1>1, <1>5, <2>2, <2>3, <2>4 DEF ContentsInv
<1>12. phase' # "manifest"
  BY <1>5 DEF Flush, ControlInv
<1>13. \A d \in fnb' \cup Elems(chan') : d.gen = gen'
  BY <1>5 DEF ContentsInv, Elems
<1> QED BY <1>5, <1>9, <1>10, <1>11, <1>12, <1>13 DEF ContentsInv

\* ContentsInv is established by Begin and kept until the build returns.
LEMMA ContentsStep ==
    ASSUME TypeInv, ControlInv, phase # "idle" => ContentsInv, Running => OnceInv,
           [Next]_vars, phase' # "idle"
    PROVE  ContentsInv'
<1>0. CASE UNCHANGED vars
  <2>1. UNCHANGED <<gen, fnb, shard, entries, files, chan, phase, db>>
    BY <1>0 DEF vars, threads, cold
  <2>2. Elems(chan') = Elems(chan)
    BY <2>1
  <2> QED BY <2>1, <2>2, ContentsFrame DEF ContentsInv
<1>1. ASSUME NEW t \in Trees, Begin(t) PROVE ContentsInv'
  <2>1. /\ fnb' = {} /\ shard' = {} /\ Len(entries') = 0 /\ Elems(chan') = {}
        /\ NextBase' = 0 /\ phase' = "walk"
    BY <1>1, EmptySeq DEF Begin, Elems, NextBase
  <2>2. Text(fnb)' = {} /\ Cardinality({}) = 0
    BY <2>1, FS_EmptySet DEF Text
  <2>3. ShardsInv'
    BY <2>1 DEF ShardsInv
  <2>4. NextBase' + Cardinality(shard') = Cardinality(Text(fnb)')
    <3>1. Cardinality(shard') = 0 /\ Cardinality(Text(fnb)') = 0
      BY <2>1, <2>2
    <3> QED BY <2>1, <3>1
  <2>5. phase' # "manifest" /\ fnb' \cup Elems(chan') = {}
    BY <2>1
  <2> QED BY <2>1, <2>2, <2>3, <2>4, <2>5 DEF ContentsInv
<1>2. ASSUME NEW w \in Worker, NEW e \in Entry, Visit(w, e) PROVE ContentsInv'
  <2>1. UNCHANGED <<gen, fnb, shard, entries, files, chan, phase, db>> /\ ContentsInv
    BY <1>2 DEF Visit, cold
  <2>2. Elems(chan') = Elems(chan)
    BY <2>1
  <2> QED BY <2>1, <2>2, ContentsFrame DEF ContentsInv
<1>3. ASSUME NEW w \in Worker, Send(w) PROVE ContentsInv'
  <2>1. UNCHANGED <<gen, fnb, shard, entries, files, phase, db>> /\ ContentsInv
    BY <1>3 DEF Send, cold
  <2>2. worker[w] \in Entry /\ gen \in 1..MaxBuilds
    BY <1>3, BoundAssumption DEF Send, Sending, ControlInv, TypeInv, TypeOK
  <2>3. Doc(worker[w]) \in Document /\ Doc(worker[w]).gen = gen
    BY <2>2 DEF Doc, Document
  <2>4. Elems(chan') = Elems(chan) \cup {Doc(worker[w])}
    BY <1>3, <2>3, ElemsAppend DEF Send, TypeInv, TypeOK
  <2> QED BY <2>1, <2>3, <2>4, ContentsFrame DEF ContentsInv
<1>4. ASSUME NEW w \in Worker, SendFails(w) PROVE ContentsInv'
  <2>1. UNCHANGED <<gen, fnb, shard, entries, files, chan, phase, db>> /\ ContentsInv
    BY <1>4 DEF SendFails, cold
  <2>2. Elems(chan') = Elems(chan)
    BY <2>1
  <2> QED BY <2>1, <2>2, ContentsFrame DEF ContentsInv
<1>5. ASSUME CreateDir \/ Finalize PROVE ContentsInv'
  <2>1. UNCHANGED <<gen, fnb, shard, entries, files, chan, phase, db>> /\ ContentsInv
    BY <1>5 DEF CreateDir, Finalize, cold
  <2>2. Elems(chan') = Elems(chan)
    BY <2>1
  <2> QED BY <2>1, <2>2, ContentsFrame DEF ContentsInv
<1>6. ASSUME Recv PROVE ContentsInv'
  <2>1. Running
    BY <1>6 DEF Recv, Running, ControlInv
  <2> QED BY <1>6, <2>1, ContentsRecv DEF Running
<1>7. ASSUME Flush PROVE ContentsInv'
  <2>1. phase # "idle"
    BY <1>7 DEF Flush, ControlInv
  <2> QED BY <1>7, <2>1, ContentsFlush
<1>8. ASSUME ConsumerFails PROVE ContentsInv'
  <2>1. UNCHANGED <<gen, fnb, shard, entries, files, phase, db>> /\ ContentsInv
    BY <1>8 DEF ConsumerFails, cold
  <2>2. Elems(chan') = {}
    BY <1>8, EmptySeq DEF ConsumerFails, Elems
  <2> QED BY <2>1, <2>2, ContentsFrame DEF ContentsInv
<1>9. ASSUME WalkEnds \/ Join \/ WriteDb PROVE ContentsInv'
  <2>1. UNCHANGED <<gen, fnb, shard, entries, files, chan>> /\ ContentsInv
    BY <1>9 DEF WalkEnds, Join, WriteDb, threads, cold
  <2>2. phase' = "manifest" => db' = fnb
    BY <1>9 DEF WalkEnds, Join, WriteDb
  <2>3. Elems(chan') = Elems(chan)
    BY <2>1
  <2> QED BY <2>1, <2>2, <2>3, ContentsFrame DEF ContentsInv
<1>10. ASSUME WriteManifest \/ WriteFails \/ Crash PROVE FALSE
  BY <1>10 DEF WriteManifest, WriteFails, Crash
<1> QED BY <1>0, <1>1, <1>2, <1>3, <1>4, <1>5, <1>6, <1>7, <1>8, <1>9, <1>10
           DEF Next, WorkerNext, ConsumerNext, CallerNext

-----------------------------------------------------------------------------
(* What MANIFEST promises *)

\* The state in which MANIFEST is about to be written: everything is filed.
LEMMA ReadyToReturn ==
    ASSUME TypeInv, ControlInv, ContentsInv, OnceInv, phase = "manifest"
    PROVE  /\ fnb = {Doc(e) : e \in ToFile(tree)} /\ db = fnb
           /\ Text(fnb) = UNION {files[i] : i \in 1..Len(entries)}
           /\ NextBase = Cardinality(Text(fnb))
<1>1. consumer = "done" /\ chan = <<>> /\ shard = {} /\ todo = {}
  BY DEF ControlInv
<1>2. Held = {}
  BY DEF Held, ControlInv, Sending
<1>3. Elems(chan) = {}
  BY <1>1, EmptySeq DEF Elems
<1>4. Sent = ToFile(tree)
  BY <1>1, <1>2, WalkIsComplete DEF OnceInv
<1>5. \A d \in fnb : d = Doc(d.entry)
  BY DEF ContentsInv, TypeInv, TypeOK, Document, Doc
<1>6. fnb = {Doc(e) : e \in Sent}
  BY <1>3, <1>5 DEF Sent
<1>7. Text(fnb) = UNION {files[i] : i \in 1..Len(entries)}
  BY <1>1 DEF ContentsInv, ShardsInv
<1>8. NextBase \in Nat /\ Cardinality(shard) = 0
  BY <1>1, NextEntryType, FS_EmptySet
<1>9. NextBase = Cardinality(Text(fnb))
  BY <1>8 DEF ContentsInv
<1> QED BY <1>4, <1>6, <1>7, <1>9 DEF ContentsInv

\* WriteManifest makes OkIsComplete true.
LEMMA ReturnsComplete ==
    ASSUME TypeInv, ControlInv, ContentsInv, OnceInv, WriteManifest
    PROVE  OkIsComplete'
<1>1. UNCHANGED <<gen, tree, fnb, db, files, entries>> /\ manifest' = entries
  BY DEF WriteManifest, threads
<1>2. /\ fnb = {Doc(e) : e \in ToFile(tree)} /\ db = fnb
      /\ Text(fnb) = UNION {files[i] : i \in 1..Len(entries)}
  BY ReadyToReturn DEF WriteManifest
<1>3. db' = {Doc(e)' : e \in ToFile(tree')}
  BY <1>1, <1>2 DEF Doc
<1>4. DOMAIN manifest' = 1..Len(entries)
  BY <1>1, LenProperties DEF TypeInv
<1>5. \A i \in DOMAIN manifest' : Loaded(i)' = files[i]
  BY <1>1, <1>4 DEF Loaded, ContentsInv, ShardsInv
<1>6. load_shard_set' = UNION {files[i] : i \in 1..Len(entries)}
  BY <1>4, <1>5 DEF load_shard_set
<1>7. Text(fnb) = {d \in db' : HasContent(d)}
  BY <1>1, <1>2 DEF Text
<1> QED BY <1>2, <1>3, <1>6, <1>7 DEF OkIsComplete, HasContent

\* WriteManifest makes ManifestDescribesShards true.
LEMMA ReturnsDescribed ==
    ASSUME TypeInv, ControlInv, ContentsInv, OnceInv, WriteManifest
    PROVE  ManifestDescribesShards'
<1>1. UNCHANGED <<fnb, files, entries>> /\ manifest' = entries
      /\ total' = Cardinality(Text(fnb))
  BY DEF WriteManifest, threads, Text
<1>2. NextBase = total'
  BY <1>1, ReadyToReturn DEF WriteManifest
<1>3. DOMAIN manifest' = 1..Len(entries) /\ Len(entries) \in Nat
  BY <1>1, LenProperties DEF TypeInv
<1>4. \A i \in DOMAIN manifest' : Loaded(i)' = files[i]
  BY <1>1, <1>3 DEF Loaded, ContentsInv, ShardsInv
<1>5. entries # <<>> => 1 \in 1..Len(entries)
  BY <1>3, EmptySeq DEF TypeInv
<1>6. \A i \in 1..Len(entries) : entries[i].num = Cardinality(files[i])
  BY DEF ContentsInv, ShardsInv
<1>7. \A i \in 1..Len(entries) :
        entries[i].base = IF i = 1 THEN 0 ELSE entries[i - 1].base + entries[i - 1].num
  BY DEF ContentsInv, ShardsInv
<1>8. \A i \in 1..Len(entries) : i > 1 =>
        entries[i].base = entries[i - 1].base + entries[i - 1].num
  BY <1>7
<1>9. entries # <<>> => entries[1].base = 0
  BY <1>5, <1>7
<1> QED BY <1>1, <1>2, <1>3, <1>4, <1>6, <1>8, <1>9
           DEF ManifestDescribesShards, NextBase

\* While a build that returned Ok is the last one, nothing it wrote changes.
LEMMA OkStep ==
    ASSUME IInv, [Next]_vars
    PROVE  OkIsComplete' /\ ManifestDescribesShards'
<1>1. CASE UNCHANGED <<gen, tree, files, db, manifest, total, ok>>
  <2>1. /\ \A e : Doc(e)' = Doc(e)
        /\ \A i : Loaded(i)' = Loaded(i)
    BY <1>1 DEF Doc, Loaded
  <2>2. load_shard_set' = load_shard_set
    BY <1>1, <2>1 DEF load_shard_set
  <2>3. OkIsComplete'
    BY <1>1, <2>1, <2>2 DEF IInv, OkIsComplete, ToFile, HasContent
  <2>4. ManifestDescribesShards'
    BY <1>1, <2>1 DEF IInv, ManifestDescribesShards
  <2> QED BY <2>3, <2>4
<1>2. ASSUME WriteManifest PROVE OkIsComplete' /\ ManifestDescribesShards'
  <2>1. phase = "manifest" /\ phase # "idle" /\ Running
    BY <1>2 DEF WriteManifest, Running, IInv, ControlInv
  <2> QED BY <1>2, <2>1, ReturnsComplete, ReturnsDescribed DEF IInv
<1>3. ASSUME ~ok' PROVE OkIsComplete' /\ ManifestDescribesShards'
  BY <1>3 DEF OkIsComplete, ManifestDescribesShards
<1>4. CASE UNCHANGED vars
  BY <1>1, <1>4 DEF vars, cold
<1>5. ASSUME NEW t \in Trees, Begin(t) PROVE ~ok'
  BY <1>5 DEF Begin
<1>6. ASSUME NEW w \in Worker, WorkerNext(w)
      PROVE  UNCHANGED <<gen, tree, files, db, manifest, total, ok>>
  BY <1>6 DEF WorkerNext, Visit, Send, SendFails, cold
<1>7. ASSUME CreateDir \/ Recv \/ Finalize \/ ConsumerFails \/ WalkEnds \/ Join
             \/ WriteFails \/ Crash
      PROVE  UNCHANGED <<gen, tree, files, db, manifest, total, ok>>
  BY <1>7 DEF CreateDir, Recv, Finalize, ConsumerFails, WalkEnds, Join, WriteFails,
              Crash, cold
<1>8. ASSUME Flush \/ WriteDb PROVE ~ok'
  BY <1>8 DEF Flush, WriteDb, IInv, ControlInv
<1> QED BY <1>1, <1>2, <1>3, <1>4, <1>5, <1>6, <1>7, <1>8
           DEF Next, ConsumerNext, CallerNext

\* A shard file is only ever replaced by one of the running build.
LEMMA OlderStep ==
    ASSUME IInv, [Next]_vars
    PROVE  ShardsNeverOlder'
<1>1. CASE UNCHANGED <<files, manifest, built>>
  BY <1>1 DEF IInv, ShardsNeverOlder, Loaded
<1>2. ASSUME Flush PROVE ShardsNeverOlder'
  <2>1. UNCHANGED <<manifest, built>> /\ ContentsInv
    BY <1>2 DEF Flush, IInv, ControlInv
  <2>2. \A d \in shard : d.gen >= built
    <3>1. \A d \in shard : d.gen = gen
      BY <2>1 DEF ContentsInv, Text
    <3> QED BY <3>1, BoundAssumption DEF IInv, TypeInv, TypeOK
  <2>3. /\ DOMAIN files \subseteq DOMAIN files'
        /\ \A i \in DOMAIN files : files'[i] \in {files[i], shard}
    BY <1>2 DEF Flush
  <2> QED BY <2>1, <2>2, <2>3 DEF IInv, ShardsNeverOlder, Loaded
<1>3. ASSUME WriteManifest PROVE ShardsNeverOlder'
  <2>1. /\ UNCHANGED <<fnb, files, entries>> /\ manifest' = entries /\ built' = gen
        /\ ContentsInv
    BY <1>3 DEF WriteManifest, threads, IInv
  <2>2. DOMAIN manifest' = 1..Len(entries)
    BY <2>1, LenProperties DEF IInv, TypeInv
  <2>3. \A i \in DOMAIN manifest' : /\ manifest'[i].id = i /\ i \in DOMAIN files
                                   /\ \A d \in files[i] : d.gen = gen
    BY <2>1, <2>2 DEF ContentsInv, ShardsInv, Text
  <2>4. gen \in Nat
    BY BoundAssumption DEF IInv, TypeInv, TypeOK
  <2> QED BY <2>1, <2>3, <2>4 DEF ShardsNeverOlder, Loaded
<1>4. ASSUME NEW t \in Trees, Begin(t) PROVE UNCHANGED <<files, manifest, built>>
  BY <1>4 DEF Begin, cold
<1>5. ASSUME NEW w \in Worker, WorkerNext(w) PROVE UNCHANGED <<files, manifest, built>>
  BY <1>5 DEF WorkerNext, Visit, Send, SendFails, cold
<1>6. ASSUME CreateDir \/ Recv \/ Finalize \/ ConsumerFails \/ WalkEnds \/ Join
             \/ WriteDb \/ WriteFails \/ Crash \/ UNCHANGED vars
      PROVE  UNCHANGED <<files, manifest, built>>
  BY <1>6 DEF CreateDir, Recv, Finalize, ConsumerFails, WalkEnds, Join, WriteDb,
              WriteFails, Crash, vars, cold
<1> QED BY <1>1, <1>2, <1>3, <1>4, <1>5, <1>6 DEF Next, ConsumerNext, CallerNext

-----------------------------------------------------------------------------
(* The theorems *)

\* The invariant holds when nothing was built yet.
LEMMA InitIInv == Init => IInv
<1> SUFFICES ASSUME Init PROVE IInv
  OBVIOUS
<1>1. /\ <<>> \in Seq(Document) /\ <<>> \in Seq(ShardEntry) /\ Len(<<>>) = 0
      /\ IsFiniteSet({}) /\ Cardinality({}) = 0
  BY EmptySeq, FS_EmptySet
<1>2. DOMAIN manifest = {} /\ DOMAIN files = {}
  BY DEF Init
<1>3. TypeOK
  BY <1>1, <1>2, TreeAssumption, BoundAssumption DEF Init, TypeOK
<1>4. TypeInv
  <2>1. built \in 0..gen /\ phase = "idle" /\ consumer = "done"
    BY DEF Init
  <2>2. entries \in Seq(ShardEntry) /\ manifest \in Seq(ShardEntry)
    BY <1>1 DEF Init
  <2>3. IsFiniteSet(shard) /\ IsFiniteSet(fnb) /\ quit \in BOOLEAN /\ ok \in BOOLEAN
    BY <1>1 DEF Init
  <2> QED BY <1>3, <2>1, <2>2, <2>3 DEF TypeInv
<1>5. ControlInv
  BY DEF Init, ControlInv, Sending
<1> QED BY <1>2, <1>4, <1>5 DEF Init, IInv, Running, OkIsComplete,
        ManifestDescribesShards, ShardsNeverOlder

\* Every step of the build keeps the invariant.
THEOREM InvHolds == Spec => []IInv
<1>1. IInv /\ [Next]_vars => IInv'
  <2> SUFFICES ASSUME IInv, [Next]_vars PROVE IInv'
    OBVIOUS
  <2>1. TypeInv' /\ ControlInv'
    BY TypeStep, ControlStep DEF IInv
  <2>2. phase' # "idle" => ContentsInv'
    BY ContentsStep DEF IInv
  <2>3. Running' => OnceInv'
    BY OnceStep DEF IInv
  <2> QED BY <2>1, <2>2, <2>3, OkStep, OlderStep DEF IInv
<1> QED BY InitIInv, <1>1, PTL DEF Spec

\* The channel never holds more than CHANNEL_CAP records and a shard in memory
\* never more than its flush size, with any number of workers.
THEOREM TypeCorrect == Spec => []TypeOK
<1>1. IInv => TypeOK
  BY DEF IInv, TypeInv
<1> QED BY InvHolds, <1>1, PTL

\* A build that returns Ok has filed every entry of the tree and nothing else,
\* however workers and consumer interleave and whatever failed builds left.
THEOREM BuildIsComplete == Spec => []OkIsComplete
<1>1. IInv => OkIsComplete
  BY DEF IInv
<1> QED BY InvHolds, <1>1, PTL

\* The docid ranges MANIFEST lists partition the documents of its shards.
THEOREM ManifestIsRight == Spec => []ManifestDescribesShards
<1>1. IInv => ManifestDescribesShards
  BY DEF IInv
<1> QED BY InvHolds, <1>1, PTL

\* A shard MANIFEST names is there and is never older than MANIFEST, through
\* any failing write and any end of the process.
THEOREM ShardsAreCurrent == Spec => []ShardsNeverOlder
<1>1. IInv => ShardsNeverOlder
  BY DEF IInv
<1> QED BY InvHolds, <1>1, PTL
=============================================================================
