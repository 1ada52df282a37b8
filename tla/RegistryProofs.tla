---------------------------- MODULE RegistryProofs ----------------------------
(***************************************************************************)
(* CommandsKept and ServedCurrent, proved for any number of commands,      *)
(* databases, command-line processes and restarts of the daemon.           *)
(***************************************************************************)
EXTENDS Registry, SequenceTheorems, WellFoundedInduction, TLAPS

-----------------------------------------------------------------------------
(* The inductive invariant *)

Contents == {Torn} \cup (SUBSET Record)
Holder == Db \cup {Watcher}

InTmp == {"write", "rename"}              \* has <name>.tmp open, or just had
InSpan == {"create"} \cup InTmp           \* between its load and its rename
Live == {"check", "build", "load", "delete"} \cup InSpan

CmdRec == [c : {NoValue} \cup Command, at : Live \cup Ended \cup {"idle"},
           recs : SUBSET Record, fd : Nat]

\* A command, and a handle once there is one.
TypeInv ==
    /\ inode \in Seq(Contents)
    /\ doc \in [File -> 0..Len(inode)] /\ tmp \in [File -> 0..Len(inode)]
    /\ cmd \in [Cli -> CmdRec]
    /\ \A p \in Cli : ~At(p, "idle") => cmd[p].c \in Command
    /\ \A p \in Cli : At(p, "build") => cmd[p].c.op = "add"
    /\ \A p \in Cli : cmd[p].at \in InTmp => cmd[p].fd \in 1..Len(inode)
    /\ wanted \in [File -> SUBSET Record]

\* No two names are of one inode, and no handle on a .tmp of one document is
\* on an inode of the other.
InodeInv ==
    /\ \A f \in File : tmp[f] # 0 => tmp[f] # doc[f]
    /\ \A f, g \in File : f # g =>
          /\ tmp[f] # 0 => tmp[f] # tmp[g] /\ tmp[f] # doc[g]
          /\ doc[f] # 0 => doc[f] # doc[g]
    /\ \A p \in Cli : cmd[p].at \in InTmp =>
          \A f \in File \ {Target(p)} : cmd[p].fd \notin {tmp[f], doc[f]}

\* A document no two commands wrote at once: its one writer has the .tmp, empty
\* before its write and whole after it.
WriterInv ==
    \A f \in File \ clashed :
        /\ \A p, q \in Spanning(f, InTmp) : p = q
        /\ \A p \in Spanning(f, InTmp) :
              /\ cmd[p].fd = tmp[f]
              /\ inode[tmp[f]] = IF At(p, "write") THEN Torn ELSE cmd[p].recs

\* A document no two commands changed at once: the one between load and rename
\* will save what it makes of the commands committed so far.
SpanInv ==
    \A f \in File \ (mixed \cup clashed) :
        /\ \A p, q \in Spanning(f, InSpan) : p = q
        /\ \A p \in Spanning(f, InSpan) : cmd[p].recs = Changed(cmd[p].c, wanted[f])

FilesInv == TypeInv /\ InodeInv /\ WriterInv /\ SpanInv /\ CommandsKept

\* The newest set anybody opened, or the daemon serves.
Latest == IF newer = <<>> THEN served ELSE held[newer[Len(newer)]]

\* A `db add` of d that has built and not renamed yet.
Adding(d) == \E p \in Cli : /\ cmd[p].at \in {"load"} \cup InSpan
                            /\ cmd[p].c.op = "add" /\ cmd[p].c.arg = d

\* The watcher has still to look at dbs.toml.
Pending == watch = "event" /\ changed /\ doc["dbs"] # 0

\* Someone will still open a newer set, if the newest one is wrong about d.
LatestRight(d) ==
    \/ d \in Latest <=> d \in load("dbs")
    \/ Pending \/ Abandoned(d) \/ Adding(d)
    \/ d \in Db /\ job[d] = "open"

ServedInv ==
    /\ newer \in Seq(Holder)
    /\ held \in [Holder -> {NoValue} \cup (SUBSET Record)]
    /\ job \in [Db -> {"none", "build", "open", "store"}]
    /\ \A k \in 1..Len(newer) : held[newer[k]] # NoValue
    /\ \A d \in Db : held[d] # NoValue => job[d] = "store"
    /\ Running /\ (behind => newer # <<>>) => \A d \in built : LatestRight(d)

IInv == FilesInv /\ ServedInv

-----------------------------------------------------------------------------
(* Types of what the commands work on *)

\* Registry::load and Settings::load return records, also of a torn file.
LEMMA LoadType ==
    ASSUME TypeInv, NEW f \in File
    PROVE  load(f) \in SUBSET Record
<1>1. CASE doc[f] = 0
  BY <1>1 DEF load
<1>2. CASE doc[f] # 0
  <2>1. doc[f] \in 1..Len(inode)
    BY <1>2, LenProperties DEF TypeInv
  <2>2. inode[doc[f]] \in Contents
    BY <2>1, ElementOfSeq DEF TypeInv
  <2> QED BY <1>2, <2>2 DEF load, Contents
<1> QED BY <1>1, <1>2

\* What a command makes of records are records.
LEMMA ChangedType ==
    ASSUME NEW c \in Command, NEW recs \in SUBSET Record
    PROVE  Changed(c, recs) \in SUBSET Record
BY DEF Changed, Record

\* One process moves on: the others stay where they are.
LEMMA CmdUpdate ==
    ASSUME TypeInv, NEW p \in Cli, NEW new \in CmdRec, cmd' = [cmd EXCEPT ![p] = new]
    PROVE  /\ cmd' \in [Cli -> CmdRec] /\ cmd'[p] = new
           /\ \A q \in Cli \ {p} : cmd'[q] = cmd[q]
BY DEF TypeInv

\* A process that goes to another place and keeps what it has.
LEMMA MoveType ==
    ASSUME NEW k \in CmdRec, NEW a \in Live \cup Ended \cup {"idle"}
    PROVE  /\ [k EXCEPT !.at = a] \in CmdRec
           /\ [k EXCEPT !.at = a].at = a /\ [k EXCEPT !.at = a].c = k.c
           /\ [k EXCEPT !.at = a].recs = k.recs /\ [k EXCEPT !.at = a].fd = k.fd
BY DEF CmdRec

\* The target of a command under way is one of the two documents.
LEMMA TargetType ==
    ASSUME TypeInv, NEW p \in Cli
    PROVE  /\ Target(p) \in File /\ cmd[p] \in CmdRec
           /\ ~At(p, "idle") => cmd[p].c \in Command
BY DEF TypeInv, Target, FileOf, File

-----------------------------------------------------------------------------
(* The documents *)

\* Steps of a process outside load ... rename leave the documents alone.
LEMMA FilesStay ==
    ASSUME FilesInv, UNCHANGED <<fileVars, wanted, clashed>>, mixed \subseteq mixed',
           NEW p \in Cli, NEW new \in CmdRec, cmd' = [cmd EXCEPT ![p] = new],
           new.at \notin InSpan, new.at # "idle" => new.c \in Command,
           new.at = "build" => new.c.op = "add"
    PROVE  FilesInv'
<1>1. /\ cmd' \in [Cli -> CmdRec] /\ cmd'[p] = new
      /\ \A q \in Cli \ {p} : cmd'[q] = cmd[q]
  BY CmdUpdate DEF FilesInv
<1>2. UNCHANGED <<inode, doc, tmp, wanted, clashed>>
  BY DEF fileVars
<1>3. new.at \notin InTmp
  BY DEF InSpan
<1>4. TypeInv'
  BY <1>1, <1>2, <1>3 DEF FilesInv, TypeInv, At
<1>5. InodeInv'
  BY <1>1, <1>2, <1>3 DEF FilesInv, InodeInv, Target, OpOf
<1>6. WriterInv'
  <2>1. \A f : \A q \in Spanning(f, InTmp)' : q \in Spanning(f, InTmp) /\ cmd'[q] = cmd[q]
    BY <1>1, <1>3 DEF Spanning, Target, OpOf
  <2> QED BY <1>2, <2>1 DEF FilesInv, WriterInv, At
<1>7. SpanInv'
  <2>1. \A f : \A q \in Spanning(f, InSpan)' : q \in Spanning(f, InSpan) /\ cmd'[q] = cmd[q]
    BY <1>1 DEF Spanning, Target, OpOf
  <2> QED BY <1>2, <2>1 DEF FilesInv, SpanInv
<1>8. CommandsKept'
  BY <1>2 DEF FilesInv, CommandsKept, load
<1> QED BY <1>4, <1>5, <1>6, <1>7, <1>8 DEF FilesInv

\* Load: what the command will save is what it makes of the committed commands,
\* unless another one is between its load and its rename.
LEMMA FilesLoad ==
    ASSUME FilesInv, NEW p \in Cli, Load(p)
    PROVE  FilesInv'
<1> DEFINE f == Target(p)
           c == cmd[p].c
           recs == Changed(c, load(f))
           at == IF Refuses(c, load(f)) THEN "done" ELSE "create"
           new == [cmd[p] EXCEPT !.recs = recs, !.at = at]
<1>1. f \in File /\ c \in Command /\ cmd[p] \in CmdRec /\ load(f) \in SUBSET Record
  BY TargetType, LoadType DEF FilesInv, Load, At
<1>2. recs \in SUBSET Record
  BY <1>1, ChangedType
<1>3. cmd' = [cmd EXCEPT ![p] = new]
  BY <1>1 DEF Load, FilesInv, TypeInv
<1>4. at \in {"done", "create"}
  OBVIOUS
<1>5. /\ new \in CmdRec /\ new.at = at /\ new.c = c /\ new.recs = recs
  BY <1>1, <1>2, <1>4 DEF CmdRec, Live, InSpan, Ended
<1>6. /\ UNCHANGED <<inode, doc, tmp, wanted, clashed>>
      /\ mixed' = IF Spanning(f, InSpan) = {} THEN mixed ELSE mixed \cup {f}
  BY DEF Load, fileVars, InSpan, InTmp
<1>7. /\ cmd' \in [Cli -> CmdRec] /\ cmd'[p] = new
      /\ \A q \in Cli \ {p} : cmd'[q] = cmd[q]
  BY <1>3, <1>5, CmdUpdate DEF FilesInv
<1>8. CASE at = "done"
  BY <1>1, <1>3, <1>5, <1>6, <1>8, FilesStay DEF InSpan, InTmp, fileVars
<1>9. CASE at = "create"
  <2>1. new.at \notin InTmp /\ new.at \in InSpan /\ new.at \notin {"idle", "build"}
    BY <1>5, <1>9 DEF InSpan, InTmp
  <2> HIDE DEF f, c, recs, at, new
  <2>2. TypeInv'
    BY <1>1, <1>5, <1>6, <1>7, <2>1 DEF FilesInv, TypeInv, At
  <2>3. InodeInv'
    BY <1>6, <1>7, <2>1 DEF FilesInv, InodeInv, Target, OpOf
  <2>4. WriterInv'
    <3>1. \A g : \A q \in Spanning(g, InTmp)' : q \in Spanning(g, InTmp) /\ cmd'[q] = cmd[q]
      BY <1>7, <2>1 DEF Spanning, Target, OpOf
    <3> QED BY <1>6, <3>1 DEF FilesInv, WriterInv, At
  <2>5. SpanInv'
    <3> SUFFICES ASSUME NEW g \in File \ (mixed' \cup clashed')
                 PROVE  /\ \A q, r \in Spanning(g, InSpan)' : q = r
                        /\ \A q \in Spanning(g, InSpan)' :
                              cmd'[q].recs = Changed(cmd'[q].c, wanted'[g])
      BY DEF SpanInv
    <3>1. \A q \in Spanning(g, InSpan)' :
             q # p => q \in Spanning(g, InSpan) /\ cmd'[q] = cmd[q]
      BY <1>7 DEF Spanning, Target, OpOf
    <3>2. p \in Spanning(g, InSpan)' => g = f
      BY <1>5, <1>7 DEF Spanning, Target, OpOf, f, c
    <3>3. CASE g = f
      <4>1. Spanning(g, InSpan) = {} /\ g \notin mixed
        BY <1>6, <3>3
      <4>2. load(g) = wanted[g]
        BY <1>6, <4>1 DEF FilesInv, CommandsKept
      <4>3. recs = Changed(c, wanted[g])
        BY <3>3, <4>2 DEF recs
      <4> QED BY <1>5, <1>6, <1>7, <3>1, <4>1, <4>3
    <3>4. CASE g # f
      <4>1. g \notin mixed \cup clashed
        BY <1>6
      <4> QED BY <1>6, <3>1, <3>2, <3>4, <4>1 DEF FilesInv, SpanInv
    <3> QED BY <3>3, <3>4
  <2>6. CommandsKept'
    BY <1>6 DEF FilesInv, CommandsKept, load
  <2> QED BY <2>2, <2>3, <2>4, <2>5, <2>6 DEF FilesInv
<1> QED BY <1>4, <1>8, <1>9

\* Create adds an inode, or empties the one of the .tmp, and no other.
LEMMA CreateInode ==
    ASSUME TypeInv, NEW p \in Cli, Create(p)
    PROVE  LET f == Target(p)
               i == IF tmp[f] = 0 THEN Len(inode) + 1 ELSE tmp[f]
           IN  /\ inode' \in Seq(Contents) /\ Len(inode') \in Nat /\ Len(inode) <= Len(inode')
               /\ i \in 1..Len(inode') /\ inode'[i] = Torn
               /\ \A j \in 1..Len(inode) : j # i => inode'[j] = inode[j]
<1> DEFINE f == Target(p)
           n == Len(inode)
           i == IF tmp[f] = 0 THEN n + 1 ELSE tmp[f]
<1>0. n \in Nat /\ tmp[f] \in 0..n
  BY TargetType, LenProperties DEF TypeInv
<1>1. Torn \in Contents /\ inode \in Seq(Contents)
  BY DEF Contents, TypeInv
<1>2. CASE tmp[f] = 0
  <2>1. inode' = Append(inode, Torn)
    BY <1>2 DEF Create
  <2>2. /\ inode' \in Seq(Contents) /\ Len(inode') = n + 1
        /\ \A j \in 1..n : inode'[j] = inode[j]
        /\ inode'[n + 1] = Torn
    BY <1>1, <2>1, AppendProperties
  <2> QED BY <1>0, <1>2, <2>2
<1>3. CASE tmp[f] # 0
  <2>1. i \in 1..n /\ inode' = [inode EXCEPT ![i] = Torn]
    BY <1>0, <1>3 DEF Create
  <2>2. /\ inode' \in Seq(Contents) /\ Len(inode') = n
        /\ \A j \in 1..n : inode'[j] = IF j = i THEN Torn ELSE inode[j]
    BY <1>1, <2>1, ExceptSeq
  <2> QED BY <1>0, <2>1, <2>2
<1> QED BY <1>2, <1>3

\* Create: the .tmp, new or emptied, is no document, and no other command that
\* has it open goes unnoticed.
LEMMA FilesCreate ==
    ASSUME FilesInv, NEW p \in Cli, Create(p)
    PROVE  FilesInv'
<1> DEFINE f == Target(p)
           n == Len(inode)
           i == IF tmp[f] = 0 THEN n + 1 ELSE tmp[f]
           new == [cmd[p] EXCEPT !.fd = i, !.at = "write"]
<1>1. f \in File /\ cmd[p].c \in Command /\ cmd[p] \in CmdRec /\ cmd[p].at = "create"
  BY TargetType DEF FilesInv, Create, At
<1>2. n \in Nat /\ tmp[f] \in 0..n
  BY <1>1, LenProperties DEF FilesInv, TypeInv
<1>3. i \in Nat /\ i \in 1..(n + 1)
  BY <1>2
<1>4. /\ tmp' = [tmp EXCEPT ![f] = i] /\ UNCHANGED <<doc, wanted, mixed>>
      /\ clashed' = IF Spanning(f, InTmp) = {} THEN clashed ELSE clashed \cup {f}
  BY DEF Create, InTmp
<1>5. cmd' = [cmd EXCEPT ![p] = new]
  BY <1>1 DEF Create, FilesInv, TypeInv
<1>6. /\ new \in CmdRec /\ new.at = "write" /\ new.c = cmd[p].c
      /\ new.recs = cmd[p].recs /\ new.fd = i
  BY <1>1, <1>3 DEF CmdRec, Live, InSpan, InTmp
<1>7. /\ cmd' \in [Cli -> CmdRec] /\ cmd'[p] = new
      /\ \A q \in Cli \ {p} : cmd'[q] = cmd[q]
  BY <1>5, <1>6, CmdUpdate DEF FilesInv
<1>8. /\ inode' \in Seq(Contents) /\ Len(inode') \in Nat /\ n <= Len(inode')
      /\ i \in 1..Len(inode') /\ inode'[i] = Torn
      /\ \A j \in 1..n : j # i => inode'[j] = inode[j]
  BY CreateInode DEF FilesInv
<1>9. /\ \A g \in File : doc[g] \in 0..n /\ doc[g] # i
      /\ \A g \in File \ {f} : tmp[g] \in 0..n /\ tmp[g] # i
  BY <1>1, <1>2 DEF FilesInv, TypeInv, InodeInv
<1>10. \A g \in File : tmp'[g] = IF g = f THEN i ELSE tmp[g]
  BY <1>4 DEF FilesInv, TypeInv
<1>11. \A q \in Cli : ~At(q, "idle") => cmd[q].c \in Command
  BY DEF FilesInv, TypeInv
<1> HIDE DEF f, i, n, new
<1>12. TypeInv'
  <2>1. doc' \in [File -> 0..Len(inode')] /\ tmp' \in [File -> 0..Len(inode')]
    BY <1>4, <1>2, <1>8, <1>9, <1>10, <1>1 DEF FilesInv, TypeInv
  <2>2. \A q \in Cli : cmd'[q].at \in InTmp => cmd'[q].fd \in 1..Len(inode')
    <3>1. \A q \in Cli : cmd[q].at \in InTmp => cmd[q].fd \in 1..n
      BY DEF FilesInv, TypeInv, n
    <3>2. 1..n \subseteq 1..Len(inode')
      BY <1>2, <1>8
    <3> QED BY <1>6, <1>7, <1>8, <3>1, <3>2
  <2>3. \A q \in Cli : /\ cmd'[q].at # "idle" => cmd'[q].c \in Command
                       /\ cmd'[q].at = "build" => cmd'[q].c.op = "add"
    BY <1>1, <1>6, <1>7 DEF FilesInv, TypeInv, At
  <2> QED BY <1>4, <1>7, <1>8, <2>1, <2>2, <2>3 DEF FilesInv, TypeInv, At
<1>13. InodeInv'
  <2>1. \A g \in File : tmp'[g] # 0 => tmp'[g] # doc'[g]
    BY <1>4, <1>9, <1>10 DEF FilesInv, InodeInv
  <2>2. \A g, h \in File : g # h =>
          /\ tmp'[g] # 0 => tmp'[g] # tmp'[h] /\ tmp'[g] # doc'[h]
          /\ doc'[g] # 0 => doc'[g] # doc'[h]
    BY <1>4, <1>9, <1>10 DEF FilesInv, InodeInv
  <2>3. ASSUME NEW q \in Cli, cmd'[q].at \in InTmp, NEW g \in File \ {Target(q)'}
        PROVE  cmd'[q].fd \notin {tmp'[g], doc'[g]}
    <3>1. CASE q = p
      <4>1. g # f
        BY <1>6, <1>7, <2>3, <3>1 DEF Target, OpOf, f
      <4> QED BY <1>4, <1>6, <1>7, <1>9, <1>10, <3>1, <4>1
    <3>2. CASE q # p
      <4>1. cmd'[q] = cmd[q] /\ g \in File \ {Target(q)}
        BY <1>7, <2>3, <3>2 DEF Target, OpOf
      <4>2. cmd[q].fd \in 1..n /\ cmd[q].fd \notin {tmp[g], doc[g]}
        BY <2>3, <4>1 DEF FilesInv, TypeInv, InodeInv, n
      <4>3. cmd[q].fd # tmp'[g]
        BY <1>2, <1>10, <4>1, <4>2 DEF i
      <4> QED BY <1>4, <4>1, <4>2, <4>3
    <3> QED BY <3>1, <3>2
  <2> QED BY <2>1, <2>2, <2>3 DEF InodeInv
<1>14. WriterInv'
  <2> SUFFICES ASSUME NEW g \in File \ clashed'
               PROVE  /\ \A q, r \in Spanning(g, InTmp)' : q = r
                      /\ \A q \in Spanning(g, InTmp)' :
                            /\ cmd'[q].fd = tmp'[g]
                            /\ inode'[tmp'[g]] = IF cmd'[q].at = "write" THEN Torn
                                                 ELSE cmd'[q].recs
    BY DEF WriterInv, At
  <2>1. \A q \in Spanning(g, InTmp)' :
           q # p => q \in Spanning(g, InTmp) /\ cmd'[q] = cmd[q]
    BY <1>7 DEF Spanning, Target, OpOf
  <2>2. p \in Spanning(g, InTmp)' => g = f
    BY <1>6, <1>7 DEF Spanning, Target, OpOf, f
  <2>3. CASE g = f
    <3>1. Spanning(g, InTmp) = {}
      BY <1>4, <2>3
    <3> QED BY <1>6, <1>7, <1>8, <1>10, <2>1, <2>3, <3>1
  <2>4. CASE g # f
    <3>1. g \notin clashed /\ tmp'[g] = tmp[g]
      BY <1>4, <1>10, <2>4
    <3>2. \A q \in Spanning(g, InTmp) : cmd[q].fd \in 1..n
      BY DEF FilesInv, TypeInv, Spanning, n
    <3>3. \A q \in Spanning(g, InTmp) :
             /\ cmd[q].fd = tmp[g]
             /\ inode[tmp[g]] = IF At(q, "write") THEN Torn ELSE cmd[q].recs
      BY <3>1 DEF FilesInv, WriterInv
    <3>4. \A q \in Spanning(g, InTmp) : inode'[tmp[g]] = inode[tmp[g]]
      BY <1>8, <1>9, <2>4, <3>2, <3>3
    <3>5. \A q, r \in Spanning(g, InTmp) : q = r
      BY <3>1 DEF FilesInv, WriterInv
    <3> QED BY <2>1, <2>2, <2>4, <3>1, <3>3, <3>4, <3>5 DEF At
  <2> QED BY <2>3, <2>4
<1>15. SpanInv'
  <2>1. \A g : \A q \in Spanning(g, InSpan)' :
          /\ q \in Spanning(g, InSpan)
          /\ cmd'[q].recs = cmd[q].recs /\ cmd'[q].c = cmd[q].c
    BY <1>1, <1>6, <1>7 DEF Spanning, Target, OpOf, InSpan
  <2>2. \A g \in File \ (mixed' \cup clashed') : g \notin mixed \cup clashed
    BY <1>4
  <2> QED BY <1>4, <2>1, <2>2 DEF FilesInv, SpanInv
<1>16. CommandsKept'
  <2>1. \A g \in File : doc[g] # 0 => inode'[doc[g]] = inode[doc[g]]
    BY <1>2, <1>8, <1>9
  <2>2. \A g \in File : load(g)' = load(g)
    BY <1>4, <2>1 DEF load
  <2>3. \A g \in File \ clashed' : g \notin clashed
    BY <1>4
  <2> QED BY <1>4, <2>1, <2>2, <2>3 DEF FilesInv, CommandsKept
<1> QED BY <1>12, <1>13, <1>14, <1>15, <1>16 DEF FilesInv

\* Write: the only writer of a .tmp finds it empty and leaves it whole; another
\* one may spoil an inode of its own document, which is clashed by then.
LEMMA FilesWrite ==
    ASSUME FilesInv, NEW p \in Cli, Write(p)
    PROVE  FilesInv'
<1> DEFINE f == Target(p)
           i == cmd[p].fd
           new == [cmd[p] EXCEPT !.at = "rename"]
<1>1. f \in File /\ cmd[p].c \in Command /\ cmd[p] \in CmdRec /\ cmd[p].at = "write"
  BY TargetType DEF FilesInv, Write, At
<1>2. i \in 1..Len(inode) /\ Len(inode) \in Nat /\ inode \in Seq(Contents)
  BY <1>1, LenProperties DEF FilesInv, TypeInv, InTmp
<1>3. PICK text \in {cmd[p].recs} \cup (IF inode[i] = Torn THEN {} ELSE {Torn}) :
          inode' = [inode EXCEPT ![i] = text]
  BY DEF Write
<1>4. text \in Contents /\ (inode[i] = Torn => text = cmd[p].recs)
  BY <1>1, <1>3 DEF Contents, CmdRec
<1>5. /\ inode' \in Seq(Contents) /\ Len(inode') = Len(inode) /\ inode'[i] = text
      /\ \A j \in 1..Len(inode) : j # i => inode'[j] = inode[j]
  BY <1>2, <1>3, <1>4, ExceptSeq
<1>6. UNCHANGED <<doc, tmp, wanted, mixed, clashed>>
  BY DEF Write, history
<1>7. cmd' = [cmd EXCEPT ![p] = new]
  BY <1>1 DEF Write, FilesInv, TypeInv
<1>8. /\ new \in CmdRec /\ new.at = "rename" /\ new.c = cmd[p].c
      /\ new.recs = cmd[p].recs /\ new.fd = i
  BY <1>1, MoveType DEF Live, InSpan, InTmp
<1>9. /\ cmd' \in [Cli -> CmdRec] /\ cmd'[p] = new
      /\ \A q \in Cli \ {p} : cmd'[q] = cmd[q]
  BY <1>7, <1>8, CmdUpdate DEF FilesInv
<1>10. \A g \in File \ {f} : i \notin {tmp[g], doc[g]}
  BY <1>1 DEF FilesInv, InodeInv, InTmp
<1>11. f \notin clashed => i = tmp[f] /\ i # doc[f] /\ inode[i] = Torn
  <2> SUFFICES ASSUME f \notin clashed PROVE i = tmp[f] /\ i # doc[f] /\ inode[i] = Torn
    OBVIOUS
  <2>1. p \in Spanning(f, InTmp) /\ At(p, "write")
    BY <1>1 DEF Spanning, InTmp, At
  <2>2. i = tmp[f] /\ inode[tmp[f]] = Torn
    BY <1>1, <2>1 DEF FilesInv, WriterInv
  <2> QED BY <1>1, <1>2, <2>2 DEF FilesInv, InodeInv
<1> HIDE DEF f, i, new
<1>12. \A q \in Cli : cmd'[q].at \in InTmp =>
         /\ cmd[q].at \in InTmp /\ cmd'[q].fd = cmd[q].fd
         /\ cmd'[q].c = cmd[q].c /\ cmd'[q].recs = cmd[q].recs
  BY <1>1, <1>8, <1>9 DEF InTmp, i
<1>13. TypeInv'
  <2>1. \A q \in Cli : /\ cmd'[q].at # "idle" => cmd'[q].c \in Command
                       /\ cmd'[q].at = "build" => cmd'[q].c.op = "add"
    BY <1>1, <1>8, <1>9 DEF FilesInv, TypeInv, At
  <2> QED BY <1>5, <1>6, <1>9, <1>12, <2>1 DEF FilesInv, TypeInv, At
<1>14. InodeInv'
  BY <1>6, <1>12 DEF FilesInv, InodeInv, Target, OpOf
<1>15. WriterInv'
  <2> SUFFICES ASSUME NEW g \in File \ clashed
               PROVE  /\ \A q, r \in Spanning(g, InTmp)' : q = r
                      /\ \A q \in Spanning(g, InTmp)' :
                            /\ cmd'[q].fd = tmp[g]
                            /\ inode'[tmp[g]] = IF cmd'[q].at = "write" THEN Torn
                                                ELSE cmd'[q].recs
    BY <1>6 DEF WriterInv, At
  <2>1. \A q \in Spanning(g, InTmp)' : q \in Spanning(g, InTmp)
    BY <1>12 DEF Spanning, Target, OpOf
  <2>2. \A q, r \in Spanning(g, InTmp) : q = r
    BY DEF FilesInv, WriterInv
  <2>3. \A q \in Spanning(g, InTmp) :
           /\ cmd[q].fd = tmp[g] /\ tmp[g] \in 1..Len(inode)
           /\ inode[tmp[g]] = IF cmd[q].at = "write" THEN Torn ELSE cmd[q].recs
    BY DEF FilesInv, WriterInv, TypeInv, Spanning, At
  <2>4. CASE g = f
    <3>1. p \in Spanning(g, InTmp)
      BY <1>1, <2>4 DEF Spanning, InTmp, f
    <3>2. \A q \in Spanning(g, InTmp)' : q = p
      BY <2>1, <2>2, <3>1
    <3> QED BY <1>4, <1>5, <1>8, <1>9, <1>11, <2>4, <3>2
  <2>5. CASE g # f
    <3>1. p \notin Spanning(g, InTmp)
      BY <2>5 DEF Spanning, f
    <3>2. \A q \in Spanning(g, InTmp) : cmd'[q] = cmd[q]
      BY <1>9, <3>1 DEF Spanning
    <3>3. \A q \in Spanning(g, InTmp) : inode'[tmp[g]] = inode[tmp[g]]
      BY <1>5, <1>10, <2>3, <2>5
    <3> QED BY <2>1, <2>2, <2>3, <3>2, <3>3
  <2> QED BY <2>4, <2>5
<1>16. SpanInv'
  <2>1. \A g : \A q \in Spanning(g, InSpan)' :
          /\ q \in Spanning(g, InSpan)
          /\ cmd'[q].recs = cmd[q].recs /\ cmd'[q].c = cmd[q].c
    BY <1>1, <1>8, <1>9 DEF Spanning, Target, OpOf, InSpan, InTmp
  <2> QED BY <1>6, <2>1 DEF FilesInv, SpanInv
<1>17. CommandsKept'
  <2>1. \A g \in File \ clashed : doc[g] # 0 => inode'[doc[g]] = inode[doc[g]]
    <3> SUFFICES ASSUME NEW g \in File \ clashed, doc[g] # 0
                 PROVE  inode'[doc[g]] = inode[doc[g]]
      OBVIOUS
    <3>1. doc[g] \in 1..Len(inode)
      BY <1>2 DEF FilesInv, TypeInv
    <3>2. doc[g] # i
      BY <1>10, <1>11
    <3> QED BY <1>5, <3>1, <3>2
  <2>2. \A g \in File \ clashed : load(g)' = load(g)
    BY <1>6, <2>1 DEF load
  <2> QED BY <1>6, <2>1, <2>2 DEF FilesInv, CommandsKept
<1> QED BY <1>13, <1>14, <1>15, <1>16, <1>17 DEF FilesInv

\* Rename: the .tmp that becomes the document is the whole of what the command
\* saves, unless two commands had it open.
LEMMA FilesRename ==
    ASSUME FilesInv, NEW p \in Cli, Rename(p)
    PROVE  FilesInv'
<1> DEFINE f == Target(p)
           c == cmd[p].c
           at == IF OpOf(p) = "remove" THEN "delete"
                 ELSE IF tmp[f] = 0 THEN "failed" ELSE "done"
           new == [cmd[p] EXCEPT !.at = at]
<1>1. f \in File /\ c \in Command /\ cmd[p] \in CmdRec /\ cmd[p].at = "rename"
  BY TargetType DEF FilesInv, Rename, CanRename, At
<1>2. cmd' = [cmd EXCEPT ![p] = new]
  BY <1>1 DEF Rename, FilesInv, TypeInv
<1>3. at \in {"delete", "failed", "done"}
  OBVIOUS
<1>4. new \in CmdRec /\ new.at = at /\ new.c = c
  <2> HIDE DEF at
  <2> QED BY <1>1, <1>3, MoveType DEF Live, Ended
<1>5. new.at \notin InSpan /\ new.at \notin {"idle", "build"}
  BY <1>3, <1>4 DEF InSpan, InTmp
<1>6. CASE tmp[f] = 0
  <2>1. UNCHANGED <<fileVars, wanted, clashed, mixed>>
    BY <1>6 DEF Rename, fileVars
  <2> HIDE DEF new, at, f
  <2> QED BY <1>1, <1>2, <1>4, <1>5, <2>1, FilesStay
<1>7. CASE tmp[f] # 0
  <2>1. /\ doc' = [doc EXCEPT ![f] = tmp[f]] /\ tmp' = [tmp EXCEPT ![f] = 0]
        /\ wanted' = [wanted EXCEPT ![f] = Changed(c, @)]
        /\ UNCHANGED <<inode, mixed, clashed>>
    BY <1>7 DEF Rename
  <2> HIDE DEF new, at
  <2>2. /\ cmd' \in [Cli -> CmdRec] /\ cmd'[p] = new
        /\ \A q \in Cli \ {p} : cmd'[q] = cmd[q]
    BY <1>2, <1>4, CmdUpdate DEF FilesInv
  <2>3. /\ \A g \in File : doc'[g] = IF g = f THEN tmp[f] ELSE doc[g]
        /\ \A g \in File : tmp'[g] = IF g = f THEN 0 ELSE tmp[g]
        /\ \A g \in File : wanted'[g] = IF g = f THEN Changed(c, wanted[f]) ELSE wanted[g]
    BY <1>1, <2>1 DEF FilesInv, TypeInv
  <2>4. new.at \notin InTmp
    BY <1>5 DEF InSpan
  <2>5. f \notin clashed => inode[tmp[f]] = cmd[p].recs
    <3>1. p \in Spanning(f, InTmp) /\ ~At(p, "write")
      BY <1>1 DEF Spanning, InTmp, At
    <3> QED BY <1>1, <3>1 DEF FilesInv, WriterInv
  <2>6. f \notin clashed \cup mixed => cmd[p].recs = Changed(c, wanted[f])
    <3>1. p \in Spanning(f, InSpan)
      BY <1>1 DEF Spanning, InSpan, InTmp
    <3> QED BY <1>1, <3>1 DEF FilesInv, SpanInv
  <2>7. \A g : \A sts \in {InTmp, InSpan} : \A q \in Spanning(g, sts)' :
          q \in Spanning(g, sts) /\ q # p /\ cmd'[q] = cmd[q]
    BY <1>5, <2>2, <2>4 DEF Spanning, Target, OpOf
  <2>8. TypeInv'
    <3>1. wanted' \in [File -> SUBSET Record]
      <4>1. Changed(c, wanted[f]) \in SUBSET Record
        BY <1>1, ChangedType DEF FilesInv, TypeInv
      <4> QED BY <1>1, <2>1, <4>1 DEF FilesInv, TypeInv
    <3>2. doc' \in [File -> 0..Len(inode)] /\ tmp' \in [File -> 0..Len(inode)]
      BY <1>1, <2>1, LenProperties DEF FilesInv, TypeInv
    <3> QED BY <1>1, <1>4, <1>5, <2>1, <2>2, <2>4, <3>1, <3>2, ZenonT(60) DEF FilesInv, TypeInv, At
  <2>9. InodeInv'
    <3>1. \A g \in File : tmp'[g] # 0 => tmp'[g] # doc'[g]
      BY <2>3 DEF FilesInv, InodeInv
    <3>2. \A g, h \in File : g # h =>
            /\ tmp'[g] # 0 => tmp'[g] # tmp'[h] /\ tmp'[g] # doc'[h]
            /\ doc'[g] # 0 => doc'[g] # doc'[h]
      BY <1>1, <1>7, <2>3 DEF FilesInv, InodeInv
    <3>3. ASSUME NEW q \in Cli, cmd'[q].at \in InTmp, NEW g \in File \ {Target(q)'}
          PROVE  cmd'[q].fd \notin {tmp'[g], doc'[g]}
      <4>1. q # p /\ cmd'[q] = cmd[q] /\ g \in File \ {Target(q)}
        BY <2>2, <2>4, <3>3 DEF Target, OpOf
      <4>2. cmd[q].fd \notin {tmp[g], doc[g]} /\ cmd[q].fd \in 1..Len(inode)
        BY <3>3, <4>1 DEF FilesInv, InodeInv, TypeInv
      <4>3. cmd[q].fd # 0
        BY <4>2, LenProperties DEF FilesInv, TypeInv
      <4> QED BY <2>3, <4>1, <4>2, <4>3
    <3> QED BY <3>1, <3>2, <3>3 DEF InodeInv
  <2>10. WriterInv'
    <3> SUFFICES ASSUME NEW g \in File \ clashed
                 PROVE  /\ \A q, r \in Spanning(g, InTmp)' : q = r
                        /\ \A q \in Spanning(g, InTmp)' :
                              /\ cmd'[q].fd = tmp'[g]
                              /\ inode'[tmp'[g]] = IF cmd'[q].at = "write" THEN Torn
                                                   ELSE cmd'[q].recs
      BY <2>1 DEF WriterInv, At
    <3>1. \A q, r \in Spanning(g, InTmp) : q = r
      BY DEF FilesInv, WriterInv
    <3>2. CASE g = f
      <4>1. p \in Spanning(g, InTmp)
        BY <1>1, <3>2 DEF Spanning, InTmp
      <4> QED BY <2>7, <3>1, <4>1
    <3>3. CASE g # f
      <4>1. tmp'[g] = tmp[g]
        BY <2>3, <3>3
      <4> QED BY <2>1, <2>7, <3>1, <4>1 DEF FilesInv, WriterInv, At
    <3> QED BY <3>2, <3>3
  <2>11. SpanInv'
    <3> SUFFICES ASSUME NEW g \in File \ (mixed \cup clashed)
                 PROVE  /\ \A q, r \in Spanning(g, InSpan)' : q = r
                        /\ \A q \in Spanning(g, InSpan)' :
                              cmd'[q].recs = Changed(cmd'[q].c, wanted'[g])
      BY <2>1 DEF SpanInv
    <3>1. \A q, r \in Spanning(g, InSpan) : q = r
      BY DEF FilesInv, SpanInv
    <3>2. CASE g = f
      <4>1. p \in Spanning(g, InSpan)
        BY <1>1, <3>2 DEF Spanning, InSpan, InTmp
      <4> QED BY <2>7, <3>1, <4>1
    <3>3. CASE g # f
      <4>1. wanted'[g] = wanted[g]
        BY <2>3, <3>3
      <4> QED BY <2>7, <3>1, <4>1 DEF FilesInv, SpanInv
    <3> QED BY <3>2, <3>3
  <2>12. CommandsKept'
    <3> SUFFICES ASSUME NEW g \in File \ clashed
                 PROVE  /\ doc'[g] # 0 => inode[doc'[g]] # Torn
                        /\ g \notin mixed => load(g)' = wanted'[g]
      BY <2>1 DEF CommandsKept
    <3>1. CASE g = f
      <4>1. cmd[p].recs \in SUBSET Record /\ cmd[p].recs # Torn
        BY <1>1, ValueAssumption DEF CmdRec
      <4>2. doc'[g] = tmp[f] /\ inode[doc'[g]] = cmd[p].recs
        BY <2>3, <2>5, <3>1
      <4>3. load(g)' = cmd[p].recs
        BY <1>7, <2>1, <4>1, <4>2 DEF load
      <4> QED BY <2>3, <2>6, <3>1, <4>1, <4>2, <4>3
    <3>2. CASE g # f
      <4>1. doc'[g] = doc[g] /\ wanted'[g] = wanted[g] /\ load(g)' = load(g)
        BY <2>1, <2>3, <3>2 DEF load
      <4> QED BY <4>1 DEF FilesInv, CommandsKept
    <3> QED BY <3>1, <3>2
  <2> QED BY <2>8, <2>9, <2>10, <2>11, <2>12 DEF FilesInv
<1> QED BY <1>6, <1>7

\* A process that goes on outside load ... rename, or is killed.
LEMMA FilesMove ==
    ASSUME FilesInv, UNCHANGED <<fileVars, history>>, NEW p \in Cli, ~At(p, "idle"),
           NEW a \in {"load", "done", "failed"}, cmd' = [cmd EXCEPT ![p].at = a]
    PROVE  FilesInv'
<1> DEFINE new == [cmd[p] EXCEPT !.at = a]
<1>1. cmd[p] \in CmdRec /\ cmd[p].c \in Command
  BY TargetType DEF FilesInv
<1>2. new \in CmdRec /\ new.at = a /\ new.c = cmd[p].c
  BY <1>1, MoveType DEF Live, Ended
<1>3. cmd' = [cmd EXCEPT ![p] = new]
  BY <1>1 DEF FilesInv, TypeInv
<1>4. new.at \notin InSpan
  BY <1>2 DEF InSpan, InTmp
<1> HIDE DEF new
<1> QED BY <1>1, <1>2, <1>3, <1>4, FilesStay DEF history

\* A command that is typed.
LEMMA FilesType ==
    ASSUME FilesInv, NEW p \in Cli, NEW c \in Command, Type(p, c)
    PROVE  FilesInv'
<1> DEFINE a == FirstStep(c.op)
           new == [cmd[p] EXCEPT !.c = c, !.at = a]
<1>1. cmd[p] \in CmdRec
  BY TargetType DEF FilesInv
<1>2. a \in {"build", "check", "load"} /\ (a = "build" => c.op = "add")
  BY CommandAssumption DEF FirstStep
<1> HIDE DEF a
<1>3. new \in CmdRec /\ new.at = a /\ new.c = c
  BY <1>1, <1>2 DEF CmdRec, Live
<1>4. cmd' = [cmd EXCEPT ![p] = new]
  BY <1>1 DEF Type, FilesInv, TypeInv, a
<1>5. new.at \notin InSpan
  BY <1>2, <1>3 DEF InSpan, InTmp
<1>6. UNCHANGED <<fileVars, history>>
  BY DEF Type
<1> HIDE DEF new
<1> QED BY <1>2, <1>3, <1>4, <1>5, <1>6, FilesStay DEF history

\* The daemon changes no document.
LEMMA FilesDaemon ==
    ASSUME FilesInv, UNCHANGED <<fileVars, cmd, history>>
    PROVE  FilesInv'
<1>1. UNCHANGED <<inode, doc, tmp, cmd, wanted, mixed, clashed>>
  BY DEF fileVars, history
<1>2. TypeInv'
  BY <1>1 DEF FilesInv, TypeInv, At
<1>3. InodeInv'
  BY <1>1 DEF FilesInv, InodeInv, Target, OpOf
<1>4. \A f, sts : Spanning(f, sts)' = Spanning(f, sts)
  BY <1>1 DEF Spanning, Target, OpOf
<1>5. WriterInv' /\ SpanInv'
  BY <1>1, <1>4 DEF FilesInv, WriterInv, SpanInv, At
<1>6. CommandsKept'
  BY <1>1 DEF FilesInv, CommandsKept, load
<1> QED BY <1>2, <1>3, <1>5, <1>6 DEF FilesInv

\* Every step keeps FilesInv.
LEMMA FilesStep ==
    ASSUME FilesInv, [Next]_vars
    PROVE  FilesInv'
<1>1. ASSUME DaemonNext \/ UNCHANGED vars PROVE FilesInv'
  <2>1. UNCHANGED <<fileVars, cmd, history>>
    BY <1>1 DEF DaemonNext, StartDaemon, WatchStart, WatchSkip, WatchOpen, WatchSpawn,
                WatchStore, JobBuilds, JobFails, JobOpens, JobStores, vars
  <2> QED BY <2>1, FilesDaemon
<1>2. ASSUME NEW p \in Cli, CliNext(p) PROVE FilesInv'
  <2>1. ASSUME NEW c \in Command, Type(p, c) PROVE FilesInv'
    BY <2>1, FilesType
  <2>2. ASSUME EnsureDefaultRoot(p) PROVE FilesInv'
    <3> DEFINE a == IF load("dbs") = {} THEN "load" ELSE "done"
    <3>1. a \in {"load", "done", "failed"} /\ ~At(p, "idle")
      BY <2>2 DEF EnsureDefaultRoot, At
    <3>2. cmd' = [cmd EXCEPT ![p].at = a] /\ UNCHANGED <<fileVars, history>>
      BY <2>2 DEF EnsureDefaultRoot
    <3> HIDE DEF a
    <3> QED BY <3>1, <3>2, FilesMove
  <2>3. ASSUME AddBuilds(p) PROVE FilesInv'
    BY <2>3, FilesMove DEF AddBuilds, At
  <2>4. ASSUME RemoveDir(p) PROVE FilesInv'
    BY <2>4, FilesMove DEF RemoveDir, At
  <2>5. ASSUME KillCli(p) PROVE FilesInv'
    BY <2>5, FilesMove DEF KillCli, At
  <2> QED BY <1>2, <2>1, <2>2, <2>3, <2>4, <2>5, FilesLoad, FilesCreate, FilesWrite,
             FilesRename DEF CliNext
<1> QED BY <1>1, <1>2 DEF Next

\* FilesInv holds at the start, whatever was registered before.
LEMMA FilesInit == Init => FilesInv
<1> SUFFICES ASSUME Init PROVE FilesInv
  OBVIOUS
<1>1. PICK recs \in SUBSET Db :
        /\ inode = <<recs>>
        /\ wanted = [f \in File |-> IF f = "dbs" THEN recs ELSE {}]
        /\ \E i \in IF recs = {} THEN {0, 1} ELSE {1} :
              doc = [f \in File |-> IF f = "dbs" THEN i ELSE 0]
  BY DEF Init
<1>2. PICK i \in IF recs = {} THEN {0, 1} ELSE {1} :
        doc = [f \in File |-> IF f = "dbs" THEN i ELSE 0]
  BY <1>1
<1>3. recs \in SUBSET Record /\ recs # Torn
  BY ValueAssumption DEF Record
<1>4. inode \in Seq(Contents) /\ Len(inode) = 1 /\ inode[1] = recs
  BY <1>1, <1>3 DEF Contents
<1>5. tmp = [f \in File |-> 0] /\ cmd = [p \in Cli |-> Idle] /\ mixed = {} /\ clashed = {}
  BY DEF Init
<1>6. Idle \in CmdRec /\ Idle.at = "idle"
  BY DEF Idle, CmdRec
<1>7. \A p \in Cli : cmd[p].at = "idle"
  BY <1>5, <1>6
<1>8. TypeInv
  <2>1. i \in 0..Len(inode) /\ 0 \in 0..Len(inode)
    BY <1>2, <1>4
  <2>2. doc \in [File -> 0..Len(inode)] /\ tmp \in [File -> 0..Len(inode)]
    BY <1>2, <1>5, <2>1
  <2>3. wanted \in [File -> SUBSET Record]
    BY <1>1, <1>3
  <2> QED BY <1>4, <1>5, <1>6, <1>7, <2>2, <2>3 DEF TypeInv, At, InTmp
<1>9. InodeInv
  BY <1>2, <1>5, <1>7 DEF InodeInv, InTmp, File
<1>10. WriterInv /\ SpanInv
  BY <1>7 DEF WriterInv, SpanInv, Spanning, InTmp, InSpan
<1>11. CommandsKept
  BY <1>1, <1>2, <1>3, <1>4 DEF CommandsKept, load, File
<1> QED BY <1>8, <1>9, <1>10, <1>11 DEF FilesInv

-----------------------------------------------------------------------------
(* The daemon's set *)

\* A set of natural numbers has a least element.
LEMMA LeastNatural ==
    ASSUME NEW T \in SUBSET Nat, T # {}
    PROVE  \E x \in T : \A y \in T : x <= y
<1>1. PICK x \in T : \A y \in T : ~(<<y, x>> \in OpToRel(<, Nat))
  BY NatLessThanWellFounded, WFMin
<1>2. \A y \in T : ~(y < x)
  BY <1>1 DEF OpToRel
<1>3. \A y \in T : x <= y
  BY <1>2
<1> QED BY <1>3

\* Max is what it says on a bounded set.
LEMMA MaxIsGreatest ==
    ASSUME NEW n \in Nat, NEW T \in SUBSET (1..n), T # {}
    PROVE  Max(T) \in T /\ \A y \in T : y <= Max(T)
<1> DEFINE U == {k \in Nat : n - k \in T}
<1>0. \A y \in T : y \in Nat /\ y <= n
  OBVIOUS
<1>1. \A y \in T : n - y \in U
  <2> TAKE y \in T
  <2>1. n - y \in Nat /\ n - (n - y) = y
    BY <1>0
  <2> QED BY <2>1
<1>2. PICK x \in U : \A y \in U : x <= y
  <2>1. U \in SUBSET Nat /\ U # {}
    BY <1>1
  <2> HIDE DEF U
  <2> QED BY <2>1, LeastNatural
<1>3. n - x \in T /\ x \in Nat
  OBVIOUS
<1>4. \A y \in T : n - x >= y
  <2> TAKE y \in T
  <2>1. x <= n - y
    BY <1>1, <1>2
  <2> QED BY <1>0, <1>3, <2>1
<1>5. \E z \in T : \A y \in T : z >= y
  BY <1>3, <1>4
<1>6. Max(T) \in T /\ \A y \in T : Max(T) >= y
  BY <1>5 DEF Max
<1> QED BY <1>0, <1>6

\* A `db add` of d that will still rename, or never will.
Waits(d) == Abandoned(d) \/ Adding(d)
Waiting == {"load", "failed"} \cup InSpan

\* A `db add` under way ends in a rename or as failed.
LEMMA WaitersStay ==
    ASSUME TypeInv, NEW p \in Cli, NEW new \in CmdRec, cmd' = [cmd EXCEPT ![p] = new],
           ~At(p, "idle") => new.c = cmd[p].c,
           cmd[p].at \in Waiting /\ cmd[p].c.op = "add" => new.at \in Waiting
    PROVE  \A d : Waits(d) => Waits(d)'
<1>1. /\ cmd'[p] = new /\ \A q \in Cli \ {p} : cmd'[q] = cmd[q]
  BY CmdUpdate
<1>2. \A d : Waits(d) <=> \E q \in Cli : /\ cmd[q].at \in Waiting
                                         /\ cmd[q].c.op = "add" /\ cmd[q].c.arg = d
  BY DEF Waits, Abandoned, Adding, Waiting, At
<1>3. \A d : Waits(d)' <=> \E q \in Cli : /\ cmd'[q].at \in Waiting
                                          /\ cmd'[q].c.op = "add" /\ cmd'[q].c.arg = d
  BY DEF Waits, Abandoned, Adding, Waiting, At
<1>4. "idle" \notin Waiting
  BY DEF Waiting, InSpan, InTmp
<1>5. ASSUME NEW d, Waits(d) PROVE Waits(d)'
  <2>1. PICK q \in Cli : cmd[q].at \in Waiting /\ cmd[q].c.op = "add" /\ cmd[q].c.arg = d
    BY <1>2, <1>5
  <2>2. cmd'[q].at \in Waiting /\ cmd'[q].c.op = "add" /\ cmd'[q].c.arg = d
    BY <1>1, <1>4, <2>1 DEF At
  <2> QED BY <1>3, <2>2
<1> QED BY <1>5

\* Steps of a command that touch neither the documents nor the daemon.
LEMMA ServedQuiet ==
    ASSUME ServedInv, UNCHANGED <<fileVars, daemonVars, watchVars>>,
           \A d : Waits(d) => Waits(d)',
           \A d \in built' : d \in built \/ Waits(d)'
    PROVE  ServedInv'
<1>1. UNCHANGED <<inode, doc, served, held, job, starts, watch, changed, newer, behind>>
  BY DEF fileVars, daemonVars, watchVars
<1>2. Latest' = Latest /\ load("dbs")' = load("dbs") /\ (Pending' <=> Pending)
      /\ (Running' <=> Running)
  BY <1>1 DEF Latest, load, Pending, Running
<1>3. \A d : LatestRight(d) => LatestRight(d)'
  BY <1>1, <1>2 DEF LatestRight, Waits
<1>4. \A d : Waits(d)' => LatestRight(d)'
  BY DEF LatestRight, Waits
<1> QED BY <1>1, <1>2, <1>3, <1>4 DEF ServedInv

\* A change of dbs.toml is pending in the watcher afterwards, or nobody heard of
\* it; other changes of the data directory lose no pending one.
LEMMA ServedEvent ==
    ASSUME ServedInv, NEW dbs \in BOOLEAN, Event(dbs), UNCHANGED <<daemonVars, built>>,
           doc["dbs"] # 0 \/ dbs => doc'["dbs"] # 0,
           ~dbs => load("dbs")' = load("dbs") /\ \A d : Waits(d) => Waits(d)'
    PROVE  ServedInv'
<1>1. UNCHANGED <<served, held, job, starts, built>>
  BY DEF daemonVars
<1>2. /\ watch' = IF watch = "off" THEN "off" ELSE "event"
      /\ changed' = (changed \/ dbs)
      /\ newer' = (IF dbs /\ Running /\ watch = "off" THEN <<>> ELSE newer)
      /\ behind' = ((dbs /\ Running /\ watch = "off") \/ behind)
  BY DEF Event
<1>3. Running' <=> Running
  BY <1>1 DEF Running
<1>4. newer' \in Seq(Holder) /\ \A k \in 1..Len(newer') : held'[newer'[k]] # NoValue
  BY <1>1, <1>2, EmptySeq DEF ServedInv
<1>5. ASSUME Running', behind' => newer' # <<>>, NEW d \in built
      PROVE  LatestRight(d)'
  <2>1. CASE dbs
    <3>1. watch # "off"
      BY <1>2, <1>3, <1>5, <2>1
    <3>2. Pending'
      BY <1>2, <2>1, <3>1 DEF Pending
    <3> QED BY <3>2 DEF LatestRight
  <2>2. CASE ~dbs
    <3>1. /\ newer' = newer /\ (behind' <=> behind) /\ (changed' <=> changed)
          /\ (watch = "event" => watch' = "event")
      BY <1>2, <2>2
    <3>2. Latest' = Latest /\ (Pending => Pending')
      BY <1>1, <3>1 DEF Latest, Pending
    <3>3. LatestRight(d)
      BY <1>3, <1>5, <3>1 DEF ServedInv
    <3> QED BY <1>1, <2>2, <3>2, <3>3 DEF LatestRight, Waits
  <2> QED BY <2>1, <2>2
<1> QED BY <1>1, <1>4, <1>5 DEF ServedInv

\* A set that is opened is right about every database that has an index.
LEMMA ServedOpens ==
    ASSUME TypeInv, ServedInv, NEW h \in Holder, Opens(h),
           UNCHANGED <<fileVars, built>>,
           job' \in [Db -> {"none", "build", "open", "store"}],
           \A d \in Db : held'[d] # NoValue => job'[d] = "store"
    PROVE  ServedInv'
<1>1. DbSetOpen \in SUBSET Record /\ DbSetOpen # NoValue
  BY LoadType, ValueAssumption DEF DbSetOpen, File
<1>2. /\ held' = [held EXCEPT ![h] = DbSetOpen] /\ newer' = Append(newer, h)
      /\ UNCHANGED <<inode, doc, built>>
  BY DEF Opens, fileVars
<1>3. held' \in [Holder -> {NoValue} \cup (SUBSET Record)]
  BY <1>1, <1>2 DEF ServedInv
<1>4. /\ newer' \in Seq(Holder) /\ newer' # <<>> /\ Len(newer') = Len(newer) + 1
      /\ Len(newer) \in Nat
      /\ \A k \in 1..Len(newer) : newer'[k] = newer[k]
      /\ newer'[Len(newer')] = h
  BY <1>2, AppendProperties, LenProperties DEF ServedInv
<1>5. held'[h] = DbSetOpen
  BY <1>2 DEF ServedInv
<1>6. \A k \in 1..Len(newer') : held'[newer'[k]] # NoValue
  <2> TAKE k \in 1..Len(newer')
  <2>1. CASE k = Len(newer')
    BY <1>1, <1>4, <1>5, <2>1
  <2>2. CASE k # Len(newer')
    <3>1. k \in 1..Len(newer) /\ newer'[k] = newer[k]
      BY <1>4, <2>2
    <3>2. newer[k] \in Holder /\ held[newer[k]] # NoValue
      BY <3>1, ElementOfSeq DEF ServedInv
    <3> QED BY <1>1, <1>2, <3>1, <3>2 DEF ServedInv
  <2> QED BY <2>1, <2>2
<1>7. Latest' = DbSetOpen
  BY <1>4, <1>5 DEF Latest
<1>8. load("dbs")' = load("dbs")
  BY <1>2 DEF load
<1>9. \A d \in built' : LatestRight(d)'
  BY <1>2, <1>7, <1>8 DEF LatestRight, DbSetOpen
<1> QED BY <1>3, <1>4, <1>6, <1>9 DEF ServedInv

\* A set that is stored: if it is one of the newer ones the newest stays the
\* newest, else the daemon is behind.
LEMMA ServedStores ==
    ASSUME TypeInv, ServedInv, NEW h \in Holder, Stores(h),
           UNCHANGED <<fileVars, cmd, built, watch, changed, starts>>,
           job' \in [Db -> {"none", "build", "open", "store"}],
           \A d \in Db : job[d] = "open" => job'[d] = "open",
           \A d \in Db \ {h} : job[d] = "store" => job'[d] = "store"
    PROVE  ServedInv'
<1> DEFINE at == {k \in DOMAIN newer : newer[k] = h}
           n == Len(newer)
<1>1. /\ served' = held[h] /\ held' = [held EXCEPT ![h] = NoValue]
      /\ behind' = (at = {})
      /\ newer' = IF at = {} THEN newer ELSE SubSeq(newer, Max(at) + 1, n)
      /\ UNCHANGED <<inode, doc, cmd, built, watch, changed, starts>>
  BY DEF Stores, fileVars
<1>2. /\ newer \in Seq(Holder) /\ n \in Nat /\ DOMAIN newer = 1..n
      /\ \A k \in 1..n : newer[k] \in Holder /\ held[newer[k]] # NoValue
  BY LenProperties, ElementOfSeq DEF ServedInv
<1>3. /\ held' \in [Holder -> {NoValue} \cup (SUBSET Record)] /\ held'[h] = NoValue
      /\ \A g \in Holder \ {h} : held'[g] = held[g]
  BY <1>1 DEF ServedInv
<1>4. \A d \in Db : held'[d] # NoValue => job'[d] = "store"
  BY <1>3 DEF ServedInv, Holder
<1>5. at = {} => newer' = newer /\ \A k \in 1..n : newer[k] # h
  BY <1>1, <1>2
<1>6. at # {} =>
        \E m \in 1..n :
           /\ newer[m] = h /\ newer' \in Seq(Holder) /\ Len(newer') = n - m
           /\ \A k \in 1..(n - m) : newer'[k] = newer[m + k] /\ newer[m + k] # h
  <2> SUFFICES ASSUME at # {}
               PROVE  \E m \in 1..n :
                        /\ newer[m] = h /\ newer' \in Seq(Holder) /\ Len(newer') = n - m
                        /\ \A k \in 1..(n - m) : newer'[k] = newer[m + k] /\ newer[m + k] # h
    OBVIOUS
  <2>1. at \in SUBSET (1..n)
    BY <1>2
  <2>2. Max(at) \in at /\ \A k \in at : k <= Max(at)
    BY <1>2, <2>1, MaxIsGreatest
  <2> DEFINE m == Max(at)
  <2>3. m \in 1..n /\ newer[m] = h
    BY <2>1, <2>2
  <2>4. newer' = SubSeq(newer, m + 1, n)
    BY <1>1
  <2> HIDE DEF m
  <2>5. m + 1 \in Int /\ n \in Int /\ \A k \in (m + 1)..n : newer[k] \in Holder
    BY <1>2, <2>3
  <2>6. /\ newer' \in Seq(Holder)
        /\ Len(newer') = IF m + 1 <= n THEN n - (m + 1) + 1 ELSE 0
        /\ \A k \in 1..(n - (m + 1) + 1) : newer'[k] = newer[(m + 1) + k - 1]
    BY <2>4, <2>5, SubSeqProperties, SMTT(60)
  <2>7. Len(newer') = n - m
    <3>1. n \in Nat /\ m \in Nat /\ m <= n
      BY <1>2, <2>3
    <3> HIDE DEF n
    <3> QED BY <2>6, <3>1
  <2>8. ASSUME NEW k \in 1..(n - m)
        PROVE  newer'[k] = newer[m + k] /\ newer[m + k] # h
    <3>1. k \in 1..(n - (m + 1) + 1) /\ (m + 1) + k - 1 = m + k
      BY <1>2, <2>3
    <3>2. newer'[k] = newer[m + k]
      BY <2>6, <3>1
    <3>3. m + k \in 1..n /\ ~(m + k <= m)
      BY <1>2, <2>3
    <3>4. newer[m + k] # h
      BY <1>2, <2>2, <3>3 DEF m
    <3> QED BY <3>2, <3>4
  <2> QED BY <2>3, <2>6, <2>7, <2>8
<1> HIDE DEF at
<1>7. newer' \in Seq(Holder) /\ \A k \in 1..Len(newer') : held'[newer'[k]] # NoValue
  <2>1. CASE at = {}
    BY <1>2, <1>3, <1>5, <2>1
  <2>2. CASE at # {}
    <3>1. PICK m \in 1..n :
           /\ newer[m] = h /\ newer' \in Seq(Holder) /\ Len(newer') = n - m
           /\ \A k \in 1..(n - m) : newer'[k] = newer[m + k] /\ newer[m + k] # h
      BY <1>6, <2>2
    <3>2. \A k \in 1..(n - m) : m + k \in 1..n
      BY <1>2
    <3> QED BY <1>2, <1>3, <3>1, <3>2
  <2> QED BY <2>1, <2>2
<1>8. ASSUME behind' => newer' # <<>>
      PROVE  newer # <<>> /\ Latest' = Latest
  <2>1. CASE at = {}
    <3>1. newer' = newer /\ newer # <<>>
      BY <1>1, <1>5, <1>8, <2>1
    <3>2. n \in 1..n
      BY <1>2, <3>1, EmptySeq
    <3> QED BY <1>2, <1>3, <1>5, <2>1, <3>1, <3>2 DEF Latest
  <2>2. CASE at # {}
    <3>1. PICK m \in 1..n :
           /\ newer[m] = h /\ newer' \in Seq(Holder) /\ Len(newer') = n - m
           /\ \A k \in 1..(n - m) : newer'[k] = newer[m + k] /\ newer[m + k] # h
      BY <1>6, <2>2
    <3>2. n \in 1..n /\ newer # <<>>
      BY <1>2, <3>1, EmptySeq
    <3>3. CASE m = n
      <4>1. newer' = <<>>
        BY <1>2, <3>1, <3>3, EmptySeq
      <4> QED BY <1>1, <3>1, <3>2, <3>3, <4>1 DEF Latest
    <3>4. CASE m # n
      <4>1. n - m \in 1..(n - m) /\ m + (n - m) = n
        <5>1. n \in Nat /\ m \in Nat /\ m <= n
          BY <1>2
        <5> HIDE DEF n
        <5> QED BY <3>4, <5>1
      <4>2. newer' # <<>> /\ newer'[Len(newer')] = newer[n] /\ newer[n] # h
        BY <1>2, <3>1, <4>1, EmptySeq, SMTT(60)
      <4> QED BY <1>2, <1>3, <3>2, <4>2 DEF Latest
    <3> QED BY <3>3, <3>4
  <2> QED BY <2>1, <2>2
<1>9. ASSUME Running', behind' => newer' # <<>>, NEW d \in built'
      PROVE  LatestRight(d)'
  <2>1. newer # <<>> /\ Latest' = Latest
    BY <1>8, <1>9
  <2>2. LatestRight(d)
    BY <1>1, <1>9, <2>1 DEF ServedInv, Running
  <2>3. load("dbs")' = load("dbs") /\ (Pending' <=> Pending)
        /\ (Abandoned(d)' <=> Abandoned(d)) /\ (Adding(d)' <=> Adding(d))
    BY <1>1 DEF load, Pending, Abandoned, Adding, At
  <2> QED BY <2>1, <2>2, <2>3 DEF LatestRight
<1> QED BY <1>3, <1>4, <1>7, <1>9 DEF ServedInv

\* A command that goes on without touching the documents.
LEMMA ServedMove ==
    ASSUME TypeInv, ServedInv, UNCHANGED <<fileVars, daemonVars, watchVars>>,
           NEW p \in Cli, ~At(p, "idle"),
           NEW a \in {"load", "done", "failed"}, cmd' = [cmd EXCEPT ![p].at = a],
           cmd[p].at \in Waiting => a \in Waiting,
           \A d \in built' : d \in built \/ (a = "load" /\ cmd[p].c.op = "add" /\ cmd[p].c.arg = d)
    PROVE  ServedInv'
<1> DEFINE new == [cmd[p] EXCEPT !.at = a]
<1>1. cmd[p] \in CmdRec
  BY TargetType
<1>2. new \in CmdRec /\ new.at = a /\ new.c = cmd[p].c
  BY <1>1, MoveType DEF Live, Ended
<1>3. cmd' = [cmd EXCEPT ![p] = new]
  BY <1>1 DEF TypeInv
<1> HIDE DEF new
<1>4. cmd'[p] = new
  BY <1>2, <1>3, CmdUpdate
<1>5. \A d : Waits(d) => Waits(d)'
  BY <1>2, <1>3, WaitersStay
<1>6. \A d \in built' : d \in built \/ Waits(d)'
  BY <1>2, <1>4 DEF Waits, Adding
<1> QED BY <1>5, <1>6, ServedQuiet

\* Load refuses no `db add`.
LEMMA ServedLoad ==
    ASSUME TypeInv, ServedInv, NEW p \in Cli, Load(p)
    PROVE  ServedInv'
<1> DEFINE f == Target(p)
           recs == Changed(cmd[p].c, load(f))
           at == IF Refuses(cmd[p].c, load(f)) THEN "done" ELSE "create"
           new == [cmd[p] EXCEPT !.recs = recs, !.at = at]
<1>1. f \in File /\ cmd[p].c \in Command /\ cmd[p] \in CmdRec /\ load(f) \in SUBSET Record
  BY TargetType, LoadType DEF Load, At
<1>2. recs \in SUBSET Record
  BY <1>1, ChangedType
<1>3. cmd' = [cmd EXCEPT ![p] = new]
  BY <1>1 DEF Load, TypeInv
<1>4. at \in {"done", "create"} /\ (cmd[p].c.op = "add" => at = "create")
  BY DEF Refuses
<1>5. new \in CmdRec /\ new.at = at /\ new.c = cmd[p].c
  BY <1>1, <1>2, <1>4 DEF CmdRec, Live, InSpan, Ended
<1> HIDE DEF at, new
<1>6. \A d : Waits(d) => Waits(d)'
  BY <1>3, <1>4, <1>5, WaitersStay DEF Waiting, InSpan
<1>7. UNCHANGED <<fileVars, daemonVars, watchVars, built>>
  BY DEF Load
<1> QED BY <1>6, <1>7, ServedQuiet

\* Create tells the watcher, and leaves dbs.toml as it was if it is not its inode.
LEMMA ServedCreate ==
    ASSUME TypeInv, ServedInv, NEW p \in Cli, Create(p)
    PROVE  ServedInv'
<1> DEFINE f == Target(p)
           n == Len(inode)
           i == IF tmp[f] = 0 THEN n + 1 ELSE tmp[f]
           new == [cmd[p] EXCEPT !.fd = i, !.at = "write"]
           dbs == i = doc["dbs"]
<1>1. f \in File /\ cmd[p] \in CmdRec /\ cmd[p].at = "create"
  BY TargetType DEF Create, At
<1>2. n \in Nat /\ tmp[f] \in 0..n /\ doc["dbs"] \in 0..n
  BY <1>1, LenProperties DEF TypeInv, File
<1>3. i \in Nat /\ i # 0
  BY <1>2
<1>4. cmd' = [cmd EXCEPT ![p] = new]
  BY <1>1 DEF Create, TypeInv
<1>5. new \in CmdRec /\ new.at = "write" /\ new.c = cmd[p].c
  BY <1>1, <1>3 DEF CmdRec, Live, InSpan, InTmp
<1>6. \A j \in 1..n : j # i => inode'[j] = inode[j]
  BY CreateInode
<1>7. Event(dbs) /\ doc' = doc /\ UNCHANGED <<daemonVars, built>>
  BY DEF Create
<1>8. dbs \in BOOLEAN
  OBVIOUS
<1> HIDE DEF new
<1>9. \A d : Waits(d) => Waits(d)'
  BY <1>4, <1>5, WaitersStay DEF Waiting, InSpan, InTmp
<1>10. ~dbs => load("dbs")' = load("dbs")
  <2> SUFFICES ASSUME ~dbs PROVE load("dbs")' = load("dbs")
    OBVIOUS
  <2>1. doc["dbs"] # 0 => inode'[doc["dbs"]] = inode[doc["dbs"]]
    BY <1>2, <1>6
  <2> QED BY <1>7, <2>1 DEF load
<1>11. doc["dbs"] # 0 \/ dbs => doc'["dbs"] # 0
  BY <1>3, <1>7
<1> HIDE DEF dbs
<1> QED BY <1>7, <1>8, <1>9, <1>10, <1>11, ServedEvent

\* Write tells the watcher, also when its handle is on dbs.toml by now.
LEMMA ServedWrite ==
    ASSUME TypeInv, ServedInv, NEW p \in Cli, Write(p)
    PROVE  ServedInv'
<1> DEFINE i == cmd[p].fd
           new == [cmd[p] EXCEPT !.at = "rename"]
           dbs == i = doc["dbs"]
<1>1. cmd[p] \in CmdRec /\ cmd[p].at = "write"
  BY TargetType DEF Write, At
<1>2. i \in 1..Len(inode) /\ i # 0
  BY <1>1, LenProperties DEF TypeInv, InTmp
<1>3. cmd' = [cmd EXCEPT ![p] = new]
  BY <1>1 DEF Write, TypeInv
<1>4. new \in CmdRec /\ new.at = "rename" /\ new.c = cmd[p].c
  BY <1>1, MoveType DEF Live, InSpan, InTmp
<1>5. PICK text : inode' = [inode EXCEPT ![i] = text]
  BY DEF Write
<1>6. Event(dbs) /\ doc' = doc /\ UNCHANGED <<daemonVars, built>>
  BY DEF Write
<1>7. dbs \in BOOLEAN
  OBVIOUS
<1> HIDE DEF new
<1>8. \A d : Waits(d) => Waits(d)'
  BY <1>3, <1>4, WaitersStay DEF Waiting, InSpan, InTmp
<1>9. ~dbs => load("dbs")' = load("dbs")
  <2> SUFFICES ASSUME ~dbs PROVE load("dbs")' = load("dbs")
    OBVIOUS
  <2>1. doc["dbs"] # 0 => inode'[doc["dbs"]] = inode[doc["dbs"]]
    BY <1>5, LenProperties DEF TypeInv
  <2> QED BY <1>6, <2>1 DEF load
<1>10. doc["dbs"] # 0 \/ dbs => doc'["dbs"] # 0
  BY <1>2, <1>6
<1> HIDE DEF dbs
<1> QED BY <1>6, <1>7, <1>8, <1>9, <1>10, ServedEvent

\* Rename over dbs.toml tells the watcher; a `db add` whose .tmp is gone fails.
LEMMA ServedRename ==
    ASSUME TypeInv, ServedInv, NEW p \in Cli, Rename(p)
    PROVE  ServedInv'
<1> DEFINE f == Target(p)
           at == IF OpOf(p) = "remove" THEN "delete"
                 ELSE IF tmp[f] = 0 THEN "failed" ELSE "done"
           new == [cmd[p] EXCEPT !.at = at]
           dbs == f = "dbs"
<1>1. f \in File /\ cmd[p] \in CmdRec /\ cmd[p].at = "rename"
  BY TargetType DEF Rename, CanRename, At
<1>2. cmd' = [cmd EXCEPT ![p] = new]
  BY <1>1 DEF Rename, TypeInv
<1>3. at \in {"delete", "failed", "done"}
  OBVIOUS
<1>4. cmd[p].c.op = "add" => dbs /\ (tmp[f] = 0 => at = "failed")
  BY DEF OpOf, Target, FileOf
<1>5. new \in CmdRec /\ new.at = at /\ new.c = cmd[p].c
  <2> HIDE DEF at
  <2> QED BY <1>1, <1>3, MoveType DEF Live, Ended
<1>6. UNCHANGED <<inode, daemonVars, built>> /\ dbs \in BOOLEAN
  BY DEF Rename
<1>7. CASE tmp[f] = 0
  <2>1. UNCHANGED <<fileVars, watchVars>>
    BY <1>7 DEF Rename, fileVars
  <2>2. cmd[p].c.op = "add" => new.at \in Waiting
    BY <1>4, <1>5, <1>7 DEF Waiting
  <2> HIDE DEF new, at
  <2>3. \A d : Waits(d) => Waits(d)'
    BY <1>2, <1>5, <2>2, WaitersStay
  <2> QED BY <1>6, <2>1, <2>3, ServedQuiet
<1>8. CASE tmp[f] # 0
  <2>1. doc' = [doc EXCEPT ![f] = tmp[f]] /\ Event(dbs)
    BY <1>8 DEF Rename
  <2>2. doc'["dbs"] = IF dbs THEN tmp[f] ELSE doc["dbs"]
    BY <1>1, <2>1 DEF TypeInv, File
  <2>3. ~dbs => load("dbs")' = load("dbs")
    BY <1>6, <2>2 DEF load
  <2> HIDE DEF new, at
  <2>4. ~dbs => \A d : Waits(d) => Waits(d)'
    BY <1>2, <1>4, <1>5, WaitersStay
  <2>5. doc["dbs"] # 0 \/ dbs => doc'["dbs"] # 0
    BY <1>8, <2>2
  <2> HIDE DEF dbs
  <2> QED BY <1>6, <2>1, <2>3, <2>4, <2>5, ServedEvent
<1> QED BY <1>7, <1>8

\* A command that is typed changes nothing the daemon looks at.
LEMMA ServedType ==
    ASSUME TypeInv, ServedInv, NEW p \in Cli, NEW c \in Command, Type(p, c)
    PROVE  ServedInv'
<1> DEFINE a == FirstStep(c.op)
           new == [cmd[p] EXCEPT !.c = c, !.at = a]
<1>1. cmd[p] \in CmdRec /\ At(p, "idle")
  BY TargetType DEF Type
<1>2. a \in {"build", "check", "load"}
  BY DEF FirstStep
<1> HIDE DEF a
<1>3. new \in CmdRec
  BY <1>1, <1>2 DEF CmdRec, Live
<1>4. cmd' = [cmd EXCEPT ![p] = new]
  BY <1>1 DEF Type, TypeInv, a
<1>5. "idle" \notin Waiting
  BY DEF Waiting, InSpan, InTmp
<1> HIDE DEF new
<1>6. \A d : Waits(d) => Waits(d)'
  BY <1>1, <1>3, <1>4, <1>5, WaitersStay DEF At
<1>7. UNCHANGED <<fileVars, daemonVars, watchVars, built>>
  BY DEF Type
<1> QED BY <1>6, <1>7, ServedQuiet

\* The steps of the command lines.
LEMMA ServedCli ==
    ASSUME TypeInv, ServedInv, NEW p \in Cli, CliNext(p)
    PROVE  ServedInv'
<1>1. ASSUME EnsureDefaultRoot(p) PROVE ServedInv'
  <2> DEFINE a == IF load("dbs") = {} THEN "load" ELSE "done"
  <2>1. a \in {"load", "done", "failed"} /\ ~At(p, "idle") /\ cmd[p].at \notin Waiting
    BY <1>1 DEF EnsureDefaultRoot, At, Waiting, InSpan, InTmp
  <2>2. cmd' = [cmd EXCEPT ![p].at = a] /\ UNCHANGED <<fileVars, daemonVars, watchVars, built>>
    BY <1>1 DEF EnsureDefaultRoot
  <2> HIDE DEF a
  <2> QED BY <2>1, <2>2, ServedMove
<1>2. ASSUME AddBuilds(p) PROVE ServedInv'
  <2>1. cmd[p].at = "build" /\ ~At(p, "idle") /\ "build" \notin Waiting
    BY <1>2 DEF AddBuilds, At, Waiting, InSpan, InTmp
  <2>2. cmd[p].c.op = "add"
    BY <2>1 DEF TypeInv, At
  <2> QED BY <1>2, <2>1, <2>2, ServedMove DEF AddBuilds
<1>3. ASSUME RemoveDir(p) PROVE ServedInv'
  <2>1. ~At(p, "idle") /\ cmd[p].at \notin Waiting
    BY <1>3 DEF RemoveDir, At, Waiting, InSpan, InTmp
  <2> QED BY <1>3, <2>1, ServedMove DEF RemoveDir
<1>4. ASSUME KillCli(p) PROVE ServedInv'
  <2>1. ~At(p, "idle") /\ "failed" \in Waiting
    BY <1>4 DEF KillCli, At, Waiting
  <2> QED BY <1>4, <2>1, ServedMove DEF KillCli
<1> QED BY <1>1, <1>2, <1>3, <1>4, ServedType, ServedLoad, ServedCreate, ServedWrite,
           ServedRename DEF CliNext

\* spawn_if_missing starts builds and ends none.
LEMMA SpawnKeeps ==
    ASSUME NEW jobs \in [Db -> {"none", "build", "open", "store"}]
    PROVE  /\ SpawnMissing(jobs) \in [Db -> {"none", "build", "open", "store"}]
           /\ \A d \in Db : jobs[d] \in {"open", "store"} => SpawnMissing(jobs)[d] = jobs[d]
BY DEF SpawnMissing

\* Steps of the daemon that leave the sets alone.
LEMMA ServedJobs ==
    ASSUME ServedInv, UNCHANGED <<fileVars, cmd, served, held, starts, newer, behind>>,
           job' \in [Db -> {"none", "build", "open", "store"}],
           \A d \in Db : job[d] \in {"open", "store"} => job'[d] = job[d],
           \A d \in built' : d \in built \/ (d \in Db /\ job'[d] = "open"),
           Pending => Pending'
    PROVE  ServedInv'
<1>1. UNCHANGED <<inode, doc, cmd, served, held, starts, newer, behind>>
  BY DEF fileVars
<1>2. Latest' = Latest /\ load("dbs")' = load("dbs") /\ (Running' <=> Running)
  BY <1>1 DEF Latest, load, Running
<1>3. \A d : (Abandoned(d)' <=> Abandoned(d)) /\ (Adding(d)' <=> Adding(d))
  BY <1>1 DEF Abandoned, Adding, At
<1>4. \A d : LatestRight(d) => LatestRight(d)'
  BY <1>2, <1>3 DEF LatestRight
<1>5. \A d \in built' : d \in built \/ LatestRight(d)'
  BY DEF LatestRight
<1> QED BY <1>1, <1>2, <1>4, <1>5 DEF ServedInv

\* A start of the daemon opens the registered databases.
LEMMA ServedStart ==
    ASSUME TypeInv, ServedInv, StartDaemon
    PROVE  ServedInv'
<1>1. UNCHANGED <<inode, doc, built>> /\ newer' = <<>> /\ served' = DbSetOpen
  BY DEF StartDaemon, fileVars
<1>2. held' \in [Holder -> {NoValue} \cup (SUBSET Record)] /\ \A h \in Holder : held'[h] = NoValue
  BY DEF StartDaemon, ServedInv
<1>3. job' \in [Db -> {"none", "build", "open", "store"}]
  <2>1. [d \in Db |-> "none"] \in [Db -> {"none", "build", "open", "store"}]
    OBVIOUS
  <2> QED BY <2>1, SpawnKeeps DEF StartDaemon
<1>4. newer' \in Seq(Holder) /\ Len(newer') = 0
  BY <1>1, EmptySeq
<1>5. Latest' = DbSetOpen /\ load("dbs")' = load("dbs")
  BY <1>1 DEF Latest, load
<1>6. \A d \in built' : LatestRight(d)'
  BY <1>1, <1>5 DEF LatestRight, DbSetOpen
<1> QED BY <1>2, <1>3, <1>4, <1>6 DEF ServedInv, Holder

\* The steps of the daemon.
LEMMA ServedDaemon ==
    ASSUME TypeInv, ServedInv, DaemonNext
    PROVE  ServedInv'
<1>0. job \in [Db -> {"none", "build", "open", "store"}]
  BY DEF ServedInv
<1>1. ASSUME WatchStart \/ WatchSkip PROVE ServedInv'
  <2>1. /\ UNCHANGED <<fileVars, cmd, served, held, starts, newer, behind>>
        /\ UNCHANGED <<job, built>>
    BY <1>1 DEF WatchStart, WatchSkip, daemonVars
  <2>2. ~Pending
    BY <1>1 DEF WatchStart, WatchSkip, Pending, Reload
  <2> QED BY <1>0, <2>1, <2>2, ServedJobs
<1>2. ASSUME WatchOpen PROVE ServedInv'
  <2>1. Opens(Watcher) /\ UNCHANGED <<fileVars, built, job>> /\ Watcher \in Holder
    BY <1>2 DEF WatchOpen, Holder
  <2>2. \A d \in Db : held'[d] = held[d]
    BY <2>1, ValueAssumption DEF Opens, ServedInv, Holder
  <2>3. \A d \in Db : held'[d] # NoValue => job'[d] = "store"
    BY <2>1, <2>2 DEF ServedInv
  <2> QED BY <1>0, <2>1, <2>3, ServedOpens
<1>3. ASSUME WatchSpawn PROVE ServedInv'
  <2>1. /\ UNCHANGED <<fileVars, cmd, served, held, starts, newer, behind, built>>
        /\ UNCHANGED <<watch, changed>> /\ job' = SpawnMissing(job)
    BY <1>3 DEF WatchSpawn, watchVars
  <2>2. Pending => Pending'
    BY <2>1 DEF Pending, fileVars
  <2>3. /\ job' \in [Db -> {"none", "build", "open", "store"}]
        /\ \A d \in Db : job[d] \in {"open", "store"} => job'[d] = job[d]
    BY <1>0, <2>1, SpawnKeeps
  <2> QED BY <2>1, <2>2, <2>3, ServedJobs
<1>4. ASSUME WatchStore PROVE ServedInv'
  <2>1. Watcher \in Holder
    BY DEF Holder
  <2> QED BY <1>0, <1>4, <2>1, ServedStores DEF WatchStore
<1>5. ASSUME NEW d \in Db, JobBuilds(d) \/ JobFails(d) PROVE ServedInv'
  <2>1. /\ UNCHANGED <<fileVars, cmd, served, held, starts, newer, behind>>
        /\ UNCHANGED <<watch, changed>> /\ job[d] = "build"
    BY <1>5 DEF JobBuilds, JobFails, watchVars
  <2>2. Pending => Pending'
    BY <2>1 DEF Pending, fileVars
  <2>3. /\ job' \in [Db -> {"none", "build", "open", "store"}]
        /\ \A e \in Db : job[e] \in {"open", "store"} => job'[e] = job[e]
    BY <1>0, <1>5, <2>1 DEF JobBuilds, JobFails
  <2>4. \A e \in built' : e \in built \/ (e \in Db /\ job'[e] = "open")
    BY <1>0, <1>5 DEF JobBuilds, JobFails
  <2> QED BY <2>1, <2>2, <2>3, <2>4, ServedJobs
<1>6. ASSUME NEW d \in Db, JobOpens(d) PROVE ServedInv'
  <2>1. Opens(d) /\ UNCHANGED <<fileVars, built>> /\ job' = [job EXCEPT ![d] = "store"]
        /\ d \in Holder
    BY <1>6 DEF JobOpens, Holder
  <2>2. job' \in [Db -> {"none", "build", "open", "store"}]
    BY <1>0, <2>1
  <2>3. \A e \in Db : held'[e] # NoValue => job'[e] = "store"
    BY <1>0, <2>1 DEF Opens, ServedInv, Holder
  <2> QED BY <2>1, <2>2, <2>3, ServedOpens
<1>7. ASSUME NEW d \in Db, JobStores(d) PROVE ServedInv'
  <2>1. /\ Stores(d) /\ job' = [job EXCEPT ![d] = "none"] /\ job[d] = "store" /\ d \in Holder
        /\ UNCHANGED <<fileVars, cmd, built, watch, changed, starts>>
    BY <1>7 DEF JobStores, Holder
  <2>2. /\ job' \in [Db -> {"none", "build", "open", "store"}]
        /\ \A e \in Db : job[e] = "open" => job'[e] = "open"
        /\ \A e \in Db \ {d} : job[e] = "store" => job'[e] = "store"
    BY <1>0, <2>1
  <2> QED BY <2>1, <2>2, ServedStores
<1> QED BY <1>1, <1>2, <1>3, <1>4, <1>5, <1>6, <1>7, ServedStart DEF DaemonNext

-----------------------------------------------------------------------------
(* The theorems *)

\* The invariant is one of the specification.
THEOREM InvHolds == Spec => []IInv
<1>1. Init => IInv
  <2> SUFFICES ASSUME Init PROVE IInv
    OBVIOUS
  <2>1. newer \in Seq(Holder) /\ Len(newer) = 0 /\ ~Running
    BY EmptySeq DEF Init, Running
  <2>2. held \in [Holder -> {NoValue} \cup (SUBSET Record)] /\ \A h \in Holder : held[h] = NoValue
    BY DEF Init, Holder
  <2>3. job \in [Db -> {"none", "build", "open", "store"}]
    BY DEF Init
  <2>4. ServedInv
    BY <2>1, <2>2, <2>3 DEF ServedInv, Holder
  <2> QED BY <2>4, FilesInit DEF IInv
<1>2. IInv /\ [Next]_vars => IInv'
  <2> SUFFICES ASSUME IInv, [Next]_vars PROVE IInv'
    OBVIOUS
  <2>1. FilesInv'
    BY FilesStep DEF IInv
  <2>2. CASE UNCHANGED vars
    <3>1. /\ UNCHANGED <<fileVars, cmd, served, held, starts, newer, behind>>
          /\ UNCHANGED <<job, built, watch, changed>>
      BY <2>2 DEF vars, daemonVars, watchVars
    <3>2. Pending => Pending'
      BY <3>1 DEF Pending, fileVars
    <3>3. ServedInv
      BY DEF IInv
    <3>4. job \in [Db -> {"none", "build", "open", "store"}]
      BY <3>3 DEF ServedInv
    <3>5. ServedInv'
      BY <3>1, <3>2, <3>3, <3>4, ServedJobs
    <3> QED BY <2>1, <3>5 DEF IInv
  <2>3. CASE Next
    BY <2>1, <2>3, ServedCli, ServedDaemon DEF Next, IInv, FilesInv
  <2> QED BY <2>2, <2>3
<1> QED BY <1>1, <1>2, PTL DEF Spec

\* A document whose .tmp no two commands had open at once always parses, and
\* one that no two commands changed at once has the effect of every committed
\* command, wherever commands are killed.
THEOREM CommandsAreKept == Spec => []CommandsKept
<1>1. IInv => CommandsKept
  BY DEF IInv, FilesInv
<1> QED BY InvHolds, <1>1, PTL

\* Once everything has settled the daemon serves the registered databases that
\* have an index, unless an older set was stored over a newer one or a change
\* came before the watch.
THEOREM ServedIsCurrent == Spec => []ServedCurrent
<1>1. IInv => ServedCurrent
  <2> SUFFICES ASSUME IInv, Quiet, ~behind, NEW d \in built, ~Abandoned(d)
               PROVE  d \in served <=> d \in load("dbs")
    BY DEF ServedCurrent
  <2>1. \A h \in Holder : held[h] = NoValue
    BY DEF Quiet, Holder, IInv, ServedInv
  <2>2. newer = <<>>
    <3>1. newer \in Seq(Holder) /\ \A k \in 1..Len(newer) : held[newer[k]] # NoValue
      BY DEF IInv, ServedInv
    <3>2. ASSUME newer # <<>> PROVE FALSE
      <4>1. 1 \in 1..Len(newer)
        BY <3>1, <3>2, EmptySeq
      <4>2. newer[1] \in Holder
        BY <3>1, <4>1, ElementOfSeq
      <4> QED BY <2>1, <3>1, <4>1, <4>2
    <3> QED BY <3>2
  <2>3. Latest = served
    BY <2>2 DEF Latest
  <2>4. LatestRight(d)
    BY DEF IInv, ServedInv, Quiet
  <2>5. ~Pending /\ ~Adding(d) /\ ~(d \in Db /\ job[d] = "open")
    BY DEF Quiet, Pending, Adding, Ended, InSpan, InTmp
  <2> QED BY <2>3, <2>4, <2>5 DEF LatestRight
<1> QED BY InvHolds, <1>1, PTL
=============================================================================
