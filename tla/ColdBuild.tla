------------------------------ MODULE ColdBuild ------------------------------
(***************************************************************************)
(* build_content_index_with_progress, df-index/src/content_build.rs: the   *)
(* workers of the parallel walk send records over a bounded channel to one *)
(* consumer, which fills the filename builder and the shard builder and    *)
(* flushes shards; the caller then writes index.dfdb and MANIFEST.  One    *)
(* build follows another over the same files; any of them may fail or die. *)
(*                                                                         *)
(* A document is an entry with the number of the build that read it.       *)
(* atomic_write (tmp, fsync, rename) is one step: nobody opens a tmp file. *)
(* A shard is full after FlushDocs documents, the code counts bytes.       *)
(* Files that change during the walk are the business of module Lsm.       *)
(***************************************************************************)
EXTENDS Naturals, Sequences, FiniteSets

CONSTANTS Entry,        \* files and directories, the root among them
          Root,
          Parent,       \* entry -> the directory it is in
          Kind,         \* entry -> what the walk and the text gate make of it
          Trees,        \* the sets of entries a walk may find
          Worker,       \* threads of the parallel walk
          Free,         \* a worker that holds no record
          ChannelCap,   \* CHANNEL_CAP
          FlushDocs,    \* SHARD_FLUSH_BYTES, in documents
          MaxBuilds,    \* bound: builds
          MaxFailures   \* bound: failing writes and ends of the process

\* Directories are entered unless the skip-list or an ignore pattern prunes
\* them; a denied entry is an error of the walk; ignored files are dropped.
Filed == {"dir", "text", "binary", "large", "unreadable"}
Kinds == Filed \cup {"pruned", "ignored", "denied"}

ASSUME TreeAssumption ==
    /\ Kind \in [Entry -> Kinds]
    /\ Parent \in [Entry \ {Root} -> Entry]
    /\ \A t \in Trees : t \subseteq Entry /\ Root \in t
    /\ Free \notin Entry
\* No directory is below itself, and what is found is in a directory that is there.
ASSUME ParentAssumption ==
    /\ \A S \in SUBSET Entry : S # {} => \E e \in S : e = Root \/ Parent[e] \notin S
    /\ \A t \in Trees : \A e \in t \ {Root} : Parent[e] \in t
ASSUME BoundAssumption ==
    /\ {ChannelCap, FlushDocs} \subseteq Nat \ {0}
    /\ {MaxBuilds, MaxFailures} \subseteq Nat

VARIABLES phase,     \* the caller: "idle", "walk", "join", "db", "manifest"
          gen,       \* builds begun
          tree,      \* the entries this build's walk finds
          todo,      \* entries found and not visited yet
          worker,    \* worker -> the entry it is about to send, or Free
          quit,      \* some worker returned WalkState::Quit
          chan,      \* the channel
          consumer,  \* "start", "recv", "flush", "last", "done", "failed"
          fnb,       \* documents in the filename builder
          shard,     \* documents in the shard builder
          entries,   \* shard_entries
          files,     \* shard number -> documents of that shard file
          db,        \* documents of index.dfdb
          manifest,  \* the shard entries MANIFEST lists
          total,     \* its total_content_docs
          built,     \* its build_time: the build that wrote it
          ok,        \* history: the last build returned Ok
          failures

threads == <<todo, worker, quit, chan, consumer, fnb, shard, entries>>
cold == <<files, db, manifest, total, built>>
vars == <<phase, gen, tree, threads, cold, ok, failures>>

Doc(e) == [entry |-> e, gen |-> gen]
HasContent(d) == Kind[d.entry] = "text"

Init == /\ phase = "idle" /\ gen = 0 /\ tree = {} /\ todo = {}
        /\ worker = [w \in Worker |-> Free] /\ quit = FALSE
        /\ chan = <<>> /\ consumer = "done" /\ fnb = {} /\ shard = {}
        /\ entries = <<>> /\ files = <<>> /\ db = {} /\ manifest = <<>> /\ total = 0
        /\ built = 0 /\ ok = FALSE /\ failures = 0

Begin(t) ==
    /\ phase = "idle" /\ gen < MaxBuilds
    /\ phase' = "walk" /\ gen' = gen + 1 /\ tree' = t /\ todo' = {Root}
    /\ quit' = FALSE /\ chan' = <<>> /\ consumer' = "start"
    /\ fnb' = {} /\ shard' = {} /\ entries' = <<>> /\ ok' = FALSE
    /\ UNCHANGED <<worker, cold, failures>>

-----------------------------------------------------------------------------
(* The workers *)

\* The visitor up to its send: filters, metadata, classify.
Visit(w, e) ==
    /\ phase = "walk" /\ ~quit /\ worker[w] = Free /\ e \in todo
    /\ todo' = todo \ {e}
    /\ worker' = IF Kind[e] \in Filed THEN [worker EXCEPT ![w] = e] ELSE worker
    /\ UNCHANGED <<phase, gen, tree, quit, chan, consumer, fnb, shard, entries,
                   cold, ok, failures>>

Sending(w) == worker[w] # Free

\* Mutation: an unbounded channel.
Send_Unbounded(w) ==
    /\ Sending(w) /\ consumer # "failed"
    /\ chan' = Append(chan, Doc(worker[w]))
    /\ todo' = IF Kind[worker[w]] = "dir"
               THEN todo \cup {c \in tree \ {Root} : Parent[c] = worker[w]} ELSE todo
    /\ worker' = [worker EXCEPT ![w] = Free]
    /\ UNCHANGED <<phase, gen, tree, quit, consumer, fnb, shard, entries, cold, ok, failures>>

\* tx.send waits for room; then the walk goes on, below e if e is a directory.
Send(w) ==
    /\ Sending(w) /\ consumer # "failed"
    /\ Len(chan) < ChannelCap
    /\ chan' = Append(chan, Doc(worker[w]))
    /\ todo' = IF Kind[worker[w]] = "dir"
               THEN todo \cup {c \in tree \ {Root} : Parent[c] = worker[w]} ELSE todo
    /\ worker' = [worker EXCEPT ![w] = Free]
    /\ UNCHANGED <<phase, gen, tree, quit, consumer, fnb, shard, entries, cold, ok, failures>>

\* Mutation: the consumer died without dropping its receiver.
SendFails_Blocks(w) ==
    /\ Sending(w) /\ consumer = "failed" /\ Len(chan) < ChannelCap
    /\ chan' = Append(chan, Doc(worker[w]))
    /\ worker' = [worker EXCEPT ![w] = Free]
    /\ UNCHANGED <<phase, gen, tree, todo, quit, consumer, fnb, shard, entries,
                   cold, ok, failures>>

\* The receiver is gone: WalkState::Quit stops every worker.
SendFails(w) ==
    /\ Sending(w) /\ consumer = "failed"
    /\ quit' = TRUE
    /\ worker' = [worker EXCEPT ![w] = Free]
    /\ UNCHANGED <<phase, gen, tree, todo, chan, consumer, fnb, shard, entries,
                   cold, ok, failures>>

\* run() returns when all workers did; drop(tx) closes the channel.
WalkEnds ==
    /\ phase = "walk" /\ (todo = {} \/ quit)
    /\ \A w \in Worker : ~Sending(w)
    /\ phase' = "join"
    /\ UNCHANGED <<gen, tree, threads, cold, ok, failures>>

-----------------------------------------------------------------------------
(* The consumer *)

CreateDir ==
    /\ phase # "idle" /\ consumer = "start"
    /\ consumer' = "recv"
    /\ UNCHANGED <<phase, gen, tree, todo, worker, quit, chan, fnb, shard, entries,
                   cold, ok, failures>>

Recv ==
    /\ consumer = "recv" /\ chan # <<>>
    /\ chan' = Tail(chan)
    /\ fnb' = fnb \cup {Head(chan)}
    /\ shard' = IF HasContent(Head(chan)) THEN shard \cup {Head(chan)} ELSE shard
    /\ consumer' = IF Cardinality(shard') >= FlushDocs THEN "flush" ELSE "recv"
    /\ UNCHANGED <<phase, gen, tree, todo, worker, quit, entries, cold, ok, failures>>

\* Mutation: the final partial shard is not written.
Finalize_DropsPartial ==
    /\ consumer = "recv" /\ chan = <<>> /\ phase = "join"
    /\ consumer' = "done"
    /\ UNCHANGED <<phase, gen, tree, todo, worker, quit, chan, fnb, shard, entries,
                   cold, ok, failures>>

\* recv returns Err: the channel is empty and closed.
Finalize ==
    /\ consumer = "recv" /\ chan = <<>> /\ phase = "join"
    /\ consumer' = IF shard # {} THEN "last" ELSE "done"
    /\ UNCHANGED <<phase, gen, tree, todo, worker, quit, chan, fnb, shard, entries,
                   cold, ok, failures>>

\* base_docid after the shards written so far.
NextBase == IF entries = <<>> THEN 0
            ELSE entries[Len(entries)].base + entries[Len(entries)].num

\* Mutation: base_docid is not advanced.
NextEntry_SameBase == [id |-> Len(entries) + 1, base |-> 0, num |-> Cardinality(shard)]
NextEntry == [id |-> Len(entries) + 1, base |-> NextBase, num |-> Cardinality(shard)]

\* Mutation: the entry is listed under the number of the next shard.
Flush_NextId ==
    /\ consumer \in {"flush", "last"}
    /\ files' = [i \in DOMAIN files \cup {NextEntry.id} |->
                   IF i = NextEntry.id THEN shard ELSE files[i]]
    /\ entries' = Append(entries, [NextEntry EXCEPT !.id = @ + 1])
    /\ shard' = {}
    /\ consumer' = IF consumer = "last" THEN "done" ELSE "recv"
    /\ UNCHANGED <<phase, gen, tree, todo, worker, quit, chan, fnb, db, manifest,
                   total, built, ok, failures>>

\* shard-NNNNN is renamed over the file of that number of an earlier build.
Flush ==
    /\ consumer \in {"flush", "last"}
    /\ files' = [i \in DOMAIN files \cup {NextEntry.id} |->
                   IF i = NextEntry.id THEN shard ELSE files[i]]
    /\ entries' = Append(entries, NextEntry)
    /\ shard' = {}
    /\ consumer' = IF consumer = "last" THEN "done" ELSE "recv"
    /\ UNCHANGED <<phase, gen, tree, todo, worker, quit, chan, fnb, db, manifest,
                   total, built, ok, failures>>

\* create_dir_all or a shard write fails: the thread returns, which drops the
\* receiver and what is in the channel.
ConsumerFails ==
    /\ phase # "idle" /\ consumer \in {"start", "flush", "last"}
    /\ failures < MaxFailures
    /\ failures' = failures + 1
    /\ consumer' = "failed"
    /\ chan' = <<>>
    /\ UNCHANGED <<phase, gen, tree, todo, worker, quit, fnb, shard, entries, cold, ok>>

-----------------------------------------------------------------------------
(* The caller after the walk *)

Join ==
    /\ phase = "join" /\ consumer \in {"done", "failed"}
    /\ phase' = IF consumer = "done" THEN "db" ELSE "idle"
    /\ UNCHANGED <<gen, tree, threads, cold, ok, failures>>

WriteDb ==
    /\ phase = "db"
    /\ db' = fnb
    /\ phase' = "manifest"
    /\ UNCHANGED <<gen, tree, threads, files, manifest, total, built, ok,
                   failures>>

WriteManifest ==
    /\ phase = "manifest"
    /\ manifest' = entries
    /\ total' = Cardinality({d \in fnb : HasContent(d)})
    /\ built' = gen
    /\ phase' = "idle" /\ ok' = TRUE
    /\ UNCHANGED <<gen, tree, threads, files, db, failures>>

\* Writing index.dfdb or MANIFEST fails: the build returns Err.
WriteFails ==
    /\ phase \in {"db", "manifest"}
    /\ failures < MaxFailures
    /\ failures' = failures + 1
    /\ phase' = "idle"
    /\ UNCHANGED <<gen, tree, threads, cold, ok>>

\* The process ends in the middle of a build.
Crash ==
    /\ phase # "idle" /\ failures < MaxFailures
    /\ failures' = failures + 1
    /\ phase' = "idle" /\ consumer' = "done"
    /\ worker' = [w \in Worker |-> Free] /\ todo' = {} /\ chan' = <<>>
    /\ UNCHANGED <<gen, tree, quit, fnb, shard, entries, cold, ok>>

-----------------------------------------------------------------------------
WorkerNext(w) == \/ \E e \in Entry : Visit(w, e)
                 \/ Send(w) \/ SendFails(w)
ConsumerNext == CreateDir \/ Recv \/ Finalize \/ Flush
CallerNext == WalkEnds \/ Join \/ WriteDb \/ WriteManifest

Next == \/ \E t \in Trees : Begin(t)
        \/ \E w \in Worker : WorkerNext(w)
        \/ ConsumerNext \/ ConsumerFails
        \/ CallerNext \/ WriteFails
        \/ Crash

Spec == Init /\ [][Next]_vars

\* Every thread that can go on does.
FairSpec == /\ Spec
            /\ \A w \in Worker : WF_vars(WorkerNext(w))
            /\ WF_vars(ConsumerNext) /\ WF_vars(CallerNext)

-----------------------------------------------------------------------------
(* Properties *)

\* The documents a reader finds: load_shard_set opens the files MANIFEST
\* names, and skips one that is not there.
Loaded(i) == IF manifest[i].id \in DOMAIN files THEN files[manifest[i].id] ELSE {}
load_shard_set == UNION {Loaded(i) : i \in DOMAIN manifest}

Document == [entry : Entry, gen : 1..MaxBuilds]

\* Types; the channel never holds more than its capacity, a shard in memory
\* never more than its flush size.
TypeOK ==
    /\ phase \in {"idle", "walk", "join", "db", "manifest"}
    /\ consumer \in {"start", "recv", "flush", "last", "done", "failed"}
    /\ gen \in 0..MaxBuilds /\ failures \in 0..MaxFailures
    /\ tree \cup todo \subseteq Entry
    /\ worker \in [Worker -> Entry \cup {Free}]
    /\ fnb \cup shard \cup db \subseteq Document
    /\ chan \in Seq(Document) /\ Len(chan) <= ChannelCap
    /\ Cardinality(shard) <= FlushDocs
    /\ \A i \in DOMAIN files : files[i] \subseteq Document

\* The directories an entry is in: those in every set that has its directory
\* and, with a directory, the one that is in.
Upward(S) == \A e \in S \ {Root} : Parent[e] \in S
Above == [e \in Entry |->
            {a \in Entry : e # Root /\ \A S \in SUBSET Entry :
                                         Parent[e] \in S /\ Upward(S) => a \in S}]

\* What a build of tree t must file: what is not filtered out itself, or by a
\* directory above it.
ToFile(t) == {e \in t : Kind[e] \in Filed /\ \A a \in Above[e] : Kind[a] = "dir"}

\* A build that returns Ok has filed every entry of the tree once, whatever the
\* interleaving of workers and consumer, and whatever earlier builds left
\* behind: index.dfdb has all of them, the shards MANIFEST names have the text
\* files, and nothing of an older build is found.
OkIsComplete ==
    ok => /\ db = {Doc(e) : e \in ToFile(tree)}
          /\ load_shard_set = {d \in db : HasContent(d)}

\* MANIFEST describes the shards of a build that returned Ok: their docid
\* ranges are disjoint, follow each other from 0 and add up to the total.
ManifestDescribesShards ==
    ok => /\ \A i \in DOMAIN manifest : manifest[i].num = Cardinality(Loaded(i))
          /\ \A i \in DOMAIN manifest : i > 1 =>
               manifest[i].base = manifest[i - 1].base + manifest[i - 1].num
          /\ manifest = <<>> => total = 0
          /\ manifest # <<>> =>
               /\ manifest[1].base = 0
               /\ total = manifest[Len(manifest)].base + manifest[Len(manifest)].num

\* Through failed builds and crashes at any step, a shard that MANIFEST names is
\* on disk and holds nothing older than what MANIFEST was written for.
ShardsNeverOlder ==
    \A i \in DOMAIN manifest : /\ manifest[i].id \in DOMAIN files
                               /\ \A d \in Loaded(i) : d.gen >= built

\* A build ends, also one whose consumer gave up while workers wait for room in
\* the channel.
Terminates == phase # "idle" ~> phase = "idle"
=============================================================================
