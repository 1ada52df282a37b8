------------------------------ MODULE Registry ------------------------------
(***************************************************************************)
(* dbs.toml and settings.json, the commands that change them and the       *)
(* daemon that follows the registry: df-index/src/registry.rs, settings.rs *)
(* and atomic_write, cmd_db, cmd_config and cmd_install of                 *)
(* deepfind/src/main.rs, DbSet::open, registry_watcher and the startup of  *)
(* serve() in deepfindd/src/lib.rs, spawn_if_missing in index_job.rs.      *)
(*                                                                         *)
(* A command loads a document, changes it, writes it to <name>.tmp and     *)
(* renames that over the document.  Commands do not exclude each other, so *)
(* files are inodes: two commands that create the same <name>.tmp write to *)
(* one inode, also after the other has renamed it.  The contents of an     *)
(* inode is the set of its records, or Torn.                               *)
(***************************************************************************)
EXTENDS OptionValue, Integers, Sequences, FiniteSets, FiniteSetsExt

CONSTANTS Db,        \* names of databases
          Command,   \* the command lines that may be typed: [op, arg]
          Cli,       \* command-line processes, one command each
          Torn,      \* the contents of a file that does not parse
          MaxStarts  \* bound: restarts of the daemon

File == {"dbs", "settings"}
FileOf(op) == IF op \in {"ignore", "unignore"} THEN "settings" ELSE "dbs"

VARIABLES inode,     \* the contents of every inode so far
          doc, tmp,  \* file -> inode of the document and of its .tmp, 0 for none
          cmd,       \* per process: its command, where it is, what it will save, its handle
          built,     \* the databases that have an index.dfdb
          served,    \* the daemon's DbSet: names
          held,      \* holder -> the DbSet it has opened and not stored, or NoValue
          job,       \* db -> its background build: "none", "build", "open" or "store"
          watch,     \* registry_watcher: has it an event?  "off" before it watches
          changed,   \* the mtime of dbs.toml is not last_mtime
          starts,    \* number of daemon starts
          wanted,    \* history: file -> the result of its committed commands in order
          mixed,     \* history: files for which two load-to-rename spans overlapped
          clashed,   \* history: files whose .tmp two commands had open at once
          newer,     \* history: the holders of sets newer than the newest stored, oldest first
          behind     \* history: the served set is not the newest stored, or a change had no watch
fileVars   == <<inode, doc, tmp>>
daemonVars == <<served, held, job, starts>>
watchVars  == <<watch, changed, newer, behind>>
history    == <<wanted, mixed, clashed>>
vars == <<fileVars, cmd, built, daemonVars, watchVars, history>>

Watcher == "watcher"

\* What a document lists: databases, or ignore patterns.
Record == Db \cup {c.arg : c \in Command}

ASSUME CommandAssumption ==
    \A c \in Command : c.op \in {"add", "remove", "install", "ignore", "unignore"}
ASSUME ValueAssumption ==
    /\ \A recs \in SUBSET Record : recs \notin {Torn, NoValue}
    /\ Watcher \notin Db

Idle == [c |-> NoValue, at |-> "idle", recs |-> {}, fd |-> 0]

\* Registry::load and Settings::load: nothing if missing or malformed.
load(f) == IF doc[f] = 0 THEN {} ELSE IF inode[doc[f]] = Torn THEN {} ELSE inode[doc[f]]

\* DbSet::open: the registered databases that can be opened.
DbSetOpen == load("dbs") \cap built

Init ==
    /\ \E recs \in SUBSET Db :
          /\ inode = <<recs>>
          /\ built \in SUBSET recs
          /\ wanted = [f \in File |-> IF f = "dbs" THEN recs ELSE {}]
          /\ \E i \in IF recs = {} THEN {0, 1} ELSE {1} :
                doc = [f \in File |-> IF f = "dbs" THEN i ELSE 0]
    /\ tmp = [f \in File |-> 0]
    /\ cmd = [p \in Cli |-> Idle]
    /\ served = {} /\ starts = 0
    /\ held = [h \in Db \cup {Watcher} |-> NoValue]
    /\ job = [d \in Db |-> "none"]
    /\ watch = "off" /\ changed = TRUE
    /\ mixed = {} /\ clashed = {} /\ newer = <<>> /\ behind = FALSE

-----------------------------------------------------------------------------
(***************************************************************************)
(* The commands.                                                           *)
(***************************************************************************)
OpOf(p) == cmd[p].c.op
Target(p) == FileOf(OpOf(p))
At(p, st) == cmd[p].at = st
Ended == {"done", "failed"}
Running == starts > 0
Spanning(f, sts) == {p \in Cli : cmd[p].at \in sts /\ Target(p) = f}

\* What the command makes of the records it loaded: upsert, remove,
\* add_ignore, remove_ignore.
Changed(c, recs) == IF c.op \in {"remove", "unignore"} THEN recs \ {c.arg} ELSE recs \cup {c.arg}

\* Nothing to take away.
Refuses(c, recs) == c.op \in {"remove", "unignore"} /\ c.arg \notin recs

FirstStep(op) == CASE op = "add" -> "build" [] op = "install" -> "check" [] OTHER -> "load"

Type(p, c) ==
    /\ At(p, "idle")
    /\ cmd' = [cmd EXCEPT ![p] = [@ EXCEPT !.c = c, !.at = FirstStep(c.op)]]
    /\ UNCHANGED <<fileVars, built, daemonVars, watchVars, history>>

\* `install` registers `home` if a first load shows an empty registry.
EnsureDefaultRoot(p) ==
    /\ At(p, "check")
    /\ cmd' = [cmd EXCEPT ![p].at = IF load("dbs") = {} THEN "load" ELSE "done"]
    /\ UNCHANGED <<fileVars, built, daemonVars, watchVars, history>>

\* `db add` builds in its own process before it touches the registry.
AddBuilds(p) ==
    /\ At(p, "build")
    /\ built' = built \cup {cmd[p].c.arg}
    /\ cmd' = [cmd EXCEPT ![p].at = "load"]
    /\ UNCHANGED <<fileVars, daemonVars, watchVars, history>>

Load(p) ==
    LET f == Target(p)
    IN  /\ At(p, "load")
        /\ cmd' = [cmd EXCEPT ![p].recs = Changed(cmd[p].c, load(f)),
                              ![p].at = IF Refuses(cmd[p].c, load(f)) THEN "done" ELSE "create"]
        /\ mixed' = IF Spanning(f, {"create", "write", "rename"}) = {} THEN mixed ELSE mixed \cup {f}
        /\ UNCHANGED <<fileVars, built, daemonVars, watchVars, wanted, clashed>>

\* A change in the data directory is an event; last_mtime is compared later.
\* Before the watch is registered nobody hears of a change of dbs.toml.
Event(dbs) ==
    /\ watch' = IF watch = "off" THEN "off" ELSE "event"
    /\ changed' = (changed \/ dbs)
    /\ LET missed == dbs /\ Running /\ watch = "off"
       IN  newer' = (IF missed THEN <<>> ELSE newer) /\ behind' = (missed \/ behind)

\* File::create(<name>.tmp): an existing one is emptied, and shared.
Create(p) ==
    LET f   == Target(p)
        new == tmp[f] = 0
        i   == IF new THEN Len(inode) + 1 ELSE tmp[f]
    IN  /\ At(p, "create")
        /\ inode' = IF new THEN Append(inode, Torn) ELSE [inode EXCEPT ![i] = Torn]
        /\ tmp' = [tmp EXCEPT ![f] = i]
        /\ cmd' = [cmd EXCEPT ![p].fd = i, ![p].at = "write"]
        /\ clashed' = IF Spanning(f, {"write", "rename"}) = {} THEN clashed ELSE clashed \cup {f}
        /\ Event(i = doc["dbs"])
        /\ UNCHANGED <<doc, built, daemonVars, wanted, mixed>>

\* write_all and sync_all; over what another handle wrote, a longer tail may stay.
Write(p) ==
    LET i == cmd[p].fd
    IN  /\ At(p, "write")
        /\ \E text \in {cmd[p].recs} \cup (IF inode[i] = Torn THEN {} ELSE {Torn}) :
              inode' = [inode EXCEPT ![i] = text]
        /\ cmd' = [cmd EXCEPT ![p].at = "rename"]
        /\ Event(i = doc["dbs"])
        /\ UNCHANGED <<doc, tmp, built, daemonVars, history>>

\* Mutation: the rename does not wait for the data.
CanRename_Unwritten(p) == At(p, "write") \/ At(p, "rename")

CanRename(p) == At(p, "rename")

\* rename(): whatever inode is called <name>.tmp by now, or an error.
Rename(p) ==
    LET f == Target(p)
    IN  /\ CanRename(p)
        /\ IF tmp[f] = 0 THEN UNCHANGED <<doc, tmp, wanted, watchVars>>
           ELSE /\ doc' = [doc EXCEPT ![f] = tmp[f]]
                /\ tmp' = [tmp EXCEPT ![f] = 0]
                /\ wanted' = [wanted EXCEPT ![f] = Changed(cmd[p].c, @)]
                /\ Event(f = "dbs")
        /\ cmd' = [cmd EXCEPT ![p].at = IF OpOf(p) = "remove" THEN "delete"
                                       ELSE IF tmp[f] = 0 THEN "failed" ELSE "done"]
        /\ UNCHANGED <<inode, built, daemonVars, mixed, clashed>>

\* `db remove` deletes the directory of the database, also if the save failed.
RemoveDir(p) ==
    /\ At(p, "delete")
    /\ built' = built \ {cmd[p].c.arg}
    /\ cmd' = [cmd EXCEPT ![p].at = "done"]
    /\ UNCHANGED <<fileVars, daemonVars, watchVars, history>>

\* The process is killed, or its write fails.
KillCli(p) ==
    /\ cmd[p].at \notin Ended \cup {"idle"}
    /\ cmd' = [cmd EXCEPT ![p].at = "failed"]
    /\ UNCHANGED <<fileVars, built, daemonVars, watchVars, history>>

-----------------------------------------------------------------------------
(***************************************************************************)
(* The daemon.  registry_watcher and the build of each database open a     *)
(* DbSet and store it later; newer keeps the order of the openings.        *)
(***************************************************************************)
Opens(h) ==
    /\ held' = [held EXCEPT ![h] = DbSetOpen]
    /\ newer' = Append(newer, h)

Stores(h) ==
    LET at == {k \in DOMAIN newer : newer[k] = h}
    IN  /\ served' = held[h]
        /\ held' = [held EXCEPT ![h] = NoValue]
        /\ behind' = (at = {})
        /\ newer' = IF at = {} THEN newer ELSE SubSeq(newer, Max(at) + 1, Len(newer))

\* spawn_if_missing for every registered database: its marker admits one build.
SpawnMissing(jobs) ==
    [d \in Db |-> IF d \in load("dbs") \ built /\ jobs[d] = "none" THEN "build" ELSE jobs[d]]

\* serve(): open, then build what is missing.  A restart ends the threads first.
StartDaemon ==
    /\ starts < MaxStarts
    /\ starts' = starts + 1
    /\ served' = DbSetOpen
    /\ held' = [h \in DOMAIN held |-> NoValue]
    /\ job' = SpawnMissing([d \in Db |-> "none"])
    /\ newer' = <<>> /\ behind' = FALSE
    /\ watch' = "off" /\ changed' = TRUE
    /\ UNCHANGED <<fileVars, cmd, built, history>>

\* The watcher's thread registers; binding the socket may give it an event.
WatchStart ==
    /\ Running /\ watch = "off"
    /\ watch' \in {"quiet", "event"}
    /\ UNCHANGED <<fileVars, cmd, built, daemonVars, changed, newer, behind, history>>

HasEvent == watch = "event" /\ held[Watcher] = NoValue
Reload == doc["dbs"] # 0 /\ changed

\* An event: skip it if dbs.toml is not there or has the mtime last seen.
WatchSkip ==
    /\ HasEvent /\ ~Reload
    /\ watch' = "quiet"
    /\ UNCHANGED <<fileVars, cmd, built, daemonVars, changed, newer, behind, history>>

WatchOpen ==
    /\ HasEvent /\ Reload
    /\ watch' = "quiet" /\ changed' = FALSE
    /\ Opens(Watcher)
    /\ UNCHANGED <<fileVars, cmd, built, served, job, starts, behind, history>>

\* The builds are spawned before the set is stored.
WatchSpawn ==
    /\ held[Watcher] # NoValue /\ job # SpawnMissing(job)
    /\ job' = SpawnMissing(job)
    /\ UNCHANGED <<fileVars, cmd, built, served, held, starts, watchVars, history>>

\* Mutation: the events that came during the reload are drained after it.
WatchStore_Drains ==
    /\ held[Watcher] # NoValue
    /\ Stores(Watcher)
    /\ watch' = "quiet"
    /\ UNCHANGED <<fileVars, cmd, built, job, starts, changed, history>>

WatchStore ==
    /\ held[Watcher] # NoValue
    /\ Stores(Watcher)
    /\ UNCHANGED <<fileVars, cmd, built, job, starts, watch, changed, history>>

\* spawn_build: the index appears, the DbSet is opened, then stored.
JobBuilds(d) ==
    /\ job[d] = "build"
    /\ built' = built \cup {d}
    /\ job' = [job EXCEPT ![d] = "open"]
    /\ UNCHANGED <<fileVars, cmd, served, held, starts, watchVars, history>>

JobFails(d) ==
    /\ job[d] = "build"
    /\ job' = [job EXCEPT ![d] = "none"]
    /\ UNCHANGED <<fileVars, cmd, built, served, held, starts, watchVars, history>>

JobOpens(d) ==
    /\ job[d] = "open"
    /\ Opens(d)
    /\ job' = [job EXCEPT ![d] = "store"]
    /\ UNCHANGED <<fileVars, cmd, built, served, starts, watch, changed, behind, history>>

JobStores(d) ==
    /\ job[d] = "store"
    /\ Stores(d)
    /\ job' = [job EXCEPT ![d] = "none"]
    /\ UNCHANGED <<fileVars, cmd, built, starts, watch, changed, history>>

-----------------------------------------------------------------------------
CliNext(p) ==
    \/ \E c \in Command : Type(p, c)
    \/ AddBuilds(p) \/ EnsureDefaultRoot(p) \/ Load(p)
    \/ Create(p) \/ Write(p) \/ Rename(p) \/ RemoveDir(p) \/ KillCli(p)

DaemonNext ==
    \/ StartDaemon
    \/ WatchStart \/ WatchSkip \/ WatchOpen \/ WatchSpawn \/ WatchStore
    \/ \E d \in Db : JobBuilds(d) \/ JobFails(d) \/ JobOpens(d) \/ JobStores(d)

Next == DaemonNext \/ \E p \in Cli : CliNext(p)

Spec == Init /\ [][Next]_vars

-----------------------------------------------------------------------------
(***************************************************************************)
(* Whatever the interleaving and wherever a command is killed, a document  *)
(* whose .tmp no two commands had open at once always parses, and one that *)
(* no two commands changed at once is what its committed commands, one     *)
(* after the other, made of it (atomic_write, Registry and Settings).      *)
(***************************************************************************)
CommandsKept ==
    \A f \in File \ clashed :
        /\ doc[f] # 0 => inode[doc[f]] # Torn
        /\ f \notin mixed => load(f) = wanted[f]

\* Nothing is under way in the daemon or on a command line.
Quiet ==
    /\ Running /\ watch = "quiet"
    /\ held[Watcher] = NoValue /\ \A d \in Db : job[d] = "none"
    /\ \A p \in Cli : cmd[p].at \in Ended \cup {"idle"}

\* A command that failed after it had built the database.
Abandoned(d) == \E p \in Cli : At(p, "failed") /\ cmd[p].c.op = "add" /\ cmd[p].c.arg = d

(***************************************************************************)
(* Once everything has settled the daemon serves exactly the registered    *)
(* databases that have an index, however commands, reloads and background  *)
(* builds interleaved (registry_watcher, spawn_build): no change of        *)
(* dbs.toml is swallowed by the debouncing or by the mtime test.  Left out *)
(* are the two known races, a set stored over a newer one and a change     *)
(* before the watch is registered, and indexes of failed `db add`s.        *)
(***************************************************************************)
ServedCurrent ==
    Quiet /\ ~behind =>
        \A d \in built : Abandoned(d) \/ (d \in served <=> d \in load("dbs"))
=============================================================================
