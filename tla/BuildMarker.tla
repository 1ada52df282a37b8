---------------------------- MODULE BuildMarker -----------------------------
(***************************************************************************)
(* The `.indexing` marker file of one database, deepfindd/src/index_job.rs,*)
(* and the threads that build that database's index under it: on-demand    *)
(* and startup builds (spawn_build), the safety net (rebuild_and_swap) and *)
(* df-watch compaction (compact_and_swap).                                 *)
(*                                                                         *)
(* All of them are acquire marker, tracked_build, hot-swap, drop the guard;*)
(* they differ only in how early in serve() they can start.  What a build  *)
(* writes is left out: a thread is "building" while it may write shards.   *)
(***************************************************************************)
EXTENDS Naturals

CONSTANTS Thread,       \* daemon threads that build this database
          WatchThread,  \* the df-watch ones, spawned before the sweep
          Cli,          \* CLI processes that build it in the foreground
          MaxCrashes,   \* bound: how often the daemon process ends
          MaxPanics     \* bound: how many builds panic

ASSUME ThreadAssumption == WatchThread \subseteq Thread
ASSUME BoundAssumption == MaxCrashes \in Nat /\ MaxPanics \in Nat

VARIABLES marker,   \* the marker file exists
          daemon,   \* how far serve() has come: "down", "opened", "swept"
          pc,       \* thread -> "idle", "building", "built" (swapping the result in)
          orphan,   \* a reporter thread survived the build it reported on
          cli,      \* CLI processes writing this database's files
          crashes, panics

vars == <<marker, daemon, pc, orphan, cli, crashes, panics>>

Init == /\ marker = FALSE
        /\ daemon = "down"
        /\ pc = [t \in Thread |-> "idle"]
        /\ orphan = FALSE
        /\ cli = {}
        /\ crashes = 0
        /\ panics = 0

-----------------------------------------------------------------------------
(* The daemon's life *)

\* serve() takes the singleton lock, opens the databases, spawns the watchers.
Start == /\ daemon = "down"
         /\ daemon' = "opened"
         /\ UNCHANGED <<marker, pc, orphan, cli, crashes, panics>>

\* Mutation: the markers of a killed daemon are left where they are.
Sweep_Nothing == /\ daemon = "opened"
                 /\ daemon' = "swept"
                 /\ UNCHANGED <<marker, pc, orphan, cli, crashes, panics>>

\* sweep_stale_markers
Sweep == /\ daemon = "opened"
         /\ daemon' = "swept"
         /\ marker' = FALSE
         /\ UNCHANGED <<pc, orphan, cli, crashes, panics>>

\* The process ends: killed, or shut down after draining its connections.
\* Build threads are detached, so their guards are dropped in neither case.
Crash == /\ daemon # "down"
         /\ crashes < MaxCrashes
         /\ crashes' = crashes + 1
         /\ daemon' = "down"
         /\ pc' = [t \in Thread |-> "idle"]
         /\ orphan' = FALSE
         /\ UNCHANGED <<marker, cli, panics>>

-----------------------------------------------------------------------------
(* A build *)

\* Mutation: serve() starts the background builds before it sweeps.
CanBuild_BeforeSweep(t) == daemon # "down"

\* Startup builds, the safety net and requests come after the sweep; watchers
\* were spawned before it.
CanBuild(t) == \/ daemon = "swept"
               \/ daemon = "opened" /\ t \in WatchThread

\* try_acquire: create_new succeeds.  When the marker exists the caller
\* returns and nothing changes.
Acquire(t) == /\ CanBuild(t)
              /\ pc[t] = "idle"
              /\ ~marker
              /\ marker' = TRUE
              /\ pc' = [pc EXCEPT ![t] = "building"]
              /\ UNCHANGED <<daemon, orphan, cli, crashes, panics>>

\* The reporter of tracked_build writes its progress line: fs::write creates
\* the file if it is not there.
Report(t) == /\ pc[t] = "building"
             /\ marker' = TRUE
             /\ UNCHANGED <<daemon, pc, orphan, cli, crashes, panics>>

\* Mutation: the guard is dropped when the build is done, before the swap.
Finish_Releases(t) == /\ pc[t] = "building"
                      /\ pc' = [pc EXCEPT ![t] = "built"]
                      /\ marker' = FALSE
                      /\ UNCHANGED <<daemon, orphan, cli, crashes, panics>>

\* tracked_build stops and joins its reporter and returns, Ok or Err.
Finish(t) == /\ pc[t] = "building"
             /\ pc' = [pc EXCEPT ![t] = "built"]
             /\ UNCHANGED <<marker, daemon, orphan, cli, crashes, panics>>

\* Mutation: the marker is not removed when the guard goes out of scope.
Release_KeepsMarker(t) == /\ pc[t] = "built"
                          /\ pc' = [pc EXCEPT ![t] = "idle"]
                          /\ UNCHANGED <<marker, daemon, orphan, cli, crashes, panics>>

\* MarkerGuard::drop, after the result was swapped in or the error logged.
Release(t) == /\ pc[t] = "built"
              /\ pc' = [pc EXCEPT ![t] = "idle"]
              /\ marker' = FALSE
              /\ UNCHANGED <<daemon, orphan, cli, crashes, panics>>

\* The build panics (a thread cannot be spawned, the consumer panicked).
\* Unwinding drops the guard; nothing sets `stop`, so the reporter goes on.
Panic(t) == /\ pc[t] = "building"
            /\ panics < MaxPanics
            /\ panics' = panics + 1
            /\ pc' = [pc EXCEPT ![t] = "idle"]
            /\ marker' = FALSE
            /\ orphan' = TRUE
            /\ UNCHANGED <<daemon, cli, crashes>>

OrphanReport == /\ orphan
                /\ marker' = TRUE
                /\ UNCHANGED <<daemon, pc, orphan, cli, crashes, panics>>

-----------------------------------------------------------------------------
(* `deepfind index --foreground` and `deepfind db add` build in-process and
   never look at the marker. *)

CliStart(c) == /\ c \notin cli
               /\ cli' = cli \cup {c}
               /\ UNCHANGED <<marker, daemon, pc, orphan, crashes, panics>>

CliFinish(c) == /\ c \in cli
                /\ cli' = cli \ {c}
                /\ UNCHANGED <<marker, daemon, pc, orphan, crashes, panics>>

Build(t) == Acquire(t) \/ Report(t) \/ Finish(t) \/ Release(t) \/ Panic(t)

Next == \/ Start \/ Sweep \/ Crash
        \/ \E t \in Thread : Build(t)
        \/ OrphanReport
        \/ \E c \in Cli : CliStart(c) \/ CliFinish(c)

Spec == Init /\ [][Next]_vars

\* launchd's KeepAlive restarts the daemon; serve() runs straight to the sweep;
\* a build ends and its guard is dropped.
Fairness == /\ WF_vars(Start) /\ WF_vars(Sweep)
            /\ \A t \in Thread : WF_vars(Finish(t)) /\ WF_vars(Release(t))

FairSpec == Spec /\ Fairness

-----------------------------------------------------------------------------
(* Properties *)

TypeOK == /\ marker \in BOOLEAN
          /\ daemon \in {"down", "opened", "swept"}
          /\ pc \in [Thread -> {"idle", "building", "built"}]
          /\ orphan \in BOOLEAN
          /\ cli \subseteq Cli
          /\ crashes \in 0..MaxCrashes
          /\ panics \in 0..MaxPanics

InBuild(t) == pc[t] # "idle"

\* Two daemon threads never build the same database at the same time, through
\* crashes, stale markers, the startup sweep and panicking builds.
OneBuild == \A s, t \in Thread : InBuild(s) /\ InBuild(t) => s = t

\* The marker exists for as long as a build runs or swaps its result in, so
\* `deepfind status` never calls a database that is being built ready.
BuildHoldsMarker == \A t \in Thread : InBuild(t) => marker

MarkerIsBuilds == daemon = "swept" /\ marker => \E t \in Thread : InBuild(t)

\* Once serve() has swept, and while no build of this daemon has panicked, the
\* marker means a build is in flight: otherwise `deepfind status` reports
\* `indexing` and every further build is refused.
MarkerMeansBuild == panics = 0 => MarkerIsBuilds

\* If builds do not panic, a marker does not stay forever, whenever the daemon
\* is killed.
MarkerClears == [](panics = 0) => []<>~marker
=============================================================================
