-------------------------- MODULE BuildMarkerProofs --------------------------
(***************************************************************************)
(* Proofs about the `.indexing` marker, for any number of build threads,   *)
(* CLI builds, crashes and panics, when no build starts before the sweep.  *)
(***************************************************************************)
EXTENDS BuildMarker, TLAPS

\* Builds run only between the sweep and the end of the process.
BuildsAfterSweep == daemon # "swept" => \A t \in Thread : ~InBuild(t)

\* The inductive invariant: OneBuild needs that every builder's marker is
\* there, and that needs that the sweep meets no builder.
MarkerInv == TypeOK /\ OneBuild /\ BuildHoldsMarker /\ BuildsAfterSweep

\* Without panics no reporter outlives its build, so the marker is a build's
\* or, before the sweep, a dead process's.
QuietInv == TypeOK /\ (panics = 0 => ~orphan) /\ MarkerMeansBuild

\* The initial state is well typed.
LEMMA TypeInit == Init => TypeOK
<1>1. 0 \in 0..MaxCrashes /\ 0 \in 0..MaxPanics
  BY BoundAssumption
<1> QED BY <1>1, Zenon DEF Init, TypeOK

\* Every step of the daemon, of a build and of a CLI process keeps the types.
LEMMA TypeNext == TypeOK /\ [Next]_vars => TypeOK'
<1> SUFFICES ASSUME TypeOK, [Next]_vars PROVE TypeOK'
  OBVIOUS
<1> USE BoundAssumption DEF TypeOK
<1>1. CASE Start
  BY <1>1 DEF Start
<1>2. CASE Sweep
  BY <1>2 DEF Sweep
<1>3. CASE Crash
  <2>1. crashes' \in 0..MaxCrashes
    BY <1>3 DEF Crash
  <2> QED BY <1>3, <2>1, Zenon DEF Crash
<1>4. ASSUME NEW t \in Thread, Build(t) PROVE TypeOK'
  <2>1. CASE Acquire(t)
    BY <2>1 DEF Acquire
  <2>2. CASE Report(t)
    BY <2>2 DEF Report
  <2>3. CASE Finish(t)
    BY <2>3 DEF Finish
  <2>4. CASE Release(t)
    BY <2>4 DEF Release
  <2>5. CASE Panic(t)
    <3>1. panics' \in 0..MaxPanics
      BY <2>5 DEF Panic
    <3>2. pc' \in [Thread -> {"idle", "building", "built"}]
      BY <2>5 DEF Panic
    <3> QED BY <2>5, <3>1, <3>2, Zenon DEF Panic
  <2> QED BY <1>4, <2>1, <2>2, <2>3, <2>4, <2>5 DEF Build
<1>5. CASE OrphanReport
  BY <1>5 DEF OrphanReport
<1>6. ASSUME NEW c \in Cli, CliStart(c) \/ CliFinish(c) PROVE TypeOK'
  BY <1>6 DEF CliStart, CliFinish
<1>7. CASE UNCHANGED vars
  BY <1>7 DEF vars
<1> QED BY <1>1, <1>2, <1>3, <1>4, <1>5, <1>6, <1>7 DEF Next

\* The marker excludes: if every builder holds it, no second one gets it.
LEMMA MarkerInvNext ==
  ASSUME WatchThread = {}, MarkerInv, [Next]_vars
  PROVE  MarkerInv'
<1> USE DEF MarkerInv, OneBuild, BuildHoldsMarker, BuildsAfterSweep, InBuild
<1>0. TypeOK'
  BY TypeNext
<1> USE DEF TypeOK
<1>1. CASE Start
  BY <1>0, <1>1 DEF Start
<1>2. CASE Sweep
  BY <1>0, <1>2 DEF Sweep
<1>3. CASE Crash
  BY <1>0, <1>3 DEF Crash
<1>4. ASSUME NEW t \in Thread, Build(t) PROVE MarkerInv'
  <2>1. CASE Acquire(t)
    <3>1. \A s \in Thread : pc[s] = "idle"
      BY <2>1 DEF Acquire
    <3>2. daemon = "swept"
      BY <2>1 DEF Acquire, CanBuild
    <3> QED BY <1>0, <2>1, <3>1, <3>2 DEF Acquire
  <2>2. CASE Report(t)
    BY <1>0, <2>2 DEF Report
  <2>3. CASE Finish(t)
    BY <1>0, <2>3 DEF Finish
  <2>4. CASE Release(t)
    <3>1. \A s \in Thread : s # t => pc[s] = "idle"
      BY <2>4 DEF Release
    <3> QED BY <1>0, <2>4, <3>1 DEF Release
  <2>5. CASE Panic(t)
    <3>1. \A s \in Thread : s # t => pc[s] = "idle"
      BY <2>5 DEF Panic
    <3> QED BY <1>0, <2>5, <3>1 DEF Panic
  <2> QED BY <1>4, <2>1, <2>2, <2>3, <2>4, <2>5 DEF Build
<1>5. CASE OrphanReport
  BY <1>0, <1>5 DEF OrphanReport
<1>6. ASSUME NEW c \in Cli, CliStart(c) \/ CliFinish(c) PROVE MarkerInv'
  BY <1>0, <1>6 DEF CliStart, CliFinish
<1>7. CASE UNCHANGED vars
  BY <1>0, <1>7 DEF vars
<1> QED BY <1>1, <1>2, <1>3, <1>4, <1>5, <1>6, <1>7 DEF Next

\* At most one daemon thread builds the database, through crashes, stale
\* markers, the startup sweep and panics, for every number of threads.
THEOREM BuildsExclude ==
  ASSUME WatchThread = {}
  PROVE  Spec => []OneBuild
<1>1. Init => MarkerInv
  BY TypeInit DEF Init, MarkerInv, OneBuild, BuildHoldsMarker, BuildsAfterSweep, InBuild
<1>2. MarkerInv /\ [Next]_vars => MarkerInv'
  BY MarkerInvNext
<1>3. MarkerInv => OneBuild
  BY DEF MarkerInv
<1> QED BY <1>1, <1>2, <1>3, PTL DEF Spec

\* The marker is there for as long as any build runs or swaps its result in.
THEOREM BuildsAreMarked ==
  ASSUME WatchThread = {}
  PROVE  Spec => []BuildHoldsMarker
<1>1. Init => MarkerInv
  BY TypeInit DEF Init, MarkerInv, OneBuild, BuildHoldsMarker, BuildsAfterSweep, InBuild
<1>2. MarkerInv /\ [Next]_vars => MarkerInv'
  BY MarkerInvNext
<1>3. MarkerInv => BuildHoldsMarker
  BY DEF MarkerInv
<1> QED BY <1>1, <1>2, <1>3, PTL DEF Spec

\* Without panics a swept daemon's marker is the marker of a running build.
LEMMA QuietInvNext ==
  ASSUME QuietInv, [Next]_vars
  PROVE  QuietInv'
<1> USE DEF QuietInv, MarkerMeansBuild, MarkerIsBuilds, InBuild
<1>0. TypeOK'
  BY TypeNext
<1> USE DEF TypeOK
<1>1. CASE Start
  BY <1>0, <1>1 DEF Start
<1>2. CASE Sweep
  BY <1>0, <1>2 DEF Sweep
<1>3. CASE Crash
  BY <1>0, <1>3 DEF Crash
<1>4. ASSUME NEW t \in Thread, Build(t) PROVE QuietInv'
  <2>1. CASE Acquire(t)
    BY <1>0, <2>1 DEF Acquire
  <2>2. CASE Report(t)
    BY <1>0, <2>2 DEF Report
  <2>3. CASE Finish(t)
    <3>1. pc'[t] = "built"
      BY <2>3 DEF Finish
    <3> QED BY <1>0, <2>3, <3>1 DEF Finish
  <2>4. CASE Release(t)
    BY <1>0, <2>4 DEF Release
  <2>5. CASE Panic(t)
    <3>1. panics' # 0
      BY <2>5 DEF Panic
    <3> QED BY <1>0, <3>1
  <2> QED BY <1>4, <2>1, <2>2, <2>3, <2>4, <2>5 DEF Build
<1>5. CASE OrphanReport
  BY <1>0, <1>5 DEF OrphanReport
<1>6. ASSUME NEW c \in Cli, CliStart(c) \/ CliFinish(c) PROVE QuietInv'
  BY <1>0, <1>6 DEF CliStart, CliFinish
<1>7. CASE UNCHANGED vars
  BY <1>0, <1>7 DEF vars
<1> QED BY <1>1, <1>2, <1>3, <1>4, <1>5, <1>6, <1>7 DEF Next

\* As long as no build panics, `deepfind status` says `indexing` after the sweep
\* only while a build is in flight, however often the daemon was killed.
THEOREM MarkerIsMeaningful == Spec => []MarkerMeansBuild
<1>1. Init => QuietInv
  BY TypeInit DEF Init, QuietInv, MarkerMeansBuild, MarkerIsBuilds
<1>2. QuietInv /\ [Next]_vars => QuietInv'
  BY QuietInvNext
<1>3. QuietInv => MarkerMeansBuild
  BY DEF QuietInv
<1> QED BY <1>1, <1>2, <1>3, PTL DEF Spec
==============================================================================
