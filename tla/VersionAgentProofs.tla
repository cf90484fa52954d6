------------------------- MODULE VersionAgentProofs -------------------------
(***************************************************************************)
(* Proofs about VersionAgent for any number of releases and builds, hosts  *)
(* with and without an ownership journal, and every bound on crashes and   *)
(* failures.                                                               *)
(***************************************************************************)
EXTENDS VersionAgent, TLAPS

---------------------------------------------------------------------------
(* Who works on the project *)

\* Each of the three operations keeps its marker in the state file while it runs, and no thread outlives
\* the agent.
Marked ==
  /\ w.pc # "idle" => panel.status = "updating"
  /\ rb.pc # "idle" => panel.rebuilding
  /\ c.pc # "idle" => comp.op = "running" /\ ~comp.latched
  /\ ~alive => w.pc = "idle" /\ rb.pc = "idle" /\ c.pc = "idle"
  /\ comp.latched => comp.op = "rollback_failed"

---------------------------------------------------------------------------
(* The component *)

Settled(v) == running = v /\ \A n \in PartNames : parts[n] = v

\* The files written so far are of the new build, whatever was there before.
Writing ==
  /\ c.pc # "idle" => c.to \in 1..MaxBuild
  /\ c.pc = "fetch" => c.k = 1
  /\ c.pc = "write" => c.k \in 1..3 /\ \A j \in 1..3 : j < c.k => parts[Parts[j]] = c.to
  /\ c.pc = "restart" => \A n \in PartNames : parts[n] = c.to
  /\ c.pc = "verdict" => c.outcome # "none"
  /\ c.pc = "verdict" /\ c.outcome = "succeeded" => Settled(c.to)

\* The record tells what runs, and the backup of an update is what the record tells.
Recorded ==
  "component" \notin torn =>
    /\ c.pc \in {"idle", "fetch"} /\ ~comp.latched => Settled(comp.version)
    /\ c.pc \in {"write", "restart", "undo"} => \A n \in PartNames : c.saved[n] = comp.version
    /\ c.pc = "reload" => parts["binary"] = comp.version
    /\ c.pc = "verdict" /\ c.outcome \in {"update_failed", "rolled_back"} => Settled(comp.version)

---------------------------------------------------------------------------
(* The panel *)

Idx == 1..4
Late == {"tag", "build", "stop", "snapshot", "up", "check", "commit", "derive"}
RunsAt(v) == box = [image |-> v, ver |-> v, up |-> TRUE] /\ db = v
JournalAt(v) == Journaled => journal = release(v)
WholeAt(v) == v \in Releases /\ trees = release(v) /\ RunsAt(v) /\ JournalAt(v)

\* The way forward, whatever was there before: what an update has done is of its release.
Forward ==
  /\ w.pc # "idle" => w.to \in Releases
  /\ w.pc \in {"prepare"} \cup Swapping \cup Restoring => lock
  /\ w.pc \in {"download", "lock", "prepare"} => w.k = 1
  /\ w.pc \in {"move", "copy"} =>
       w.k \in Idx /\ \A j \in Idx : j < w.k => trees[Entries[j]] = content(Entries[j], w.to)
  /\ w.pc \in Late => trees = release(w.to)
  /\ w.pc \in {"stop", "snapshot", "up"} => image = w.to
  /\ w.pc \in {"check", "commit", "derive"} => RunsAt(w.to)
  /\ w.pc = "derive" => JournalAt(w.to)
  /\ w.pc = "verdict" => w.outcome # "none"
  /\ w.pc = "verdict" /\ w.outcome = "succeeded" => WholeAt(w.to)

\* What the way back finds: the previous trees, in the backup up to synced and in place after it, the
\* previous database, image and journal.
Before(j) ==
  IF j <= w.synced THEN backup[Entries[j]] = content(Entries[j], w.from)
  ELSE trees[Entries[j]] = content(Entries[j], w.from)
Restored(j) == IF j < w.k \/ j > w.synced THEN trees[Entries[j]] = content(Entries[j], w.from)
               ELSE backup[Entries[j]] = content(Entries[j], w.from)
Safe ==
  /\ w.tag \in {0, w.from} /\ (w.tag = 0 => ~w.saved /\ RunsAt(w.from))
  /\ IF w.saved THEN snap = w.from ELSE db = w.from
  /\ db \in Releases
Return ==
  /\ w.pc # "idle" => w.from \in Releases
  /\ w.pc \in {"download", "lock", "prepare"} => WholeAt(w.from) /\ w.tag = 0 /\ ~w.saved /\ ~w.stranded /\ w.synced = 0
  /\ w.pc \in Swapping \cup {"r_stop"} => (\A j \in Idx : Before(j)) /\ Safe
  /\ w.pc \in Swapping => ~w.stranded
  /\ w.pc = "move" => w.synced = w.k - 1
  /\ w.pc = "copy" => w.synced = w.k
  /\ w.pc \in Late => w.synced = 4
  /\ w.pc \in {"move", "copy", "tag"} => w.tag = 0
  /\ w.pc \in Late \ {"tag"} => w.tag = w.from
  /\ w.pc \in {"build", "stop", "snapshot"} => ~w.saved
  /\ w.pc \in {"up", "check", "commit", "derive"} => w.saved
  /\ (w.pc \in Swapping \ {"derive"} \/ (w.pc \in Restoring /\ ~w.stranded)) => JournalAt(w.from)
  /\ w.pc = "r_tree" => (\A j \in Idx : Restored(j)) /\ Safe
  /\ w.pc \in {"r_db", "r_up", "r_check"} => trees = release(w.from)
  /\ w.pc = "r_db" => Safe
  /\ w.pc = "r_up" => db = w.from /\ w.tag \in {0, w.from} /\ (w.tag = 0 => RunsAt(w.from))
  /\ w.pc = "r_check" => RunsAt(w.from)
  /\ w.pc = "verdict" /\ w.outcome \in {"update_failed", "rolled_back"} => WholeAt(w.from)
  /\ w.pc = "verdict" /\ w.outcome = "rollback_failed" => kept

\* Between updates the panel is whole at the version its container reports, unless a rollback failed.
Rest ==
  w.pc = "idle" =>
    /\ panel.status # "rollback_failed" => WholeAt(box.ver)
    /\ panel.status = "ready" => panel.version = box.ver
    /\ panel.status = "rollback_failed" => kept

\* What an update that cannot be whole any more still keeps, up to the next request: a complete copy of
\* everything, the entries to restore in the backup, the database untouched.
Halved ==
  /\ ~w.saved /\ w.tag = 0
  /\ w.pc \in {"r_stop", "r_tree"} =>
       \A j \in Idx : j <= w.synced /\ (w.pc = "r_tree" => w.k <= j) => backup[Entries[j]] \in Releases
Copies ==
  "again" \notin torn =>
    /\ kept
    /\ w.pc \in {"download", "lock", "prepare"} \cup Swapping => "panel" \notin torn
    /\ w.pc \in Restoring /\ "panel" \in torn => Halved

IInv == TypeOK /\ Marked /\ OneOperation /\ Writing /\ Recorded /\ Forward /\ ("panel" \notin torn => Return /\ Rest) /\ Copies

---------------------------------------------------------------------------
(* Names, entries, releases *)

\* The four entries of PANEL_SYNC and the agent's tree, each at one place of the order.
LEMMA EntriesAre ==
  /\ DOMAIN Entries = Idx /\ Len(Entries) = 4
  /\ Entries[1] = "panel" /\ Entries[2] = "manager" /\ Entries[3] = "VERSION" /\ Entries[4] = "agent"
  /\ Names = {"panel", "manager", "VERSION", "agent"}
  /\ \A j \in Idx : Entries[j] \in Names
  /\ \A i, j \in Idx : Entries[i] = Entries[j] => i = j
  /\ \A n \in Names : \E j \in Idx : n = Entries[j]
<1>1. DOMAIN Entries = 1..4 /\ Len(Entries) = 4
  BY DEF Entries
<1>2. Entries[1] = "panel" /\ Entries[2] = "manager" /\ Entries[3] = "VERSION" /\ Entries[4] = "agent"
  BY DEF Entries
<1>3. \A j \in 1..4 : j = 1 \/ j = 2 \/ j = 3 \/ j = 4
  OBVIOUS
<1>4. Names = {Entries[j] : j \in 1..4}
  BY <1>1 DEF Names
<1> HIDE DEF Entries
<1>5. Names = {"panel", "manager", "VERSION", "agent"}
  BY <1>2, <1>3, <1>4
<1>6. \A i, j \in 1..4 : Entries[i] = Entries[j] => i = j
  BY <1>2, <1>3
<1> QED
  BY <1>1, <1>2, <1>4, <1>5, <1>6 DEF Idx

\* The three files of a component, in the order they are written.
LEMMA PartsAre ==
  /\ DOMAIN Parts = 1..3 /\ Len(Parts) = 3
  /\ Parts[1] = "binary" /\ Parts[2] = "pin" /\ Parts[3] = "overlay"
  /\ PartNames = {"binary", "pin", "overlay"}
  /\ \A j \in 1..3 : Parts[j] \in PartNames
<1>1. DOMAIN Parts = 1..3 /\ Len(Parts) = 3
  BY DEF Parts
<1>2. Parts[1] = "binary" /\ Parts[2] = "pin" /\ Parts[3] = "overlay"
  BY DEF Parts
<1>3. \A j \in 1..3 : j = 1 \/ j = 2 \/ j = 3
  OBVIOUS
<1>4. PartNames = {Parts[j] : j \in 1..3}
  BY <1>1 DEF PartNames
<1> HIDE DEF Parts
<1>5. PartNames = {"binary", "pin", "overlay"}
  BY <1>2, <1>3, <1>4
<1> QED
  BY <1>1, <1>2, <1>4, <1>5

\* A release is bytes, and none that is missing or torn.
LEMMA ReleasesAre ==
  /\ Releases \subseteq Bytes /\ Torn \in Bytes /\ 0 \in Bytes /\ Bytes \subseteq Nat
  /\ 0 \notin Releases /\ Torn \notin Releases /\ 1 \in Releases /\ Releases \subseteq 0..MaxRelease
  /\ 0..MaxRelease \subseteq Bytes /\ 1..MaxBuild \subseteq Releases
  /\ \A r \in Releases, n \in Names : content(n, r) \in Releases
  /\ \A r \in Releases : release(r) \in [Names -> Bytes] /\ \A n \in Names : release(r)[n] = content(n, r)
<1>1. MaxRelease \in Nat /\ MaxRelease >= 1 /\ MaxBuild \in 1..MaxRelease
  BY ReleasesAssumption
<1>2. /\ Releases \subseteq Bytes /\ Torn \in Bytes /\ 0 \in Bytes /\ Bytes \subseteq Nat
      /\ 0 \notin Releases /\ Torn \notin Releases /\ 1 \in Releases /\ Releases \subseteq 0..MaxRelease
      /\ 0..MaxRelease \subseteq Bytes /\ 1..MaxBuild \subseteq Releases
  BY <1>1 DEF Releases, Torn, Bytes
<1>3. \A r \in Releases, n \in Names : content(n, r) \in Releases
  BY ReleasesAssumption DEF content, Releases
<1>4. \A r \in Releases : release(r) \in [Names -> Bytes] /\ \A n \in Names : release(r)[n] = content(n, r)
  BY <1>2, <1>3 DEF release
<1> QED
  BY <1>2, <1>3, <1>4

---------------------------------------------------------------------------
(* Types *)

\* The type invariant by component of the state.
HostOK ==
  /\ trees \in [Names -> Bytes] /\ backup \in [Names -> Bytes]
  /\ journal \in [Names -> Bytes] /\ owned \in [Names -> Bytes]
RuntimeOK == db \in Bytes /\ snap \in Bytes /\ image \in Bytes /\ box \in [image : Bytes, ver : Bytes, up : BOOLEAN]
Pcs == {"idle", "download", "lock", "prepare", "verdict"} \cup Swapping \cup Restoring
WorkerOK ==
  w \in [pc : Pcs, to : 0..MaxRelease, from : Bytes, k : 1..5, synced : 0..4, saved : BOOLEAN, tag : Bytes,
         pending : BOOLEAN, stranded : BOOLEAN, outcome : Outcomes]
AgentOK ==
  /\ panel \in [version : Bytes, status : Statuses, pending : BOOLEAN, rebuilding : BOOLEAN]
  /\ after \subseteq {"rebuild", "restart"}
  /\ manager \in [tree : Bytes, fresh : BOOLEAN]
  /\ rb \in [pc : {"idle", "build", "restore", "verdict"}, saved : Bytes, ok : BOOLEAN]
ComponentOK ==
  /\ parts \in [PartNames -> Bytes] /\ running \in Bytes
  /\ comp \in [version : Releases, latched : BOOLEAN,
               op : {"none", "running", "succeeded", "rolled_back", "rollback_failed", "update_failed", "interrupted"}]
  /\ c \in [pc : {"idle", "fetch", "write", "restart", "undo", "reload", "verdict"}, to : 0..MaxRelease, k : 1..4,
            saved : [PartNames -> Bytes], touched : BOOLEAN, outcome : Outcomes]
RestOK ==
  /\ lock \in BOOLEAN /\ alive \in BOOLEAN /\ torn \subseteq {"panel", "component", "again"}
  /\ crashes \in 0..MaxCrashes /\ faults \in 0..MaxFaults

\* TypeOK is the conjunction of its parts.
LEMMA TypesAre ==
  /\ TypeOK <=> HostOK /\ RuntimeOK /\ WorkerOK /\ AgentOK /\ ComponentOK /\ RestOK
  /\ TypeOK' <=> HostOK' /\ RuntimeOK' /\ WorkerOK' /\ AgentOK' /\ ComponentOK' /\ RestOK'
<1>1. TypeOK <=> HostOK /\ RuntimeOK /\ WorkerOK /\ AgentOK /\ ComponentOK /\ RestOK
  BY EntriesAre DEF TypeOK, HostOK, RuntimeOK, WorkerOK, AgentOK, ComponentOK, RestOK, Pcs, Bytes
<1>2. (TypeOK <=> HostOK /\ RuntimeOK /\ WorkerOK /\ AgentOK /\ ComponentOK /\ RestOK)'
  BY <1>1, EntriesAre, PTL
<1> QED
  BY <1>1, <1>2

\* The fields of the thread's record.
LEMMA WorkerFields ==
  ASSUME WorkerOK
  PROVE  /\ w.pc \in Pcs /\ w.to \in 0..MaxRelease /\ w.from \in Bytes /\ w.k \in 1..5 /\ w.synced \in 0..4
         /\ w.saved \in BOOLEAN /\ w.tag \in Bytes /\ w.pending \in BOOLEAN /\ w.stranded \in BOOLEAN
         /\ w.outcome \in Outcomes
BY DEF WorkerOK

\* A step of the thread that moves it and decides its outcome keeps its record's type.
LEMMA WorkerGoes ==
  ASSUME WorkerOK
  PROVE  /\ \A p \in Pcs : goto(p) => WorkerOK'
         /\ \A o \in Outcomes : conclude(o) => WorkerOK'
<1>1. "verdict" \in Pcs
  BY DEF Pcs
<1> QED
  BY <1>1 DEF WorkerOK, goto, conclude

\* The names of the thread's steps.
LEMMA PcsAre ==
  Pcs = {"idle", "download", "lock", "prepare", "verdict", "move", "copy", "tag", "build", "stop", "snapshot",
         "up", "check", "commit", "derive", "r_stop", "r_tree", "r_db", "r_up", "r_check"}
BY DEF Pcs, Swapping, Restoring

\* A failure uses one of the failures that are left.
LEMMA Budget ==
  ASSUME RestOK
  PROVE  /\ fine => faults' \in 0..MaxFaults
         /\ fault => faults' \in 0..MaxFaults
         /\ \A ok \in BOOLEAN : fails(ok) => faults' \in 0..MaxFaults
BY LimitsAssumption DEF RestOK, fine, fault, fails

\* The steps of the panel update keep the types: what they write is an entry, a release or Torn.
LEMMA WorkerTypes ==
  ASSUME TypeOK, Forward,
         Download \/ Lock \/ Prepare \/ Swap \/ Restore
  PROVE  TypeOK'
<1>0. HostOK /\ RuntimeOK /\ WorkerOK /\ AgentOK /\ ComponentOK /\ RestOK
  BY TypesAre
<1>1. worker_frame \/ Move => AgentOK' /\ ComponentOK'
  BY <1>0 DEF worker_frame, managers, component, AgentOK, ComponentOK, Move
<1>2. WorkerOK'
  <2> USE <1>0, PcsAre, WorkerGoes, WorkerFields
  <2>1. CASE Download
    BY <2>1 DEF Download, Outcomes
  <2>2. CASE Lock
    BY <2>2 DEF Lock, Outcomes
  <2>3. CASE Prepare
    <3>1. (trees["manager"] # content("manager", w.to)) \in BOOLEAN
      OBVIOUS
    <3> QED
     BY <2>3, <3>1 DEF Prepare, Outcomes, WorkerOK
  <2>4. CASE Move
    <3>1. w.k \in 0..4
      BY <2>4 DEF Forward, Move, Idx
    <3> QED
    BY <2>4, <3>1 DEF Move, WorkerOK
  <2>5. CASE Copy
    <3>1. w.k < 4 => w.k + 1 \in 1..5
      OBVIOUS
    <3>2. \/ w.k < 4 /\ w' = [w EXCEPT !.pc = "move", !.k = w.k + 1]
          \/ goto("tag")
          \/ goto("r_stop")
      BY <2>5, EntriesAre DEF Copy, goto
    <3> QED
      BY <3>1, <3>2 DEF WorkerOK
  <2>6. CASE Tag
    BY <2>6 DEF Tag, WorkerOK, RuntimeOK
  <2>7. CASE Build \/ Stop \/ Up \/ Check \/ Commit
    BY <2>7 DEF Build, Stop, Up, Check, Commit
  <2>8. CASE Snapshot
    BY <2>8 DEF Snapshot, WorkerOK
  <2>9. CASE Derive
    BY <2>9 DEF Derive, WorkerOK, Outcomes
  <2>10. CASE RestoreStop
    <3>1. w' = [w EXCEPT !.pc = "r_tree", !.k = 1] \/ conclude("rollback_failed")
      BY <2>10 DEF RestoreStop, give_up
    <3>2. 1 \in 1..5 /\ "rollback_failed" \in Outcomes
      BY DEF Outcomes
    <3> QED
      BY <3>1, <3>2 DEF WorkerOK
  <2>11. CASE RestoreTree
    <3>1. w.k <= w.synced => w.k + 1 \in 1..5
      OBVIOUS
    <3>2. \/ w.k <= w.synced /\ w' = [w EXCEPT !.k = w.k + 1]
          \/ goto("r_db")
          \/ conclude("rollback_failed")
      BY <2>11 DEF RestoreTree, give_up
    <3> QED
      BY <3>1, <3>2 DEF WorkerOK, Outcomes
  <2>12. CASE RestoreDb \/ RestoreUp
    BY <2>12 DEF RestoreDb, RestoreUp, Outcomes, give_up
  <2>13. CASE RestoreCheck
    BY <2>13 DEF RestoreCheck, Outcomes, rollback_verdict
  <2> QED
    BY <2>1, <2>2, <2>3, <2>4, <2>5, <2>6, <2>7, <2>8, <2>9, <2>10, <2>11, <2>12, <2>13 DEF Swap, Restore
<1>3. HostOK'
  <2> USE <1>0, EntriesAre, ReleasesAre
  <2>1. CASE Download \/ Lock \/ Tag \/ Build \/ Stop \/ Snapshot \/ Up \/ Check \/ RestoreStop \/ RestoreDb \/ RestoreUp \/ RestoreCheck
    BY <2>1 DEF Download, Lock, Tag, Build, Stop, Snapshot, Up, Check, RestoreStop, RestoreDb, RestoreUp, RestoreCheck,
                project, ownership, HostOK
  <2>2. CASE Prepare
    BY <2>2 DEF Prepare, ownership, HostOK
  <2>3. CASE Move
    <3>1. entry \in Names
      BY <2>3 DEF Move, Forward, entry
    <3> QED
      BY <2>3, <3>1 DEF Move, half_copied, half_removed, ownership, HostOK
  <2>4. CASE Copy
    <3>1. entry \in Names /\ content(entry, w.to) \in Bytes
      BY <2>4 DEF Copy, Forward, entry
    <3> QED
      BY <2>4, <3>1 DEF Copy, ownership, HostOK
  <2>5. CASE Commit
    BY <2>5 DEF Commit, project, HostOK, Forward
  <2>6. CASE Derive
    BY <2>6 DEF Derive, project, HostOK, previous_state
  <2>7. CASE RestoreTree
    <3>1. entry \in Names \/ ~(w.k <= w.synced)
      BY WorkerFields DEF entry, Idx
    <3> QED
      BY <2>7, <3>1 DEF RestoreTree, project, ownership, HostOK
  <2> QED
    BY <2>1, <2>2, <2>3, <2>4, <2>5, <2>6, <2>7 DEF Swap, Restore
<1>4. RuntimeOK'
  <2> USE <1>0, EntriesAre, ReleasesAre
  <2>1. CASE Download \/ Lock \/ Prepare \/ Move \/ Copy \/ Tag \/ Check \/ Commit \/ Derive \/ RestoreTree \/ RestoreCheck
    BY <2>1 DEF Download, Lock, Prepare, Move, Copy, Tag, Check, Commit, Derive, RestoreTree, RestoreCheck, runtime, RuntimeOK
  <2>2. CASE Build
    BY <2>2 DEF Build, RuntimeOK, HostOK
  <2>3. CASE Stop
    BY <2>3 DEF Stop, RuntimeOK
  <2>4. CASE Snapshot
    BY <2>4 DEF Snapshot, RuntimeOK
  <2>5. ASSUME NEW i \in Bytes, start_fails(i) \/ compose_up(i)
        PROVE  db' \in Bytes /\ box' \in [image : Bytes, ver : Bytes, up : BOOLEAN]
    <3>1. trees["VERSION"] \in Bytes
      BY DEF HostOK
    <3>2. /\ db' = db \/ db' = i
          /\ \E u \in BOOLEAN : box' = [image |-> i, ver |-> trees["VERSION"], up |-> u]
      BY <2>5, Zenon DEF start_fails, compose_up
    <3> QED
      BY <3>1, <3>2 DEF RuntimeOK
  <2>6. CASE Up
    BY <2>5, <2>6 DEF Up, RuntimeOK
  <2>7. CASE RestoreStop
    BY <2>7 DEF RestoreStop, RuntimeOK
  <2>8. CASE RestoreDb
    BY <2>8 DEF RestoreDb, RuntimeOK
  <2>9. CASE RestoreUp
    BY <2>5, <2>9, WorkerFields DEF RestoreUp, RuntimeOK
  <2> QED
    BY <2>1, <2>2, <2>3, <2>4, <2>6, <2>7, <2>8, <2>9 DEF Swap, Restore
<1>5. RestOK'
  <2> USE <1>0, Budget DEF RestOK, worker_frame
  <2>1. CASE Download \/ Lock \/ Prepare
    BY <2>1 DEF Download, Lock, Prepare, fails
  <2>2. CASE Move
    BY <2>2 DEF Move
  <2>3. CASE Copy \/ Tag \/ Build \/ Stop \/ Snapshot
    BY <2>3 DEF Copy, Tag, Build, Stop, Snapshot
  <2>4. CASE Up \/ Check \/ Commit \/ Derive
    BY <2>4 DEF Up, Check, Commit, Derive, fails
  <2>5. CASE Restore
    BY <2>5 DEF Restore, RestoreStop, RestoreTree, RestoreDb, RestoreUp, RestoreCheck, give_up, fails
  <2> QED
    BY <2>1, <2>2, <2>3, <2>4, <2>5 DEF Swap
<1>6. worker_frame \/ Move
  BY DEF Download, Lock, Prepare, Swap, Copy, Tag, Build, Stop, Snapshot, Up, Check, Commit, Derive,
         Restore, RestoreStop, RestoreTree, RestoreDb, RestoreUp, RestoreCheck
<1> QED
  BY <1>1, <1>2, <1>3, <1>4, <1>5, <1>6, TypesAre

\* The thread's record at rest and at the start of an update.
LEMMA NoWorkerOK ==
  /\ NoWorker \in [pc : Pcs, to : 0..MaxRelease, from : Bytes, k : 1..5, synced : 0..4, saved : BOOLEAN, tag : Bytes,
                   pending : BOOLEAN, stranded : BOOLEAN, outcome : Outcomes]
  /\ NoUpdate \in [pc : {"idle", "fetch", "write", "restart", "undo", "reload", "verdict"}, to : 0..MaxRelease, k : 1..4,
                   saved : [PartNames -> Bytes], touched : BOOLEAN, outcome : Outcomes]
<1>1. 0 \in 0..MaxRelease /\ 0 \in Bytes /\ 1 \in 1..5 /\ 1 \in 1..4 /\ 0 \in 0..4
  BY ReleasesAre, ReleasesAssumption
<1>2. [n \in PartNames |-> 0] \in [PartNames -> Bytes]
  BY <1>1
<1> QED
  BY <1>1, <1>2, PcsAre DEF NoWorker, NoUpdate, Outcomes

\* What the agent does with its state file, the managers and its process keeps the types.
LEMMA AgentTypes ==
  ASSUME TypeOK, Forward,
         \/ Verdict \/ AfterUpdate \/ RestartAgent \/ Rebuild \/ RebuildManagers \/ HealPending
         \/ HostRebuild \/ AckManagers \/ Expire \/ Start \/ Resume
         \/ \E v \in Releases : Request(v) \/ Reconcile(v)
  PROVE  TypeOK'
<1>0. HostOK /\ RuntimeOK /\ WorkerOK /\ AgentOK /\ ComponentOK /\ RestOK
  BY TypesAre
<1>1. CASE Verdict
  <2>1. UNCHANGED <<project, runtime, ownership, lock, rb, component, alive, crashes>> /\ w' = NoWorker
    BY <1>1 DEF Verdict
  <2>2. HostOK' /\ RuntimeOK' /\ WorkerOK' /\ ComponentOK'
    BY <1>0, <2>1, NoWorkerOK DEF HostOK, RuntimeOK, WorkerOK, ComponentOK, project, runtime, ownership, component
  <2>3. after' \subseteq {"rebuild", "restart"}
    BY <1>0, <1>1 DEF Verdict, AgentOK
  <2>4. torn' \subseteq {"panel", "component", "again"} /\ faults' \in 0..MaxFaults
    BY <1>0, <1>1, Budget DEF Verdict, RestOK
  <2>5. panel' \in [version : Bytes, status : Statuses, pending : BOOLEAN, rebuilding : BOOLEAN]
    <3>1. w.to \in Bytes /\ w.from \in Bytes /\ w.pending \in BOOLEAN /\ succeeded \in BOOLEAN
      BY <1>0, WorkerFields, ReleasesAre DEF succeeded
    <3>2. CASE panel' = panel
      BY <1>0, <3>2 DEF AgentOK
    <3>3. CASE panel' = [version |-> IF succeeded THEN w.to ELSE w.from, status |-> recorded_status,
                         pending |-> succeeded /\ w.pending, rebuilding |-> FALSE]
      <4>1. (succeeded /\ w.pending) \in BOOLEAN
        BY <3>1, Zenon
      <4>2. (IF succeeded THEN w.to ELSE w.from) \in Bytes
        BY <3>1
      <4>3. recorded_status \in Statuses
        BY <1>0, <1>1, WorkerFields DEF Verdict, Forward, recorded_status, Statuses, Outcomes
      <4> QED
        BY <3>3, <4>1, <4>2, <4>3
    <3> QED
      BY <1>1, <3>2, <3>3 DEF Verdict
  <2>6. manager' \in [tree : Bytes, fresh : BOOLEAN]
    <3>1. (manager.fresh /\ ~succeeded) \in BOOLEAN
      BY <1>0, Zenon DEF succeeded, AgentOK
    <3> QED
      BY <1>0, <1>1, <3>1 DEF Verdict, AgentOK
  <2> QED
    BY <1>0, <2>1, <2>2, <2>3, <2>4, <2>5, <2>6, TypesAre DEF AgentOK, RestOK
<1>2. CASE AfterUpdate \/ RebuildManagers
  <2>1. UNCHANGED <<project, runtime, ownership, lock, w, manager, component, torn, alive, crashes>>
    BY <1>2 DEF AfterUpdate, RebuildManagers
  <2>2. HostOK' /\ RuntimeOK' /\ WorkerOK' /\ ComponentOK'
    BY <1>0, <2>1, NoWorkerOK DEF HostOK, RuntimeOK, WorkerOK, ComponentOK, project, runtime, ownership, component
  <2>3. faults' \in 0..MaxFaults /\ after' \subseteq {"rebuild", "restart"}
    BY <1>0, <1>2, Budget DEF AfterUpdate, RebuildManagers, AgentOK
  <2>4. /\ panel' = panel \/ panel' = [panel EXCEPT !.rebuilding = TRUE]
        /\ rb' = rb \/ rb' = [pc |-> "build", saved |-> manager.tree, ok |-> FALSE]
    BY <1>2 DEF AfterUpdate, RebuildManagers, begin_rebuild
  <2>5. panel' \in [version : Bytes, status : Statuses, pending : BOOLEAN, rebuilding : BOOLEAN]
    BY <1>0, <2>4 DEF AgentOK
  <2>6. manager.tree \in Bytes
    BY <1>0 DEF AgentOK
  <2>7. rb' \in [pc : {"idle", "build", "restore", "verdict"}, saved : Bytes, ok : BOOLEAN]
    <3>1. [pc |-> "build", saved |-> manager.tree, ok |-> FALSE]
            \in [pc : {"idle", "build", "restore", "verdict"}, saved : Bytes, ok : BOOLEAN]
      BY <2>6
    <3> QED
      BY <1>0, <2>4, <3>1 DEF AgentOK
  <2> QED
    BY <1>0, <2>1, <2>2, <2>3, <2>5, <2>7, TypesAre DEF AgentOK, RestOK
<1>3. CASE RestartAgent
  <2>1. /\ UNCHANGED <<trees, backup, db, snap, parts, crashes, image, box, ownership, panel, manager, running, comp>>
        /\ w' = NoWorker /\ after' = {} /\ rb' = [rb EXCEPT !.pc = "idle"] /\ c' = NoUpdate
        /\ alive' = FALSE /\ lock' = FALSE /\ torn' \subseteq {"panel", "component", "again"} /\ faults' = faults
    BY <1>0, <1>3 DEF RestartAgent, down, left, fine, RestOK
  <2> QED
    BY <1>0, <2>1, NoWorkerOK, TypesAre DEF HostOK, RuntimeOK, WorkerOK, ComponentOK, AgentOK, RestOK, ownership
<1>4. CASE Rebuild \/ HealPending \/ HostRebuild \/ AckManagers \/ Expire
  <2>1. UNCHANGED <<project, runtime, ownership, lock, w, after, component, torn, alive, crashes>>
    BY <1>4 DEF Rebuild, RebuildServices, RestoreServices, RebuildVerdict, HealPending, HostRebuild, AckManagers,
                Expire, rebuild_frame
  <2>2. HostOK' /\ RuntimeOK' /\ WorkerOK' /\ ComponentOK'
    BY <1>0, <2>1, NoWorkerOK DEF HostOK, RuntimeOK, WorkerOK, ComponentOK, project, runtime, ownership, component
  <2>3. faults' \in 0..MaxFaults
    BY <1>0, <1>4, Budget DEF Rebuild, RebuildServices, RestoreServices, RebuildVerdict, HealPending, HostRebuild, AckManagers, Expire
  <2>4. trees["manager"] \in Bytes
    BY <1>0, EntriesAre DEF HostOK
  <2>5. manager' \in [tree : Bytes, fresh : BOOLEAN]
    <3>1. \/ manager' = manager \/ manager' = [tree |-> trees["manager"], fresh |-> TRUE]
          \/ manager' = [tree |-> rb.saved, fresh |-> FALSE]
      BY <1>4 DEF Rebuild, RebuildServices, RestoreServices, RebuildVerdict, HealPending, HostRebuild, AckManagers,
                  Expire, managers
    <3>2. rb.saved \in Bytes /\ manager \in [tree : Bytes, fresh : BOOLEAN]
      BY <1>0 DEF AgentOK
    <3>3. /\ [tree |-> trees["manager"], fresh |-> TRUE] \in [tree : Bytes, fresh : BOOLEAN]
          /\ [tree |-> rb.saved, fresh |-> FALSE] \in [tree : Bytes, fresh : BOOLEAN]
      BY <2>4, <3>2
    <3> QED
      BY <3>1, <3>2, <3>3
  <2>6. rb' \in [pc : {"idle", "build", "restore", "verdict"}, saved : Bytes, ok : BOOLEAN]
    <3>1. \/ rb' = rb \/ rb' = [rb EXCEPT !.pc = "verdict"] \/ rb' = [rb EXCEPT !.pc = "verdict", !.ok = TRUE]
          \/ rb' = [rb EXCEPT !.pc = "restore"] \/ rb' = [rb EXCEPT !.pc = "idle"]
      BY <1>4 DEF Rebuild, RebuildServices, RestoreServices, RebuildVerdict, HealPending, HostRebuild, AckManagers,
                  Expire, managers
    <3> QED
      BY <1>0, <3>1 DEF AgentOK
  <2>7. panel' \in [version : Bytes, status : Statuses, pending : BOOLEAN, rebuilding : BOOLEAN]
    <3>1. \/ panel' = panel \/ panel' = [panel EXCEPT !.rebuilding = FALSE, !.pending = @ /\ ~rb.ok]
          \/ panel' = [panel EXCEPT !.pending = FALSE] \/ panel' = [panel EXCEPT !.rebuilding = FALSE]
      BY <1>4 DEF Rebuild, RebuildServices, RestoreServices, RebuildVerdict, HealPending, HostRebuild, AckManagers,
                  Expire, managers
    <3>2. (panel.pending /\ ~rb.ok) \in BOOLEAN
      BY <1>0, Zenon DEF AgentOK
    <3> QED
      BY <1>0, <3>1, <3>2 DEF AgentOK
  <2> QED
    BY <1>0, <2>1, <2>2, <2>3, <2>5, <2>6, <2>7, TypesAre DEF AgentOK, RestOK
<1>5. CASE Start
  <2>1. UNCHANGED <<project, runtime, ownership, lock, w, after, managers, parts, running, c, torn, crashes>>
    BY <1>5 DEF Start
  <2>2. HostOK' /\ RuntimeOK' /\ WorkerOK'
    BY <1>0, <2>1 DEF HostOK, RuntimeOK, WorkerOK, project, runtime, ownership
  <2>3. panel' \in [version : Bytes, status : Statuses, pending : BOOLEAN, rebuilding : BOOLEAN]
    <3>1. (panel.pending /\ panel.status # "updating") \in BOOLEAN
      BY <1>0, Zenon DEF AgentOK
    <3>2. (IF panel.status = "updating" THEN "update_failed" ELSE panel.status) \in Statuses
      BY <1>0 DEF AgentOK, Statuses
    <3>3. \/ panel' = panel
          \/ panel' = [panel EXCEPT !.status = IF @ = "updating" THEN "update_failed" ELSE @,
                                    !.pending = @ /\ panel.status # "updating", !.rebuilding = FALSE]
      BY <1>5 DEF Start, recovered
    <3> QED
      BY <1>0, <3>1, <3>2, <3>3 DEF AgentOK
  <2>4. comp' \in [version : Releases, latched : BOOLEAN,
                   op : {"none", "running", "succeeded", "rolled_back", "rollback_failed", "update_failed", "interrupted"}]
    BY <1>0, <1>5 DEF Start, recovered, ComponentOK
  <2>5. alive' = TRUE /\ faults' \in 0..MaxFaults
    BY <1>0, <1>5, Budget DEF Start
  <2> QED
    BY <1>0, <2>1, <2>2, <2>3, <2>4, <2>5, TypesAre DEF ComponentOK, AgentOK, RestOK, managers
<1>6. CASE Resume \/ \E v \in Releases : Reconcile(v)
  <2>1. installer_frame /\ journal' \in {journal, trees} /\ owned' \in {owned, journal, trees}
    BY <1>6 DEF Resume, Reconcile
  <2> QED
    BY <1>0, <2>1, TypesAre DEF installer_frame, fine, project, runtime, managers, component,
       HostOK, RuntimeOK, WorkerOK, ComponentOK, AgentOK, RestOK
<1>7. ASSUME NEW v \in Releases, Request(v)
      PROVE  TypeOK'
  <2>1. /\ UNCHANGED <<project, runtime, ownership, lock, after, managers, component, alive, crashes>>
        /\ torn' \subseteq torn \cup {"again"}
    BY <1>7 DEF Request
  <2>2. HostOK' /\ RuntimeOK' /\ ComponentOK'
    BY <1>0, <2>1 DEF HostOK, RuntimeOK, ComponentOK, project, runtime, ownership, component
  <2>3. panel_current \in Bytes
    BY <1>0, ReleasesAre, EntriesAre DEF panel_current, HostOK, RuntimeOK, AgentOK
  <2>4. panel' \in [version : Bytes, status : Statuses, pending : BOOLEAN, rebuilding : BOOLEAN]
    BY <1>7, <2>3 DEF Request, Statuses
  <2>5. WorkerOK'
    <3>1. w' = [NoWorker EXCEPT !.pc = "download", !.to = v, !.from = panel_current] \/ w' = w
      BY <1>7 DEF Request
    <3>2. "download" \in Pcs /\ v \in 0..MaxRelease
      BY ReleasesAre, PcsAre
    <3> QED
      BY <1>0, <2>3, <3>1, <3>2, NoWorkerOK DEF WorkerOK
  <2>6. faults' \in 0..MaxFaults
    BY <1>0, <1>7, Budget DEF Request
  <2> QED
    BY <1>0, <2>1, <2>2, <2>4, <2>5, <2>6, TypesAre DEF AgentOK, RestOK, managers
<1> QED
  BY <1>1, <1>2, <1>3, <1>4, <1>5, <1>6, <1>7

\* A component's update and the death of the agent keep the types; a death leaves Torn where it struck.
LEMMA ComponentTypes ==
  ASSUME TypeOK, Forward, Writing,
         Component \/ Crash \/ \E v \in 1..MaxBuild : UpdateComponent(v)
  PROVE  TypeOK'
<1>0. HostOK /\ RuntimeOK /\ WorkerOK /\ AgentOK /\ ComponentOK /\ RestOK
  BY TypesAre
<1>1. ASSUME component_frame
      PROVE  HostOK' /\ RuntimeOK' /\ WorkerOK' /\ AgentOK' /\ UNCHANGED <<lock, alive, crashes>>
  BY <1>0, <1>1 DEF component_frame, project, runtime, ownership, managers, HostOK, RuntimeOK, WorkerOK, AgentOK
<1>2. /\ parts \in [PartNames -> Bytes] /\ running \in Bytes /\ c.saved \in [PartNames -> Bytes]
      /\ c.k \in 1..4 /\ c.to \in 0..MaxRelease /\ c.to \in Bytes /\ "binary" \in PartNames
      /\ "overlay" \in PartNames /\ parts["binary"] \in Bytes /\ 0 \in Bytes
  BY <1>0, ReleasesAre, PartsAre DEF ComponentOK
<1>3. CASE Fetch
  <2>1. component_frame /\ UNCHANGED <<parts, running, torn>> /\ faults' \in 0..MaxFaults
    BY <1>0, <1>3, Budget DEF Fetch
  <2>2. ComponentOK'
    BY <1>0, <1>2, <1>3 DEF Fetch, finish, ComponentOK, Outcomes
  <2> QED
    BY <1>0, <1>1, <2>1, <2>2, TypesAre DEF RestOK
<1>4. CASE WritePart
  <2>1. component_frame /\ UNCHANGED <<running, comp, torn>> /\ faults' \in 0..MaxFaults
    BY <1>0, <1>4, Budget DEF WritePart
  <2>2. parts' \in [PartNames -> Bytes]
    BY <1>2, <1>4 DEF WritePart
  <2>3. \/ c.k < 3 /\ c' = [c EXCEPT !.k = c.k + 1]
        \/ c' = [c EXCEPT !.pc = "restart", !.touched = TRUE]
        \/ c' = [c EXCEPT !.pc = "undo"]
    BY <1>4, PartsAre DEF WritePart
  <2>4. c.k < 3 => c.k + 1 \in 1..4
    BY <1>2
  <2>5. ComponentOK'
    BY <1>0, <2>1, <2>2, <2>3, <2>4 DEF ComponentOK
  <2> QED
    BY <1>0, <1>1, <2>1, <2>5, TypesAre DEF RestOK
<1>5. CASE RestartComponent
  <2>1. component_frame /\ UNCHANGED <<parts, comp, torn>> /\ faults' \in 0..MaxFaults
    <3>1. consistent \in BOOLEAN
      BY DEF consistent
    <3> QED
      BY <1>0, <1>5, <3>1, Budget DEF RestartComponent
  <2>2. running' \in Bytes
    BY <1>2, <1>5 DEF RestartComponent, restarted
  <2>3. finish("succeeded") \/ c' = [c EXCEPT !.pc = "undo"]
    BY <1>5 DEF RestartComponent
  <2>4. ComponentOK'
    BY <1>0, <2>1, <2>2, <2>3 DEF ComponentOK, finish, Outcomes
  <2> QED
    BY <1>0, <1>1, <2>1, <2>4, TypesAre DEF RestOK
<1>6. previous_parts \in [PartNames -> Bytes]
  BY <1>2 DEF previous_parts
<1>7. partly(previous_parts) => parts' \in [PartNames -> Bytes]
  BY DEF partly
<1>8. CASE Undo
  <2>1. component_frame /\ UNCHANGED <<running, comp, torn>> /\ faults' \in 0..MaxFaults
    BY <1>0, <1>8, Budget DEF Undo
  <2>2. parts' \in [PartNames -> Bytes]
    BY <1>6, <1>7, <1>8 DEF Undo
  <2>3. finish("rollback_failed") \/ c' = [c EXCEPT !.pc = "reload"]
    BY <1>8 DEF Undo
  <2>4. ComponentOK'
    BY <1>0, <2>1, <2>2, <2>3 DEF ComponentOK, finish, Outcomes
  <2> QED
    BY <1>0, <1>1, <2>1, <2>4, TypesAre DEF RestOK
<1>9. CASE Reload
  <2>1. component_frame /\ UNCHANGED <<parts, comp, torn>> /\ faults' \in 0..MaxFaults
    <3>1. consistent \in BOOLEAN
      BY DEF consistent
    <3> QED
      BY <1>0, <1>9, <3>1, Budget DEF Reload
  <2>2. running' \in Bytes
    BY <1>2, <1>9 DEF Reload, restarted
  <2>3. finish("rolled_back") \/ finish("rollback_failed")
    BY <1>9 DEF Reload
  <2>4. ComponentOK'
    BY <1>0, <2>1, <2>2, <2>3 DEF ComponentOK, finish, Outcomes
  <2> QED
    BY <1>0, <1>1, <2>1, <2>4, TypesAre DEF RestOK
<1>10. ASSUME NEW v \in 1..MaxBuild, UpdateComponent(v)
       PROVE  TypeOK'
  <2>1. component_frame /\ UNCHANGED <<parts, running, torn>> /\ faults' = faults
    BY <1>10 DEF UpdateComponent, component_frame, fine
  <2>2. comp' = [comp EXCEPT !.op = "running"] /\ c' = [NoUpdate EXCEPT !.pc = "fetch", !.to = v]
    BY <1>10 DEF UpdateComponent
  <2>3. v \in 0..MaxRelease
    BY ReleasesAre
  <2>4. ComponentOK'
    BY <1>0, <2>1, <2>2, <2>3, NoWorkerOK DEF ComponentOK
  <2> QED
    BY <1>0, <1>1, <2>1, <2>4, TypesAre DEF RestOK
<1>11. CASE Crash
  <2>1. /\ alive' = FALSE /\ lock' = FALSE /\ crashes < MaxCrashes /\ crashes' = crashes + 1 /\ faults' \in 0..MaxFaults
        /\ w' = NoWorker /\ after' = {} /\ rb' = [rb EXCEPT !.pc = "idle"] /\ c' = NoUpdate
        /\ UNCHANGED <<image, box, ownership, panel, manager, running, comp>>
    BY <1>0, <1>11, Budget DEF Crash, down
  <2>2. torn' \subseteq {"panel", "component", "again"}
    BY <1>0, <1>11 DEF Crash, down, left, RestOK
  <2>3. entry \in Names \/ ~(w.k \in Idx)
    BY EntriesAre DEF entry
  <2>4. w.pc \in {"move", "copy"} => w.k \in Idx
    BY DEF Forward
  <2>5. w.k <= w.synced => w.k \in Idx
    BY <1>0, WorkerFields DEF Idx
  <2>6. trees' \in [Names -> Bytes] /\ backup' \in [Names -> Bytes]
    BY <1>0, <1>11, <2>3, <2>4, <2>5, ReleasesAre DEF Crash, debris, half_copied, half_removed, HostOK
  <2>7. db' \in Bytes /\ snap' \in Bytes
    BY <1>0, <1>11, ReleasesAre DEF Crash, debris, half_copied, half_removed, RuntimeOK
  <2>8. parts' \in [PartNames -> Bytes]
    BY <1>2, <1>7, <1>11 DEF Crash, debris
  <2>9. crashes' \in 0..MaxCrashes
    BY <1>0, <2>1, LimitsAssumption DEF RestOK
  <2>10. HostOK' /\ RuntimeOK' /\ WorkerOK'
    BY <1>0, <2>1, <2>6, <2>7, NoWorkerOK DEF HostOK, RuntimeOK, WorkerOK, ownership
  <2>11. AgentOK' /\ ComponentOK'
    BY <1>0, <2>1, <2>8, NoWorkerOK DEF AgentOK, ComponentOK
  <2> QED
    BY <2>1, <2>2, <2>9, <2>10, <2>11, TypesAre DEF RestOK
<1>12. CASE RecordComponent
  <2>1. component_frame /\ UNCHANGED <<parts, running>> /\ faults' \in 0..MaxFaults /\ c' = NoUpdate
    BY <1>0, <1>12, Budget DEF RecordComponent
  <2>2. torn' \subseteq {"panel", "component", "again"}
    BY <1>0, <1>12 DEF RecordComponent, RestOK
  <2>3. /\ c.outcome \in Outcomes \ {"none"} /\ c.to \in Releases /\ comp.version \in Releases
    BY <1>0, <1>12, ReleasesAre DEF RecordComponent, Writing, ComponentOK
  <2>4. comp' \in [version : Releases, latched : BOOLEAN,
                   op : {"none", "running", "succeeded", "rolled_back", "rollback_failed", "update_failed", "interrupted"}]
    <3>1. \/ comp' = comp
          \/ \E b \in BOOLEAN, v \in Releases : comp' = [version |-> v, latched |-> b, op |-> c.outcome]
      BY <1>12, <2>3 DEF RecordComponent
    <3> QED
      BY <1>0, <2>3, <3>1 DEF ComponentOK, Outcomes
  <2>5. ComponentOK'
    BY <1>0, <2>1, <2>4, NoWorkerOK DEF ComponentOK
  <2> QED
    BY <1>0, <1>1, <2>1, <2>2, <2>5, TypesAre DEF RestOK
<1> QED
  BY <1>3, <1>4, <1>5, <1>8, <1>9, <1>10, <1>11, <1>12 DEF Component

\* Every step keeps the types.
LEMMA TypeStep ==
  ASSUME TypeOK, Forward, Writing, [Next]_vars
  PROVE  TypeOK'
<1>1. CASE UNCHANGED vars
  BY <1>1 DEF vars, project, runtime, ownership, managers, component, budgets, TypeOK
<1> QED
  BY <1>1, WorkerTypes, AgentTypes, ComponentTypes DEF Next, Worker

---------------------------------------------------------------------------
(* The operations keep out of each other's way *)

Steps == Download \/ Lock \/ Prepare \/ Swap \/ Restore

\* A step of the panel update belongs to a running update, does not end it, and touches neither the state
\* file nor the other operations; a tree it cannot remove is remembered in torn.
LEMMA StepFrame ==
  ASSUME WorkerOK, Steps
  PROVE  /\ w.pc \notin {"idle", "verdict"} /\ w'.pc # "idle"
         /\ UNCHANGED <<panel, after, manager, rb, parts, running, comp, c, alive, crashes>>
         /\ "component" \in torn' <=> "component" \in torn
         /\ "panel" \notin torn' => "panel" \notin torn
<1>1. ASSUME NEW p \in Pcs \ {"idle"}, w' = [w EXCEPT !.pc = p]
      PROVE  w'.pc # "idle"
  BY <1>1 DEF WorkerOK
<1>2. w.pc \notin {"idle", "verdict"}
  BY DEF Steps, Download, Lock, Prepare, Swap, Move, Copy, Tag, Build, Stop, Snapshot, Up, Check, Commit, Derive,
         Restore, RestoreStop, RestoreTree, RestoreDb, RestoreUp, RestoreCheck
<1>3. w'.pc # "idle"
  <2>1. CASE Download \/ Lock \/ Prepare
    BY <2>1, PcsAre DEF WorkerOK, Download, Lock, Prepare, goto, conclude
  <2>2. CASE Move \/ Copy \/ Tag \/ Build \/ Stop
    BY <2>2, PcsAre DEF WorkerOK, Move, Copy, Tag, Build, Stop, goto
  <2>3. CASE Snapshot \/ Up \/ Check \/ Commit \/ Derive
    BY <2>3, PcsAre DEF WorkerOK, Snapshot, Up, Check, Commit, Derive, goto, conclude
  <2>4. CASE Restore
    BY <2>4, PcsAre DEF WorkerOK, Restore, RestoreStop, RestoreTree, RestoreDb, RestoreUp, RestoreCheck, give_up, goto, conclude
  <2> QED
    BY <2>1, <2>2, <2>3, <2>4 DEF Steps, Swap
<1>4. CASE worker_frame
  BY <1>2, <1>3, <1>4 DEF worker_frame, managers, component
<1>5. CASE Move
  BY <1>2, <1>3, <1>5 DEF Move, managers, component
<1>6. worker_frame \/ Move
  BY DEF Steps, Download, Lock, Prepare, Swap, Copy, Tag, Build, Stop, Snapshot, Up, Check, Commit, Derive,
         Restore, RestoreStop, RestoreTree, RestoreDb, RestoreUp, RestoreCheck
<1> QED
  BY <1>4, <1>5, <1>6

\* No step lets a second operation in, or leaves one running without its marker.
LEMMA MarkedStep ==
  ASSUME TypeOK, Marked, OneOperation, [Next]_vars
  PROVE  Marked' /\ OneOperation'
<1>0. WorkerOK /\ AgentOK /\ ComponentOK
  BY TypesAre
<1>1. CASE Steps
  BY <1>0, <1>1, StepFrame DEF Marked, OneOperation
<1>2. CASE Verdict
  <2>1. w'.pc = "idle" /\ rb.pc = "idle" /\ c.pc = "idle" /\ UNCHANGED <<rb, comp, c, alive>>
    BY <1>2 DEF Verdict, lock_free, NoWorker, component, OneOperation
  <2> QED
    BY <2>1 DEF Marked, OneOperation
<1>3. CASE AfterUpdate \/ RebuildManagers
  <2>1. alive /\ c.pc = "idle" /\ UNCHANGED <<w, comp, c, alive>>
    BY <1>3 DEF AfterUpdate, RebuildManagers, lock_free, component
  <2>2. \/ rebuild_preflight /\ panel' = [panel EXCEPT !.rebuilding = TRUE]
        \/ UNCHANGED <<panel, rb>>
    BY <1>3 DEF AfterUpdate, RebuildManagers, begin_rebuild
  <2>3. CASE UNCHANGED <<panel, rb>>
    BY <2>1, <2>3 DEF Marked, OneOperation
  <2>4. CASE rebuild_preflight /\ panel' = [panel EXCEPT !.rebuilding = TRUE]
    <3>1. w.pc = "idle" /\ panel'.status = panel.status /\ panel'.rebuilding = TRUE
      BY <1>0, <2>4 DEF rebuild_preflight, Marked, AgentOK
    <3> QED
      BY <2>1, <3>1 DEF Marked, OneOperation
  <2> QED
    BY <2>2, <2>3, <2>4
<1>4. CASE RestartAgent \/ Crash
  <2>1. w'.pc = "idle" /\ rb'.pc = "idle" /\ c'.pc = "idle" /\ comp' = comp /\ alive' = FALSE
    BY <1>0, <1>4 DEF RestartAgent, Crash, down, NoWorker, NoUpdate, AgentOK
  <2> QED
    BY <2>1 DEF Marked, OneOperation
<1>5. CASE Rebuild
  <2>1. rb.pc # "idle" /\ UNCHANGED <<w, comp, c, alive>>
    BY <1>5 DEF Rebuild, RebuildServices, RestoreServices, RebuildVerdict, rebuild_frame, component
  <2>2. panel.rebuilding /\ w.pc = "idle" /\ c.pc = "idle"
    BY <2>1 DEF Marked, OneOperation
  <2>3. panel' = panel \/ rb'.pc = "idle"
    BY <1>0, <1>5 DEF Rebuild, RebuildServices, RestoreServices, RebuildVerdict, AgentOK
  <2> QED
    BY <2>1, <2>2, <2>3 DEF Marked, OneOperation
<1>6. CASE HealPending \/ HostRebuild \/ AckManagers \/ Expire
  <2>1. UNCHANGED <<w, comp, c, alive, rb>>
    BY <1>6 DEF HealPending, HostRebuild, AckManagers, Expire, rebuild_frame, component, managers
  <2>2. panel'.status = panel.status /\ (panel'.rebuilding = panel.rebuilding \/ rb.pc = "idle")
    BY <1>0, <1>6 DEF HealPending, HostRebuild, AckManagers, Expire, AgentOK
  <2> QED
    BY <2>1, <2>2 DEF Marked, OneOperation
<1>7. CASE Start
  <2>1. w'.pc = "idle" /\ rb'.pc = "idle" /\ c'.pc = "idle"
    BY <1>7 DEF Start, Marked, managers
  <2>2. comp'.latched => comp'.op = "rollback_failed"
    BY <1>0, <1>7 DEF Start, recovered, Marked, ComponentOK
  <2>3. alive'
    BY <1>7 DEF Start
  <2> QED
    BY <2>1, <2>2, <2>3 DEF Marked, OneOperation
<1>8. CASE Resume \/ \E v \in Releases : Reconcile(v)
  BY <1>8 DEF Resume, Reconcile, installer_frame, managers, component, Marked, OneOperation
<1>9. ASSUME NEW v \in Releases, Request(v)
      PROVE  Marked' /\ OneOperation'
  <2>1. c.pc = "idle" /\ alive /\ rb.pc = "idle" /\ UNCHANGED <<rb, comp, c, alive>>
    BY <1>9 DEF Request, lock_free, Marked, managers, component
  <2>2. panel'.status = "updating"
    BY <1>9 DEF Request
  <2> QED
    BY <2>1, <2>2 DEF Marked, OneOperation
<1>10. ASSUME NEW v \in 1..MaxBuild, UpdateComponent(v)
       PROVE  Marked' /\ OneOperation'
  <2>1. alive /\ w.pc = "idle" /\ rb.pc = "idle" /\ ~comp.latched /\ UNCHANGED <<panel, w, rb, alive>>
    BY <1>10 DEF UpdateComponent, lock_free, compose_idle, Marked, managers
  <2>2. comp'.op = "running" /\ comp'.latched = comp.latched
    BY <1>0, <1>10 DEF UpdateComponent, ComponentOK
  <2> QED
    BY <2>1, <2>2 DEF Marked, OneOperation
<1>11. CASE Component
  <2>1. UNCHANGED <<panel, w, rb, alive>> /\ c.pc # "idle"
    BY <1>11 DEF Component, Fetch, WritePart, RestartComponent, Undo, Reload, RecordComponent, component_frame, managers
  <2>2. comp' = comp \/ RecordComponent
    BY <1>11 DEF Component, Fetch, WritePart, RestartComponent, Undo, Reload
  <2>3. RecordComponent => c'.pc = "idle" /\ (comp' = comp \/ (comp'.latched => comp'.op = "rollback_failed"))
    <3>1. RecordComponent => c'.pc = "idle"
      BY DEF RecordComponent, NoUpdate
    <3>2. RecordComponent => comp' = comp \/ \E v, o : comp' = [version |-> v, latched |-> o = "rollback_failed", op |-> o]
      BY Zenon DEF RecordComponent
    <3>3. \A v, o : [version |-> v, latched |-> o = "rollback_failed", op |-> o].latched => o = "rollback_failed"
      BY Zenon
    <3>4. \A v, o : [version |-> v, latched |-> o = "rollback_failed", op |-> o].op = o
      BY Zenon
    <3>5. ASSUME NEW v, NEW o, comp' = [version |-> v, latched |-> o = "rollback_failed", op |-> o], comp'.latched
          PROVE  comp'.op = "rollback_failed"
      <4>1. comp'.op = o /\ o = "rollback_failed"
        BY <3>3, <3>4, <3>5, Zenon
      <4> QED
        BY <4>1, Zenon
    <3> QED
      BY <3>1, <3>2, <3>5
  <2> QED
    BY <2>1, <2>2, <2>3 DEF Marked, OneOperation
<1>12. CASE UNCHANGED vars
  BY <1>12 DEF vars, managers, component, Marked, OneOperation
<1> QED
  BY <1>1, <1>2, <1>3, <1>4, <1>5, <1>6, <1>7, <1>8, <1>9, <1>10, <1>11, <1>12 DEF Next, Worker, Steps

---------------------------------------------------------------------------
(* The component's record tells what runs *)

\* Every step keeps what is known of the component's files, its record and the backup of its update.
LEMMA ComponentStep ==
  ASSUME TypeOK, Marked, OneOperation, Writing, Recorded, [Next]_vars
  PROVE  Writing' /\ Recorded'
<1>0. WorkerOK /\ ComponentOK
  BY TypesAre
<1>1. ASSUME UNCHANGED <<parts, running, comp, c>>, "component" \in torn' <=> "component" \in torn
      PROVE  Writing' /\ Recorded'
  BY <1>1 DEF Writing, Recorded, Settled
<1>2. CASE Steps
  BY <1>0, <1>1, <1>2, StepFrame
<1>3. CASE Verdict
  <2>1. "component" \in torn' <=> "component" \in torn
    BY <1>3 DEF Verdict
  <2> QED
    BY <1>1, <1>3, <2>1 DEF Verdict, component
<1>4. CASE \/ AfterUpdate \/ RebuildManagers \/ Rebuild \/ HealPending \/ HostRebuild \/ AckManagers \/ Expire
           \/ Resume \/ \E v \in Releases : Request(v) \/ Reconcile(v)
  <2>1. UNCHANGED component /\ ("component" \in torn' <=> "component" \in torn)
    BY <1>4 DEF AfterUpdate, RebuildManagers, Rebuild, RebuildServices, RestoreServices, RebuildVerdict, HealPending,
                HostRebuild, AckManagers, Expire, rebuild_frame, Resume, Reconcile, installer_frame, Request
  <2> QED
    BY <1>1, <2>1 DEF component
<1>5. CASE RestartAgent \/ Crash
  <2>1. c'.pc = "idle" /\ UNCHANGED <<running, comp>> /\ torn' = torn \cup left
    BY <1>5 DEF RestartAgent, Crash, down, NoUpdate
  <2>2. c.pc # "idle" => "component" \in torn'
    BY <2>1 DEF left
  <2>3. c.pc = "idle" => parts' = parts
    BY <1>5 DEF RestartAgent, Crash, debris
  <2>4. "component" \notin torn' => "component" \notin torn /\ c.pc = "idle"
    BY <2>1, <2>2
  <2> QED
    BY <2>1, <2>3, <2>4 DEF Writing, Recorded, Settled
<1>6. CASE Start
  <2>1. UNCHANGED <<parts, running, c, torn>> /\ c.pc = "idle"
    BY <1>6 DEF Start, Marked
  <2>2. comp'.version = comp.version /\ comp'.latched = comp.latched
    BY <1>0, <1>6 DEF Start, recovered, ComponentOK
  <2> QED
    BY <2>1, <2>2 DEF Writing, Recorded, Settled
<1>7. ASSUME NEW v \in 1..MaxBuild, UpdateComponent(v)
      PROVE  Writing' /\ Recorded'
  <2>1. UNCHANGED <<parts, running, torn>> /\ c.pc = "idle" /\ ~comp.latched
    BY <1>7 DEF UpdateComponent, lock_free
  <2>2. comp'.version = comp.version /\ c'.pc = "fetch" /\ c'.to = v /\ c'.k = 1
    BY <1>0, <1>7 DEF UpdateComponent, ComponentOK, NoUpdate
  <2> QED
    BY <2>1, <2>2 DEF Writing, Recorded, Settled
<1>8. CASE Fetch
  <2>1. UNCHANGED <<parts, running, comp, torn>> /\ c.pc = "fetch" /\ ~comp.latched
    BY <1>8 DEF Fetch, Marked
  <2>2. CASE comp' = comp /\ c' = [c EXCEPT !.pc = "write", !.saved = parts]
    <3>1. c'.pc = "write" /\ c'.saved = parts /\ c'.to = c.to /\ c'.k = c.k
      BY <1>0, <2>2 DEF ComponentOK
    <3>2. c.k = 1
      BY <2>1 DEF Writing
    <3> QED
      BY <2>1, <2>2, <3>1, <3>2 DEF Writing, Recorded, Settled
  <2>3. CASE finish("update_failed")
    <3>1. c'.pc = "verdict" /\ c'.outcome = "update_failed" /\ c'.to = c.to
      BY <1>0, <2>3 DEF finish, ComponentOK
    <3> QED
      BY <2>1, <3>1 DEF Writing, Recorded, Settled
  <2> QED
    BY <1>8, <2>2, <2>3 DEF Fetch
<1>9. CASE WritePart
  <2>1. UNCHANGED <<running, comp, torn>> /\ c.pc = "write" /\ c.k \in 1..3 /\ part = Parts[c.k] /\ part \in PartNames
    BY <1>9, PartsAre DEF WritePart, Writing, part
  <2>2. CASE c' = [c EXCEPT !.pc = "undo"]
    <3>1. c'.pc = "undo" /\ c'.saved = c.saved /\ c'.to = c.to
      BY <1>0, <2>2 DEF ComponentOK
    <3> QED
      BY <2>1, <3>1 DEF Writing, Recorded
  <2>3. CASE /\ parts' = [parts EXCEPT ![part] = c.to]
             /\ c' = IF c.k < Len(Parts) THEN [c EXCEPT !.k = @ + 1] ELSE [c EXCEPT !.pc = "restart", !.touched = TRUE]
    <3>1. /\ c'.saved = c.saved /\ c'.to = c.to
          /\ IF c.k < 3 THEN c'.pc = "write" /\ c'.k = c.k + 1 ELSE c'.pc = "restart"
      BY <1>0, <2>1, <2>3, PartsAre DEF ComponentOK
    <3>2. parts'[Parts[c.k]] = c.to /\ \A j \in 1..3 : j < c.k => parts'[Parts[j]] = c.to
      BY <1>0, <2>1, <2>3, PartsAre DEF ComponentOK, Writing
    <3>3. \A j \in 1..3 : j <= c.k => parts'[Parts[j]] = c.to
      BY <2>1, <3>2
    <3>4. c.k >= 3 => \A n \in PartNames : parts'[n] = c.to
      BY <2>1, <3>3, PartsAre
    <3> QED
      BY <2>1, <3>1, <3>3, <3>4 DEF Writing, Recorded
  <2> QED
    BY <1>9, <2>2, <2>3 DEF WritePart
<1>10. CASE RestartComponent
  <2>1. c.pc = "restart" /\ UNCHANGED <<parts, comp, torn>>
    BY <1>10 DEF RestartComponent
  <2>2. CASE c' = [c EXCEPT !.pc = "undo"]
    <3>1. c'.pc = "undo" /\ c'.saved = c.saved /\ c'.to = c.to
      BY <1>0, <2>2 DEF ComponentOK
    <3> QED
      BY <2>1, <2>2, <3>1 DEF Writing, Recorded
  <2>3. CASE consistent /\ running' = restarted /\ finish("succeeded")
    <3>1. c'.pc = "verdict" /\ c'.outcome = "succeeded" /\ c'.to = c.to
      BY <1>0, <2>3 DEF finish, ComponentOK
    <3>2. running' = c.to /\ \A n \in PartNames : parts'[n] = c.to
      BY <2>1, <2>3, PartsAre DEF Writing, restarted
    <3> QED
      BY <2>1, <3>1, <3>2 DEF Writing, Recorded, Settled
  <2> QED
    BY <1>10, <2>2, <2>3 DEF RestartComponent
<1>11. CASE Undo
  <2>1. c.pc = "undo" /\ UNCHANGED <<running, comp, torn>>
    BY <1>11 DEF Undo
  <2>2. CASE parts' = previous_parts /\ c' = [c EXCEPT !.pc = "reload"]
    <3>1. c'.pc = "reload" /\ c'.to = c.to
      BY <1>0, <2>2 DEF ComponentOK
    <3>2. parts'["binary"] = c.saved["binary"]
      BY <1>0, <2>2, PartsAre DEF previous_parts, ComponentOK
    <3> QED
      BY <2>1, <2>2, <3>1, <3>2, PartsAre DEF Writing, Recorded
  <2>3. CASE finish("rollback_failed")
    <3>1. c'.pc = "verdict" /\ c'.outcome = "rollback_failed" /\ c'.to = c.to
      BY <1>0, <2>3 DEF finish, ComponentOK
    <3> QED
      BY <2>1, <3>1 DEF Writing, Recorded
  <2> QED
    BY <1>11, <2>2, <2>3 DEF Undo
<1>12. CASE Reload
  <2>1. c.pc = "reload" /\ UNCHANGED <<parts, comp, torn>>
    BY <1>12 DEF Reload
  <2>2. CASE consistent /\ running' = restarted /\ finish("rolled_back")
    <3>1. c'.pc = "verdict" /\ c'.outcome = "rolled_back" /\ c'.to = c.to
      BY <1>0, <2>2 DEF finish, ComponentOK
    <3>2. running' = parts["binary"] /\ \A n \in PartNames : parts[n] = parts["binary"]
      BY <2>2 DEF consistent, restarted
    <3> QED
      BY <2>1, <3>1, <3>2 DEF Writing, Recorded, Settled
  <2>3. CASE finish("rollback_failed")
    <3>1. c'.pc = "verdict" /\ c'.outcome = "rollback_failed" /\ c'.to = c.to
      BY <1>0, <2>3 DEF finish, ComponentOK
    <3> QED
      BY <2>1, <3>1 DEF Writing, Recorded
  <2> QED
    BY <1>12, <2>2, <2>3 DEF Reload
<1>14. CASE RecordComponent
  <2>1. c.pc = "verdict" /\ UNCHANGED <<parts, running>> /\ c'.pc = "idle"
    BY <1>14 DEF RecordComponent, NoUpdate
  <2>2. c.outcome \in {"succeeded", "update_failed", "rolled_back", "rollback_failed"}
    BY <1>0, <2>1 DEF Writing, ComponentOK, Outcomes
  <2>3. Writing'
    BY <2>1 DEF Writing
  <2>4. ASSUME "component" \notin torn', ~comp'.latched
        PROVE  running' = comp'.version /\ \A n \in PartNames : parts'[n] = comp'.version
    <3>1. CASE c.outcome = "succeeded"
      <4>1. comp'.version = c.to
        BY <1>14, <2>4, <3>1 DEF RecordComponent
      <4>2. Settled(c.to)
        BY <2>1, <3>1 DEF Writing
      <4> QED
        BY <2>1, <4>1, <4>2 DEF Settled
    <3>2. CASE c.outcome \in {"update_failed", "rolled_back"}
      <4>1. comp'.version = comp.version /\ "component" \notin torn
        BY <1>14, <2>4, <3>2 DEF RecordComponent
      <4>2. Settled(comp.version)
        BY <2>1, <3>2, <4>1 DEF Recorded
      <4> QED
        BY <2>1, <4>1, <4>2 DEF Settled
    <3>3. CASE c.outcome = "rollback_failed"
      <4>0. \/ torn' = torn \cup {"component"}
            \/ \E v : comp' = [version |-> v, latched |-> c.outcome = "rollback_failed", op |-> c.outcome]
        BY <1>14, <3>3 DEF RecordComponent
      <4>a. \A v : [version |-> v, latched |-> c.outcome = "rollback_failed", op |-> c.outcome].latched
        BY <3>3, Zenon
      <4>1. "component" \in torn' \/ comp'.latched
        BY <4>0, <4>a, Zenon
      <4> QED
        BY <2>4, <4>1
    <3> QED
      BY <2>2, <3>1, <3>2, <3>3
  <2> QED
    BY <2>1, <2>3, <2>4 DEF Recorded, Settled
<1>13. CASE UNCHANGED vars
  BY <1>1, <1>13 DEF vars, component
<1> QED
  BY <1>2, <1>3, <1>4, <1>5, <1>6, <1>7, <1>8, <1>9, <1>10, <1>11, <1>12, <1>13, <1>14 DEF Next, Worker, Steps, Component

---------------------------------------------------------------------------
(* The way forward *)

\* What goto and conclude leave of the thread's record.
LEMMA Goes ==
  ASSUME WorkerOK
  PROVE  /\ \A p \in Pcs : goto(p) =>
              /\ w'.pc = p /\ w'.to = w.to /\ w'.from = w.from /\ w'.k = w.k /\ w'.synced = w.synced /\ w'.saved = w.saved
              /\ w'.tag = w.tag /\ w'.stranded = w.stranded /\ w'.outcome = w.outcome
         /\ \A o \in Outcomes : conclude(o) =>
              /\ w'.pc = "verdict" /\ w'.to = w.to /\ w'.from = w.from /\ w'.k = w.k /\ w'.synced = w.synced
              /\ w'.saved = w.saved /\ w'.tag = w.tag /\ w'.stranded = w.stranded /\ w'.outcome = o
BY DEF WorkerOK, goto, conclude

\* Trees that hold a release's content entry by entry are that release.
LEMMA IsRelease ==
  ASSUME NEW f \in [Names -> Bytes], NEW r \in Releases,
         \A j \in Idx : f[Entries[j]] = content(Entries[j], r)
  PROVE  f = release(r)
<1>1. \A n \in Names : f[n] = content(n, r)
  BY EntriesAre
<1> QED
  BY <1>1 DEF release

\* And the other way round.
LEMMA ReleaseIs ==
  ASSUME NEW r \in Releases
  PROVE  /\ \A j \in Idx : release(r)[Entries[j]] = content(Entries[j], r)
         /\ release(r)["panel"] = r /\ release(r)["VERSION"] = r
<1>1. \A n \in Names : release(r)[n] = content(n, r)
  BY ReleasesAre
<1>2. content("panel", r) = r /\ content("VERSION", r) = r
  BY DEF content
<1> QED
  BY <1>1, <1>2, EntriesAre

\* Outside the steps of the update, nothing it relies on changes while it runs.
LEMMA OthersKeep ==
  ASSUME TypeOK, Marked, OneOperation, Forward, [Next]_vars, ~Steps
  PROVE  \/ w'.pc = "idle"
         \/ /\ UNCHANGED <<project, runtime, w, lock>>
            /\ w.pc # "idle"
            /\ journal' = journal \/ (~lock /\ journal # trees /\ journal' = trees /\ Journaled)
         \/ \E v \in Releases : Request(v) /\ w' = [NoWorker EXCEPT !.pc = "download", !.to = v, !.from = panel_current]
<1>1. CASE Verdict \/ RestartAgent \/ Crash
  <2>1. w' = NoWorker
    BY <1>1 DEF Verdict, RestartAgent, Crash, down
  <2> QED
    BY <2>1 DEF NoWorker
<1>2. CASE AfterUpdate \/ RebuildManagers \/ Rebuild \/ HealPending \/ HostRebuild \/ AckManagers \/ Expire
  BY <1>2 DEF AfterUpdate, RebuildManagers, Rebuild, RebuildServices, RestoreServices, RebuildVerdict, HealPending,
              HostRebuild, AckManagers, Expire, rebuild_frame, ownership
<1>3. CASE Component \/ \E v \in 1..MaxBuild : UpdateComponent(v)
  BY <1>3 DEF Component, Fetch, WritePart, RestartComponent, Undo, Reload, RecordComponent, component_frame, UpdateComponent,
              ownership
<1>4. CASE Start
  BY <1>4 DEF Start, ownership
<1>5. CASE Resume \/ \E v \in Releases : Reconcile(v)
  BY <1>5 DEF Resume, Reconcile, installer_frame
<1>6. ASSUME NEW v \in Releases, Request(v)
      PROVE  \/ w'.pc = "idle"
             \/ w' = [NoWorker EXCEPT !.pc = "download", !.to = v, !.from = panel_current]
  BY <1>6 DEF Request, Marked
<1>7. CASE UNCHANGED vars
  BY <1>7 DEF vars, ownership
<1> QED
  BY <1>1, <1>2, <1>3, <1>4, <1>5, <1>6, <1>7 DEF Next, Worker, Steps

\* Every step keeps what is known of the way forward.
LEMMA ForwardStep ==
  ASSUME TypeOK, TypeOK', Marked, OneOperation, Forward, [Next]_vars
  PROVE  Forward'
<1>0. /\ HostOK /\ RuntimeOK /\ WorkerOK /\ HostOK'
  BY TypesAre
<1>a. w.pc # "idle" => w.to \in Releases
  BY DEF Forward
<1>1. CASE ~Steps
  <2>1. CASE w'.pc = "idle"
    BY <2>1 DEF Forward, Swapping, Restoring, Late
  <2>2. CASE /\ UNCHANGED <<project, runtime, w, lock>>
             /\ w.pc # "idle"
             /\ journal' = journal \/ (~lock /\ journal # trees /\ journal' = trees /\ Journaled)
    <3>1. CASE journal' = journal
      BY <2>2, <3>1 DEF Forward, RunsAt, JournalAt, WholeAt, project, runtime
    <3>2. CASE ~lock /\ journal # trees /\ Journaled
      <4>1. w.pc # "derive" /\ ~(w.pc = "verdict" /\ w.outcome = "succeeded")
        BY <3>2 DEF Forward, WholeAt, JournalAt, Swapping
      <4> QED
        BY <2>2, <4>1 DEF Forward, RunsAt, project, runtime
    <3> QED
      BY <2>2, <3>1, <3>2
  <2>3. ASSUME NEW v \in Releases, w' = [NoWorker EXCEPT !.pc = "download", !.to = v, !.from = panel_current]
        PROVE  Forward'
    <3>1. w'.pc = "download" /\ w'.to = v /\ w'.k = 1
      BY <2>3 DEF NoWorker
    <3> QED
      BY <3>1 DEF Forward, Swapping, Restoring, Late
  <2> QED
    BY <1>1, <2>1, <2>2, <2>3, OthersKeep
<1>2. CASE Download
  <2>1. (w'.pc = "lock" \/ (w'.pc = "verdict" /\ w'.outcome = "update_failed")) /\ w'.to = w.to /\ w'.k = w.k
    BY <1>0, <1>2, Goes, PcsAre DEF Download, Outcomes
  <2> QED
    BY <1>2, <1>a, <2>1 DEF Download, Forward, Swapping, Restoring, Late
<1>3. CASE Lock
  <2>1. ((w'.pc = "prepare" /\ lock') \/ (w'.pc = "verdict" /\ w'.outcome = "update_failed")) /\ w'.to = w.to /\ w'.k = w.k
    BY <1>0, <1>3, Goes, PcsAre DEF Lock, Outcomes
  <2> QED
    BY <1>3, <1>a, <2>1 DEF Lock, Forward, Swapping, Restoring, Late
<1>4. CASE Prepare
  <2>1. CASE conclude("update_failed")
    <3>1. w'.pc = "verdict" /\ w'.outcome = "update_failed" /\ w'.to = w.to
      BY <1>0, <2>1, Goes DEF Outcomes
    <3> QED
      BY <1>4, <1>a, <3>1 DEF Prepare, Forward, Swapping, Restoring, Late
  <2>2. CASE /\ w' = [w EXCEPT !.pc = "move", !.pending = trees["manager"] # content("manager", w.to)]
             /\ trees' = trees /\ lock' = lock
    <3>1. w'.pc = "move" /\ w'.to = w.to /\ w'.k = w.k
      BY <1>0, <2>2 DEF WorkerOK
    <3>2. w.k = 1 /\ lock
      BY <1>4 DEF Prepare, Forward
    <3> QED
      BY <1>4, <1>a, <2>2, <3>1, <3>2 DEF Prepare, Forward, Swapping, Restoring, Late, Idx
  <2> QED
    BY <1>4, <2>1, <2>2 DEF Prepare
<1>5. CASE Move
  <2>1. lock' = lock /\ lock /\ w.k \in Idx /\ entry = Entries[w.k] /\ entry \in Names /\ w.pc = "move"
    BY <1>5, EntriesAre DEF Move, Forward, Swapping, entry
  <2>2. CASE goto("r_stop")
    <3>1. w'.pc = "r_stop" /\ w'.to = w.to
      BY <1>0, <2>2, Goes, PcsAre
    <3> QED
      BY <1>a, <2>1, <3>1 DEF Forward, Swapping, Restoring, Late
  <2>3. CASE trees' = [trees EXCEPT ![entry] = 0] /\ w' = [w EXCEPT !.pc = "copy", !.synced = w.k]
    <3>1. w'.pc = "copy" /\ w'.to = w.to /\ w'.k = w.k
      BY <1>0, <2>3 DEF WorkerOK
    <3>2. \A j \in Idx : j < w.k => trees'[Entries[j]] = trees[Entries[j]]
      BY <1>0, <2>1, <2>3, EntriesAre DEF HostOK, Idx
    <3> QED
      BY <1>a, <2>1, <3>1, <3>2 DEF Forward, Swapping, Restoring, Late
  <2> QED
    BY <1>5, <2>2, <2>3 DEF Move
<1>6. CASE Copy
  <2>1. lock' = lock /\ lock /\ w.k \in Idx /\ entry = Entries[w.k] /\ entry \in Names /\ w.pc = "copy"
    BY <1>6, EntriesAre DEF Copy, Forward, Swapping, entry
  <2>2. CASE goto("r_stop")
    <3>1. w'.pc = "r_stop" /\ w'.to = w.to
      BY <1>0, <2>2, Goes, PcsAre
    <3> QED
      BY <1>a, <2>1, <3>1 DEF Forward, Swapping, Restoring, Late
  <2>3. CASE /\ trees' = [trees EXCEPT ![entry] = content(entry, w.to)]
             /\ w' = IF w.k < Len(Entries) THEN [w EXCEPT !.pc = "move", !.k = @ + 1] ELSE [w EXCEPT !.pc = "tag"]
    <3>1. /\ w'.to = w.to
          /\ IF w.k < 4 THEN w'.pc = "move" /\ w'.k = w.k + 1 ELSE w'.pc = "tag"
      BY <1>0, <2>3, EntriesAre DEF WorkerOK
    <3>2. \A j \in Idx : j <= w.k => trees'[Entries[j]] = content(Entries[j], w.to)
      BY <1>0, <2>1, <2>3, EntriesAre DEF HostOK, Idx, Forward
    <3>3. CASE w.k < 4
      BY <1>a, <2>1, <3>1, <3>2, <3>3 DEF Forward, Swapping, Restoring, Late, Idx
    <3>4. CASE ~(w.k < 4)
      <4>1. trees' = release(w.to)
        BY <1>0, <1>a, <2>1, <3>2, <3>4, IsRelease DEF HostOK, Idx
      <4> QED
        BY <1>a, <2>1, <3>1, <3>4, <4>1 DEF Forward, Swapping, Restoring, Late
    <3> QED
      BY <3>3, <3>4
  <2> QED
    BY <1>6, <2>2, <2>3 DEF Copy
<1>7. CASE Tag
  <2>1. lock' = lock /\ lock /\ trees' = trees /\ trees = release(w.to) /\ w.pc = "tag"
    BY <1>7 DEF Tag, Forward, Swapping, Late, project
  <2>2. w'.pc \in {"build", "r_stop"} /\ w'.to = w.to
    BY <1>0, <1>7, Goes, PcsAre DEF Tag, WorkerOK
  <2> QED
    BY <1>a, <2>1, <2>2 DEF Forward, Swapping, Restoring, Late
<1>8. CASE Build
  <2>1. lock' = lock /\ lock /\ trees' = trees /\ trees = release(w.to) /\ w.pc = "build"
    BY <1>8 DEF Build, Forward, Swapping, Late, project
  <2>2. w'.to = w.to /\ (w'.pc = "r_stop" \/ (w'.pc = "stop" /\ image' = trees["panel"]))
    BY <1>0, <1>8, Goes, PcsAre DEF Build
  <2>3. trees["panel"] = w.to
    BY <1>a, <2>1, ReleaseIs
  <2> QED
    BY <1>a, <2>1, <2>2, <2>3 DEF Forward, Swapping, Restoring, Late
<1>9. CASE Stop \/ Snapshot
  <2>1. lock' = lock /\ lock /\ trees' = trees /\ trees = release(w.to) /\ w.pc \in {"stop", "snapshot"} /\ image = w.to /\ image' = image
    BY <1>9 DEF Stop, Snapshot, Forward, Swapping, Late, project
  <2>2. w'.pc \in {"snapshot", "up", "r_stop"} /\ w'.to = w.to
    BY <1>0, <1>9, Goes, PcsAre DEF Stop, Snapshot, WorkerOK
  <2> QED
    BY <1>a, <2>1, <2>2 DEF Forward, Swapping, Restoring, Late
<1>10. CASE Up
  <2>1. lock' = lock /\ lock /\ trees' = trees /\ trees = release(w.to) /\ w.pc = "up" /\ image = w.to /\ image' = image
    BY <1>10 DEF Up, Forward, Swapping, Late, project
  <2>2. w'.to = w.to /\ (w'.pc = "r_stop" \/ (w'.pc = "check" /\ compose_up(image)))
    BY <1>0, <1>10, Goes, PcsAre DEF Up
  <2>3. trees["VERSION"] = w.to
    BY <1>a, <2>1, ReleaseIs
  <2>4. compose_up(image) => RunsAt(w.to)'
    BY <2>1, <2>2, <2>3 DEF compose_up, RunsAt
  <2> QED
    BY <1>a, <2>1, <2>2, <2>4 DEF Forward, Swapping, Restoring, Late, RunsAt
<1>11. CASE Check \/ Commit
  <2>1. /\ lock' = lock /\ lock /\ trees' = trees /\ trees = release(w.to) /\ w.pc \in {"check", "commit"}
        /\ RunsAt(w.to) /\ box' = box /\ db' = db
    BY <1>11 DEF Check, Commit, Forward, Swapping, Late, project, runtime
  <2>2. /\ w'.to = w.to
        /\ w'.pc \in {"commit", "r_stop"} \/ (w'.pc = "derive" /\ journal' = IF Journaled THEN release(w.to) ELSE journal)
    BY <1>0, <1>11, Goes, PcsAre DEF Check, Commit
  <2> QED
    BY <1>a, <2>1, <2>2 DEF Forward, Swapping, Restoring, Late, RunsAt, JournalAt
<1>12. CASE Derive
  <2>1. /\ lock /\ trees' = trees /\ trees = release(w.to) /\ w.pc = "derive"
        /\ RunsAt(w.to) /\ JournalAt(w.to) /\ box' = box /\ db' = db
    BY <1>12 DEF Derive, Forward, Swapping, Late, project, runtime
  <2>2. /\ w'.to = w.to
        /\ \/ w'.pc = "r_stop" /\ lock' = lock
           \/ w'.pc = "verdict" /\ w'.outcome = "succeeded" /\ journal' = journal
    BY <1>0, <1>12, Goes, PcsAre DEF Derive, WorkerOK, Outcomes
  <2> QED
    BY <1>a, <2>1, <2>2 DEF Forward, Swapping, Restoring, Late, RunsAt, JournalAt, WholeAt
<1>13. CASE Restore
  <2>1. lock /\ w.pc # "idle"
    BY <1>13 DEF Restore, RestoreStop, RestoreTree, RestoreDb, RestoreUp, RestoreCheck, Forward, Restoring
  <2>2. rollback_verdict \in {"rolled_back", "rollback_failed"}
    BY DEF rollback_verdict
  <2>3. /\ w'.to = w.to
        /\ \/ w'.pc \in {"r_tree", "r_db", "r_up", "r_check"} /\ lock' = lock
           \/ w'.pc = "verdict" /\ w'.outcome \in {"rolled_back", "rollback_failed"}
    <3>1. CASE RestoreStop \/ RestoreDb \/ RestoreUp
      BY <1>0, <3>1, Goes, PcsAre DEF RestoreStop, RestoreDb, RestoreUp, give_up, WorkerOK, Outcomes
    <3>2. CASE RestoreTree \/ RestoreCheck
      BY <1>0, <2>2, <3>2, Goes, PcsAre DEF RestoreTree, RestoreCheck, give_up, WorkerOK, Outcomes
    <3> QED
      BY <1>13, <3>1, <3>2 DEF Restore
  <2> QED
    BY <1>a, <2>1, <2>3 DEF Forward, Swapping, Restoring, Late
<1> QED
  BY <1>1, <1>2, <1>3, <1>4, <1>5, <1>6, <1>7, <1>8, <1>9, <1>10, <1>11, <1>12, <1>13 DEF Steps, Swap

---------------------------------------------------------------------------
(* The way back *)

\* Between two updates: what other actors and the verdicts do leaves the panel whole at its version, or the
\* failed rollback's copies in place.
LEMMA RestStep ==
  ASSUME IInv, [Next]_vars, ~Steps, "panel" \notin torn'
  PROVE  Return' /\ Rest'
<1>0. TypeOK /\ Marked /\ OneOperation /\ Forward /\ HostOK /\ RuntimeOK /\ WorkerOK /\ AgentOK /\ RestOK
  BY TypesAre DEF IInv
<1>a. "panel" \notin torn => Return /\ Rest
  BY DEF IInv
<1>b. ASSUME w'.pc = "idle"
      PROVE  Return'
  BY <1>b DEF Return, Swapping, Restoring, Late
<1>c. ASSUME UNCHANGED <<project, runtime, ownership>>
      PROVE  /\ kept' <=> kept
             /\ box' = box
             /\ \A v : RunsAt(v)' <=> RunsAt(v)
             /\ \A v : JournalAt(v)' <=> JournalAt(v)
             /\ \A v : WholeAt(v)' <=> WholeAt(v)
  BY <1>c DEF project, runtime, ownership, kept, RunsAt, JournalAt, WholeAt
<1>d. ASSUME NEW v, WholeAt(v)
      PROVE  box.ver = v /\ box.up = TRUE /\ v \in Releases /\ (Journaled => journal = trees)
  BY <1>d DEF WholeAt, RunsAt, JournalAt
<1>1. CASE Verdict
  <2>1. w' = NoWorker /\ w.pc = "verdict" /\ panel.status = "updating" /\ UNCHANGED <<project, runtime, ownership>>
    BY <1>0, <1>1 DEF Verdict, Marked
  <2>2. w'.pc = "idle"
    BY <2>1 DEF NoWorker
  <2>3. /\ panel' = panel \/ (/\ panel'.version = IF w.outcome = "succeeded" THEN w.to ELSE w.from
                              /\ panel'.status = IF w.outcome \in {"succeeded", "rolled_back"} THEN "ready" ELSE w.outcome)
        /\ w.outcome # "succeeded" => "panel" \notin torn
        /\ w.outcome = "rollback_failed" => panel'.status = "rollback_failed"
    BY <1>1 DEF Verdict, succeeded, recorded_status
  <2>4. w.outcome = "succeeded" => WholeAt(w.to)
    BY <1>0, <2>1 DEF Forward
  <2>5. w.outcome \in {"update_failed", "rolled_back"} => WholeAt(w.from)
    BY <1>a, <2>1, <2>3 DEF Return
  <2>6. w.outcome = "rollback_failed" => kept
    BY <1>a, <2>1, <2>3 DEF Return
  <2>7. w.outcome \in {"succeeded", "update_failed", "rolled_back", "rollback_failed"}
    BY <1>0, <2>1, WorkerFields DEF Forward, Outcomes
  <2> QED
    BY <1>b, <1>c, <1>d, <2>1, <2>2, <2>3, <2>4, <2>5, <2>6, <2>7 DEF Rest
<1>2. CASE RestartAgent \/ Crash
  <2>1. w' = NoWorker /\ w.pc = "idle" /\ "panel" \notin torn /\ UNCHANGED <<panel, box, journal>>
    BY <1>2 DEF RestartAgent, Crash, down, left, ownership
  <2>2. w'.pc = "idle"
    BY <2>1 DEF NoWorker
  <2>3. UNCHANGED <<trees, backup, db, snap>>
    BY <1>2, <2>1 DEF RestartAgent, Crash, debris
  <2>4. Rest
    BY <1>a, <2>1
  <2> QED
    BY <1>b, <2>1, <2>2, <2>3, <2>4 DEF Rest, kept, RunsAt, JournalAt, WholeAt
<1>3. ASSUME UNCHANGED <<project, runtime, ownership, w, torn>>, panel'.status = panel.status, panel'.version = panel.version
      PROVE  Return' /\ Rest'
  <2>1. Return /\ Rest
    BY <1>3, <1>a
  <2>2. Return'
    BY <2>1, <1>3 DEF Return, Safe, Before, Restored, kept, RunsAt, JournalAt, WholeAt, project, runtime, ownership
  <2> QED
    BY <1>3, <1>c, <2>1, <2>2 DEF Rest
<1>4. CASE AfterUpdate \/ RebuildManagers \/ Rebuild \/ HealPending \/ HostRebuild \/ AckManagers \/ Expire
  <2>1. UNCHANGED <<project, runtime, ownership, w, torn>>
    BY <1>4 DEF AfterUpdate, RebuildManagers, Rebuild, RebuildServices, RestoreServices, RebuildVerdict, HealPending,
                HostRebuild, AckManagers, Expire, rebuild_frame
  <2>2. \/ panel' = panel \/ panel' = [panel EXCEPT !.rebuilding = TRUE] \/ panel' = [panel EXCEPT !.rebuilding = FALSE]
        \/ panel' = [panel EXCEPT !.rebuilding = FALSE, !.pending = @ /\ ~rb.ok] \/ panel' = [panel EXCEPT !.pending = FALSE]
    BY <1>4 DEF AfterUpdate, RebuildManagers, begin_rebuild, Rebuild, RebuildServices, RestoreServices, RebuildVerdict,
                HealPending, HostRebuild, AckManagers, Expire
  <2>3. panel'.status = panel.status /\ panel'.version = panel.version
    BY <1>0, <2>2 DEF AgentOK
  <2> QED
    BY <1>3, <2>1, <2>3
<1>5. CASE Component \/ \E v \in 1..MaxBuild : UpdateComponent(v)
  <2>1. UNCHANGED <<project, runtime, ownership, w, panel>> /\ ("panel" \notin torn)
    BY <1>5 DEF Component, Fetch, WritePart, RestartComponent, Undo, Reload, RecordComponent, component_frame, UpdateComponent
  <2>2. Return /\ Rest
    BY <2>1, <1>a
  <2>3. Return'
    BY <2>1, <2>2 DEF Return, Safe, Before, Restored, kept, RunsAt, JournalAt, WholeAt, project, runtime, ownership
  <2> QED
    BY <1>c, <2>1, <2>2, <2>3 DEF Rest
<1>6. CASE Start
  <2>1. UNCHANGED <<project, runtime, ownership, w, torn>> /\ w.pc = "idle"
    BY <1>0, <1>6 DEF Start, Marked
  <2>2. (panel'.version = panel.version /\ panel'.status = panel.status) \/ (panel.status = "updating" /\ panel'.status = "update_failed")
    BY <1>0, <1>6 DEF Start, recovered, AgentOK
  <2>3. Rest
    BY <1>a, <2>1
  <2> QED
    BY <1>b, <1>c, <2>1, <2>2, <2>3 DEF Rest
<1>7. CASE Resume
  <2>1. UNCHANGED <<trees, backup, db, snap, box, journal, w, panel, torn>>
    BY <1>7 DEF Resume, installer_frame, project, runtime
  <2>2. Return /\ Rest
    BY <1>a, <2>1
  <2>3. Return'
    BY <2>1, <2>2 DEF Return, Safe, Before, Restored, kept, RunsAt, JournalAt, WholeAt
  <2>4. Rest'
    BY <2>1, <2>2 DEF Rest, kept, RunsAt, JournalAt, WholeAt
  <2> QED
    BY <2>3, <2>4
<1>8. ASSUME NEW r \in Releases, Reconcile(r)
      PROVE  Return' /\ Rest'
  <2>1. /\ UNCHANGED <<project, runtime, w, panel, torn>> /\ ~lock /\ Journaled /\ journal # trees
    BY <1>8 DEF Reconcile, installer_frame
  <2>2. Return /\ Rest
    BY <1>a, <2>1
  <2>3. \A v : ~WholeAt(v)
    BY <2>1 DEF WholeAt, JournalAt
  <2>4. kept' <=> kept
    BY <2>1 DEF kept, project, runtime
  <2>5. w.pc = "idle" => panel.status = "rollback_failed"
    BY <2>2, <2>3 DEF Rest
  <2>6. w.pc # "idle" => w.pc = "verdict" /\ w.outcome \notin {"update_failed", "rolled_back"}
    BY <1>0, <2>1, <2>2, <2>3, WorkerFields, PcsAre DEF Forward, Return, Pcs
  <2> QED
    BY <2>1, <2>2, <2>4, <2>5, <2>6 DEF Rest, Return, Swapping, Restoring, Late
<1>9. ASSUME NEW v \in Releases, Request(v)
      PROVE  Return' /\ Rest'
  <2>1. /\ UNCHANGED <<project, runtime, ownership>> /\ "panel" \notin torn /\ panel.status \notin {"updating", "rollback_failed"}
        /\ panel'.status = "updating" /\ w.pc = "idle"
    BY <1>0, <1>9 DEF Request, Marked
  <2>2. WholeAt(box.ver)
    BY <1>a, <2>1 DEF Rest
  <2>3. panel_current = box.ver /\ box.ver \in Releases
    BY <1>d, <2>2 DEF panel_current
  <2>4. WholeAt(box.ver)' /\ box' = box
    BY <1>c, <2>1, <2>2
  <2>5. CASE w' = w
    BY <1>b, <2>1, <2>4, <2>5 DEF Rest
  <2>6. CASE w' = [NoWorker EXCEPT !.pc = "download", !.to = v, !.from = panel_current]
    <3>1. /\ w'.pc = "download" /\ w'.from = box.ver /\ w'.tag = 0 /\ w'.saved = FALSE /\ w'.stranded = FALSE /\ w'.synced = 0
      BY <2>3, <2>6 DEF NoWorker
    <3> QED
      BY <2>3, <2>4, <3>1 DEF Rest, Return, Swapping, Restoring, Late
  <2> QED
    BY <1>9, <2>5, <2>6 DEF Request
<1>10. CASE UNCHANGED vars
  BY <1>3, <1>10 DEF vars
<1> QED
  BY <1>1, <1>2, <1>4, <1>5, <1>6, <1>7, <1>8, <1>9, <1>10 DEF Next, Worker, Steps

\* The copies the way back needs are there: a failed rollback loses nothing.
LEMMA CopiesKept ==
  ASSUME HostOK, WorkerOK, w.from \in Releases
  PROVE  /\ (\A j \in Idx : Before(j)) => \A n \in Names : trees[n] \in Releases \/ backup[n] \in Releases
         /\ (\A j \in Idx : Restored(j)) => \A n \in Names : trees[n] \in Releases \/ backup[n] \in Releases
<1>1. \A n \in Names : content(n, w.from) \in Releases
  BY ReleasesAre
<1> QED
  BY <1>1, EntriesAre DEF Before, Restored

\* While nothing is torn, the swap keeps everything its rollback needs.
LEMMA SwapStep ==
  ASSUME IInv, Download \/ Lock \/ Prepare \/ Swap, "panel" \notin torn', TypeOK'
  PROVE  Return'
<1>0. Forward /\ HostOK /\ RuntimeOK /\ WorkerOK /\ HostOK'
  BY TypesAre DEF IInv
<1>a. w.pc \notin {"idle", "verdict"} /\ "panel" \notin torn
  BY <1>0, StepFrame DEF Steps
<1>b. Return /\ w.from \in Releases /\ w.from # 0 /\ w.from # Torn
  BY <1>a, ReleasesAre DEF IInv, Return
<1>1. CASE Download \/ Lock
  <2>1. /\ WholeAt(w.from) /\ w.tag = 0 /\ ~w.saved /\ ~w.stranded /\ w.synced = 0
        /\ UNCHANGED <<trees, db, box, journal>>
    BY <1>1, <1>b DEF Return, Download, Lock, project, runtime, ownership
  <2>2. /\ w'.pc \in {"lock", "prepare"} \/ (w'.pc = "verdict" /\ w'.outcome = "update_failed")
        /\ w'.from = w.from /\ w'.tag = w.tag /\ w'.saved = w.saved /\ w'.stranded = w.stranded /\ w'.synced = w.synced
    BY <1>0, <1>1, Goes, PcsAre DEF Download, Lock, Outcomes
  <2> QED
    BY <1>b, <2>1, <2>2 DEF Return, Swapping, Restoring, Late, WholeAt, RunsAt, JournalAt
<1>2. CASE Prepare
  <2>1. /\ WholeAt(w.from) /\ w.tag = 0 /\ ~w.saved /\ ~w.stranded /\ w.synced = 0 /\ w.k = 1
        /\ UNCHANGED <<trees, db, box, journal>>
    BY <1>0, <1>2, <1>b DEF Return, Forward, Prepare, runtime, ownership
  <2>2. CASE conclude("update_failed")
    <3>1. w'.pc = "verdict" /\ w'.outcome = "update_failed" /\ w'.from = w.from
      BY <1>0, <2>2, Goes DEF Outcomes
    <3> QED
      BY <1>b, <2>1, <3>1 DEF Return, Swapping, Restoring, Late, WholeAt, RunsAt, JournalAt
  <2>3. CASE w' = [w EXCEPT !.pc = "move", !.pending = trees["manager"] # content("manager", w.to)]
    <3>1. /\ w'.pc = "move" /\ w'.from = w.from /\ w'.tag = w.tag /\ w'.saved = w.saved /\ w'.stranded = w.stranded
          /\ w'.synced = w.synced /\ w'.k = w.k
      BY <1>0, <2>3 DEF WorkerOK
    <3>2. \A j \in Idx : trees[Entries[j]] = content(Entries[j], w.from)
      BY <1>b, <2>1, ReleaseIs DEF WholeAt
    <3>3. \A j \in Idx : Before(j)'
      BY <2>1, <3>1, <3>2 DEF Before, Idx
    <3>4. Safe'
      BY <1>b, <2>1, <3>1 DEF Safe, WholeAt, RunsAt
    <3> QED
      BY <1>b, <2>1, <3>1, <3>3, <3>4 DEF Return, Swapping, Restoring, Late, WholeAt, JournalAt
  <2> QED
    BY <1>2, <2>2, <2>3 DEF Prepare
<1> HIDE DEF Return
<1>3. CASE Move
  <2>1. /\ w.pc = "move" /\ w.k \in Idx /\ entry = Entries[w.k] /\ entry \in Names /\ w.synced = w.k - 1 /\ w.tag = 0
        /\ ~w.stranded /\ (\A j \in Idx : Before(j)) /\ Safe /\ JournalAt(w.from) /\ UNCHANGED <<db, snap, box, journal>>
    BY <1>0, <1>3, <1>b, EntriesAre DEF Return, Forward, Move, Swapping, entry, runtime, ownership
  <2>2. CASE half_copied /\ goto("r_stop")
    <3>1. /\ w'.pc = "r_stop" /\ w'.from = w.from /\ w'.tag = w.tag /\ w'.saved = w.saved /\ w'.stranded = w.stranded
          /\ w'.synced = w.synced
      BY <1>0, <2>2, Goes, PcsAre
    <3>2. \A j \in Idx : Before(j)'
      BY <1>0, <2>1, <2>2, <3>1, EntriesAre DEF Before, half_copied, HostOK, Idx
    <3>3. Safe' /\ JournalAt(w.from)'
      BY <2>1, <3>1 DEF Safe, RunsAt, JournalAt
    <3> QED
      BY <1>b, <2>1, <3>1, <3>2, <3>3 DEF Return, Swapping, Restoring, Late, JournalAt
  <2>3. CASE half_removed /\ torn' = torn \cup {"panel"}
    BY <2>3
  <2>4. CASE /\ backup' = [backup EXCEPT ![entry] = trees[entry]] /\ trees' = [trees EXCEPT ![entry] = 0]
             /\ w' = [w EXCEPT !.pc = "copy", !.synced = w.k]
    <3>1. /\ w'.pc = "copy" /\ w'.from = w.from /\ w'.tag = w.tag /\ w'.saved = w.saved /\ w'.stranded = w.stranded
          /\ w'.synced = w.k /\ w'.k = w.k
      BY <1>0, <2>4 DEF WorkerOK
    <3>2. trees[entry] = content(entry, w.from)
      BY <2>1 DEF Before, Idx
    <3>3. \A j \in Idx : Before(j)'
      BY <1>0, <2>1, <2>4, <3>1, <3>2, EntriesAre DEF Before, HostOK, Idx
    <3>4. Safe' /\ JournalAt(w.from)'
      BY <2>1, <3>1 DEF Safe, RunsAt, JournalAt
    <3> QED
      BY <1>b, <2>1, <3>1, <3>3, <3>4 DEF Return, Swapping, Restoring, Late, JournalAt
  <2> QED
    BY <1>3, <2>2, <2>3, <2>4 DEF Move
<1>4. CASE Copy
  <2>1. /\ w.pc = "copy" /\ w.k \in Idx /\ entry = Entries[w.k] /\ entry \in Names /\ w.synced = w.k /\ w.tag = 0
        /\ ~w.stranded /\ (\A j \in Idx : Before(j)) /\ Safe /\ JournalAt(w.from) /\ UNCHANGED <<backup, db, snap, box, journal>>
    BY <1>0, <1>4, <1>b, EntriesAre DEF Return, Forward, Copy, Swapping, entry, runtime, ownership
  <2>2. /\ \E b : trees' = [trees EXCEPT ![entry] = b]
        /\ w'.from = w.from /\ w'.tag = w.tag /\ w'.saved = w.saved /\ w'.stranded = w.stranded /\ w'.synced = w.synced
        /\ \/ w'.pc = "move" /\ w'.k = w.k + 1
           \/ w'.pc = "tag" /\ w.k = 4
           \/ w'.pc = "r_stop"
    <3>1. \E b : trees' = [trees EXCEPT ![entry] = b]
      BY <1>4 DEF Copy
    <3>2. \/ w.k < 4 /\ w' = [w EXCEPT !.pc = "move", !.k = w.k + 1]
          \/ w.k = 4 /\ goto("tag")
          \/ goto("r_stop")
      BY <1>4, <2>1, EntriesAre DEF Copy, goto, Idx
    <3>3. w' = [w EXCEPT !.pc = "move", !.k = w.k + 1] =>
            /\ w'.pc = "move" /\ w'.k = w.k + 1
            /\ w'.from = w.from /\ w'.tag = w.tag /\ w'.saved = w.saved /\ w'.stranded = w.stranded /\ w'.synced = w.synced
      BY <1>0 DEF WorkerOK
    <3> QED
      BY <1>0, <3>1, <3>2, <3>3, Goes, PcsAre
  <2>3. \A j \in Idx : j # w.k => trees'[Entries[j]] = trees[Entries[j]]
    BY <1>0, <2>1, <2>2, EntriesAre DEF HostOK
  <2>4. \A j \in Idx : Before(j)'
    BY <2>1, <2>2, <2>3 DEF Before, Idx
  <2>5. Safe' /\ JournalAt(w.from)'
    BY <2>1, <2>2 DEF Safe, RunsAt, JournalAt
  <2> QED
    BY <1>b, <2>1, <2>2, <2>4, <2>5 DEF Return, Swapping, Restoring, Late, JournalAt, Idx
<1>5. ASSUME w.pc \in Late, UNCHANGED <<trees, backup>>, w'.from = w.from, w'.synced = w.synced
      PROVE  (\A j \in Idx : Before(j)') /\ w.synced = 4 /\ ~w.stranded /\ (\A j \in Idx : Before(j)) /\ Safe
  BY <1>5, <1>b DEF Before, Return, Swapping, Late
<1>6. CASE Tag
  <2>1. w.pc = "tag" /\ w.tag = 0 /\ JournalAt(w.from) /\ UNCHANGED <<trees, backup, db, snap, box, journal>>
    BY <1>6, <1>b DEF Tag, Return, project, runtime, ownership, Swapping
  <2>2. /\ w'.from = w.from /\ w'.saved = w.saved /\ w'.stranded = w.stranded /\ w'.synced = w.synced
        /\ (w'.pc = "build" /\ w'.tag = box.image) \/ (w'.pc = "r_stop" /\ w'.tag = w.tag)
    BY <1>0, <1>6 DEF Tag, goto, WorkerOK
  <2>3. (\A j \in Idx : Before(j)') /\ w.synced = 4 /\ ~w.stranded /\ Safe
    BY <1>5, <2>1, <2>2 DEF Late
  <2>4. RunsAt(w.from) /\ ~w.saved /\ box.image = w.from
    BY <2>1, <2>3 DEF Safe, RunsAt
  <2>5. Safe'
    BY <1>b, <2>1, <2>2, <2>3, <2>4 DEF Safe, RunsAt
  <2> QED
    BY <1>b, <2>1, <2>2, <2>3, <2>4, <2>5 DEF Return, Swapping, Restoring, Late, JournalAt
<1>7. CASE Build \/ Stop
  <2>1. w.pc \in {"build", "stop"} /\ w.tag = w.from /\ ~w.saved /\ JournalAt(w.from) /\ UNCHANGED <<trees, backup, db, snap, journal>>
    BY <1>7, <1>b DEF Build, Stop, Return, project, ownership, Swapping, Late
  <2>2. /\ w'.from = w.from /\ w'.saved = w.saved /\ w'.stranded = w.stranded /\ w'.synced = w.synced /\ w'.tag = w.tag
        /\ w'.pc \in {"stop", "snapshot", "r_stop"}
    BY <1>0, <1>7, Goes, PcsAre DEF Build, Stop
  <2>3. (\A j \in Idx : Before(j)') /\ w.synced = 4 /\ ~w.stranded /\ Safe
    BY <1>5, <2>1, <2>2 DEF Late
  <2>4. Safe'
    BY <1>b, <2>1, <2>2, <2>3 DEF Safe
  <2> QED
    BY <1>b, <2>1, <2>2, <2>3, <2>4 DEF Return, Swapping, Restoring, Late, JournalAt
<1>8. CASE Snapshot
  <2>1. w.pc = "snapshot" /\ w.tag = w.from /\ ~w.saved /\ JournalAt(w.from) /\ UNCHANGED <<trees, backup, db, journal>>
    BY <1>8, <1>b DEF Snapshot, Return, project, ownership, Swapping, Late
  <2>2. /\ w'.from = w.from /\ w'.stranded = w.stranded /\ w'.synced = w.synced /\ w'.tag = w.tag
        /\ \/ w'.pc = "up" /\ w'.saved = TRUE /\ snap' = db
           \/ w'.pc = "r_stop" /\ w'.saved = w.saved
    BY <1>0, <1>8 DEF Snapshot, goto, WorkerOK
  <2>3. (\A j \in Idx : Before(j)') /\ w.synced = 4 /\ ~w.stranded /\ Safe
    BY <1>5, <2>1, <2>2 DEF Late
  <2>4. Safe'
    BY <1>b, <2>1, <2>2, <2>3 DEF Safe
  <2> QED
    BY <1>b, <2>1, <2>2, <2>3, <2>4 DEF Return, Swapping, Restoring, Late, JournalAt
<1>9. CASE Up \/ Check \/ Commit
  <2>1. /\ w.pc \in {"up", "check", "commit"} /\ w.tag = w.from /\ w.saved /\ JournalAt(w.from) /\ UNCHANGED <<trees, backup, snap>>
    BY <1>9, <1>b DEF Up, Check, Commit, Return, project, runtime, Swapping, Late
  <2>2. /\ w'.from = w.from /\ w'.saved = w.saved /\ w'.stranded = w.stranded /\ w'.synced = w.synced /\ w'.tag = w.tag
        /\ (w'.pc \in {"check", "commit", "r_stop"} /\ journal' = journal) \/ w'.pc = "derive"
    BY <1>0, <1>9, Goes, PcsAre DEF Up, Check, Commit, ownership
  <2>3. (\A j \in Idx : Before(j)') /\ w.synced = 4 /\ ~w.stranded /\ Safe
    BY <1>5, <2>1, <2>2 DEF Late
  <2>4. db' = db \/ (db' = image /\ w.pc = "up")
    BY <1>9 DEF Up, Check, Commit, compose_up, start_fails, runtime
  <2>5. db' \in Releases
    BY <1>0, <1>b, <2>3, <2>4, <1>a DEF Safe, Forward
  <2>6. Safe'
    BY <1>b, <2>1, <2>2, <2>3, <2>5 DEF Safe
  <2> QED
    BY <1>b, <2>1, <2>2, <2>3, <2>6 DEF Return, Swapping, Restoring, Late, JournalAt
<1>10. CASE Derive
  <2>1. w.pc = "derive" /\ w.tag = w.from /\ w.saved /\ UNCHANGED <<trees, backup, db, snap, box>>
    BY <1>10, <1>b DEF Derive, Return, project, runtime, Swapping, Late
  <2>2. /\ w'.from = w.from /\ w'.saved = w.saved /\ w'.synced = w.synced /\ w'.tag = w.tag
        /\ \/ w'.pc = "verdict" /\ w'.outcome = "succeeded"
           \/ w'.pc = "r_stop" /\ journal' = backup
           \/ w'.pc = "r_stop" /\ w'.stranded = TRUE
    BY <1>0, <1>10, Goes, PcsAre DEF Derive, Outcomes, WorkerOK, previous_state
  <2>3. (\A j \in Idx : Before(j)') /\ w.synced = 4 /\ (\A j \in Idx : Before(j)) /\ Safe
    BY <1>5, <2>1, <2>2 DEF Late
  <2>4. backup = release(w.from)
    BY <1>0, <1>b, <2>3, IsRelease DEF Before, HostOK, Idx
  <2>5. Safe'
    BY <1>b, <2>1, <2>2, <2>3 DEF Safe
  <2> QED
    BY <1>b, <2>1, <2>2, <2>3, <2>4, <2>5 DEF Return, Swapping, Restoring, Late, JournalAt
<1> QED
  BY <1>1, <1>2, <1>3, <1>4, <1>6, <1>7, <1>8, <1>9, <1>10 DEF Swap

\* The way back ends where the update began, or gives up with every copy it had.
LEMMA RestoreStep ==
  ASSUME IInv, Restore, "panel" \notin torn'
  PROVE  Return'
<1>0. Forward /\ HostOK /\ RuntimeOK /\ WorkerOK
  BY TypesAre DEF IInv
<1>a. w.pc \notin {"idle", "verdict"} /\ "panel" \notin torn
  BY <1>0, StepFrame DEF Steps
<1>b. Return /\ w.from \in Releases /\ w.from # 0 /\ w.from # Torn
  BY <1>a, ReleasesAre DEF IInv, Return
<1>c. ASSUME conclude("rollback_failed"), kept'
      PROVE  Return'
  <2>1. w'.pc = "verdict" /\ w'.outcome = "rollback_failed" /\ w'.from = w.from
    BY <1>0, <1>c, Goes DEF Outcomes
  <2> QED
    BY <1>b, <1>c, <2>1 DEF Return, Swapping, Restoring, Late
<1>d. Safe => (db # Torn \/ snap # Torn)
  BY ReleasesAre DEF Safe
<1>1. CASE RestoreStop
  <2>1. /\ w.pc = "r_stop" /\ (\A j \in Idx : Before(j)) /\ Safe /\ (~w.stranded => JournalAt(w.from))
        /\ UNCHANGED <<trees, backup, db, snap, journal>>
    BY <1>1, <1>b DEF RestoreStop, Return, project, ownership, Restoring
  <2>2. CASE give_up
    <3>1. kept
      BY <1>0, <1>b, <1>d, <2>1, CopiesKept DEF kept
    <3>2. kept'
      BY <2>1, <3>1 DEF kept
    <3> QED
      BY <1>c, <2>2, <3>2 DEF give_up
  <2>3. CASE box' = [box EXCEPT !.up = @ /\ ~w.saved] /\ w' = [w EXCEPT !.pc = "r_tree", !.k = 1]
    <3>1. /\ w'.pc = "r_tree" /\ w'.k = 1 /\ w'.from = w.from /\ w'.tag = w.tag /\ w'.saved = w.saved
          /\ w'.stranded = w.stranded /\ w'.synced = w.synced
      BY <1>0, <2>3 DEF WorkerOK
    <3>2. \A j \in Idx : Restored(j)'
      BY <1>0, <2>1, <3>1, WorkerFields DEF Before, Restored, Idx
    <3>3. w.tag = 0 => box' = box
      <4>1. w.tag = 0 => w.saved = FALSE /\ box = [image |-> w.from, ver |-> w.from, up |-> TRUE]
        BY <1>0, <2>1, WorkerFields DEF Safe, RunsAt
      <4>2. w.tag = 0 => (box.up /\ ~w.saved) = TRUE
        BY <4>1
      <4> QED
        BY <2>3, <4>1, <4>2
    <3>4. Safe'
      BY <2>1, <3>1, <3>3 DEF Safe, RunsAt
    <3> QED
      BY <1>b, <2>1, <3>1, <3>2, <3>4 DEF Return, Swapping, Restoring, Late, JournalAt
  <2> QED
    BY <1>1, <2>2, <2>3 DEF RestoreStop
<1>2. CASE RestoreTree
  <2>1. /\ w.pc = "r_tree" /\ (\A j \in Idx : Restored(j)) /\ Safe /\ (~w.stranded => JournalAt(w.from))
        /\ UNCHANGED <<db, snap, box, journal>>
    BY <1>2, <1>b DEF RestoreTree, Return, runtime, ownership, Restoring
  <2>2. w.k <= w.synced => w.k \in Idx /\ entry = Entries[w.k] /\ entry \in Names /\ backup[entry] = content(entry, w.from)
    BY <1>0, <2>1, WorkerFields, EntriesAre DEF Idx, entry, Restored
  <2>3. CASE w.k > w.synced /\ goto("r_db") /\ UNCHANGED project
    <3>1. /\ w'.pc = "r_db" /\ w'.from = w.from /\ w'.tag = w.tag /\ w'.saved = w.saved
          /\ w'.stranded = w.stranded
      BY <1>0, <2>3, Goes, PcsAre
    <3>2. \A j \in Idx : trees[Entries[j]] = content(Entries[j], w.from)
      BY <1>0, <2>1, <2>3, WorkerFields DEF Restored, Idx
    <3>3. trees' = release(w.from)
      BY <1>0, <1>b, <2>3, <3>2, IsRelease DEF HostOK, project
    <3>4. Safe'
      BY <2>1, <3>1 DEF Safe, RunsAt
    <3> QED
      BY <1>b, <2>1, <3>1, <3>3, <3>4 DEF Return, Swapping, Restoring, Late, JournalAt
  <2>4. CASE /\ w.k <= w.synced /\ trees' = [trees EXCEPT ![entry] = backup[entry]] /\ backup' = [backup EXCEPT ![entry] = 0]
             /\ w' = [w EXCEPT !.k = @ + 1]
    <3>1. /\ w'.pc = "r_tree" /\ w'.k = w.k + 1 /\ w'.from = w.from /\ w'.tag = w.tag /\ w'.saved = w.saved
          /\ w'.stranded = w.stranded /\ w'.synced = w.synced
      BY <1>0, <2>1, <2>4 DEF WorkerOK
    <3>2. \A j \in Idx : j # w.k => trees'[Entries[j]] = trees[Entries[j]] /\ backup'[Entries[j]] = backup[Entries[j]]
      BY <1>0, <2>2, <2>4, EntriesAre DEF HostOK
    <3>3. trees'[entry] = content(entry, w.from)
      BY <1>0, <2>2, <2>4 DEF HostOK
    <3>4. \A j \in Idx : Restored(j)'
      BY <2>1, <2>2, <2>4, <3>1, <3>2, <3>3, WorkerFields, <1>0 DEF Restored, Idx
    <3>5. Safe'
      BY <2>1, <3>1 DEF Safe, RunsAt
    <3> QED
      BY <1>b, <2>1, <3>1, <3>4, <3>5 DEF Return, Swapping, Restoring, Late, JournalAt
  <2>5. CASE w.k <= w.synced /\ give_up /\ trees' = [trees EXCEPT ![entry] = Torn] /\ backup' = backup
    <3>1. \A n \in Names : trees[n] \in Releases \/ backup[n] \in Releases
      BY <1>0, <1>b, <2>1, CopiesKept
    <3>2. \A n \in Names : n # entry => trees'[n] = trees[n]
      BY <1>0, <2>5 DEF HostOK
    <3>3. backup[entry] \in Releases
      BY <1>b, <2>2, <2>5, ReleasesAre
    <3>4. kept'
      BY <1>d, <2>1, <2>5, <3>1, <3>2, <3>3 DEF kept
    <3> QED
      BY <1>c, <2>5, <3>4 DEF give_up
  <2> QED
    BY <1>2, <2>3, <2>4, <2>5 DEF RestoreTree
<1>e. ASSUME trees = release(w.from), trees' = trees
      PROVE  \A n \in Names : trees'[n] \in Releases
  BY <1>b, <1>e, ReleasesAre
<1>3. CASE RestoreDb
  <2>1. /\ w.pc = "r_db" /\ trees = release(w.from) /\ Safe /\ (~w.stranded => JournalAt(w.from))
        /\ UNCHANGED <<trees, backup, snap, box, journal>>
    BY <1>3, <1>b DEF RestoreDb, Return, project, ownership, Restoring
  <2>2. CASE db' = (IF w.saved THEN snap ELSE db) /\ goto("r_up")
    <3>1. /\ w'.pc = "r_up" /\ w'.from = w.from /\ w'.tag = w.tag /\ w'.saved = w.saved /\ w'.stranded = w.stranded
      BY <1>0, <2>2, Goes, PcsAre
    <3>2. db' = w.from
      BY <2>1, <2>2 DEF Safe
    <3>3. w.tag \in {0, w.from} /\ (w.tag = 0 => box = [image |-> w.from, ver |-> w.from, up |-> TRUE])
      BY <2>1 DEF Safe, RunsAt
    <3> QED
      BY <1>b, <2>1, <3>1, <3>2, <3>3 DEF Return, Swapping, Restoring, Late, JournalAt, RunsAt
  <2>3. CASE w.saved /\ db' = Torn /\ give_up
    <3>1. kept'
      BY <1>b, <1>e, <2>1, <2>3 DEF kept, Safe
    <3> QED
      BY <1>c, <2>3, <3>1 DEF give_up
  <2> QED
    BY <1>3, <2>2, <2>3 DEF RestoreDb
<1>4. CASE RestoreUp
  <2>1. /\ w.pc = "r_up" /\ trees = release(w.from) /\ db = w.from /\ w.tag \in {0, w.from} /\ (w.tag = 0 => RunsAt(w.from))
        /\ (~w.stranded => JournalAt(w.from)) /\ UNCHANGED <<trees, backup, snap, journal>>
    BY <1>4, <1>b DEF RestoreUp, Return, project, ownership, Restoring
  <2>2. trees["VERSION"] = w.from
    BY <1>b, <2>1, ReleaseIs
  <2>3. CASE goto("r_check") /\ ((w.tag = 0 /\ UNCHANGED <<db, box>>) \/ (w.tag # 0 /\ compose_up(w.tag)))
    <3>1. /\ w'.pc = "r_check" /\ w'.from = w.from /\ w'.stranded = w.stranded
      BY <1>0, <2>3, Goes, PcsAre
    <3>2. box' = [image |-> w.from, ver |-> w.from, up |-> TRUE] /\ db' = w.from
      BY <2>1, <2>2, <2>3 DEF RunsAt, compose_up
    <3> QED
      BY <1>b, <2>1, <3>1, <3>2 DEF Return, Swapping, Restoring, Late, JournalAt, RunsAt
  <2>4. CASE w.tag # 0 /\ start_fails(w.tag) /\ give_up
    <3>1. db' = w.from
      BY <2>1, <2>4 DEF start_fails
    <3>2. kept'
      BY <1>b, <1>e, <2>1, <3>1 DEF kept
    <3> QED
      BY <1>c, <2>4, <3>2 DEF give_up
  <2> QED
    BY <1>4, <2>3, <2>4 DEF RestoreUp, tagged
<1>5. CASE RestoreCheck
  <2>1. /\ w.pc = "r_check" /\ trees = release(w.from) /\ RunsAt(w.from) /\ (~w.stranded => JournalAt(w.from))
        /\ UNCHANGED <<trees, backup, db, snap, box, journal>>
    BY <1>5, <1>b DEF RestoreCheck, Return, project, runtime, ownership, Restoring
  <2>2. kept'
    BY <1>b, <1>e, <2>1 DEF kept, RunsAt
  <2>3. CASE conclude("rolled_back") /\ ~w.stranded
    <3>1. w'.pc = "verdict" /\ w'.outcome = "rolled_back" /\ w'.from = w.from
      BY <1>0, <2>3, Goes DEF Outcomes
    <3> QED
      BY <1>b, <2>1, <2>3, <3>1 DEF Return, Swapping, Restoring, Late, WholeAt, RunsAt, JournalAt
  <2> QED
    BY <1>5, <1>c, <2>2, <2>3 DEF RestoreCheck, rollback_verdict
<1> QED
  BY <1>1, <1>2, <1>3, <1>4, <1>5 DEF Restore

---------------------------------------------------------------------------
(* A copy of everything *)

\* A step of the panel update, where it stands, and what it adds to the history: only a tree that could be
\* copied and not removed tears an update.
LEMMA StepPlace ==
  ASSUME Steps
  PROVE  Restore \/ w.pc \in {"download", "lock", "prepare"} \cup Swapping
BY DEF Steps, Download, Lock, Prepare, Swap, Move, Copy, Tag, Build, Stop, Snapshot, Up, Check, Commit, Derive, Swapping
LEMMA StepInRestore ==
  ASSUME Restore
  PROVE  w.pc \in Restoring
BY DEF Restore, RestoreStop, RestoreTree, RestoreDb, RestoreUp, RestoreCheck, Restoring
LEMMA StepTears ==
  ASSUME Steps
  PROVE  torn' = torn \/ (Move /\ half_removed /\ goto("r_stop") /\ torn' = torn \cup {"panel"})
<1>1. worker_frame \/ Move
  BY DEF Steps, Download, Lock, Prepare, Swap, Copy, Tag, Build, Stop, Snapshot, Up, Check, Commit, Derive,
         Restore, RestoreStop, RestoreTree, RestoreDb, RestoreUp, RestoreCheck
<1> QED
  BY <1>1 DEF worker_frame, Move

\* Outside its steps, a death and a request, nobody touches the panel's trees, its database and their copies.
LEMMA OthersLeave ==
  ASSUME TypeOK, Marked, OneOperation, [Next]_vars, ~Steps, ~Crash
  PROVE  /\ UNCHANGED <<trees, backup, db, snap>>
         /\ \/ w'.pc = "idle"
            \/ w' = w /\ torn' \ {"component"} = torn \ {"component"}
            \/ w'.pc = "download" /\ ("panel" \in torn => "again" \in torn') /\ torn' \subseteq torn \cup {"again"}
         /\ "again" \in torn => "again" \in torn' \/ Verdict
<1>1. CASE Verdict
  BY <1>1 DEF Verdict, NoWorker, project, runtime
<1>2. CASE RestartAgent
  BY <1>2 DEF RestartAgent, down, NoWorker
<1>3. CASE AfterUpdate \/ RebuildManagers \/ Rebuild \/ HealPending \/ HostRebuild \/ AckManagers \/ Expire
  BY <1>3 DEF AfterUpdate, RebuildManagers, Rebuild, RebuildServices, RestoreServices, RebuildVerdict, HealPending,
              HostRebuild, AckManagers, Expire, rebuild_frame, project, runtime
<1>4. CASE Component \/ \E v \in 1..MaxBuild : UpdateComponent(v)
  BY <1>4 DEF Component, Fetch, WritePart, RestartComponent, Undo, Reload, RecordComponent, component_frame, UpdateComponent,
              project, runtime
<1>5. CASE Start
  BY <1>5 DEF Start, project, runtime
<1>6. CASE Resume \/ \E v \in Releases : Reconcile(v)
  BY <1>6 DEF Resume, Reconcile, installer_frame, project, runtime
<1>7. ASSUME NEW v \in Releases, Request(v)
      PROVE  /\ UNCHANGED <<trees, backup, db, snap>>
             /\ w'.pc = "idle" \/ (w'.pc = "download" /\ ("panel" \in torn => "again" \in torn'))
             /\ torn \subseteq torn' /\ torn' \subseteq torn \cup {"again"}
  BY <1>7 DEF Request, Marked, NoWorker, project, runtime
<1>8. CASE UNCHANGED vars
  BY <1>8 DEF vars, project, runtime
<1> QED
  BY <1>1, <1>2, <1>3, <1>4, <1>5, <1>6, <1>7, <1>8 DEF Next, Worker, Steps

\* An update that is not torn, and the rest between two of them, keep a copy of everything.
LEMMA WholeKept ==
  ASSUME TypeOK, Forward, Return, Rest
  PROVE  kept
<1>0. HostOK /\ WorkerOK
  BY TypesAre
<1>1. \A v : WholeAt(v) => kept
  BY ReleasesAre DEF WholeAt, RunsAt, kept
<1>2. CASE w.pc = "idle"
  BY <1>0, <1>1, <1>2 DEF Rest
<1>3. CASE w.pc \in {"download", "lock", "prepare"}
  BY <1>0, <1>1, <1>3 DEF Return
<1>4. CASE w.pc = "verdict"
  BY <1>0, <1>1, <1>4, WorkerFields DEF Return, Forward, Outcomes
<1>5. CASE w.pc \in Swapping \cup {"r_stop", "r_tree"}
  <2>1. w.from \in Releases /\ Safe /\ ((\A j \in Idx : Before(j)) \/ (\A j \in Idx : Restored(j)))
    BY <1>0, <1>5 DEF Return, Swapping
  <2> QED
    BY <1>0, <2>1, CopiesKept, ReleasesAre DEF kept, Safe
<1>6. CASE w.pc \in {"r_db", "r_up", "r_check"}
  <2>1. w.from \in Releases /\ trees = release(w.from)
    BY <1>0, <1>6 DEF Return
  <2>2. db \in Releases
    BY <1>0, <1>6, <2>1 DEF Return, Safe, RunsAt
  <2> QED
    BY <2>1, <2>2, ReleasesAre DEF kept
<1> QED
  BY <1>0, <1>2, <1>3, <1>4, <1>5, <1>6, WorkerFields DEF Pcs, Restoring

\* What a step of the way back does to the copies of an update that is torn.
LEMMA HalvedStep ==
  ASSUME TypeOK, Forward, Restore, Halved, kept
  PROVE  kept' /\ (w'.pc = "verdict" \/ (w'.pc \in Restoring /\ Halved'))
<1>0. HostOK /\ WorkerOK
  BY TypesAre
<1>a. give_up => w'.pc = "verdict"
  BY <1>0, Goes DEF give_up, Outcomes
<1>b. ~w.saved /\ w.tag = 0
  BY DEF Halved
<1>1. CASE RestoreStop
  <2>1. w.pc = "r_stop" /\ UNCHANGED <<trees, backup, db, snap>> /\ w' = [w EXCEPT !.pc = "r_tree", !.k = 1]
    BY <1>1, <1>b DEF RestoreStop, project
  <2>2. w'.pc = "r_tree" /\ w'.k = 1 /\ w'.saved = w.saved /\ w'.tag = w.tag /\ w'.synced = w.synced
    BY <1>0, <2>1 DEF WorkerOK
  <2> QED
    BY <1>b, <2>1, <2>2 DEF kept, Halved, Restoring
<1>2. CASE RestoreTree
  <2>1. w.pc = "r_tree" /\ UNCHANGED <<db, snap>>
    BY <1>2 DEF RestoreTree, runtime
  <2>2. w.k <= w.synced => w.k \in Idx /\ entry = Entries[w.k] /\ entry \in Names /\ backup[entry] \in Releases
    BY <1>0, <2>1, WorkerFields, EntriesAre DEF Idx, entry, Halved
  <2>3. CASE w.k > w.synced /\ goto("r_db") /\ UNCHANGED project
    <3>1. w'.pc = "r_db" /\ w'.saved = w.saved /\ w'.tag = w.tag
      BY <1>0, <2>3, Goes, PcsAre
    <3> QED
      BY <1>b, <2>1, <2>3, <3>1 DEF kept, Halved, project, Restoring
  <2>4. CASE /\ w.k <= w.synced /\ trees' = [trees EXCEPT ![entry] = backup[entry]] /\ backup' = [backup EXCEPT ![entry] = 0]
             /\ w' = [w EXCEPT !.k = @ + 1]
    <3>1. w'.pc = "r_tree" /\ w'.k = w.k + 1 /\ w'.saved = w.saved /\ w'.tag = w.tag /\ w'.synced = w.synced
      BY <1>0, <2>1, <2>4 DEF WorkerOK
    <3>2. \A n \in Names : n # entry => trees'[n] = trees[n] /\ backup'[n] = backup[n]
      BY <1>0, <2>4 DEF HostOK
    <3>3. trees'[entry] \in Releases
      BY <1>0, <2>2, <2>4 DEF HostOK
    <3>4. kept'
      BY <2>1, <3>2, <3>3 DEF kept
    <3>5. \A j \in Idx : j <= w.synced /\ w.k + 1 <= j => backup'[Entries[j]] \in Releases
      BY <1>0, <2>1, <2>2, <2>4, <3>2, EntriesAre, WorkerFields DEF Halved, Idx
    <3> QED
      BY <1>b, <3>1, <3>4, <3>5 DEF Halved, Restoring
  <2>5. CASE w.k <= w.synced /\ give_up /\ trees' = [trees EXCEPT ![entry] = Torn] /\ backup' = backup
    <3>1. \A n \in Names : n # entry => trees'[n] = trees[n]
      BY <1>0, <2>5 DEF HostOK
    <3>2. kept'
      BY <2>1, <2>2, <2>5, <3>1 DEF kept
    <3> QED
      BY <1>a, <2>5, <3>2
  <2> QED
    BY <1>2, <2>3, <2>4, <2>5 DEF RestoreTree
<1>3. CASE RestoreDb
  <2>1. UNCHANGED <<trees, backup, db, snap>> /\ goto("r_up")
    BY <1>3, <1>b DEF RestoreDb, project
  <2>2. w'.pc = "r_up" /\ w'.saved = w.saved /\ w'.tag = w.tag
    BY <1>0, <2>1, Goes, PcsAre
  <2> QED
    BY <1>b, <2>1, <2>2 DEF kept, Halved, Restoring
<1>4. CASE RestoreUp
  <2>1. UNCHANGED <<trees, backup, db, snap>> /\ goto("r_check")
    BY <1>4, <1>b DEF RestoreUp, tagged, project
  <2>2. w'.pc = "r_check" /\ w'.saved = w.saved /\ w'.tag = w.tag
    BY <1>0, <2>1, Goes, PcsAre
  <2> QED
    BY <1>b, <2>1, <2>2 DEF kept, Halved, Restoring
<1>5. CASE RestoreCheck
  <2>1. UNCHANGED <<trees, backup, db, snap>> /\ (conclude(rollback_verdict) \/ conclude("rollback_failed"))
    BY <1>5 DEF RestoreCheck, project, runtime
  <2>2. w'.pc = "verdict"
    BY <1>0, <2>1, Goes DEF rollback_verdict, Outcomes
  <2> QED
    BY <2>1, <2>2 DEF kept
<1> QED
  BY <1>1, <1>2, <1>3, <1>4, <1>5 DEF Restore

\* A tree that is half removed was copied before; the trees moved before it are in the backup.
LEMMA HalfRemoved ==
  ASSUME TypeOK, Forward, Return, kept, Move, half_removed, goto("r_stop")
  PROVE  kept' /\ w'.pc = "r_stop" /\ Halved'
<1>0. HostOK /\ WorkerOK
  BY TypesAre
<1>1. /\ w.pc = "move" /\ w.k \in Idx /\ entry = Entries[w.k] /\ entry \in Names /\ w.synced = w.k - 1 /\ w.tag = 0
      /\ (\A j \in Idx : Before(j)) /\ Safe /\ w.from \in Releases /\ UNCHANGED <<db, snap>>
  BY <1>0, EntriesAre DEF Return, Forward, Move, Swapping, entry, runtime
<1>2. w'.pc = "r_stop" /\ w'.saved = w.saved /\ w'.tag = w.tag /\ w'.synced = w.synced
  BY <1>0, Goes, PcsAre
<1>3. /\ \A n \in Names : n # entry => trees'[n] = trees[n] /\ backup'[n] = backup[n]
      /\ backup'[entry] = trees[entry]
  BY <1>0, <1>1 DEF half_removed, HostOK
<1>4. \A n \in Names : content(n, w.from) \in Releases
  BY <1>1, ReleasesAre
<1>5. trees[entry] \in Releases
  BY <1>1, <1>4 DEF Before, Idx
<1>6. kept'
  BY <1>1, <1>3, <1>5 DEF kept
<1>7. \A j \in Idx : j <= w.synced => backup'[Entries[j]] \in Releases
  BY <1>1, <1>3, <1>4, EntriesAre DEF Before, Idx
<1> QED
  BY <1>1, <1>2, <1>6, <1>7 DEF Halved, Safe

\* A death leaves a copy of everything: what it tears is not the only one.
LEMMA DeathKeeps ==
  ASSUME IInv, "again" \notin torn, Crash
  PROVE  kept'
<1>0. HostOK /\ WorkerOK /\ Forward /\ kept
  BY TypesAre DEF IInv, Copies
<1>1. CASE UNCHANGED <<trees, backup, db, snap>>
  BY <1>0, <1>1 DEF kept
<1>a. \A n \in Names : w.from \in Releases => content(n, w.from) \in Releases
  BY ReleasesAre
<1>b. ASSUME w.pc \in Swapping
      PROVE  (\A j \in Idx : Before(j)) /\ Safe /\ w.from \in Releases /\ Return
  BY <1>b DEF IInv, Copies, Return, Swapping
<1>2. CASE w.pc = "move" /\ (half_copied \/ half_removed) /\ UNCHANGED <<db, snap>>
  <2>1. w.k \in Idx /\ entry = Entries[w.k] /\ entry \in Names /\ w.synced = w.k - 1
    BY <1>0, <1>2, <1>b, EntriesAre DEF Forward, Return, entry, Swapping
  <2>2. trees[entry] \in Releases
    BY <1>a, <1>b, <1>2, <2>1 DEF Before, Swapping, Idx
  <2>3. \A n \in Names : n # entry => trees'[n] = trees[n] /\ backup'[n] = backup[n]
    BY <1>0, <1>2, <2>1 DEF half_copied, half_removed, HostOK
  <2>4. trees'[entry] \in Releases \/ backup'[entry] \in Releases
    BY <1>0, <1>2, <2>1, <2>2 DEF half_copied, half_removed, HostOK
  <2> QED
    BY <1>0, <1>2, <2>3, <2>4 DEF kept
<1>3. CASE w.pc = "copy" /\ trees' = [trees EXCEPT ![entry] = Torn] /\ UNCHANGED <<backup, db, snap>>
  <2>1. w.k \in Idx /\ entry = Entries[w.k] /\ entry \in Names /\ w.synced = w.k
    BY <1>0, <1>3, <1>b, EntriesAre DEF Forward, Return, entry, Swapping
  <2>2. backup[entry] \in Releases
    BY <1>a, <1>b, <1>3, <2>1 DEF Before, Swapping, Idx
  <2>3. \A n \in Names : n # entry => trees'[n] = trees[n]
    BY <1>0, <1>3, <2>1 DEF HostOK
  <2> QED
    BY <1>0, <1>3, <2>2, <2>3 DEF kept
<1>4. CASE w.pc = "r_tree" /\ w.k <= w.synced /\ trees' = [trees EXCEPT ![entry] = Torn] /\ UNCHANGED <<backup, db, snap>>
  <2>1. w.k \in Idx /\ entry = Entries[w.k] /\ entry \in Names
    BY <1>0, <1>4, WorkerFields, EntriesAre DEF Idx, entry
  <2>2. backup[entry] \in Releases
    <3>1. CASE "panel" \in torn
      <4>1. Halved
        BY <1>4, <3>1 DEF IInv, Copies, Restoring
      <4> QED
        BY <1>0, <1>4, <2>1, <4>1 DEF Halved, Idx
    <3>2. CASE "panel" \notin torn
      <4>1. (\A j \in Idx : Restored(j)) /\ w.from \in Releases
        BY <1>4, <3>2 DEF IInv, Return
      <4> QED
        BY <1>0, <1>a, <1>4, <2>1, <4>1, WorkerFields DEF Restored, Idx
    <3> QED
      BY <3>1, <3>2
  <2>3. \A n \in Names : n # entry => trees'[n] = trees[n]
    BY <1>0, <1>4, <2>1 DEF HostOK
  <2> QED
    BY <1>0, <1>4, <2>2, <2>3 DEF kept
<1>5. CASE w.pc = "snapshot" /\ UNCHANGED <<trees, backup, db>>
  <2>1. db \in Releases
    BY <1>5, <1>b DEF Safe, Swapping
  <2> QED
    BY <1>0, <1>5, <2>1, ReleasesAre DEF kept
<1>6. CASE w.pc = "r_db" /\ w.saved /\ UNCHANGED <<trees, backup, snap>>
  <2>1. "panel" \notin torn
    BY <1>6 DEF IInv, Copies, Halved, Restoring
  <2>2. snap \in Releases
    BY <1>6, <2>1 DEF IInv, Return, Safe
  <2> QED
    BY <1>0, <1>6, <2>2, ReleasesAre DEF kept
<1> QED
  BY <1>1, <1>2, <1>3, <1>4, <1>5, <1>6 DEF Crash, debris

\* Every step keeps a complete copy of everything, up to an update begun on what another one left.
LEMMA CopiesStep ==
  ASSUME IInv, [Next]_vars, TypeOK', Forward', "panel" \notin torn' => Return' /\ Rest'
  PROVE  Copies'
<1> SUFFICES ASSUME "again" \notin torn' PROVE Copies'
  BY DEF Copies
<1>0. TypeOK /\ Marked /\ OneOperation /\ Forward /\ WorkerOK
  BY TypesAre DEF IInv
<1>1. CASE "panel" \notin torn'
  <2>1. (TypeOK /\ Forward /\ Return /\ Rest => kept)'
    BY WholeKept, PTL
  <2> QED
    BY <1>1, <2>1 DEF Copies
<1>2. CASE "panel" \in torn'
  <2>0. "again" \notin torn
    <3>1. CASE Steps
      BY <3>1, StepTears
    <3>2. CASE Verdict
      BY <1>2, <3>2 DEF Verdict
    <3>3. CASE Crash
      BY <3>3 DEF Crash, down
    <3>4. CASE ~Steps /\ ~Crash /\ ~Verdict
      BY <1>0, <3>4, OthersLeave
    <3> QED
      BY <3>1, <3>2, <3>3, <3>4
  <2>a. kept /\ (w.pc \in {"download", "lock", "prepare"} \cup Swapping => "panel" \notin torn)
        /\ (w.pc \in Restoring /\ "panel" \in torn => Halved)
    BY <2>0 DEF IInv, Copies
  <2>1. CASE Steps
    <3>1. CASE "panel" \in torn
      <4>1. Restore /\ Halved
        BY <2>1, <2>a, <3>1, StepPlace, StepInRestore
      <4>2. kept' /\ (w'.pc = "verdict" \/ (w'.pc \in Restoring /\ Halved'))
        BY <1>0, <2>a, <4>1, HalvedStep
      <4> QED
        BY <4>2 DEF Copies, Swapping, Restoring
    <3>2. CASE "panel" \notin torn
      <4>1. Move /\ half_removed /\ goto("r_stop")
        BY <1>2, <2>1, <3>2, StepTears
      <4>2. kept' /\ w'.pc = "r_stop" /\ Halved'
        BY <1>0, <2>a, <3>2, <4>1, HalfRemoved DEF IInv
      <4> QED
        BY <4>2 DEF Copies, Swapping
    <3> QED
      BY <3>1, <3>2
  <2>2. CASE Crash
    <3>1. kept' /\ w'.pc = "idle"
      BY <2>0, <2>2, DeathKeeps DEF Crash, down, NoWorker
    <3> QED
      BY <3>1 DEF Copies, Swapping, Restoring
  <2>3. CASE ~Steps /\ ~Crash
    <3>1. UNCHANGED <<trees, backup, db, snap>> /\ (w'.pc = "idle" \/ (w' = w /\ torn' \ {"component"} = torn \ {"component"}))
      BY <1>0, <1>2, <2>3, OthersLeave
    <3>2. kept'
      BY <2>a, <3>1 DEF kept
    <3>3. CASE w'.pc = "idle"
      BY <3>2, <3>3 DEF Copies, Swapping, Restoring
    <3>4. CASE w' = w /\ torn' \ {"component"} = torn \ {"component"}
      <4>1. "panel" \in torn
        BY <1>2, <3>4
      <4>2. w.pc \in Restoring => Halved'
        BY <2>a, <3>1, <3>4, <4>1 DEF Halved
      <4> QED
        BY <2>a, <3>2, <3>4, <4>1, <4>2 DEF Copies
    <3> QED
      BY <3>1, <3>3, <3>4
  <2> QED
    BY <2>1, <2>2, <2>3
<1> QED
  BY <1>1, <1>2

---------------------------------------------------------------------------
(* The theorems *)

\* A fresh installation is whole.
LEMMA InitInv == Init => IInv
<1> SUFFICES ASSUME Init PROVE IInv
  OBVIOUS
<1>1. 1 \in Releases /\ 1 \in Bytes /\ 0 \in Bytes /\ release(1) \in [Names -> Bytes] /\ ManagerTree[1] \in Bytes
  BY ReleasesAre, ReleasesAssumption DEF Releases
<1>2. HostOK /\ RuntimeOK
  BY <1>1 DEF Init, HostOK, RuntimeOK
<1>3. WorkerOK
  BY NoWorkerOK DEF Init, WorkerOK
<1>4. AgentOK
  BY <1>1 DEF Init, AgentOK, Statuses
<1>5. ComponentOK
  BY <1>1, NoWorkerOK DEF Init, ComponentOK
<1>6. RestOK
  <2>1. 0 \in 0..MaxCrashes /\ 0 \in 0..MaxFaults
    BY LimitsAssumption
  <2> QED
    BY <2>1 DEF Init, RestOK
<1>7. w.pc = "idle" /\ c.pc = "idle" /\ rb.pc = "idle"
  BY DEF Init, NoWorker, NoUpdate
<1>8. Marked /\ OneOperation
  BY <1>7 DEF Init, Marked, OneOperation
<1>9. Writing /\ Recorded
  BY <1>7 DEF Init, Writing, Recorded, Settled
<1>10. Forward /\ Return
  BY <1>7 DEF Forward, Return, Swapping, Restoring, Late
<1>11. WholeAt(1) /\ box.ver = 1 /\ panel.version = 1 /\ panel.status = "ready"
  BY <1>1 DEF Init, WholeAt, RunsAt, JournalAt
<1>12. Rest
  BY <1>11 DEF Rest
<1>13. Copies
  BY <1>2, <1>3, <1>4, <1>5, <1>6, <1>7, <1>10, <1>12, TypesAre, WholeKept DEF Copies, Swapping, Restoring
<1> QED
  BY <1>2, <1>3, <1>4, <1>5, <1>6, <1>8, <1>9, <1>10, <1>12, <1>13, TypesAre DEF IInv

\* Every step keeps the inductive invariant.
LEMMA NextInv == IInv /\ [Next]_vars => IInv'
<1> SUFFICES ASSUME IInv, [Next]_vars PROVE IInv'
  OBVIOUS
<1>0. TypeOK /\ Marked /\ OneOperation /\ Writing /\ Recorded /\ Forward
  BY DEF IInv
<1>1. TypeOK'
  BY <1>0, TypeStep
<1>2. Marked' /\ OneOperation'
  BY <1>0, MarkedStep
<1>3. Writing' /\ Recorded'
  BY <1>0, ComponentStep
<1>4. Forward'
  BY <1>0, <1>1, ForwardStep
<1>5. ASSUME "panel" \notin torn'
      PROVE  Return' /\ Rest'
  <2>1. CASE ~Steps
    BY <1>5, <2>1, RestStep
  <2>2. CASE Steps
    <3>1. Return'
      BY <1>1, <1>5, <2>2, SwapStep, RestoreStep DEF Steps
    <3>2. w'.pc # "idle"
      BY <1>0, <2>2, StepFrame, TypesAre
    <3> QED
      BY <3>1, <3>2 DEF Rest
  <2> QED
    BY <2>1, <2>2
<1>6. Copies'
  BY <1>1, <1>4, <1>5, CopiesStep
<1> QED
  BY <1>1, <1>2, <1>3, <1>4, <1>5, <1>6 DEF IInv

\* The inductive invariant holds in every reachable state of every instance.
THEOREM Consistent == Spec => []IInv
BY InitInv, NextInv, PTL DEF Spec

\* The state keeps its types.
THEOREM TypeCorrect == Spec => []TypeOK
<1>1. IInv => TypeOK
  BY DEF IInv
<1> QED
  BY <1>1, Consistent, PTL

\* The update of the panel, a rebuild of the managers and the update of a component never run Compose at the
\* same time, whatever fails, expires or is restarted (update_panel_async, rebuild_managers, update).
THEOREM OperationsAreExclusive == Spec => []OneOperation
<1>1. IInv => OneOperation
  BY DEF IInv
<1> QED
  BY <1>1, Consistent, PTL

\* A component's verdict names the build that runs and whose files are installed (VersionAgent::update), also
\* where its own verdict could not be written, up to an earlier update that left none.
THEOREM VerdictsAreTrue == Spec => []VerdictNamesWhatRuns
<1>1. IInv => VerdictNamesWhatRuns
  BY DEF IInv, Marked, Recorded, Settled, VerdictNamesWhatRuns
<1> QED
  BY <1>1, Consistent, PTL

\* A panel recorded as ready is whole: trees, container, database and journal are of the recorded release
\* (panel_worker, restore_panel, PanelOwnershipHandoff).
THEOREM ReadyPanelsAreWhole == Spec => []VerifiedIsWhole
<1>1. IInv => VerifiedIsWhole
  <2> SUFFICES ASSUME IInv, "panel" \notin torn, panel.status = "ready", w.pc = "idle"
               PROVE  panel.version \in Releases /\ whole
    BY DEF VerifiedIsWhole, ReadyIsWhole
  <2>1. WholeAt(panel.version)
    BY DEF IInv, Rest
  <2> QED
    BY <2>1 DEF WholeAt, RunsAt, JournalAt, whole
<1> QED
  BY <1>1, Consistent, PTL

\* Of every tree and of the database the host holds a complete copy at every moment of an update and of its
\* rollback, deaths of the agent included (swap, restore_panel), up to an update begun on a half-done one.
THEOREM CopiesAreKept == Spec => []NothingIsLost
<1>1. IInv => NothingIsLost
  BY DEF IInv, Copies, NothingIsLost
<1> QED
  BY <1>1, Consistent, PTL

=============================================================================
