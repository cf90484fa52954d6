---------------------------- MODULE VersionAgent ----------------------------
(***************************************************************************)
(* The version-agent (version_agent/src): the panel's self-update with the *)
(* installer's ownership handoff (installer/src/handoff.rs), the rebuild   *)
(* of the managers a release changed, and the update of one native         *)
(* component. All of them run Compose on the same project.                 *)
(*                                                                         *)
(* Short operations on the agent's state file hold the agent lock and are  *)
(* atomic here. A component update holds it to its end; the panel update   *)
(* and the rebuild run in threads of their own and are kept apart by the   *)
(* markers "updating" and rebuilding_managers. The panel update also holds *)
(* the host operation lock while it replaces the trees.                    *)
(*                                                                         *)
(* Bytes are abstracted to the number of the release they come from: 0 is  *)
(* a missing file, Torn one that was left half written or half removed.    *)
(***************************************************************************)
EXTENDS Naturals, Sequences

CONSTANTS
  MaxRelease,   \* releases of the panel are 1..MaxRelease
  MaxBuild,     \* builds of the component are 1..MaxBuild
  ManagerTree,  \* per release, the release that last changed the manager's tree
  Journaled,    \* the host was installed by the engine: there is an ownership journal
  AutoRebuild,  \* VERSION_AGENT_AUTO_REBUILD_MANAGERS
  MaxCrashes,   \* bound: times the agent dies
  MaxFaults     \* bound: mishaps, these deaths and the commands, copies and writes that fail

ASSUME ReleasesAssumption ==
  /\ MaxRelease \in Nat \ {0} /\ MaxBuild \in 1..MaxRelease
  /\ ManagerTree \in [1..MaxRelease -> 1..MaxRelease]
ASSUME SwitchesAssumption == {Journaled, AutoRebuild} \subseteq BOOLEAN
ASSUME LimitsAssumption == MaxCrashes \in Nat /\ MaxFaults \in Nat

Releases == 1..MaxRelease
Torn == MaxRelease + 1
Bytes == 0..Torn

\* PANEL_SYNC in its order, then the agent's own tree: the panel's code, one manager, the VERSION
\* file mounted into the panel's container, the agent.
Entries == <<"panel", "manager", "VERSION", "agent">>
Names == {Entries[k] : k \in DOMAIN Entries}
\* What a native component consists of on the host, in the order update_binary writes it.
Parts == <<"binary", "pin", "overlay">>
PartNames == {Parts[k] : k \in DOMAIN Parts}

VARIABLES
  trees,    \* the installed trees
  backup,   \* backups/panel.previous
  db, snap, \* the panel's database (the release whose schema it has), backups/panel-db.previous
  image,    \* the panel image tagged :latest
  box,      \* the panel's container: its image, the VERSION it mounts, whether it runs
  journal,  \* the installer's state.json: the trees' digests in the Core and agent checkpoints
  owned,    \* ownership.json, derived from it
  lock,     \* the host operation lock is held by the panel update
  panel,    \* the panel's record in the agent's state file
  w,        \* the panel update's thread
  after,    \* what a finished update still has to do: rebuild the managers, restart the agent
  manager,  \* the manager's container: the tree its image was built from, since the panel update or not
  rb,       \* the rebuild's thread
  parts, running, \* the component: its files, what its service runs
  comp, c,  \* the component's record and last operation in the state file; its update, with the backup
  torn,     \* history: which of panel and component were left half updated (the agent died in their
            \* update, a tree could not be removed, a failed rollback or the component's success could not be
            \* recorded), and "again" for an update of the panel that was begun on such a one; with no update
            \* that succeeded since
  alive,    \* the agent's process runs
  crashes, faults

project == <<trees, backup>>
runtime == <<db, snap, image, box>>
ownership == <<journal, owned>>
managers == <<manager, rb>>
component == <<parts, running, comp, c>>
budgets == <<crashes, faults>>
vars == <<project, runtime, ownership, lock, panel, w, after, managers, component, torn, alive, budgets>>

content(name, r) == IF name = "manager" THEN ManagerTree[r] ELSE r
release(r) == [n \in Names |-> content(n, r)]
fault == faults < MaxFaults /\ faults' = faults + 1
fine == faults' = faults
\* A step that refuses when ok does not hold, and may fail by itself.
fails(ok) == (~ok /\ fine) \/ fault

---------------------------------------------------------------------------
(* Types and initial state: release 1 installed, running and recorded *)

Statuses == {"ready", "updating", "update_failed", "rollback_failed"}
Outcomes == {"none", "succeeded", "update_failed", "rolled_back", "rollback_failed"}
Swapping == {"move", "copy", "tag", "build", "stop", "snapshot", "up", "check", "commit", "derive"}
Restoring == {"r_stop", "r_tree", "r_db", "r_up", "r_check"}
NoWorker == [pc |-> "idle", to |-> 0, from |-> 0, k |-> 1, synced |-> 0, saved |-> FALSE, tag |-> 0,
             pending |-> FALSE, stranded |-> FALSE, outcome |-> "none"]
NoUpdate == [pc |-> "idle", to |-> 0, k |-> 1, saved |-> [n \in PartNames |-> 0], touched |-> FALSE, outcome |-> "none"]

TypeOK ==
  /\ trees \in [Names -> Bytes] /\ backup \in [Names -> Bytes]
  /\ db \in Bytes /\ snap \in Bytes /\ image \in Bytes
  /\ box \in [image : Bytes, ver : Bytes, up : BOOLEAN]
  /\ journal \in [Names -> Bytes] /\ owned \in [Names -> Bytes]
  /\ lock \in BOOLEAN /\ alive \in BOOLEAN
  /\ panel \in [version : 0..Torn, status : Statuses, pending : BOOLEAN, rebuilding : BOOLEAN]
  /\ w \in [pc : {"idle", "download", "lock", "prepare", "verdict"}
                 \cup Swapping \cup Restoring,
            to : 0..MaxRelease, from : Bytes, k : 1..(Len(Entries) + 1), synced : 0..Len(Entries),
            saved : BOOLEAN, tag : Bytes, pending : BOOLEAN, stranded : BOOLEAN, outcome : Outcomes]
  /\ after \subseteq {"rebuild", "restart"}
  /\ manager \in [tree : Bytes, fresh : BOOLEAN]
  /\ rb \in [pc : {"idle", "build", "restore", "verdict"}, saved : Bytes, ok : BOOLEAN]
  /\ parts \in [PartNames -> Bytes] /\ running \in Bytes
  /\ comp \in [version : Releases, latched : BOOLEAN,
               op : {"none", "running", "succeeded", "rolled_back", "rollback_failed", "update_failed", "interrupted"}]
  /\ torn \subseteq {"panel", "component", "again"}
  /\ c \in [pc : {"idle", "fetch", "write", "restart", "undo", "reload", "verdict"}, to : 0..MaxRelease, k : 1..4,
            saved : [PartNames -> Bytes], touched : BOOLEAN, outcome : Outcomes]
  /\ crashes \in 0..MaxCrashes /\ faults \in 0..MaxFaults

Init ==
  /\ trees = release(1) /\ backup = [n \in Names |-> 0]
  /\ db = 1 /\ snap = 0 /\ image = 1 /\ box = [image |-> 1, ver |-> 1, up |-> TRUE]
  /\ journal = release(1) /\ owned = release(1) /\ lock = FALSE
  /\ panel = [version |-> 1, status |-> "ready", pending |-> FALSE, rebuilding |-> FALSE]
  /\ w = NoWorker /\ after = {}
  /\ manager = [tree |-> ManagerTree[1], fresh |-> TRUE] /\ rb = [pc |-> "idle", saved |-> 0, ok |-> FALSE]
  /\ parts = [n \in PartNames |-> 1] /\ running = 1
  /\ comp = [version |-> 1, latched |-> FALSE, op |-> "none"] /\ c = NoUpdate /\ torn = {}
  /\ alive = TRUE /\ crashes = 0 /\ faults = 0

---------------------------------------------------------------------------
(* The panel update: request, download, handoff *)

\* The agent lock: only a component update holds it across steps.
lock_free == alive /\ c.pc = "idle"

\* panel_current: the container's VERSION, else the project's, else the record.
panel_current ==
  IF box.up THEN box.ver ELSE IF trees["VERSION"] \in Releases THEN trees["VERSION"] ELSE panel.version

\* update_panel_async: under the lock, the marker is written and the thread is started. A thread
\* that cannot be started leaves the marker.
Request(v) ==
  /\ lock_free
  /\ panel.status \notin {"updating", "rollback_failed"} /\ ~panel.rebuilding
  /\ v > panel_current
  /\ panel' = [version |-> panel_current, status |-> "updating", pending |-> FALSE, rebuilding |-> FALSE]
  /\ \/ /\ fine /\ w' = [NoWorker EXCEPT !.pc = "download", !.to = v, !.from = panel_current]
        /\ torn' = torn \cup {t \in {"again"} : "panel" \in torn}
     \/ fault /\ w' = w /\ torn' = torn
  /\ UNCHANGED <<project, runtime, ownership, lock, after, managers, component, alive, crashes>>

\* The thread's steps leave the state file, the managers and the component alone.
worker_frame == UNCHANGED <<panel, after, managers, component, torn, alive, crashes>>
goto(pc) == w' = [w EXCEPT !.pc = pc]
conclude(outcome) == w' = [w EXCEPT !.pc = "verdict", !.outcome = outcome]

\* update_panel: the archive is fetched, checked against its digest and unpacked.
Download ==
  /\ w.pc = "download"
  /\ \/ fine /\ goto("lock")
     \/ fault /\ conclude("update_failed")
  /\ UNCHANGED <<project, runtime, ownership, lock>> /\ worker_frame

\* sync_and_restart_panel: the host operation lock, refused when an installer has it.
Lock ==
  /\ w.pc = "lock"
  /\ \/ fine /\ goto("prepare") /\ lock' = TRUE
     \/ fault /\ conclude("update_failed") /\ lock' = FALSE
  /\ UNCHANGED <<project, runtime, ownership>> /\ worker_frame

\* PanelOwnershipHandoff::prepare: the derived journal agrees with the checkpoints and every owned
\* tree is intact. Without a journal there is nothing to check.
prepared == Journaled => owned = journal /\ trees = journal

\* sync_and_restart_panel_locked up to the swap: what changed, the running image's identity, and
\* an empty directory for the previous trees.
Prepare ==
  /\ w.pc = "prepare"
  /\ \/ /\ fine /\ prepared
        /\ w' = [w EXCEPT !.pc = "move", !.pending = trees["manager"] # content("manager", w.to)]
        /\ backup' = [n \in Names |-> 0]
        /\ lock' = lock
     \/ /\ fails(prepared)
        /\ conclude("update_failed") /\ lock' = FALSE /\ backup' = backup
  /\ UNCHANGED <<trees, runtime, ownership>> /\ worker_frame

---------------------------------------------------------------------------
(* swap: any failure goes to the restore *)

entry == Entries[w.k]

\* move_entry across the unit's bind mounts: copy, then remove the source. A failure of either
\* leaves the entry out of progress.synced.
half_copied == trees' = trees /\ backup' = [backup EXCEPT ![entry] = Torn]
half_removed == backup' = [backup EXCEPT ![entry] = trees[entry]] /\ trees' = [trees EXCEPT ![entry] = Torn]
exists == trees[entry] # 0
Move ==
  /\ w.pc = "move"
  /\ \/ /\ fine /\ torn' = torn
        /\ backup' = [backup EXCEPT ![entry] = trees[entry]] /\ trees' = [trees EXCEPT ![entry] = 0]
        /\ w' = [w EXCEPT !.pc = "copy", !.synced = w.k]
     \/ fault /\ exists /\ half_copied /\ torn' = torn /\ goto("r_stop")
     \/ fault /\ exists /\ half_removed /\ torn' = torn \cup {"panel"} /\ goto("r_stop")
  /\ UNCHANGED <<runtime, ownership, lock, panel, after, managers, component, alive, crashes>>

\* copy_entry: the staged tree into place; after the last one the directory is synced.
Copy ==
  /\ w.pc = "copy"
  /\ \/ /\ fine
        /\ trees' = [trees EXCEPT ![entry] = content(entry, w.to)]
        /\ w' = IF w.k < Len(Entries) THEN [w EXCEPT !.pc = "move", !.k = @ + 1] ELSE [w EXCEPT !.pc = "tag"]
     \/ fault /\ trees' = [trees EXCEPT ![entry] = Torn] /\ goto("r_stop")
  /\ UNCHANGED <<backup, runtime, ownership, lock>> /\ worker_frame

\* docker tag of the running container's image; progress.rollback_tag is set when it worked.
Tag ==
  /\ w.pc = "tag"
  /\ \/ fine /\ w' = [w EXCEPT !.pc = "build", !.tag = box.image]
     \/ fault /\ goto("r_stop")
  /\ UNCHANGED <<project, runtime, ownership, lock>> /\ worker_frame
tagged == w.tag # 0

Build ==
  /\ w.pc = "build"
  /\ \/ fine /\ image' = trees["panel"] /\ goto("stop")
     \/ fault /\ image' = image /\ goto("r_stop")
  /\ UNCHANGED <<project, db, snap, box, ownership, lock>> /\ worker_frame

\* stop_panel_writers: the panel is stopped, and no container may use the volume any more.
Stop ==
  /\ w.pc = "stop"
  /\ \/ fine /\ box' = [box EXCEPT !.up = FALSE] /\ goto("snapshot")
     \/ fault /\ (box' = box \/ box' = [box EXCEPT !.up = FALSE]) /\ goto("r_stop")
  /\ UNCHANGED <<project, db, snap, image, ownership, lock>> /\ worker_frame

\* Mutant: db_saved is set before the files are copied.
SavedTooEarly ==
  /\ w.pc = "snapshot"
  /\ \/ fine /\ snap' = db /\ w' = [w EXCEPT !.pc = "up", !.saved = TRUE]
     \/ fault /\ snap' = Torn /\ w' = [w EXCEPT !.pc = "r_stop", !.saved = TRUE]
  /\ UNCHANGED <<project, db, image, box, ownership, lock>> /\ worker_frame
\* The database files are copied away; db_saved is set when all of them are.
Snapshot ==
  /\ w.pc = "snapshot"
  /\ \/ fine /\ snap' = db /\ w' = [w EXCEPT !.pc = "up", !.saved = TRUE]
     \/ fault /\ snap' = Torn /\ goto("r_stop")
  /\ UNCHANGED <<project, db, image, box, ownership, lock>> /\ worker_frame

\* compose_up of the panel with image i: it migrates an older database and refuses a newer or a
\* broken one, --wait reports whether it became healthy.
starts(i) == db <= i
compose_up(i) == starts(i) /\ box' = [image |-> i, ver |-> trees["VERSION"], up |-> TRUE] /\ db' = i
start_fails(i) ==
  /\ box' = [image |-> i, ver |-> trees["VERSION"], up |-> FALSE]
  /\ db' = db \/ (starts(i) /\ db' = i)
Up ==
  /\ w.pc = "up"
  /\ \/ fine /\ compose_up(image) /\ goto("check")
     \/ fails(starts(image)) /\ (start_fails(image) \/ compose_up(image)) /\ goto("r_stop")
  /\ UNCHANGED <<project, snap, image, ownership, lock>> /\ worker_frame

Check ==
  /\ w.pc = "check"
  /\ \/ fine /\ box.ver = w.to /\ goto("commit")
     \/ fails(box.ver = w.to) /\ goto("r_stop")
  /\ UNCHANGED <<project, runtime, ownership, lock>> /\ worker_frame

\* PanelOwnershipHandoff::commit: the installed trees are the staged ones, then the rebased
\* state.json, then (Derive) the files derived from it.
Commit ==
  /\ w.pc = "commit"
  /\ \/ /\ fine /\ trees = release(w.to)
        /\ journal' = IF Journaled THEN release(w.to) ELSE journal
        /\ goto("derive")
     \/ fails(trees = release(w.to)) /\ journal' = journal /\ goto("r_stop")
  /\ UNCHANGED <<project, runtime, owned, lock>> /\ worker_frame

\* The journal prepare read: it described exactly the trees that are now in the backup.
previous_state == backup

\* write_rebased: a failed write puts the previous journal back, or strands it
\* (OwnershipRecoveryFailed) with some of its files new, ownership.json too if the report came last.
Derive ==
  /\ w.pc = "derive"
  /\ \/ fine /\ owned' = journal /\ journal' = journal /\ lock' = FALSE /\ conclude("succeeded")
     \/ /\ fault /\ Journaled /\ lock' = lock
        /\ \/ journal' = previous_state /\ owned' = previous_state /\ goto("r_stop")
           \/ /\ w' = [w EXCEPT !.pc = "r_stop", !.stranded = TRUE]
              /\ journal' \in {journal, previous_state} /\ owned' \in {owned, journal, previous_state}
  /\ UNCHANGED <<project, runtime>> /\ worker_frame

---------------------------------------------------------------------------
(* restore_panel: a failure here is rollback_failed *)

give_up == conclude("rollback_failed") /\ lock' = FALSE

RestoreStop ==
  /\ w.pc = "r_stop"
  /\ \/ fine /\ box' = [box EXCEPT !.up = @ /\ ~w.saved] /\ lock' = lock
        /\ w' = [w EXCEPT !.pc = "r_tree", !.k = 1]
     \/ fault /\ w.saved /\ box' = box /\ give_up
  /\ UNCHANGED <<project, db, snap, image, ownership>> /\ worker_frame

\* The synced entries, one after the other: the new tree goes, the previous one comes back.
RestoreTree ==
  /\ w.pc = "r_tree"
  /\ \/ w.k > w.synced /\ fine /\ goto("r_db") /\ lock' = lock /\ UNCHANGED project
     \/ /\ w.k <= w.synced /\ fine /\ lock' = lock
        /\ trees' = [trees EXCEPT ![entry] = backup[entry]] /\ backup' = [backup EXCEPT ![entry] = 0]
        /\ w' = [w EXCEPT !.k = @ + 1]
     \/ w.k <= w.synced /\ fault /\ give_up /\ trees' = [trees EXCEPT ![entry] = Torn] /\ backup' = backup
  /\ UNCHANGED <<runtime, ownership>> /\ worker_frame

RestoreDb ==
  /\ w.pc = "r_db"
  /\ \/ fine /\ db' = (IF w.saved THEN snap ELSE db) /\ goto("r_up") /\ lock' = lock
     \/ fault /\ w.saved /\ db' = Torn /\ give_up
  /\ UNCHANGED <<project, snap, image, box, ownership>> /\ worker_frame

\* Before the image was tagged no runtime command ran: the container is left alone.
RestoreUp ==
  /\ w.pc = "r_up"
  /\ \/ ~tagged /\ fine /\ goto("r_check") /\ lock' = lock /\ UNCHANGED <<db, image, box>>
     \/ /\ tagged /\ fine /\ image' = w.tag /\ compose_up(w.tag) /\ goto("r_check") /\ lock' = lock
     \/ /\ tagged /\ fails(starts(w.tag)) /\ image' = w.tag /\ start_fails(w.tag) /\ give_up
  /\ UNCHANGED <<project, snap, ownership>> /\ worker_frame

\* The restored panel must report the previous version; a stranded journal is still a failed rollback.
verified == box.up /\ (w.from \in Releases => box.ver = w.from)
\* Mutant: the stranded journal is forgotten.
StrandedForgotten == IF verified THEN "rolled_back" ELSE "rollback_failed"
rollback_verdict == IF verified /\ ~w.stranded THEN "rolled_back" ELSE "rollback_failed"
RestoreCheck ==
  /\ w.pc = "r_check" /\ lock' = FALSE
  /\ \/ fine /\ conclude(rollback_verdict)
     \/ fault /\ conclude("rollback_failed")
  /\ UNCHANGED <<project, runtime, ownership>> /\ worker_frame

---------------------------------------------------------------------------
(* The verdict, the managers, the agent's restart *)

succeeded == w.outcome = "succeeded"
recorded_status == IF w.outcome \in {"succeeded", "rolled_back"} THEN "ready" ELSE w.outcome

\* panel_worker persists the verdict under the lock; what cannot be written stays "updating".
Verdict ==
  /\ w.pc = "verdict" /\ lock_free
  /\ \/ /\ fine
        /\ panel' = [version |-> IF succeeded THEN w.to ELSE w.from,
                     status |-> recorded_status,
                     pending |-> succeeded /\ w.pending, rebuilding |-> FALSE]
        /\ manager' = [manager EXCEPT !.fresh = @ /\ ~succeeded]
        /\ torn' = IF succeeded THEN torn \ {"panel", "again"} ELSE torn
     \/ /\ fault /\ panel' = panel /\ manager' = manager
        /\ torn' = IF w.outcome = "rollback_failed" THEN torn \cup {"panel"} ELSE torn
  /\ w' = NoWorker
  /\ after' = after \cup {t \in {"rebuild", "restart"} : succeeded /\ (t = "rebuild" => w.pending /\ AutoRebuild)}
  /\ UNCHANGED <<project, runtime, ownership, lock, rb, component, alive, crashes>>

\* rebuild_preflight, for the one manager of the model.
rebuild_preflight == panel.status \notin {"updating", "rollback_failed"} /\ ~panel.rebuilding /\ panel.pending

\* rebuild_managers marks the rebuild and runs it: in a thread of its own (which may not start),
\* or inline after a panel update.
begin_rebuild ==
  /\ panel' = [panel EXCEPT !.rebuilding = TRUE]
  /\ rb' = [pc |-> "build", saved |-> manager.tree, ok |-> FALSE]
RebuildManagers ==
  /\ lock_free /\ rebuild_preflight
  /\ \/ fine /\ begin_rebuild
     \/ fault /\ panel' = [panel EXCEPT !.rebuilding = TRUE] /\ rb' = rb
  /\ UNCHANGED <<project, runtime, ownership, lock, w, after, manager, component, torn, alive, crashes>>
AfterUpdate ==
  /\ "rebuild" \in after /\ lock_free /\ fine /\ after' = after \ {"rebuild"}
  /\ \/ rebuild_preflight /\ begin_rebuild
     \/ ~rebuild_preflight /\ UNCHANGED <<panel, rb>>
  /\ UNCHANGED <<project, runtime, ownership, lock, w, manager, component, torn, alive, crashes>>

rebuild_frame == UNCHANGED <<project, runtime, ownership, lock, w, after, component, torn, alive, crashes>>

\* rebuild_services: one Compose call builds and recreates, then the health wait.
RebuildServices ==
  /\ rb.pc = "build"
  /\ \/ fine /\ manager' = [tree |-> trees["manager"], fresh |-> TRUE] /\ rb' = [rb EXCEPT !.pc = "verdict", !.ok = TRUE]
     \/ /\ fault /\ rb' = [rb EXCEPT !.pc = "restore"]
        /\ manager' \in {manager, [tree |-> trees["manager"], fresh |-> TRUE]}
  /\ UNCHANGED panel /\ rebuild_frame
RestoreServices ==
  /\ rb.pc = "restore" /\ rb' = [rb EXCEPT !.pc = "verdict"]
  /\ \/ fine /\ manager' = [tree |-> rb.saved, fresh |-> FALSE]
     \/ fault /\ manager' = manager
  /\ UNCHANGED panel /\ rebuild_frame

\* rebuild_worker: the verdict, into the record as it is now.
RebuildVerdict ==
  /\ rb.pc = "verdict" /\ lock_free
  /\ \/ fine /\ panel' = [panel EXCEPT !.rebuilding = FALSE, !.pending = @ /\ ~rb.ok]
     \/ fault /\ panel' = panel
  /\ rb' = [rb EXCEPT !.pc = "idle"]
  /\ UNCHANGED manager /\ rebuild_frame

\* heal_pending, on a read of the versions: an image built since the panel update is not pending.
HealPending ==
  /\ lock_free /\ panel.pending /\ panel.status = "ready" /\ ~panel.rebuilding /\ manager.fresh /\ fine
  /\ panel' = [panel EXCEPT !.pending = FALSE]
  /\ UNCHANGED managers /\ rebuild_frame

\* update-host.sh or the operator rebuilds the manager, and may report it (ack_managers).
HostRebuild ==
  /\ w.pc = "idle" /\ rb.pc = "idle" /\ c.pc = "idle" /\ fine
  /\ manager' = [tree |-> trees["manager"], fresh |-> TRUE] /\ manager' # manager
  /\ UNCHANGED <<panel, rb>> /\ rebuild_frame
AckManagers ==
  /\ lock_free /\ manager.fresh /\ panel.pending /\ fine
  /\ panel' = [panel EXCEPT !.pending = FALSE]
  /\ UNCHANGED managers /\ rebuild_frame

\* REBUILD_STALE_AFTER: a marker nobody will clear stops counting.
Expire ==
  /\ panel.rebuilding /\ rb.pc = "idle" /\ fine
  /\ panel' = [panel EXCEPT !.rebuilding = FALSE]
  /\ UNCHANGED managers /\ rebuild_frame

---------------------------------------------------------------------------
(* A component update: files, restart, and the way back *)

part == Parts[c.k]

\* Mutant: only the agent lock is asked.
OnlyTheLock == TRUE
compose_idle == panel.status # "updating" /\ ~panel.rebuilding

\* VersionAgent::update: under the lock, which it keeps. A record latched by an unverified rollback
\* refuses; so do a running panel update and a running rebuild.
UpdateComponent(v) ==
  /\ lock_free /\ ~comp.latched /\ v # comp.version
  /\ compose_idle
  /\ comp' = [comp EXCEPT !.op = "running"] /\ fine
  /\ c' = [NoUpdate EXCEPT !.pc = "fetch", !.to = v]
  /\ UNCHANGED <<project, runtime, ownership, lock, panel, w, after, managers, parts, running, torn, alive, crashes>>

component_frame == UNCHANGED <<project, runtime, ownership, lock, panel, w, after, managers, alive, crashes>>
finish(op) == c' = [c EXCEPT !.pc = "verdict", !.outcome = op]

\* fetch_binary and the backup of the installed build; nothing on the host changes before.
Fetch ==
  /\ c.pc = "fetch"
  /\ \/ fine /\ c' = [c EXCEPT !.pc = "write", !.saved = parts]
     \/ fault /\ finish("update_failed")
  /\ UNCHANGED <<parts, running, comp, torn>> /\ component_frame

\* The binary is staged, checked and renamed into place, then the pin, then the consumer's overlay.
\* Each file is replaced atomically; an error after the rename counts as one too.
WritePart ==
  /\ c.pc = "write"
  /\ \/ /\ fine /\ parts' = [parts EXCEPT ![part] = c.to]
        /\ c' = IF c.k < Len(Parts) THEN [c EXCEPT !.k = @ + 1] ELSE [c EXCEPT !.pc = "restart", !.touched = TRUE]
     \/ fault /\ parts' \in {parts, [parts EXCEPT ![part] = c.to]} /\ c' = [c EXCEPT !.pc = "undo"]
  /\ UNCHANGED <<running, comp, torn>> /\ component_frame

\* The service starts only when the pin names its binary, the consumer's container only when the
\* overlay does.
consistent == \A n \in PartNames : parts[n] = parts["binary"]
\* Mutant: a reload, which keeps the running process.
Reloaded == running
restarted == parts["binary"]
RestartComponent ==
  /\ c.pc = "restart"
  /\ \/ fine /\ consistent /\ running' = restarted /\ finish("succeeded")
     \/ fails(consistent) /\ running' \in {0, parts["binary"], running} /\ c' = [c EXCEPT !.pc = "undo"]
  /\ UNCHANGED <<parts, comp, torn>> /\ component_frame

\* The rollback: the backed-up binary, the previous pin, and the overlay if it was rewritten
\* without an error; in one go here because nothing but its end is observed. A failure or a death
\* in between leaves some of them.
previous_parts == [c.saved EXCEPT !["overlay"] = IF c.touched THEN @ ELSE parts["overlay"]]
partly(f) == parts' \in {g \in [PartNames -> Bytes] : \A n \in PartNames : g[n] \in {parts[n], f[n]}}
Undo ==
  /\ c.pc = "undo"
  /\ \/ fine /\ parts' = previous_parts /\ c' = [c EXCEPT !.pc = "reload"]
     \/ fault /\ partly(previous_parts) /\ finish("rollback_failed")
  /\ UNCHANGED <<running, comp, torn>> /\ component_frame

\* run_config_checks, the restart and the read-back of what came back.
Reload ==
  /\ c.pc = "reload"
  /\ \/ fine /\ consistent /\ running' = restarted /\ finish("rolled_back")
     \/ fails(consistent) /\ running' \in {0, running} /\ finish("rollback_failed")
  /\ UNCHANGED <<parts, comp, torn>> /\ component_frame

\* update persists the verdict before it lets the lock go: a success names the new version, a rollback
\* leaves the record as it was, rollback_failed latches it. What cannot be written stays "running", and the
\* record with it.
RecordComponent ==
  LET better == c.outcome = "succeeded" IN
  /\ c.pc = "verdict" /\ c' = NoUpdate
  /\ \/ /\ fine
        /\ comp' = [version |-> IF better THEN c.to ELSE comp.version, latched |-> c.outcome = "rollback_failed",
                    op |-> c.outcome]
        /\ torn' = IF better THEN torn \ {"component"} ELSE torn
     \/ /\ fault /\ comp' = comp
        /\ torn' = IF c.outcome \in {"succeeded", "rollback_failed"} THEN torn \cup {"component"} ELSE torn
  /\ UNCHANGED <<parts, running>> /\ component_frame

---------------------------------------------------------------------------
(* The agent's process, the installer *)

\* What a kill leaves of the step it interrupts.
debris ==
  \/ UNCHANGED <<trees, backup, db, snap, parts>>
  \/ w.pc = "move" /\ exists /\ (half_copied \/ half_removed) /\ UNCHANGED <<db, snap, parts>>
  \/ /\ w.pc = "copy" \/ (w.pc = "r_tree" /\ w.k <= w.synced)
     /\ trees' = [trees EXCEPT ![entry] = Torn] /\ UNCHANGED <<backup, db, snap, parts>>
  \/ w.pc = "snapshot" /\ snap' = Torn /\ UNCHANGED <<trees, backup, db, parts>>
  \/ w.pc = "r_db" /\ w.saved /\ db' = Torn /\ UNCHANGED <<trees, backup, snap, parts>>
  \/ c.pc = "undo" /\ partly(previous_parts) /\ UNCHANGED <<trees, backup, db, snap>>

left == {x \in {"panel", "component"} : (x = "panel" /\ w.pc # "idle") \/ (x = "component" /\ c.pc # "idle")}
down ==
  /\ alive' = FALSE /\ lock' = FALSE
  /\ w' = NoWorker /\ after' = {} /\ rb' = [rb EXCEPT !.pc = "idle"] /\ c' = NoUpdate /\ torn' = torn \cup left
  /\ UNCHANGED <<image, box, ownership, panel, manager, running, comp>>
Crash == alive /\ crashes < MaxCrashes /\ crashes' = crashes + 1 /\ fault /\ debris /\ down

\* The last step of a panel update: systemd restarts the agent on its new tree. The process ends
\* when its requests and its threads have (stop_and_wait, wait_idle).
RestartAgent ==
  /\ alive /\ after = {"restart"} /\ w.pc = "idle" /\ c.pc = "idle" /\ rb.pc = "idle" /\ fine /\ down
  /\ UNCHANGED <<trees, backup, db, snap, parts, crashes>>

\* Start-up: recover_interrupted turns the markers nobody works for into verdicts. A state file
\* that cannot be written is logged and left.
\* Mutant: only the component's operation is looked at.
MarkerLeft ==
  /\ panel' = [panel EXCEPT !.rebuilding = FALSE]
  /\ comp' = [comp EXCEPT !.op = IF @ = "running" THEN "interrupted" ELSE @]
recovered ==
  /\ panel' = [panel EXCEPT !.status = IF @ = "updating" THEN "update_failed" ELSE @,
                            !.pending = @ /\ panel.status # "updating", !.rebuilding = FALSE]
  /\ comp' = [comp EXCEPT !.op = IF @ = "running" THEN "interrupted" ELSE @]
Start ==
  /\ ~alive /\ alive' = TRUE
  /\ \/ fine /\ recovered
     \/ fault /\ UNCHANGED <<panel, comp>>
  /\ UNCHANGED <<project, runtime, ownership, lock, w, after, managers, parts, running, c, torn, crashes>>

installer_frame == fine /\ UNCHANGED <<project, runtime, lock, panel, w, after, managers, component, torn, alive, crashes>>
\* proxyctl resume of an active transaction writes the derived files again.
Resume == ~lock /\ owned # journal /\ owned' = journal /\ journal' = journal /\ installer_frame
\* reconcile-panel-update, the handoff's legacy mode: adopts the installed trees when they are the
\* archive of the release that runs.
Reconcile(r) ==
  /\ ~lock /\ Journaled /\ owned = journal /\ box.up /\ box.ver = r /\ trees = release(r)
  /\ journal # trees
  /\ journal' = trees /\ owned' = trees /\ installer_frame

---------------------------------------------------------------------------

Swap == Move \/ Copy \/ Tag \/ Build \/ Stop \/ Snapshot \/ Up \/ Check \/ Commit \/ Derive
Restore == RestoreStop \/ RestoreTree \/ RestoreDb \/ RestoreUp \/ RestoreCheck
Worker == Download \/ Lock \/ Prepare \/ Swap \/ Restore \/ Verdict \/ AfterUpdate \/ RestartAgent
Rebuild == RebuildServices \/ RestoreServices \/ RebuildVerdict
Component == Fetch \/ WritePart \/ RestartComponent \/ Undo \/ Reload \/ RecordComponent
Next ==
  \/ Worker \/ Rebuild \/ Component
  \/ \E v \in Releases : Request(v) \/ Reconcile(v)
  \/ \E v \in 1..MaxBuild : UpdateComponent(v)
  \/ RebuildManagers \/ HealPending \/ HostRebuild \/ AckManagers \/ Expire
  \/ Crash \/ Start \/ Resume

\* The agent's threads run, systemd starts the agent again.
Fairness == WF_vars(Worker) /\ WF_vars(Rebuild) /\ WF_vars(Component) /\ WF_vars(Start)
Spec == Init /\ [][Next]_vars /\ Fairness

---------------------------------------------------------------------------
(* Properties *)

whole ==
  /\ trees = release(panel.version)
  /\ box = [image |-> panel.version, ver |-> panel.version, up |-> TRUE]
  /\ db = panel.version
  /\ Journaled => journal = trees

\* A panel that is recorded as ready runs one release, from the trees of that release, on a
\* database of its schema, and the installer's journal describes those trees: nothing the update
\* did is left half done behind that record (panel_worker's verdicts, restore_panel, the handoff).
ReadyIsWhole == panel.status = "ready" /\ w.pc = "idle" => panel.version \in Releases /\ whole

\* The same, unless the agent died in an update, a tree could be neither moved nor put back, or the
\* verdict of a failed rollback could not be recorded, and no update succeeded since.
VerifiedIsWhole == "panel" \notin torn => ReadyIsWhole

\* Nothing is lost: of every tree, and of the database, the host holds a complete copy at every
\* moment of an update and of its rollback, in place or in the backups, also where the agent dies, a tree is
\* half removed or a rollback fails. The exception is another update begun on what such a one left, which
\* empties backups/panel.previous and takes its snapshot from the database it finds: none is promised until it
\* has succeeded.
kept == (db # Torn \/ snap # Torn) /\ \A n \in Names : trees[n] \in Releases \/ backup[n] \in Releases
NothingIsLost == "again" \notin torn => kept

\* One operation of the agent runs Compose on the project at a time: the update of the panel, a
\* rebuild of the managers, the update of a component.
OneOperation ==
  /\ w.pc # "idle" => rb.pc = "idle"
  /\ c.pc # "idle" => w.pc = "idle" /\ rb.pc = "idle"

\* A component's verdict tells what runs: after a success or a verified rollback the recorded
\* version runs and its files agree with it. The exception is an earlier update that left no verdict, with
\* none that succeeded since: the agent died in it (the record then says interrupted), or its success or
\* failed rollback could not be written to the state file (the record then says running).
VerdictNamesWhatRuns ==
  comp.op \in {"succeeded", "rolled_back"} /\ "component" \notin torn =>
    running = comp.version /\ \A n \in PartNames : parts[n] = comp.version

\* An update gets its verdict once nothing fails any more: from its thread, or, when the agent
\* dies, from the next start (recover_interrupted), whatever holds the agent lock meanwhile.
UpdateSettles ==
  panel.status = "updating" /\ (w.pc # "idle" \/ ~alive) /\ faults = MaxFaults ~> panel.status # "updating"
=============================================================================
