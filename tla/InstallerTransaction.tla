------------------------ MODULE InstallerTransaction ------------------------
(***************************************************************************)
(* The installer's checkpointed transaction (installer/src/engine.rs): a   *)
(* plan's actions are applied in order through adapters, each step is      *)
(* written to state.json before the next one runs, an ordinary error rolls *)
(* everything back in reverse order, and a process that dies leaves the    *)
(* journal for resume. The host operation lock admits one process.         *)
(*                                                                         *)
(* What an action puts on the host is abstracted to one owned file, whose  *)
(* bytes are the plan that wrote it, and data that is kept on uninstall    *)
(* unless it is purged. Adapters are modelled by the contract of           *)
(* installer/src/adapter.rs and the rollback of the Core adapter.          *)
(***************************************************************************)
EXTENDS Naturals

CONSTANTS
  N,          \* actions in a plan
  Plans,      \* approved plans, each with an intent of its own
  Keepers,    \* actions that declare data with preserve
  MaxCrashes, \* bound: times the installer dies (a fatal error, a kill, a power cut)
  MaxFaults,  \* bound: ordinary errors of adapters and of journal writes
  MaxEdits    \* bound: times somebody changes or removes an owned file

ASSUME PlanAssumption ==
  /\ N \in Nat /\ Keepers \subseteq 1..N
  /\ Plans \cap {"none", "absent", "partial", "foreign"} = {}
ASSUME LimitsAssumption == MaxCrashes \in Nat /\ MaxFaults \in Nat /\ MaxEdits \in Nat

Actions == 1..N

VARIABLES
  state,   \* state.json
  plan,    \* plan.json
  owned,   \* ownership.json, derived: the actions whose file it lists
  host,    \* per action, the bytes of the file it owns
  data,    \* per action, whether its preserved data exists
  proc,    \* the process that holds the lock
  crashes, faults, edits

journal == <<state, plan, owned>>
budgets == <<crashes, faults, edits>>
vars == <<journal, host, data, proc, budgets>>

---------------------------------------------------------------------------
(* The journal *)

Statuses ==
  {"applying", "active", "rolling_back", "rollback_failed", "uninstalling", "rolled_back", "uninstalled"}
Removing == {"rolling_back", "rollback_failed", "uninstalling"}
Settled == {"rolled_back", "uninstalled"}
Phases == {"none", "prepared", "applying", "applied", "verified", "rollback_in_progress", "rolled_back"}
Targets == {"unset", "rolled_back", "uninstalled"}

\* TransactionState: the checkpoints are a phase and a recorded digest per action; an action
\* without a checkpoint has phase "none".
States == [status : Statuses, plan : Plans, phase : [Actions -> Phases], own : [Actions -> Plans \cup {"none"}],
           purge : {"unset", "keep", "purge"}, target : Targets]
NoState == [status |-> "none", plan |-> "none", phase |-> [a \in Actions |-> "none"],
            own |-> [a \in Actions |-> "none"], purge |-> "unset", target |-> "unset"]
New(p) == [NoState EXCEPT !.status = "applying", !.plan = p]

\* with_checkpoint, for a new phase of an action.
to(s, a, phase) == [s EXCEPT !.phase[a] = phase]

\* Phase::owns, with and without the checkpoints whose rollback is in progress.
owns(phase, inProgress) ==
  phase \in {"applied", "verified"} \/ (inProgress /\ phase = "rollback_in_progress")
ownership(s) == {a \in Actions : owns(s.phase[a], TRUE) /\ s.own[a] # "none"}

\* assert_owned, for one checkpoint: what it recorded is on the host, unchanged.
intact(s, a) ==
  s.own[a] # "none" => host[a] = s.own[a] /\ (a \in Keepers => data[a])
assert_all_owned(s) == \A a \in Actions : owns(s.phase[a], FALSE) => intact(s, a)

PresenceRequired(s, a, purge) == intact(s, a)
AnythingGoes(s, a, purge) == a \in Keepers /\ ~purge => data[a]
\* assert_reconcile_safe: a recorded file may be gone, kept data may not, and what is there is
\* what was recorded.
assert_reconcile_safe(s, a, purge) ==
  s.own[a] # "none" =>
    /\ host[a] \in {"absent", s.own[a]}
    /\ a \in Keepers /\ ~purge => data[a]

\* The process: where it is, the action it is at, its TransactionState and its rollback target.
Halt == [pc |-> "idle", at |-> 0, mem |-> NoState, target |-> "unset"]
Run(pc, at, mem, target) == [pc |-> pc, at |-> at, mem |-> mem, target |-> target]
mem == proc.mem
at == proc.at

fault == faults < MaxFaults /\ faults' = faults + 1
crash == crashes < MaxCrashes /\ crashes' = crashes + 1

\* persist: state.json, then the derived files. A write may fail, before or after state.json was
\* replaced, and the process may die between the two.
persist(s, ok, failed) ==
  /\ UNCHANGED plan
  /\ \/ /\ state' = s /\ owned' = ownership(s) /\ proc' = ok
        /\ UNCHANGED <<crashes, faults>>
     \/ /\ fault
        /\ state' \in {state, s} /\ UNCHANGED owned /\ proc' = failed
        /\ UNCHANGED crashes
     \/ /\ crash
        /\ state' = s /\ UNCHANGED owned /\ proc' = Halt
        /\ UNCHANGED faults

Init ==
  /\ state = NoState /\ plan = "none" /\ owned = {}
  /\ host = [a \in Actions |-> "absent"] /\ data = [a \in Actions |-> FALSE]
  /\ proc = Halt
  /\ crashes = 0 /\ faults = 0 /\ edits = 0

---------------------------------------------------------------------------
(* Commands *)

KeptState(s) == s
\* apply clears the journal of a finished removal before it writes the new plan.
remove_state(s) == NoState

\* apply of a new plan. With any other journal it refuses; with an active one of the same intent
\* it only proves ownership. Neither changes anything.
StartApply(p) ==
  /\ proc = Halt
  /\ state = NoState \/ state.status \in Settled
  /\ state' = remove_state(state)
  /\ proc' = Run("plan", 0, New(p), "unset")
  /\ UNCHANGED <<plan, owned, host, data, budgets>>

\* write_plan.
WritePlan ==
  /\ proc.pc = "plan"
  /\ \/ /\ plan' = mem.plan /\ proc' = [proc EXCEPT !.pc = "new"] /\ UNCHANGED faults
     \/ fault /\ proc' = Halt /\ UNCHANGED plan
  /\ UNCHANGED <<state, owned, host, data, crashes, edits>>

\* The first persist. Its failure is returned as it is, with nothing to roll back.
CreateState ==
  /\ proc.pc = "new"
  /\ persist(mem, [proc EXCEPT !.pc = "apply", !.at = 1], Halt)
  /\ UNCHANGED <<host, data, edits>>

\* read_matching_plan.
readable == state # NoState /\ plan = state.plan

AlwaysRolledBack(s) == "rolled_back"
\* The target a resumed removal goes on with.
resumed_target(s) ==
  IF s.target # "unset" THEN s.target
  ELSE IF s.status = "uninstalling" THEN "uninstalled" ELSE "rolled_back"

\* resume of an interrupted transaction.
StartResume ==
  /\ proc = Halt
  /\ readable
  /\ \/ state.status = "applying" /\ proc' = Run("apply", 1, state, "unset")
     \/ state.status \in Removing /\ proc' = Run("begin", 0, state, resumed_target(state))
  /\ UNCHANGED <<journal, host, data, budgets>>

\* resume or uninstall of a settled journal, or resume of an active one whose files are intact,
\* rebuilds what is derived.
ResumeSettled ==
  /\ proc = Halt
  /\ readable
  /\ state.status \in Settled \/ (state.status = "active" /\ assert_all_owned(state))
  /\ persist(state, Halt, Halt)
  /\ UNCHANGED <<host, data, edits>>

StartRepair ==
  /\ proc = Halt
  /\ readable
  /\ state.status = "active"
  /\ proc' = Run("repair", 1, state, "unset")
  /\ UNCHANGED <<journal, host, data, budgets>>

\* uninstall of an active installation, or again with the same data policy.
StartUninstall(purge) ==
  LET next == [state EXCEPT !.status = "uninstalling", !.purge = purge, !.target = "uninstalled"] IN
  /\ proc = Halt
  /\ readable
  /\ state.status = "active" \/ (state.status = "uninstalling" /\ state.purge = purge)
  /\ assert_all_owned(state)
  /\ persist(next, Run("begin", 0, next, "uninstalled"), Halt)
  /\ UNCHANGED <<host, data, edits>>

---------------------------------------------------------------------------
(* continue_apply *)

Failed == Run("failed", 0, NoState, "unset")
phaseIs(set) == at \in Actions /\ mem.phase[at] \in set

\* prepare changes nothing on the host; its checkpoint is written first.
Prepare ==
  LET next == to(mem, at, "prepared") IN
  /\ proc.pc = "apply" /\ phaseIs({"none"})
  /\ \/ persist(next, [proc EXCEPT !.mem = next], Failed)
     \/ fault /\ proc' = Failed /\ UNCHANGED <<journal, crashes>>
  /\ UNCHANGED <<host, data, edits>>

NotAhead(s, a) == to(s, a, "prepared")
\* The checkpoint that is durable before the adapter mutates the host.
ahead(s, a) == to(s, a, "applying")
MarkApplying ==
  LET next == ahead(mem, at) IN
  /\ proc.pc = "apply" /\ phaseIs({"prepared"})
  /\ persist(next, [proc EXCEPT !.pc = "mutate", !.mem = next], Failed)
  /\ UNCHANGED <<host, data, edits>>

\* A checkpoint that a crash left applying: reconcile_apply does the mutation again.
ReconcileApply ==
  /\ proc.pc = "apply" /\ phaseIs({"applying"})
  /\ proc' = [proc EXCEPT !.pc = "mutate"]
  /\ UNCHANGED <<journal, host, data, budgets>>

\* The adapter is half done.
MutatePartly ==
  /\ proc.pc = "mutate"
  /\ host[at] # "partial"
  /\ host' = [host EXCEPT ![at] = "partial"]
  /\ UNCHANGED <<journal, data, proc, budgets>>

MutateDone ==
  /\ proc.pc = "mutate"
  /\ host' = [host EXCEPT ![at] = mem.plan]
  /\ data' = [data EXCEPT ![at] = @ \/ at \in Keepers]
  /\ proc' = [proc EXCEPT !.pc = "capture"]
  /\ UNCHANGED <<journal, budgets>>

MutateFails ==
  /\ proc.pc \in {"mutate", "capture"}
  /\ fault
  /\ proc' = Failed
  /\ UNCHANGED <<journal, host, data, crashes, edits>>

\* finish_apply: the digest of the file is recorded with the phase.
FinishApply ==
  LET next == [to(mem, at, "applied") EXCEPT !.own[at] = host[at]] IN
  /\ proc.pc = "capture"
  /\ persist(next, [proc EXCEPT !.pc = "apply", !.mem = next], Failed)
  /\ UNCHANGED <<host, data, edits>>

Verify ==
  LET next == to(mem, at, "verified") IN
  /\ proc.pc = "apply" /\ phaseIs({"applied"})
  /\ \/ persist(next, [proc EXCEPT !.mem = next], Failed)
     \/ fault /\ proc' = Failed /\ UNCHANGED <<journal, crashes>>
  /\ UNCHANGED <<host, data, edits>>

\* A verified action is passed over; after the last the installation is active.
NextAction ==
  /\ proc.pc = "apply" /\ phaseIs({"verified"})
  /\ proc' = [proc EXCEPT !.at = at + 1]
  /\ UNCHANGED <<journal, host, data, budgets>>

Activate ==
  /\ proc.pc = "apply" /\ at = N + 1
  /\ persist([mem EXCEPT !.status = "active"], Halt, Failed)
  /\ UNCHANGED <<host, data, edits>>

\* apply_or_roll_back: an ordinary error rolls back what state.json says was done.
RollBackFailedApply ==
  /\ proc.pc = "failed"
  /\ proc' = Run("begin", 0, state, "rolled_back")
  /\ UNCHANGED <<journal, host, data, budgets>>

---------------------------------------------------------------------------
(* rollback *)

\* A rollback error is recorded with the target, for resume. If even that fails, nothing is.
Stuck(m) == Run("stuck", 0, m, proc.target)
RecordStuck ==
  /\ proc.pc = "stuck"
  /\ persist([mem EXCEPT !.status = "rollback_failed", !.target = proc.target], Halt, Halt)
  /\ UNCHANGED <<host, data, edits>>

OldestFirst ==
  LET next == [mem EXCEPT !.status = IF proc.target = "uninstalled" THEN "uninstalling" ELSE "rolling_back",
                          !.target = proc.target]
  IN
  /\ proc.pc = "begin"
  /\ IF assert_all_owned(mem)
       THEN persist(next, [proc EXCEPT !.pc = "undo", !.at = 1, !.mem = next], Stuck(next))
       ELSE proc' = Stuck(mem) /\ UNCHANGED <<journal, crashes, faults>>
  /\ UNCHANGED <<host, data, edits>>
\* The rollback begins, from the last checkpoint, if every applied file is still the recorded one.
BeginRollback ==
  LET next == [mem EXCEPT !.status = IF proc.target = "uninstalled" THEN "uninstalling" ELSE "rolling_back",
                          !.target = proc.target]
  IN
  /\ proc.pc = "begin"
  /\ IF assert_all_owned(mem)
       THEN persist(next, [proc EXCEPT !.pc = "undo", !.at = N, !.mem = next], Stuck(next))
       ELSE proc' = Stuck(mem) /\ UNCHANGED <<journal, crashes, faults>>
  /\ UNCHANGED <<host, data, edits>>

\* Checkpoints that are gone already, or were never written, are passed over.
SkipUndone ==
  /\ proc.pc = "undo" /\ phaseIs({"none", "rolled_back"})
  /\ proc' = [proc EXCEPT !.at = at - 1]
  /\ UNCHANGED <<journal, host, data, budgets>>

\* A prepared checkpoint has nothing to undo.
DropPrepared ==
  LET next == to(mem, at, "rolled_back") IN
  /\ proc.pc = "undo" /\ phaseIs({"prepared"})
  /\ persist(next, [proc EXCEPT !.mem = next], Stuck(next))
  /\ UNCHANGED <<host, data, edits>>

\* Before an applied or verified action is touched, its file is proved to be the recorded one.
MarkRollback ==
  LET next == to(mem, at, "rollback_in_progress") IN
  /\ proc.pc = "undo" /\ phaseIs({"applied", "verified"})
  /\ IF intact(mem, at)
       THEN persist(next, [proc EXCEPT !.pc = "remove", !.mem = next], Stuck(next))
       ELSE proc' = Stuck(mem) /\ UNCHANGED <<journal, crashes, faults>>
  /\ UNCHANGED <<host, data, edits>>

\* A half-applied action is marked first and then treated as one whose rollback was interrupted.
MarkHalfApplied ==
  LET next == to(mem, at, "rollback_in_progress") IN
  /\ proc.pc = "undo" /\ phaseIs({"applying"})
  /\ persist(next, [proc EXCEPT !.mem = next], Stuck(next))
  /\ UNCHANGED <<host, data, edits>>

\* The data policy of this rollback: a failed install may purge, an uninstall only if it was asked to.
purge_data == proc.target = "rolled_back" \/ mem.purge = "purge"
ReconcileRollback ==
  /\ proc.pc = "undo" /\ phaseIs({"rollback_in_progress"})
  /\ proc' = IF assert_reconcile_safe(mem, at, purge_data) THEN [proc EXCEPT !.pc = "remove"] ELSE Stuck(mem)
  /\ UNCHANGED <<journal, host, data, budgets>>

\* An adapter's rollback is destructive only for an uninstall with purge.
destructive == proc.target = "uninstalled" /\ purge_data

\* The adapter removes its file, then, if it must, the data; it may stop before, between or after.
RemoveFile ==
  /\ proc.pc = "remove" /\ host[at] # "absent"
  /\ host' = [host EXCEPT ![at] = "absent"]
  /\ UNCHANGED <<journal, data, proc, budgets>>
RemoveData ==
  /\ proc.pc = "remove" /\ host[at] = "absent"
  /\ data' = [data EXCEPT ![at] = @ /\ ~destructive]
  /\ proc' = [proc EXCEPT !.pc = "removed"]
  /\ UNCHANGED <<journal, host, budgets>>
RemoveFails ==
  /\ proc.pc \in {"remove", "removed"}
  /\ fault
  /\ proc' = Stuck(mem)
  /\ UNCHANGED <<journal, host, data, crashes, edits>>

\* The evidence is in: kept data must still be there, then the checkpoint is rolled back.
FinishUndo ==
  LET next == to(mem, at, "rolled_back")
      lost == ~purge_data /\ mem.own[at] # "none" /\ at \in Keepers /\ ~data[at]
  IN
  /\ proc.pc = "removed"
  /\ IF lost
       THEN proc' = Stuck(mem) /\ UNCHANGED <<journal, crashes, faults>>
       ELSE persist(next, [proc EXCEPT !.pc = "undo", !.mem = next], Stuck(next))
  /\ UNCHANGED <<host, data, edits>>

FinishRollback ==
  LET next == [mem EXCEPT !.status = proc.target] IN
  /\ proc.pc = "undo" /\ at = 0
  /\ persist(next, Halt, Stuck(next))
  /\ UNCHANGED <<host, data, edits>>

---------------------------------------------------------------------------
(* repair *)

\* An adapter restores its file or refuses; the digest is recorded again after verify.
RepairPartly ==
  /\ proc.pc = "repair" /\ at \in Actions
  /\ host[at] \notin {"partial", mem.own[at]}
  /\ host' = [host EXCEPT ![at] = "partial"]
  /\ UNCHANGED <<journal, data, proc, budgets>>
RepairDone ==
  /\ proc.pc = "repair" /\ at \in Actions
  /\ host' = [host EXCEPT ![at] = mem.plan]
  /\ data' = [data EXCEPT ![at] = @ \/ at \in Keepers]
  /\ proc' = [proc EXCEPT !.pc = "recapture"]
  /\ UNCHANGED <<journal, budgets>>
RepairFails ==
  /\ proc.pc \in {"repair", "recapture"}
  /\ fault
  /\ proc' = Halt
  /\ UNCHANGED <<journal, host, data, crashes, edits>>
Recapture ==
  LET next == [mem EXCEPT !.own[at] = host[at]] IN
  /\ proc.pc = "recapture"
  /\ persist(next, [proc EXCEPT !.pc = "repair", !.at = at + 1, !.mem = next], Halt)
  /\ UNCHANGED <<host, data, edits>>
FinishRepair ==
  /\ proc.pc = "repair" /\ at = N + 1
  /\ persist(mem, Halt, Halt)
  /\ UNCHANGED <<host, data, edits>>

---------------------------------------------------------------------------
(* Outside *)

\* The process dies, or stops on a fatal error; the lock goes with it.
Crash ==
  /\ proc # Halt
  /\ crash
  /\ proc' = Halt
  /\ UNCHANGED <<journal, host, data, faults, edits>>

\* Between commands somebody changes or removes an owned file, or puts it back.
Edit(a) ==
  /\ proc = Halt
  /\ edits < MaxEdits /\ edits' = edits + 1
  /\ host[a] \in Plans
  /\ \E bytes \in {"foreign", "absent"} : host' = [host EXCEPT ![a] = bytes]
  /\ UNCHANGED <<journal, data, proc, crashes, faults>>
PutBack(a) ==
  /\ proc = Halt
  /\ owns(state.phase[a], TRUE) /\ state.own[a] # "none"
  /\ host[a] = "foreign"
  /\ host' = [host EXCEPT ![a] = state.own[a]]
  /\ UNCHANGED <<journal, data, proc, budgets>>

---------------------------------------------------------------------------

Command ==
  \/ (\E p \in Plans : StartApply(p)) \/ StartResume \/ ResumeSettled \/ StartRepair
  \/ \E purge \in {"keep", "purge"} : StartUninstall(purge)
ApplyStep ==
  \/ WritePlan \/ CreateState \/ Prepare \/ MarkApplying \/ ReconcileApply
  \/ MutatePartly \/ MutateDone \/ MutateFails \/ FinishApply \/ Verify \/ NextAction \/ Activate
  \/ RollBackFailedApply
UndoStep ==
  \/ BeginRollback \/ SkipUndone \/ DropPrepared \/ MarkRollback \/ MarkHalfApplied \/ ReconcileRollback
  \/ RemoveFile \/ RemoveData \/ RemoveFails \/ FinishUndo \/ FinishRollback \/ RecordStuck
RepairStep == RepairPartly \/ RepairDone \/ RepairFails \/ Recapture \/ FinishRepair
Outside == Crash \/ (\E a \in Actions : Edit(a) \/ PutBack(a))

Next == Command \/ ApplyStep \/ UndoStep \/ RepairStep \/ Outside
Spec == Init /\ [][Next]_vars

---------------------------------------------------------------------------
(* Safety *)

Contents == Plans \cup {"absent", "partial", "foreign"}
Pcs == {"idle", "plan", "new", "apply", "mutate", "capture", "failed", "begin", "undo", "remove", "removed",
        "stuck", "repair", "recapture"}
\* The journal, the host and the process that holds the lock have their types.
TypeOK ==
  /\ state \in States \cup {NoState} /\ plan \in Plans \cup {"none"} /\ owned \in SUBSET Actions
  /\ host \in [Actions -> Contents] /\ data \in [Actions -> BOOLEAN]
  /\ proc \in [pc : Pcs, at : 0..N + 1, mem : States \cup {NoState}, target : Targets]
  /\ crashes \in 0..MaxCrashes /\ faults \in 0..MaxFaults /\ edits \in 0..MaxEdits

Touched == {"applying", "applied", "verified", "rollback_in_progress"}
\* Whatever the installer put on the host is in state.json, at every instant at which the process may
\* die: no crash or failed write leaves a file that resume and uninstall do not know of, and a journal
\* that says rolled back or uninstalled means that nothing is left.
JournalCoversHost ==
  \A a \in Actions : host[a] # "absent" => state.phase[a] \in Touched /\ state.status \notin Settled \cup {"none"}

\* An action is in place, or being undone, only on top of verified ones: applies stop at the first
\* failure and a rollback goes in reverse order, also when it is resumed after it failed half-way.
LayeredOnVerified ==
  \A a, b \in Actions : a < b /\ state.phase[b] \in Touched => state.phase[a] = "verified"

\* The journal can always be read: state.json is never next to the plan.json of another plan.
PlanMatchesState == state # NoState => plan = state.plan

\* Each journal is one that resume can read and carry on with: it has its plan, a transaction that is
\* still applying has nothing rolled back, and an active one is complete, with its digests recorded.
Resumable ==
  /\ PlanMatchesState
  /\ state.status = "applying" =>
       \A a \in Actions : state.phase[a] \notin {"rollback_in_progress", "rolled_back"}
  /\ state.status = "active" =>
       \A a \in Actions : state.phase[a] = "verified" /\ state.own[a] = state.plan

\* A removal ends as it began: an interrupted uninstall is not turned into a failed install, and
\* neither is taken back.
RemovalEndsAsBegun ==
  [][state.status \in Removing =>
       state'.target = state.target /\ state'.status \in Removing \cup {state.target}]_vars

\* What is the operator's is kept through every crash, failure and resume: the data of an uninstall that
\* keeps it, and a file that somebody changed after its digest was recorded.
OperatorsIsKept ==
  [][\A a \in Actions :
       /\ state.purge = "keep" /\ data[a] => data'[a]
       /\ host[a] = "foreign" /\ host'[a] = "absent" => mem.own[a] = "none"]_vars

---------------------------------------------------------------------------
(* Liveness *)

\* An operator who finds an interrupted transaction runs resume, and a command that runs goes on.
FairSpec == Spec /\ WF_vars(StartResume) /\ WF_vars(ApplyStep \/ UndoStep)

\* An interrupted transaction is carried to its end, unless somebody changed owned files.
Recovers ==
  state.status \in Removing \cup {"applying"} ~> state.status \in Settled \cup {"active"} \/ edits > 0
=============================================================================
