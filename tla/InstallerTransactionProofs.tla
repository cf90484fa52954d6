--------------------- MODULE InstallerTransactionProofs ---------------------
(***************************************************************************)
(* Proofs about InstallerTransaction for plans of any length and every     *)
(* bound on crashes, failed writes and edits.                              *)
(***************************************************************************)
EXTENDS InstallerTransaction, TLAPS

---------------------------------------------------------------------------
(* The inductive invariant *)

Layered(s) ==
  \A a, b \in Actions : a < b /\ s.phase[b] \in Touched => s.phase[a] = "verified"
Covers(s, h) == \A a \in Actions : h[a] # "absent" => s.phase[a] \in Touched

\* A journal s that can stand in state.json, next to plan.json p, with h on the host.
Sound(s, p, h) ==
  /\ Layered(s) /\ Covers(s, h)
  /\ s # NoState => p = s.plan
  /\ \A a \in Actions : s.phase[a] \in {"applied", "verified"} => s.own[a] = s.plan
  /\ s.status = "applying" => \A a \in Actions : s.phase[a] \notin {"rollback_in_progress", "rolled_back"}
  /\ s.status = "active" => \A a \in Actions : s.phase[a] = "verified"
  /\ s.status \in Settled => \A a \in Actions : s.phase[a] \notin Touched
  /\ s.status = "uninstalling" => s.target = "uninstalled"
  /\ s.status = "rolling_back" => s.target = "rolled_back"
  /\ s.status = "rollback_failed" => s.target # "unset"

\* The process r before the first journal of its plan is written.
Starting(r, s, p) ==
  /\ r.pc \in {"plan", "new"} => s = NoState /\ r.mem = New(r.mem.plan) /\ r.mem.plan \in Plans
  /\ r.pc = "new" => p = r.mem.plan

\* Between two steps the process has in memory what is in state.json.
InStep(r, s) ==
  r.pc \in {"apply", "mutate", "capture", "begin", "undo", "remove", "removed", "repair", "recapture"} =>
    r.mem = s /\ s # NoState

Applying(r, s, h) ==
  /\ r.pc \in {"apply", "mutate", "capture"} =>
       s.status = "applying" /\ r.at >= 1 /\ \A a \in Actions : a < r.at => s.phase[a] = "verified"
  /\ r.pc \in {"mutate", "capture"} => r.at \in Actions /\ s.phase[r.at] = "applying"
  /\ r.pc = "capture" => h[r.at] = s.plan
  /\ r.pc = "failed" => s.status \in {"applying", "active"}

Undoing(r, s, h) ==
  /\ r.pc \in {"begin", "undo", "remove", "removed", "stuck"} =>
       r.target # "unset" /\ (s.status \in Removing => s.target = r.target)
  /\ r.pc \in {"undo", "remove", "removed"} =>
       s.status \in Removing /\ \A b \in Actions : b > r.at => s.phase[b] \notin Touched
  /\ r.pc \in {"remove", "removed"} => r.at \in Actions /\ s.phase[r.at] = "rollback_in_progress"
  /\ r.pc = "remove" /\ s.own[r.at] # "none" => h[r.at] \in {"absent", s.own[r.at]}
  /\ r.pc = "removed" => h[r.at] = "absent"

\* A rollback that stopped has a journal in memory that may be one write ahead of state.json.
Stopped(r, p, h) == r.pc = "stuck" => r.mem # NoState /\ Sound(r.mem, p, h)

Repairing(r, s, h) ==
  /\ r.pc \in {"repair", "recapture"} => s.status = "active" /\ r.at >= 1
  /\ r.pc = "recapture" => r.at \in Actions /\ h[r.at] = s.plan

Follows(r, s, p, h) ==
  /\ Starting(r, s, p) /\ InStep(r, s) /\ Applying(r, s, h)
  /\ Undoing(r, s, h) /\ Stopped(r, p, h) /\ Repairing(r, s, h)

IInv == TypeOK /\ Sound(state, plan, host) /\ Follows(proc, state, plan, host)

---------------------------------------------------------------------------
(* Journals *)

Procs == [pc : Pcs, at : 0..N + 1, mem : States \cup {NoState}, target : Targets]

\* A journal that was written is not taken for a missing one.
LEMMA StatesAreWritten == ASSUME NEW s \in States PROVE s # NoState /\ s.status # "none"
BY DEF States, NoState, Statuses

\* A new phase of one action leaves the rest of the journal alone.
LEMMA ToIs ==
  ASSUME NEW s \in States, NEW a \in Actions, NEW ph \in Phases
  PROVE  /\ to(s, a, ph) \in States
         /\ to(s, a, ph).status = s.status /\ to(s, a, ph).plan = s.plan /\ to(s, a, ph).own = s.own
         /\ to(s, a, ph).purge = s.purge /\ to(s, a, ph).target = s.target
         /\ to(s, a, ph).phase[a] = ph
         /\ \A b \in Actions : b # a => to(s, a, ph).phase[b] = s.phase[b]
BY DEF to, States

\* When a new phase keeps a journal sound: in order, never below what is on the host.
LEMMA ToIsSound ==
  ASSUME NEW s \in States, NEW p, NEW h, NEW a \in Actions, NEW ph \in Phases,
         Sound(s, p, h),
         s.status \notin Settled \cup {"active"},
         ph \in Touched => \A b \in Actions : b < a => s.phase[b] = "verified",
         ph # "verified" => \A b \in Actions : b > a => s.phase[b] \notin Touched,
         h[a] # "absent" => ph \in Touched,
         ph \in {"applied", "verified"} => s.own[a] = s.plan,
         s.status = "applying" => ph \notin {"rollback_in_progress", "rolled_back"}
  PROVE  Sound(to(s, a, ph), p, h)
<1> DEFINE t == to(s, a, ph)
<1>1. /\ t \in States
      /\ t.status = s.status /\ t.plan = s.plan /\ t.own = s.own
      /\ t.purge = s.purge /\ t.target = s.target
      /\ t.phase[a] = ph
      /\ \A b \in Actions : b # a => t.phase[b] = s.phase[b]
  BY ToIs
<1> HIDE DEF t
<1>2. Layered(t)
  <2> SUFFICES ASSUME NEW b \in Actions, NEW c \in Actions, b < c, t.phase[c] \in Touched
               PROVE  t.phase[b] = "verified"
    BY DEF Layered
  <2>1. CASE b = a
    BY <1>1, <2>1 DEF Actions
  <2>2. CASE c = a
    BY <1>1, <2>2 DEF Actions
  <2>3. CASE b # a /\ c # a
    BY <1>1, <2>3 DEF Sound, Layered
  <2> QED
    BY <2>1, <2>2, <2>3
<1>3. Covers(t, h)
  BY <1>1 DEF Sound, Covers
<1>4. s # NoState /\ t # NoState
  BY <1>1, StatesAreWritten
<1>5. \A b \in Actions : t.phase[b] \in {"applied", "verified"} => t.own[b] = t.plan
  BY <1>1 DEF Sound
<1>6. t.status = "applying" => \A b \in Actions : t.phase[b] \notin {"rollback_in_progress", "rolled_back"}
  BY <1>1 DEF Sound
<1>7. Sound(t, p, h)
  BY <1>1, <1>2, <1>3, <1>4, <1>5, <1>6 DEF Sound
<1> QED
  BY <1>7 DEF t

\* Recording the digest of the plan's file keeps a journal sound.
LEMMA OwnIsSound ==
  ASSUME NEW s \in States, NEW p, NEW h, NEW a \in Actions, Sound(s, p, h)
  PROVE  /\ [s EXCEPT !.own[a] = s.plan] \in States
         /\ Sound([s EXCEPT !.own[a] = s.plan], p, h)
<1> DEFINE t == [s EXCEPT !.own[a] = s.plan]
<1>1. /\ t \in States
      /\ t.status = s.status /\ t.plan = s.plan /\ t.phase = s.phase /\ t.target = s.target
      /\ \A b \in Actions : t.own[b] = IF b = a THEN s.plan ELSE s.own[b]
  BY DEF States
<1> HIDE DEF t
<1>2. s # NoState /\ t # NoState
  BY <1>1, StatesAreWritten
<1>3. Sound(t, p, h)
  BY <1>1, <1>2 DEF Sound, Layered, Covers
<1> QED
  BY <1>1, <1>3 DEF t

\* A rollback's status with its target keeps a journal sound: while it goes on, after it failed, and at
\* its end, when nothing is touched.
LEMMA StatusIsSound ==
  ASSUME NEW s \in States, NEW p, NEW h, Sound(s, p, h),
         NEW st \in Statuses, NEW tg \in Targets \ {"unset"},
         \/ st = "rollback_failed"
         \/ st = "uninstalling" /\ tg = "uninstalled"
         \/ st = "rolling_back" /\ tg = "rolled_back"
         \/ st = tg /\ \A a \in Actions : s.phase[a] \notin Touched
  PROVE  /\ [s EXCEPT !.status = st, !.target = tg] \in States
         /\ Sound([s EXCEPT !.status = st, !.target = tg], p, h)
<1> DEFINE t == [s EXCEPT !.status = st, !.target = tg]
<1>1. /\ t \in States
      /\ t.status = st /\ t.target = tg
      /\ t.plan = s.plan /\ t.phase = s.phase /\ t.own = s.own
  BY DEF States
<1> HIDE DEF t
<1>2. s # NoState /\ t # NoState
  BY <1>1, StatesAreWritten
<1>3. Sound(t, p, h)
  BY <1>1, <1>2 DEF Sound, Layered, Covers, Settled, Targets
<1> QED
  BY <1>1, <1>3 DEF t

---------------------------------------------------------------------------
(* The process *)

\* Nothing is asked of a process that is not there.
LEMMA HaltFollows == ASSUME NEW s, NEW p, NEW h PROVE Halt \in Procs /\ Follows(Halt, s, p, h)
<1>1. Halt \in Procs /\ Halt.pc = "idle"
  BY PlanAssumption DEF Halt, Procs, Pcs, Targets
<1> QED
  BY <1>1 DEF Follows, Starting, InStep, Applying, Undoing, Stopped, Repairing
\* After an apply failed, state.json still says applying, or active if only the last answer was lost.
LEMMA FailedFollows ==
  ASSUME NEW s, NEW p, NEW h, s.status \in {"applying", "active"}
  PROVE  Failed \in Procs /\ Follows(Failed, s, p, h)
<1>1. Failed \in Procs /\ Failed.pc = "failed"
  BY PlanAssumption DEF Failed, Run, Procs, Pcs, Targets
<1> QED
  BY <1>1 DEF Follows, Starting, InStep, Applying, Undoing, Stopped, Repairing
\* A rollback that stops remembers its target and a sound journal.
LEMMA StuckFollows ==
  ASSUME NEW s, NEW m \in States, proc \in Procs, proc.target # "unset",
         Sound(m, plan, host), s.status \in Removing => s.target = proc.target
  PROVE  Stuck(m) \in Procs /\ Follows(Stuck(m), s, plan, host)
<1>1. Stuck(m) \in Procs /\ Stuck(m).pc = "stuck" /\ Stuck(m).mem = m /\ Stuck(m).target = proc.target
  BY PlanAssumption DEF Stuck, Run, Procs, Pcs
<1> QED
  BY <1>1, StatesAreWritten DEF Follows, Starting, InStep, Applying, Undoing, Stopped, Repairing

\* The process that a command starts.
LEMMA RunIs ==
  ASSUME NEW pc \in Pcs, NEW n \in 0..N + 1, NEW m \in States \cup {NoState}, NEW tg \in Targets
  PROVE  /\ Run(pc, n, m, tg) \in Procs
         /\ Run(pc, n, m, tg).pc = pc /\ Run(pc, n, m, tg).at = n
         /\ Run(pc, n, m, tg).mem = m /\ Run(pc, n, m, tg).target = tg
BY DEF Run, Procs

\* A persist that may stop at every point: what it writes is sound, and so is what comes after it.
LEMMA PersistKeeps ==
  ASSUME IInv, NEW s \in States, NEW ok \in Procs, NEW failed \in Procs,
         persist(s, ok, failed), UNCHANGED <<host, data, edits>>,
         Sound(s, plan, host), Follows(ok, s, plan, host),
         Follows(failed, s, plan, host), Follows(failed, state, plan, host)
  PROVE  IInv'
<1>1. UNCHANGED <<plan, host, data, edits>>
  BY DEF persist
<1>2. Halt \in Procs /\ Follows(Halt, s, plan, host)
  BY HaltFollows
<1>3. /\ state' \in {state, s} /\ proc' \in Procs
      /\ Sound(state', plan, host) /\ Follows(proc', state', plan, host)
  BY <1>2 DEF persist, IInv
<1>4. owned' \in SUBSET Actions /\ crashes' \in 0..MaxCrashes /\ faults' \in 0..MaxFaults
  <2>1. ownership(s) \in SUBSET Actions
    BY Zenon DEF ownership
  <2>2. owned' \in {owned, ownership(s)} /\ crashes' \in 0..MaxCrashes /\ faults' \in 0..MaxFaults
    BY LimitsAssumption DEF persist, fault, crash, IInv, TypeOK
  <2> QED
    BY <2>1, <2>2 DEF IInv, TypeOK
<1>5. TypeOK'
  BY <1>1, <1>3, <1>4 DEF IInv, TypeOK, Procs
<1> QED
  BY <1>1, <1>3, <1>5 DEF IInv

\* A step of the process alone.
LEMMA ProcKeeps ==
  ASSUME IInv, UNCHANGED <<journal, host, data, edits, crashes>>, UNCHANGED faults \/ fault,
         proc' \in Procs, Follows(proc', state, plan, host)
  PROVE  IInv'
<1>1. UNCHANGED <<state, plan, owned, host, data, edits, crashes>>
  BY DEF journal
<1>2. faults' \in 0..MaxFaults
  BY LimitsAssumption DEF fault, IInv, TypeOK
<1>3. TypeOK'
  BY <1>1, <1>2 DEF IInv, TypeOK, Procs
<1> QED
  BY <1>1, <1>3 DEF IInv

---------------------------------------------------------------------------
(* Commands and apply *)

\* A host that has never seen the installer.
LEMMA InitKeeps == Init => IInv
<1> SUFFICES ASSUME Init PROVE IInv
  OBVIOUS
<1>1. Halt \in Procs /\ Follows(Halt, state, plan, host)
  BY HaltFollows
<1>2. NoState.phase = [a \in Actions |-> "none"] /\ NoState.status = "none"
  BY DEF NoState
<1>3. TypeOK
  BY <1>1, LimitsAssumption DEF Init, TypeOK, Procs, Contents
<1>4. Sound(state, plan, host)
  BY <1>2 DEF Init, Sound, Layered, Covers, Touched, Settled
<1> QED
  BY <1>1, <1>3, <1>4 DEF IInv, Init

\* The first journal of a plan, when nothing is on the host.
LEMMA NewIsSound ==
  ASSUME NEW p \in Plans, NEW h, \A a \in Actions : h[a] = "absent"
  PROVE  /\ New(p) \in States /\ New(p).plan = p /\ New(p).status = "applying"
         /\ Sound(New(p), p, h)
<1>1. /\ New(p) \in States /\ New(p).plan = p /\ New(p).status = "applying"
      /\ New(p).phase = [a \in Actions |-> "none"]
  BY DEF New, NoState, States, Statuses, Phases, Targets
<1> QED
  BY <1>1 DEF Sound, Layered, Covers, Touched, Settled

\* apply, resume, repair and uninstall begin from a consistent journal.
LEMMA CommandKeeps == IInv /\ Command => IInv'
<1> SUFFICES ASSUME IInv, Command PROVE IInv'
  OBVIOUS
<1>a. TypeOK /\ Sound(state, plan, host) /\ Follows(proc, state, plan, host)
  BY DEF IInv
<1>b. Halt \in Procs /\ Follows(Halt, state, plan, host)
  BY HaltFollows
<1>c. readable => state \in States
  BY <1>a DEF readable, TypeOK
<1>1. ASSUME NEW p \in Plans, StartApply(p) PROVE IInv'
  <2>1. \A a \in Actions : host[a] = "absent"
    BY <1>1, <1>a DEF StartApply, Sound, Covers, Settled, NoState, Touched
  <2>2. New(p) \in States /\ New(p).plan = p
    BY <2>1, NewIsSound
  <2>3. state' = NoState /\ UNCHANGED <<plan, owned, host, data, budgets>>
    BY <1>1 DEF StartApply, remove_state
  <2>4. /\ proc' \in Procs /\ proc'.pc = "plan" /\ proc'.mem = New(p)
    BY <1>1, <2>2, RunIs, PlanAssumption DEF StartApply, Pcs, Targets
  <2>5. Follows(proc', NoState, plan, host)
    BY <2>2, <2>4 DEF Follows, Starting, InStep, Applying, Undoing, Stopped, Repairing
  <2>6. Sound(NoState, plan, host)
    BY <2>1 DEF Sound, Layered, Covers, Touched, Settled, NoState
  <2>7. TypeOK'
    BY <1>a, <2>3, <2>4 DEF TypeOK, Procs, budgets
  <2> QED
    BY <2>3, <2>5, <2>6, <2>7 DEF IInv
<1>2. CASE StartResume
  <2>1. CASE state.status = "applying" /\ proc' = Run("apply", 1, state, "unset")
    <3>1. proc' \in Procs /\ proc'.pc = "apply" /\ proc'.at = 1 /\ proc'.mem = state
      BY <1>2, <1>c, <2>1, RunIs, PlanAssumption DEF StartResume, Pcs, Targets
    <3>2. Follows(proc', state, plan, host)
      BY <1>2, <1>a, <1>c, <2>1, <3>1
      DEF StartResume, readable, Follows, Starting, InStep, Applying, Undoing, Stopped, Repairing, Actions
    <3> QED
      BY <1>2, <3>1, <3>2, ProcKeeps DEF StartResume, budgets
  <2>2. CASE state.status \in Removing /\ proc' = Run("begin", 0, state, resumed_target(state))
    <3>0. state.target \in Targets
      BY <1>2, <1>c DEF StartResume, States
    <3>1. resumed_target(state) \in Targets /\ resumed_target(state) = state.target /\ state.target # "unset"
      BY <1>2, <1>a, <2>2, <3>0 DEF StartResume, resumed_target, Targets, Sound, Removing
    <3>2. proc' \in Procs /\ proc'.pc = "begin" /\ proc'.mem = state /\ proc'.target = state.target
      BY <1>2, <1>c, <2>2, <3>1, RunIs, PlanAssumption DEF StartResume, Pcs
    <3>3. Follows(proc', state, plan, host)
      BY <1>2, <1>a, <1>c, <2>2, <3>1, <3>2
      DEF StartResume, readable, Follows, Starting, InStep, Applying, Undoing, Stopped, Repairing
    <3> QED
      BY <1>2, <3>2, <3>3, ProcKeeps DEF StartResume, budgets
  <2> QED
    BY <1>2, <2>1, <2>2 DEF StartResume
<1>3. CASE ResumeSettled
  BY <1>3, <1>a, <1>b, <1>c, PersistKeeps DEF ResumeSettled
<1>4. CASE StartRepair
  <2>1. proc' \in Procs /\ proc'.pc = "repair" /\ proc'.at = 1 /\ proc'.mem = state
    BY <1>4, <1>c, RunIs, PlanAssumption DEF StartRepair, Pcs, Targets
  <2>2. Follows(proc', state, plan, host)
    BY <1>4, <2>1
    DEF StartRepair, readable, Follows, Starting, InStep, Applying, Undoing, Stopped, Repairing
  <2> QED
    BY <1>4, <2>1, <2>2, ProcKeeps DEF StartRepair, budgets
<1>5. ASSUME NEW purge \in {"keep", "purge"}, StartUninstall(purge) PROVE IInv'
  <2> DEFINE next == [state EXCEPT !.status = "uninstalling", !.purge = purge, !.target = "uninstalled"]
             ok == Run("begin", 0, next, "uninstalled")
  <2>1. persist(next, ok, Halt) /\ UNCHANGED <<host, data, edits>> /\ state \in States
    BY <1>5, <1>c DEF StartUninstall
  <2>2. /\ next \in States /\ next.status = "uninstalling" /\ next.target = "uninstalled"
        /\ next.plan = state.plan /\ next.phase = state.phase /\ next.own = state.own
    BY <2>1 DEF States, Statuses, Targets
  <2> HIDE DEF next
  <2>3. next # NoState /\ state # NoState
    BY <2>1, <2>2, StatesAreWritten
  <2>4. Sound(next, plan, host)
    BY <1>a, <2>2, <2>3 DEF Sound, Layered, Covers, Settled
  <2>5. ok \in Procs /\ ok.pc = "begin" /\ ok.mem = next /\ ok.target = "uninstalled"
    BY <2>2, RunIs, PlanAssumption DEF Pcs, Targets
  <2>6. Follows(ok, next, plan, host)
    BY <2>2, <2>3, <2>5 DEF Follows, Starting, InStep, Applying, Undoing, Stopped, Repairing
  <2>7. Follows(Halt, next, plan, host)
    BY HaltFollows
  <2> QED
    BY <1>b, <2>1, <2>2, <2>4, <2>5, <2>6, <2>7, PersistKeeps
<1> QED
  BY <1>1, <1>2, <1>3, <1>4, <1>5 DEF Command

\* What an apply that is under way knows: the journal it holds is the one on disk.
LEMMA ApplyFacts ==
  ASSUME IInv, proc.pc \in {"apply", "mutate", "capture"}
  PROVE  /\ state \in States /\ mem = state /\ proc \in Procs /\ at \in Nat
         /\ state.status = "applying" /\ at >= 1
         /\ \A a \in Actions : a < at => state.phase[a] = "verified"
         /\ Sound(state, plan, host)
         /\ Failed \in Procs /\ Follows(Failed, state, plan, host)
         /\ \A s \in States : s.status \in {"applying", "active"} => Follows(Failed, s, plan, host)
<1>1. /\ state \in States /\ mem = state /\ proc \in Procs /\ at \in Nat
      /\ state.status = "applying" /\ at >= 1
      /\ \A a \in Actions : a < at => state.phase[a] = "verified"
  BY PlanAssumption DEF IInv, TypeOK, Procs, Follows, InStep, Applying, mem, at
<1>2. Failed \in Procs /\ Follows(Failed, state, plan, host)
  BY <1>1, FailedFollows
<1>3. ASSUME NEW s \in States, s.status \in {"applying", "active"} PROVE Follows(Failed, s, plan, host)
  BY <1>3, FailedFollows
<1> QED
  BY <1>1, <1>2, <1>3 DEF IInv

\* A checkpoint of continue_apply: the next phase of the action it is at.
LEMMA CheckpointKeeps ==
  ASSUME IInv, proc.pc = "apply", at \in Actions,
         NEW ph \in {"prepared", "applying", "verified"}, NEW pc \in {"apply", "mutate"},
         NEW ok, ok = [proc EXCEPT !.pc = pc, !.mem = to(mem, at, ph)],
         pc = "mutate" => ph = "applying",
         ph # "verified" => mem.phase[at] \in {"none", "prepared"},
         ph = "verified" => mem.phase[at] = "applied",
         persist(to(mem, at, ph), ok, Failed), UNCHANGED <<host, data, edits>>
  PROVE  IInv'
<1> DEFINE next == to(mem, at, ph)
<1>1. /\ state \in States /\ mem = state /\ proc \in Procs
      /\ state.status = "applying" /\ at >= 1 /\ at \in Nat
      /\ \A a \in Actions : a < at => state.phase[a] = "verified"
      /\ Sound(state, plan, host)
      /\ Failed \in Procs /\ Follows(Failed, state, plan, host)
      /\ \A s \in States : s.status \in {"applying", "active"} => Follows(Failed, s, plan, host)
  BY ApplyFacts
<1>0. ph \in Phases
  BY DEF Phases
<1>2. /\ next \in States /\ next.status = "applying" /\ next.plan = state.plan
      /\ next.phase[at] = ph
      /\ \A b \in Actions : b # at => next.phase[b] = state.phase[b]
  BY <1>0, <1>1, ToIs
<1>3. Sound(next, plan, host)
  <2>1. ph # "verified" => \A b \in Actions : b > at => state.phase[b] \notin Touched
    BY <1>1 DEF Sound, Layered, Actions
  <2>2. host[at] # "absent" => ph \in Touched
    BY <1>1 DEF Sound, Covers, Touched
  <2>3. ph \in {"applied", "verified"} => state.own[at] = state.plan
    BY <1>1 DEF Sound
  <2> QED
    BY <1>0, <1>1, <2>1, <2>2, <2>3, ToIsSound DEF Settled
<1> HIDE DEF next
<1>4. ok \in Procs /\ ok.pc = pc /\ ok.at = at /\ ok.mem = next
  BY <1>1, <1>2 DEF Procs, Pcs, next, at
<1>5. Follows(ok, next, plan, host)
  BY <1>1, <1>2, <1>4, StatesAreWritten
  DEF Follows, Starting, InStep, Applying, Undoing, Stopped, Repairing, Actions
<1> QED
  BY <1>1, <1>2, <1>3, <1>4, <1>5, PersistKeeps DEF next

\* A step of an apply that fails leaves everything to the rollback.
LEMMA FailKeeps ==
  ASSUME IInv, proc.pc \in {"apply", "mutate", "capture"}, fault, proc' = Failed,
         UNCHANGED <<journal, host, data, crashes, edits>>
  PROVE  IInv'
BY ApplyFacts, ProcKeeps

\* Each step of continue_apply keeps the journal consistent.
LEMMA ApplyStepKeeps == IInv /\ ApplyStep => IInv'
<1> SUFFICES ASSUME IInv, ApplyStep PROVE IInv'
  OBVIOUS
<1>a. TypeOK /\ Sound(state, plan, host) /\ Follows(proc, state, plan, host) /\ proc \in Procs
  BY DEF IInv, TypeOK, Procs
<1>1. CASE WritePlan
  <2>1. state = NoState /\ mem = New(mem.plan) /\ mem.plan \in Plans
    BY <1>1, <1>a DEF WritePlan, Follows, Starting, mem
  <2>2. UNCHANGED <<state, owned, host, data, crashes, edits>>
    BY <1>1 DEF WritePlan
  <2>3. CASE plan' = mem.plan /\ proc' = [proc EXCEPT !.pc = "new"] /\ UNCHANGED faults
    <3>1. proc' \in Procs /\ proc'.pc = "new" /\ proc'.mem = mem
      BY <1>a, <2>3 DEF Procs, Pcs, mem
    <3>2. Follows(proc', NoState, plan', host)
      BY <2>1, <2>3, <3>1 DEF Follows, Starting, InStep, Applying, Undoing, Stopped, Repairing
    <3>3. Sound(state', plan', host')
      BY <1>a, <2>1, <2>2 DEF Sound
    <3>4. TypeOK'
      BY <1>a, <2>1, <2>2, <2>3, <3>1 DEF TypeOK, Procs
    <3> QED
      BY <2>1, <2>2, <3>2, <3>3, <3>4 DEF IInv
  <2>4. CASE fault /\ proc' = Halt /\ UNCHANGED plan
    BY <2>2, <2>4, HaltFollows, ProcKeeps DEF journal
  <2> QED
    BY <1>1, <2>3, <2>4 DEF WritePlan
<1>2. CASE CreateState
  <2> DEFINE ok == [proc EXCEPT !.pc = "apply", !.at = 1]
  <2>1. state = NoState /\ mem = New(mem.plan) /\ mem.plan \in Plans /\ plan = mem.plan
    BY <1>2, <1>a DEF CreateState, Follows, Starting, mem
  <2>2. \A a \in Actions : host[a] = "absent"
    BY <1>a, <2>1 DEF Sound, Covers, NoState, Touched
  <2>3. mem \in States /\ mem.status = "applying" /\ Sound(mem, plan, host)
    BY <2>1, <2>2, NewIsSound
  <2>4. ok \in Procs /\ ok.pc = "apply" /\ ok.at = 1 /\ ok.mem = mem
    <3>1. 1 \in 0..N + 1 /\ "apply" \in Pcs
      BY PlanAssumption DEF Pcs
    <3> QED
      BY <1>a, <3>1 DEF Procs, mem
  <2>5. Follows(ok, mem, plan, host)
    BY <2>3, <2>4, StatesAreWritten
    DEF Follows, Starting, InStep, Applying, Undoing, Stopped, Repairing, Actions
  <2>6. persist(mem, ok, Halt) /\ UNCHANGED <<host, data, edits>>
    BY <1>2 DEF CreateState
  <2> HIDE DEF ok
  <2> QED
    BY <2>3, <2>4, <2>5, <2>6, HaltFollows, PersistKeeps
<1>3. CASE Prepare
  <2>1. proc.pc = "apply" /\ at \in Actions /\ mem.phase[at] = "none"
    BY <1>3 DEF Prepare, phaseIs
  <2>2. CASE persist(to(mem, at, "prepared"), [proc EXCEPT !.mem = to(mem, at, "prepared")], Failed)
    <3>1. [proc EXCEPT !.mem = to(mem, at, "prepared")]
            = [proc EXCEPT !.pc = "apply", !.mem = to(mem, at, "prepared")]
      BY <1>a, <2>1 DEF Procs
    <3> QED
      BY <1>3, <2>1, <2>2, <3>1, CheckpointKeeps DEF Prepare
  <2> QED
    BY <1>3, <2>1, <2>2, FailKeeps DEF Prepare
<1>4. CASE MarkApplying
  BY <1>4, CheckpointKeeps DEF MarkApplying, ahead, phaseIs
<1>5. CASE ReconcileApply
  <2>1. proc.pc = "apply" /\ at \in Actions /\ mem.phase[at] = "applying"
    BY <1>5 DEF ReconcileApply, phaseIs
  <2>2. proc' \in Procs /\ proc'.pc = "mutate" /\ proc'.at = at /\ proc'.mem = mem
    BY <1>5, <1>a DEF ReconcileApply, Procs, Pcs, mem, at
  <2>3. Follows(proc', state, plan, host)
    BY <2>1, <2>2, ApplyFacts, StatesAreWritten
    DEF Follows, Starting, InStep, Applying, Undoing, Stopped, Repairing
  <2> QED
    BY <1>5, <2>2, <2>3, ProcKeeps DEF ReconcileApply, budgets
<1>6. CASE MutatePartly \/ MutateDone
  <2>1. /\ proc.pc = "mutate" /\ at \in Actions /\ state.phase[at] = "applying"
        /\ state.status = "applying" /\ mem = state /\ state \in States
    BY <1>6, <1>a, ApplyFacts DEF MutatePartly, MutateDone, Follows, Applying, at
  <2>2. /\ UNCHANGED <<state, plan, owned, crashes, faults, edits>>
        /\ host' \in [Actions -> Contents] /\ data' \in [Actions -> BOOLEAN]
        /\ \A a \in Actions : a # at => host'[a] = host[a]
    BY <1>6, <1>a, <2>1 DEF MutatePartly, MutateDone, TypeOK, Contents, journal, budgets, States
  <2>3. Sound(state, plan, host')
    BY <1>a, <2>1, <2>2 DEF Sound, Covers, Touched
  <2>4. proc' \in Procs /\ Follows(proc', state, plan, host')
    <3>1. CASE MutatePartly
      BY <3>1, <1>a, <2>1 DEF MutatePartly, Follows, Starting, InStep, Applying, Undoing, Stopped, Repairing
    <3>2. CASE MutateDone
      <4>1. proc' \in Procs /\ proc'.pc = "capture" /\ proc'.at = at /\ proc'.mem = state
        BY <3>2, <1>a, <2>1 DEF MutateDone, Procs, Pcs, mem, at
      <4>2. host'[at] = state.plan
        BY <3>2, <1>a, <2>1 DEF MutateDone, TypeOK
      <4> QED
        BY <1>a, <2>1, <4>1, <4>2, ApplyFacts, StatesAreWritten
        DEF Follows, Starting, InStep, Applying, Undoing, Stopped, Repairing
    <3> QED
      BY <1>6, <3>1, <3>2
  <2>5. TypeOK'
    BY <1>a, <2>2, <2>4 DEF TypeOK, Procs
  <2> QED
    BY <2>2, <2>3, <2>4, <2>5 DEF IInv
<1>7. CASE MutateFails
  BY <1>7, FailKeeps DEF MutateFails
<1>8. CASE FinishApply
  <2> DEFINE old == [mem EXCEPT !.own[at] = mem.plan]
             next == [to(mem, at, "applied") EXCEPT !.own[at] = host[at]]
             ok == [proc EXCEPT !.pc = "apply", !.mem = next]
  <2>1. /\ at \in Actions /\ state.phase[at] = "applying" /\ host[at] = state.plan
        /\ state \in States /\ mem = state /\ state.status = "applying" /\ at \in Nat /\ at >= 1
        /\ \A a \in Actions : a < at => state.phase[a] = "verified"
    BY <1>8, <1>a, ApplyFacts DEF FinishApply, Follows, Applying, at
  <2>2. /\ old \in States /\ Sound(old, plan, host)
    BY <1>a, <2>1, OwnIsSound
  <2>3. /\ old.status = "applying" /\ old.phase = state.phase /\ old.plan = state.plan
        /\ old.own[at] = old.plan
    BY <2>1 DEF States
  <2>4. next = to(old, at, "applied")
    BY <2>1 DEF to, States
  <2> HIDE DEF old, next
  <2>5. /\ next \in States /\ next.status = "applying" /\ next.phase[at] = "applied"
        /\ \A b \in Actions : b # at => next.phase[b] = state.phase[b]
    <3>1. "applied" \in Phases
      BY DEF Phases
    <3> QED
      BY <2>1, <2>2, <2>3, <2>4, <3>1, ToIs
  <2>6. Sound(next, plan, host)
    <3>1. \A b \in Actions : b > at => old.phase[b] \notin Touched
      BY <2>1, <2>2, <2>3 DEF Sound, Layered, Actions
    <3> QED
      BY <2>1, <2>2, <2>3, <2>4, <3>1, ToIsSound DEF Settled, Phases, Touched
  <2>7. ok \in Procs /\ ok.pc = "apply" /\ ok.at = at /\ ok.mem = next
    BY <1>a, <2>5 DEF Procs, Pcs, at
  <2>8. Follows(ok, next, plan, host)
    BY <2>1, <2>5, <2>7, StatesAreWritten
    DEF Follows, Starting, InStep, Applying, Undoing, Stopped, Repairing, Actions
  <2>9. persist(next, ok, Failed) /\ UNCHANGED <<host, data, edits>> /\ proc.pc = "capture"
    BY <1>8 DEF FinishApply, next
  <2>10. Failed \in Procs /\ Follows(Failed, state, plan, host) /\ Follows(Failed, next, plan, host)
    BY <2>5, <2>9, ApplyFacts
  <2> HIDE DEF ok
  <2> QED
    BY <2>5, <2>6, <2>7, <2>8, <2>9, <2>10, PersistKeeps
<1>9. CASE Verify
  <2>1. proc.pc = "apply" /\ at \in Actions /\ mem.phase[at] = "applied"
    BY <1>9 DEF Verify, phaseIs
  <2>2. CASE persist(to(mem, at, "verified"), [proc EXCEPT !.mem = to(mem, at, "verified")], Failed)
    <3>1. [proc EXCEPT !.mem = to(mem, at, "verified")]
            = [proc EXCEPT !.pc = "apply", !.mem = to(mem, at, "verified")]
      BY <1>a, <2>1 DEF Procs
    <3> QED
      BY <1>9, <2>1, <2>2, <3>1, CheckpointKeeps DEF Verify
  <2> QED
    BY <1>9, <2>1, <2>2, FailKeeps DEF Verify
<1>10. CASE NextAction
  <2>1. proc.pc = "apply" /\ at \in Actions /\ mem.phase[at] = "verified"
    BY <1>10 DEF NextAction, phaseIs
  <2>2. proc' \in Procs /\ proc'.pc = "apply" /\ proc'.at = at + 1 /\ proc'.mem = mem
    BY <1>10, <1>a, <2>1, PlanAssumption DEF NextAction, Procs, Pcs, mem, at, Actions
  <2>3. Follows(proc', state, plan, host)
    BY <2>1, <2>2, ApplyFacts, StatesAreWritten
    DEF Follows, Starting, InStep, Applying, Undoing, Stopped, Repairing, Actions
  <2> QED
    BY <1>10, <2>2, <2>3, ProcKeeps DEF NextAction, budgets
<1>11. CASE Activate
  <2> DEFINE next == [mem EXCEPT !.status = "active"]
  <2>1. proc.pc = "apply" /\ at = N + 1 /\ persist(next, Halt, Failed) /\ UNCHANGED <<host, data, edits>>
    BY <1>11 DEF Activate
  <2>2. state \in States /\ mem = state /\ \A a \in Actions : state.phase[a] = "verified"
    BY <2>1, ApplyFacts, PlanAssumption DEF Actions
  <2>3. /\ next \in States /\ next.status = "active" /\ next.plan = state.plan
        /\ next.phase = state.phase /\ next.own = state.own
    BY <2>2 DEF States, Statuses
  <2> HIDE DEF next
  <2>4. next # NoState /\ state # NoState
    BY <2>2, <2>3, StatesAreWritten
  <2>5. Sound(next, plan, host)
    BY <1>a, <2>2, <2>3, <2>4 DEF Sound, Layered, Covers, Settled
  <2>6. Failed \in Procs /\ Follows(Failed, state, plan, host) /\ Follows(Failed, next, plan, host)
    BY <2>1, <2>3, ApplyFacts
  <2> QED
    BY <2>1, <2>3, <2>5, <2>6, HaltFollows, PersistKeeps
<1>12. CASE RollBackFailedApply
  <2>1. proc.pc = "failed" /\ state.status \in {"applying", "active"}
    BY <1>12, <1>a DEF RollBackFailedApply, Follows, Applying
  <2>2. state \in States
    BY <1>a, <2>1 DEF TypeOK, NoState
  <2>3. proc' \in Procs /\ proc'.pc = "begin" /\ proc'.mem = state /\ proc'.target = "rolled_back"
    BY <1>12, <2>2, RunIs, PlanAssumption DEF RollBackFailedApply, Pcs, Targets
  <2>4. Follows(proc', state, plan, host)
    BY <2>1, <2>2, <2>3, StatesAreWritten
    DEF Follows, Starting, InStep, Applying, Undoing, Stopped, Repairing, Removing
  <2> QED
    BY <1>12, <2>3, <2>4, ProcKeeps DEF RollBackFailedApply, budgets
<1> QED
  BY <1>1, <1>2, <1>3, <1>4, <1>5, <1>6, <1>7, <1>8, <1>9, <1>10, <1>11, <1>12 DEF ApplyStep

---------------------------------------------------------------------------
(* Rollback *)

\* What a rollback that is under way knows.
LEMMA UndoFacts ==
  ASSUME IInv, proc.pc \in {"begin", "undo", "remove", "removed"}
  PROVE  /\ state \in States /\ mem = state /\ proc \in Procs /\ at \in Nat
         /\ proc.target \in Targets \ {"unset"} /\ (state.status \in Removing => state.target = proc.target)
         /\ Sound(state, plan, host)
<1>1. /\ state \in States /\ mem = state /\ proc \in Procs /\ at \in Nat
      /\ proc.target \in Targets \ {"unset"} /\ (state.status \in Removing => state.target = proc.target)
  BY PlanAssumption DEF IInv, TypeOK, Procs, Follows, InStep, Undoing, mem, at
<1> QED
  BY <1>1 DEF IInv

\* Whatever a rollback wrote last, an error in it leaves a journal from which it goes on.
LEMMA StuckKeeps ==
  ASSUME IInv, proc.pc \in {"begin", "undo", "remove", "removed"},
         UNCHANGED <<journal, host, data, edits, crashes>>, UNCHANGED faults \/ fault,
         proc' = Stuck(mem)
  PROVE  IInv'
BY UndoFacts, StuckFollows, ProcKeeps

\* A write of a rollback: when the journal is sound and the process that goes on follows it, an error in
\* it is one from which it goes on too.
LEMMA RollbackWriteKeeps ==
  ASSUME IInv, proc.pc \in {"begin", "undo", "remove", "removed"},
         NEW s \in States, NEW ok \in Procs, Sound(s, plan, host), Follows(ok, s, plan, host),
         s.target = proc.target, persist(s, ok, Stuck(s)), UNCHANGED <<host, data, edits>>
  PROVE  IInv'
<1>1. Stuck(s) \in Procs /\ Follows(Stuck(s), s, plan, host) /\ Follows(Stuck(s), state, plan, host)
  BY UndoFacts, StuckFollows
<1> QED
  BY <1>1, PersistKeeps

\* A checkpoint of a rollback.
LEMMA UndoCheckpointKeeps ==
  ASSUME IInv, proc.pc \in {"undo", "removed"}, at \in Actions,
         NEW ph \in {"rollback_in_progress", "rolled_back"}, NEW pc \in {"undo", "remove"},
         NEW ok, ok = [proc EXCEPT !.pc = pc, !.mem = to(mem, at, ph)],
         ph = "rollback_in_progress" => mem.phase[at] \in Touched,
         ph = "rolled_back" => host[at] = "absent",
         pc = "remove" =>
           /\ ph = "rollback_in_progress"
           /\ mem.own[at] # "none" => host[at] \in {"absent", mem.own[at]},
         persist(to(mem, at, ph), ok, Stuck(to(mem, at, ph))), UNCHANGED <<host, data, edits>>
  PROVE  IInv'
<1> DEFINE next == to(mem, at, ph)
<1>1. /\ state \in States /\ mem = state /\ proc \in Procs /\ at \in Nat
      /\ proc.target \in Targets \ {"unset"} /\ state.target = proc.target
      /\ Sound(state, plan, host)
      /\ state.status \in Removing
      /\ \A b \in Actions : b > at => state.phase[b] \notin Touched
  BY UndoFacts DEF IInv, Follows, Undoing, at
<1>2. ph \in Phases
  BY DEF Phases
<1>3. /\ next \in States /\ next.status = state.status /\ next.target = state.target /\ next.own = state.own
      /\ next.phase[at] = ph
      /\ \A b \in Actions : b # at => next.phase[b] = state.phase[b]
  BY <1>1, <1>2, ToIs
<1>4. Sound(next, plan, host)
  <2>1. ph \in Touched => \A b \in Actions : b < at => state.phase[b] = "verified"
    BY <1>1 DEF Sound, Layered, Touched
  <2>2. host[at] # "absent" => ph \in Touched
    BY DEF Touched
  <2>3. state.status \notin Settled \cup {"active", "applying"} /\ ph \notin {"applied", "verified"}
    BY <1>1 DEF Settled, Removing
  <2> QED
    BY <1>1, <1>2, <2>1, <2>2, <2>3, ToIsSound
<1> HIDE DEF next
<1>5. ok \in Procs /\ ok.pc = pc /\ ok.at = at /\ ok.mem = next /\ ok.target = proc.target
  BY <1>1, <1>3 DEF Procs, Pcs, next, at
<1>6. Follows(ok, next, plan, host)
  BY <1>1, <1>3, <1>5, StatesAreWritten
  DEF Follows, Starting, InStep, Applying, Undoing, Stopped, Repairing, Actions
<1> QED
  BY <1>1, <1>3, <1>4, <1>5, <1>6, RollbackWriteKeeps DEF next

\* Each step of rollback keeps the journal consistent.
LEMMA UndoStepKeeps == IInv /\ UndoStep => IInv'
<1> SUFFICES ASSUME IInv, UndoStep PROVE IInv'
  OBVIOUS
<1>a. TypeOK /\ Sound(state, plan, host) /\ Follows(proc, state, plan, host) /\ proc \in Procs
  BY DEF IInv, TypeOK, Procs
<1>1. CASE BeginRollback
  <2> DEFINE st == IF proc.target = "uninstalled" THEN "uninstalling" ELSE "rolling_back"
             next == [mem EXCEPT !.status = st, !.target = proc.target]
             ok == [proc EXCEPT !.pc = "undo", !.at = N, !.mem = next]
  <2>1. /\ state \in States /\ mem = state /\ proc.target \in Targets \ {"unset"} /\ proc.pc = "begin"
        /\ UNCHANGED <<host, data, edits>>
    BY <1>1, UndoFacts DEF BeginRollback
  <2>2. CASE assert_all_owned(mem)
    <3>1. persist(next, ok, Stuck(next))
      BY <1>1, <2>2 DEF BeginRollback
    <3>2. /\ st \in Statuses /\ st \in Removing
          /\ \/ st = "uninstalling" /\ proc.target = "uninstalled"
             \/ st = "rolling_back" /\ proc.target = "rolled_back"
      BY <2>1 DEF Statuses, Targets, Removing
    <3>3. next.status = st /\ next.target = proc.target
      BY <2>1 DEF States
    <3> HIDE DEF st
    <3>4. next \in States /\ Sound(next, plan, host)
      BY <1>a, <2>1, <3>2, StatusIsSound
    <3> HIDE DEF next
    <3>5. ok \in Procs /\ ok.pc = "undo" /\ ok.at = N /\ ok.mem = next /\ ok.target = proc.target
      <4>1. N \in 0..N + 1 /\ "undo" \in Pcs
        BY PlanAssumption DEF Pcs
      <4> QED
        BY <1>a, <3>4, <4>1 DEF Procs
    <3>6. Follows(ok, next, plan, host)
      BY <2>1, <3>2, <3>3, <3>4, <3>5, StatesAreWritten, PlanAssumption
      DEF Follows, Starting, InStep, Applying, Undoing, Stopped, Repairing, Actions
    <3> HIDE DEF ok
    <3> QED
      BY <2>1, <3>1, <3>3, <3>4, <3>5, <3>6, RollbackWriteKeeps
  <2>3. CASE ~assert_all_owned(mem)
    BY <1>1, <2>1, <2>3, StuckKeeps DEF BeginRollback
  <2> QED
    BY <2>2, <2>3
<1>2. CASE SkipUndone
  <2>1. proc.pc = "undo" /\ at \in Actions /\ mem.phase[at] \in {"none", "rolled_back"}
    BY <1>2 DEF SkipUndone, phaseIs
  <2>2. /\ proc' \in Procs /\ proc'.pc = "undo" /\ proc'.at = at - 1 /\ proc'.mem = mem
        /\ proc'.target = proc.target
    BY <1>2, <1>a, <2>1, PlanAssumption DEF SkipUndone, Procs, Pcs, mem, at, Actions
  <2>3. \A b \in Actions : b > at - 1 => state.phase[b] \notin Touched
    <3>1. \A b \in Actions : b > at => state.phase[b] \notin Touched
      BY <1>a, <2>1 DEF Follows, Undoing, at
    <3> QED
      BY <2>1, <3>1, UndoFacts DEF Touched, Actions
  <2>4. Follows(proc', state, plan, host)
    BY <1>a, <2>1, <2>2, <2>3, UndoFacts, StatesAreWritten
    DEF Follows, Starting, InStep, Applying, Undoing, Stopped, Repairing
  <2> QED
    BY <1>2, <2>2, <2>4, ProcKeeps DEF SkipUndone, budgets
<1>3. CASE DropPrepared
  <2> DEFINE next == to(mem, at, "rolled_back")
  <2>1. /\ proc.pc = "undo" /\ at \in Actions /\ mem.phase[at] = "prepared"
        /\ persist(next, [proc EXCEPT !.mem = next], Stuck(next)) /\ UNCHANGED <<host, data, edits>>
    BY <1>3 DEF DropPrepared, phaseIs
  <2>2. [proc EXCEPT !.mem = next] = [proc EXCEPT !.pc = "undo", !.mem = next]
    BY <1>a, <2>1 DEF Procs
  <2>3. host[at] = "absent"
    BY <2>1, UndoFacts DEF Sound, Covers, Touched
  <2> QED
    BY <2>1, <2>2, <2>3, UndoCheckpointKeeps
<1>4. CASE MarkRollback
  <2>1. proc.pc = "undo" /\ at \in Actions /\ mem.phase[at] \in Touched
    BY <1>4 DEF MarkRollback, phaseIs, Touched
  <2>2. CASE intact(mem, at)
    BY <1>4, <2>1, <2>2, UndoCheckpointKeeps DEF MarkRollback, intact
  <2>3. CASE ~intact(mem, at)
    BY <1>4, <2>1, <2>3, StuckKeeps DEF MarkRollback
  <2> QED
    BY <2>2, <2>3
<1>5. CASE MarkHalfApplied
  <2> DEFINE next == to(mem, at, "rollback_in_progress")
  <2>1. /\ proc.pc = "undo" /\ at \in Actions /\ mem.phase[at] \in Touched
        /\ persist(next, [proc EXCEPT !.mem = next], Stuck(next)) /\ UNCHANGED <<host, data, edits>>
    BY <1>5 DEF MarkHalfApplied, phaseIs, Touched
  <2>2. [proc EXCEPT !.mem = next] = [proc EXCEPT !.pc = "undo", !.mem = next]
    BY <1>a, <2>1 DEF Procs
  <2> QED
    BY <2>1, <2>2, UndoCheckpointKeeps
<1>6. CASE ReconcileRollback
  <2>1. /\ proc.pc = "undo" /\ at \in Actions /\ mem.phase[at] = "rollback_in_progress"
        /\ UNCHANGED <<journal, host, data, edits, crashes, faults>>
    BY <1>6 DEF ReconcileRollback, phaseIs, budgets
  <2>2. CASE assert_reconcile_safe(mem, at, purge_data)
    <3>1. /\ proc' \in Procs /\ proc'.pc = "remove" /\ proc'.at = at /\ proc'.mem = mem
          /\ proc'.target = proc.target
      BY <1>6, <1>a, <2>2 DEF ReconcileRollback, Procs, Pcs, mem, at
    <3>2. mem.own[at] # "none" => host[at] \in {"absent", mem.own[at]}
      BY <2>2 DEF assert_reconcile_safe
    <3>3. Follows(proc', state, plan, host)
      BY <1>a, <2>1, <3>1, <3>2, UndoFacts, StatesAreWritten
      DEF Follows, Starting, InStep, Applying, Undoing, Stopped, Repairing, at
    <3> QED
      BY <2>1, <3>1, <3>3, ProcKeeps
  <2>3. CASE ~assert_reconcile_safe(mem, at, purge_data)
    BY <1>6, <2>1, <2>3, StuckKeeps DEF ReconcileRollback
  <2> QED
    BY <2>2, <2>3
<1>7. CASE RemoveFile
  <2>1. /\ proc.pc = "remove" /\ at \in Actions /\ UNCHANGED <<state, plan, owned, data, proc, budgets>>
        /\ host' = [host EXCEPT ![at] = "absent"]
    BY <1>7, <1>a DEF RemoveFile, journal, Follows, Undoing, at
  <2>2. /\ host' \in [Actions -> Contents] /\ host'[at] = "absent"
        /\ \A a \in Actions : a # at => host'[a] = host[a]
    BY <1>a, <2>1 DEF TypeOK, Contents
  <2>3. Sound(state, plan, host')
    BY <1>a, <2>2 DEF Sound, Covers
  <2>4. Follows(proc, state, plan, host')
    BY <1>a, <2>1, <2>2 DEF Follows, Starting, InStep, Applying, Undoing, Stopped, Repairing, at
  <2>5. TypeOK'
    BY <1>a, <2>1, <2>2 DEF TypeOK, budgets
  <2> QED
    BY <2>1, <2>3, <2>4, <2>5 DEF IInv
<1>8. CASE RemoveData
  <2>1. /\ proc.pc = "remove" /\ host[at] = "absent" /\ UNCHANGED <<state, plan, owned, host, budgets>>
    BY <1>8 DEF RemoveData, journal
  <2>2. /\ proc' \in Procs /\ proc'.pc = "removed" /\ proc'.at = at /\ proc'.mem = mem
        /\ proc'.target = proc.target
    BY <1>8, <1>a DEF RemoveData, Procs, Pcs, mem, at
  <2>3. data' \in [Actions -> BOOLEAN]
    BY <1>8, <1>a DEF RemoveData, TypeOK
  <2>4. Follows(proc', state, plan, host)
    BY <1>a, <2>1, <2>2, UndoFacts, StatesAreWritten
    DEF Follows, Starting, InStep, Applying, Undoing, Stopped, Repairing, at
  <2>5. TypeOK'
    BY <1>a, <2>1, <2>2, <2>3 DEF TypeOK, Procs, budgets
  <2> QED
    BY <1>a, <2>1, <2>4, <2>5 DEF IInv
<1>9. CASE RemoveFails
  BY <1>9, StuckKeeps DEF RemoveFails
<1>10. CASE FinishUndo
  <2> DEFINE next == to(mem, at, "rolled_back")
             lost == ~purge_data /\ mem.own[at] # "none" /\ at \in Keepers /\ ~data[at]
  <2>1. /\ proc.pc = "removed" /\ at \in Actions /\ host[at] = "absent" /\ UNCHANGED <<host, data, edits>>
    BY <1>10, <1>a DEF FinishUndo, Follows, Undoing, at
  <2>2. CASE lost
    BY <1>10, <2>1, <2>2, StuckKeeps DEF FinishUndo
  <2>3. CASE ~lost
    <3>1. persist(next, [proc EXCEPT !.pc = "undo", !.mem = next], Stuck(next))
      BY <1>10, <2>3 DEF FinishUndo
    <3> QED
      BY <2>1, <3>1, UndoCheckpointKeeps
  <2> QED
    BY <2>2, <2>3
<1>11. CASE FinishRollback
  <2> DEFINE next == [mem EXCEPT !.status = proc.target]
  <2>1. proc.pc = "undo" /\ at = 0 /\ persist(next, Halt, Stuck(next)) /\ UNCHANGED <<host, data, edits>>
    BY <1>11 DEF FinishRollback
  <2>2. /\ state \in States /\ mem = state /\ proc.target \in Targets \ {"unset"}
        /\ state.target = proc.target /\ \A a \in Actions : state.phase[a] \notin Touched
    BY <1>a, <2>1, UndoFacts DEF Follows, Undoing, Actions, at
  <2>3. next = [state EXCEPT !.status = proc.target, !.target = proc.target] /\ next.target = proc.target
    BY <2>2 DEF States
  <2>4. proc.target \in Statuses
    BY <2>2 DEF Targets, Statuses
  <2> HIDE DEF next
  <2>5. next \in States /\ Sound(next, plan, host)
    BY <1>a, <2>2, <2>3, <2>4, StatusIsSound
  <2> QED
    BY <2>1, <2>3, <2>5, HaltFollows, RollbackWriteKeeps
<1>12. CASE RecordStuck
  <2> DEFINE next == [mem EXCEPT !.status = "rollback_failed", !.target = proc.target]
  <2>1. persist(next, Halt, Halt) /\ UNCHANGED <<host, data, edits>> /\ proc.pc = "stuck"
    BY <1>12 DEF RecordStuck
  <2>2. mem \in States /\ Sound(mem, plan, host) /\ proc.target \in Targets \ {"unset"}
    BY <1>a, <2>1 DEF Follows, Stopped, Undoing, Procs, mem
  <2>3. "rollback_failed" \in Statuses
    BY DEF Statuses
  <2>4. next \in States /\ Sound(next, plan, host)
    BY <2>2, <2>3, StatusIsSound
  <2> HIDE DEF next
  <2> QED
    BY <2>1, <2>4, HaltFollows, PersistKeeps
<1> QED
  BY <1>1, <1>2, <1>3, <1>4, <1>5, <1>6, <1>7, <1>8, <1>9, <1>10, <1>11, <1>12 DEF UndoStep

---------------------------------------------------------------------------
(* Repair and the world outside *)

\* Each step of repair keeps the journal consistent.
LEMMA RepairStepKeeps == IInv /\ RepairStep => IInv'
<1> SUFFICES ASSUME IInv, RepairStep PROVE IInv'
  OBVIOUS
<1>a. TypeOK /\ Sound(state, plan, host) /\ Follows(proc, state, plan, host) /\ proc \in Procs
  BY DEF IInv, TypeOK, Procs
<1>b. /\ proc.pc \in {"repair", "recapture"}
      /\ state.status = "active" /\ mem = state /\ state \in States /\ at >= 1 /\ at \in Nat
      /\ \A a \in Actions : state.phase[a] = "verified"
  <2>1. proc.pc \in {"repair", "recapture"}
    BY DEF RepairStep, RepairPartly, RepairDone, RepairFails, Recapture, FinishRepair
  <2>2. state.status = "active" /\ mem = state /\ state \in States /\ at >= 1 /\ at \in Nat
    BY <1>a, <2>1, PlanAssumption DEF TypeOK, Procs, Follows, InStep, Repairing, mem, at
  <2> QED
    BY <1>a, <2>1, <2>2 DEF Sound
<1>1. CASE RepairPartly \/ RepairDone
  <2>1. /\ UNCHANGED <<state, plan, owned, crashes, faults, edits>> /\ at \in Actions /\ proc.pc = "repair"
        /\ host' \in [Actions -> Contents] /\ data' \in [Actions -> BOOLEAN]
        /\ \A a \in Actions : a # at => host'[a] = host[a]
    BY <1>1, <1>a, <1>b DEF RepairPartly, RepairDone, TypeOK, Contents, journal, budgets, States
  <2>2. Sound(state, plan, host')
    BY <1>a, <1>b, <2>1 DEF Sound, Covers, Touched
  <2>3. proc' \in Procs /\ Follows(proc', state, plan, host')
    <3>1. CASE RepairPartly
      BY <3>1, <1>a, <1>b, <2>1
      DEF RepairPartly, Follows, Starting, InStep, Applying, Undoing, Stopped, Repairing
    <3>2. CASE RepairDone
      <4>1. proc' \in Procs /\ proc'.pc = "recapture" /\ proc'.at = at /\ proc'.mem = state
        BY <3>2, <1>a, <1>b DEF RepairDone, Procs, Pcs, mem, at
      <4>2. host'[at] = state.plan
        BY <3>2, <1>a, <1>b, <2>1 DEF RepairDone, TypeOK
      <4> QED
        BY <1>b, <2>1, <4>1, <4>2, StatesAreWritten
        DEF Follows, Starting, InStep, Applying, Undoing, Stopped, Repairing
    <3> QED
      BY <1>1, <3>1, <3>2
  <2>4. TypeOK'
    BY <1>a, <2>1, <2>3 DEF TypeOK, Procs
  <2> QED
    BY <2>1, <2>2, <2>3, <2>4 DEF IInv
<1>2. CASE RepairFails
  BY <1>2, HaltFollows, ProcKeeps DEF RepairFails
<1>3. CASE Recapture
  <2> DEFINE next == [mem EXCEPT !.own[at] = host[at]]
             ok == [proc EXCEPT !.pc = "repair", !.at = at + 1, !.mem = next]
  <2>1. /\ persist(next, ok, Halt) /\ UNCHANGED <<host, data, edits>>
        /\ at \in Actions /\ host[at] = state.plan
    BY <1>3, <1>a DEF Recapture, Follows, Repairing, at
  <2>2. next \in States /\ Sound(next, plan, host)
    BY <1>a, <1>b, <2>1, OwnIsSound
  <2>3. next.status = "active"
    BY <1>b DEF States
  <2> HIDE DEF next
  <2>4. ok \in Procs /\ ok.pc = "repair" /\ ok.at = at + 1 /\ ok.mem = next
    <3>1. at + 1 \in 0..N + 1 /\ "repair" \in Pcs
      BY <2>1, PlanAssumption DEF Actions, Pcs
    <3> QED
      BY <1>a, <2>2, <3>1 DEF Procs
  <2>5. Follows(ok, next, plan, host)
    BY <1>b, <2>2, <2>3, <2>4, StatesAreWritten
    DEF Follows, Starting, InStep, Applying, Undoing, Stopped, Repairing
  <2> HIDE DEF ok
  <2> QED
    BY <2>1, <2>2, <2>4, <2>5, HaltFollows, PersistKeeps
<1>4. CASE FinishRepair
  BY <1>4, <1>a, <1>b, HaltFollows, PersistKeeps DEF FinishRepair
<1> QED
  BY <1>1, <1>2, <1>3, <1>4 DEF RepairStep

\* So do crashes and the changes somebody makes to owned files.
LEMMA OutsideKeeps == IInv /\ Outside => IInv'
<1> SUFFICES ASSUME IInv, Outside PROVE IInv'
  OBVIOUS
<1>a. TypeOK /\ Sound(state, plan, host) /\ Follows(proc, state, plan, host) /\ proc \in Procs
  BY DEF IInv, TypeOK, Procs
<1>1. CASE Crash
  <2>1. Halt \in Procs /\ Follows(Halt, state, plan, host)
    BY HaltFollows
  <2>2. TypeOK'
    BY <1>1, <1>a, <2>1, LimitsAssumption DEF Crash, crash, TypeOK, Procs, journal
  <2> QED
    BY <1>1, <1>a, <2>1, <2>2 DEF Crash, IInv, journal
<1>2. ASSUME NEW a \in Actions, Edit(a) \/ PutBack(a) PROVE IInv'
  <2>1. /\ UNCHANGED <<state, plan, owned, data, proc, crashes, faults>> /\ proc = Halt
        /\ host[a] # "absent"
        /\ \A b \in Actions : b # a => host'[b] = host[b]
    BY <1>2, <1>a, PlanAssumption DEF Edit, PutBack, TypeOK, journal, budgets
  <2>2. host' \in [Actions -> Contents] /\ edits' \in 0..MaxEdits
    <3>1. CASE Edit(a)
      BY <3>1, <1>a, LimitsAssumption DEF Edit, TypeOK, Contents
    <3>2. CASE PutBack(a)
      <4>1. state.own[a] \in Plans
        BY <3>2, <1>a DEF PutBack, TypeOK, States, NoState
      <4> QED
        BY <3>2, <1>a, <4>1 DEF PutBack, TypeOK, Contents, budgets
    <3> QED
      BY <1>2, <3>1, <3>2
  <2>3. Sound(state, plan, host')
    BY <1>a, <2>1 DEF Sound, Covers
  <2>4. TypeOK'
    BY <1>a, <2>1, <2>2 DEF TypeOK
  <2> QED
    BY <2>1, <2>3, <2>4, HaltFollows DEF IInv
<1> QED
  BY <1>1, <1>2 DEF Outside

---------------------------------------------------------------------------
(* Theorems *)

\* The journal and what the process knows of it stay consistent through every command, crash, failed
\* write and edit.
THEOREM Consistent == Spec => []IInv
<1>1. Init => IInv
  BY InitKeeps
<1>2. IInv /\ [Next]_vars => IInv'
  <2> SUFFICES ASSUME IInv, [Next]_vars PROVE IInv'
    OBVIOUS
  <2>1. CASE Next
    BY <2>1, CommandKeeps, ApplyStepKeeps, UndoStepKeeps, RepairStepKeeps, OutsideKeeps DEF Next
  <2>2. CASE UNCHANGED vars
    <3>1. UNCHANGED <<state, plan, owned, host, data, proc, crashes, faults, edits>>
      BY <2>2 DEF vars, journal, budgets
    <3> QED
      BY <3>1 DEF IInv, TypeOK
  <2> QED
    BY <2>1, <2>2
<1> QED
  BY <1>1, <1>2, PTL DEF Spec

\* The journal, the host and the process have their types.
THEOREM TypeCorrect == Spec => []TypeOK
<1>1. IInv => TypeOK
  BY DEF IInv
<1> QED
  BY <1>1, Consistent, PTL

\* Every file the installer puts on the host is in state.json at every instant (persist before mutate in
\* continue_apply, evidence before the checkpoint in rollback), whatever dies when.
THEOREM HostIsCovered == Spec => []JournalCoversHost
<1>1. IInv => JournalCoversHost
  <2> SUFFICES ASSUME IInv, NEW a \in Actions, host[a] # "absent"
               PROVE  state.phase[a] \in Touched /\ state.status \notin Settled \cup {"none"}
    BY DEF JournalCoversHost
  <2>1. state.phase[a] \in Touched
    BY DEF IInv, Sound, Covers
  <2>2. state # NoState
    BY <2>1 DEF NoState, Touched
  <2>3. state.status # "none"
    BY <2>2, StatesAreWritten DEF IInv, TypeOK
  <2> QED
    BY <2>1, <2>3 DEF IInv, Sound
<1> QED
  BY <1>1, Consistent, PTL

\* Actions are applied in order and undone in reverse order, through every interruption of continue_apply
\* and rollback.
THEOREM ActionsAreLayered == Spec => []LayeredOnVerified
<1>1. IInv => LayeredOnVerified
  BY DEF IInv, Sound, Layered, LayeredOnVerified
<1> QED
  BY <1>1, Consistent, PTL

\* resume always finds a journal that it can read and carry on with.
THEOREM JournalIsResumable == Spec => []Resumable
<1>1. IInv => Resumable
  BY DEF IInv, Sound, Resumable, PlanMatchesState
<1> QED
  BY <1>1, Consistent, PTL

\* A write leaves the old journal or the new one.
LEMMA PersistWrites == ASSUME NEW s, NEW ok, NEW failed, persist(s, ok, failed) PROVE state' \in {state, s}
BY DEF persist

\* rollback, resume and uninstall carry the target of the removal they found through to its end.
THEOREM RemovalKeepsItsEnd == Spec => RemovalEndsAsBegun
<1> DEFINE Ends(s) == s.target = state.target /\ s.status \in Removing \cup {state.target}
           P == state.status \in Removing => Ends(state')
<1>1. IInv /\ [Next]_vars => P
  <2> SUFFICES ASSUME IInv, [Next]_vars, state.status \in Removing PROVE Ends(state')
    OBVIOUS
  <2>a. TypeOK /\ Sound(state, plan, host) /\ Follows(proc, state, plan, host) /\ proc \in Procs
    BY DEF IInv, TypeOK, Procs
  <2>b. state.status \notin Settled \cup {"applying", "active", "none"} /\ state # NoState /\ state \in States
    <3>1. state.status \notin Settled \cup {"applying", "active", "none"}
      BY DEF Removing, Settled
    <3> QED
      BY <2>a, <3>1 DEF TypeOK, NoState
  <2>c. Ends(state)
    OBVIOUS
  <2>d. ASSUME NEW s, NEW ok, NEW failed, persist(s, ok, failed), Ends(s) PROVE Ends(state')
    BY <2>c, <2>d, PersistWrites
  <2>e. ASSUME NEW a \in Actions, NEW ph \in Phases PROVE Ends(to(state, a, ph))
    BY <2>b, <2>c, ToIs
  <2>1. CASE Command
    <3>1. ASSUME NEW purge \in {"keep", "purge"}, StartUninstall(purge) PROVE Ends(state')
      <4> DEFINE next == [state EXCEPT !.status = "uninstalling", !.purge = purge, !.target = "uninstalled"]
      <4>1. state.status = "uninstalling" /\ state.target = "uninstalled"
        BY <3>1, <2>a, <2>b DEF StartUninstall, Sound
      <4>2. Ends(next)
        BY <2>b, <4>1 DEF States, Removing
      <4> QED
        BY <3>1, <2>d, <4>2 DEF StartUninstall
    <3>2. \A p \in Plans : ~StartApply(p)
      BY <2>b DEF StartApply
    <3>3. ResumeSettled => Ends(state')
      BY <2>c, <2>d DEF ResumeSettled
    <3>4. StartResume \/ StartRepair => Ends(state')
      BY <2>c DEF StartResume, StartRepair, journal
    <3> QED
      BY <2>1, <3>1, <3>2, <3>3, <3>4 DEF Command
  <2>2. CASE ApplyStep
    <3>1. proc.pc \notin {"plan", "new", "apply", "mutate", "capture"}
      BY <2>a, <2>b DEF Follows, Starting, Applying
    <3> QED
      BY <2>2, <2>c, <3>1
      DEF ApplyStep, WritePlan, CreateState, Prepare, MarkApplying, ReconcileApply, MutatePartly, MutateDone,
          MutateFails, FinishApply, Verify, NextAction, Activate, RollBackFailedApply, journal
  <2>3. CASE UndoStep
    <3>1. /\ state.target = proc.target
          /\ mem \in States /\ (proc.pc # "stuck" => mem = state)
          /\ proc.pc \in {"remove", "removed"} => at \in Actions
      BY <2>3, <2>a, <2>b
      DEF UndoStep, BeginRollback, SkipUndone, DropPrepared, MarkRollback, MarkHalfApplied, ReconcileRollback,
          RemoveFile, RemoveData, RemoveFails, FinishUndo, FinishRollback, RecordStuck,
          Follows, Undoing, InStep, Stopped, Procs, mem, at
    <3>2. "rolled_back" \in Phases /\ "rollback_in_progress" \in Phases
      BY DEF Phases
    <3>3. CASE BeginRollback
      <4> DEFINE st == IF proc.target = "uninstalled" THEN "uninstalling" ELSE "rolling_back"
                 next == [mem EXCEPT !.status = st, !.target = proc.target]
      <4>1. Ends(next)
        BY <2>c, <3>1 DEF States, Removing
      <4>2. CASE assert_all_owned(mem)
        BY <3>3, <2>d, <4>1, <4>2 DEF BeginRollback
      <4>3. CASE ~assert_all_owned(mem)
        BY <3>3, <2>c, <4>3 DEF BeginRollback, journal
      <4> QED
        BY <4>2, <4>3
    <3>4. CASE DropPrepared
      BY <3>4, <2>d, <2>e, <3>1, <3>2 DEF DropPrepared, phaseIs
    <3>5. CASE MarkRollback
      <4>1. Ends(to(mem, at, "rollback_in_progress"))
        BY <3>5, <2>e, <3>1, <3>2 DEF MarkRollback, phaseIs
      <4>2. CASE intact(mem, at)
        BY <3>5, <2>d, <4>1, <4>2 DEF MarkRollback
      <4>3. CASE ~intact(mem, at)
        BY <3>5, <2>c, <4>3 DEF MarkRollback, journal
      <4> QED
        BY <4>2, <4>3
    <3>6. CASE MarkHalfApplied
      BY <3>6, <2>d, <2>e, <3>1, <3>2 DEF MarkHalfApplied, phaseIs
    <3>7. CASE FinishUndo
      <4> DEFINE lost == ~purge_data /\ mem.own[at] # "none" /\ at \in Keepers /\ ~data[at]
      <4>1. Ends(to(mem, at, "rolled_back"))
        BY <3>7, <2>e, <3>1, <3>2 DEF FinishUndo
      <4>2. CASE ~lost
        BY <3>7, <2>d, <4>1, <4>2 DEF FinishUndo
      <4>3. CASE lost
        BY <3>7, <2>c, <4>3 DEF FinishUndo, journal
      <4> QED
        BY <4>2, <4>3
    <3>8. CASE FinishRollback
      <4>1. Ends([mem EXCEPT !.status = proc.target])
        BY <3>8, <3>1 DEF FinishRollback, States
      <4> QED
        BY <3>8, <2>d, <4>1 DEF FinishRollback
    <3>9. CASE RecordStuck
      <4>1. Ends([mem EXCEPT !.status = "rollback_failed", !.target = proc.target])
        BY <3>1 DEF States, Removing
      <4> QED
        BY <3>9, <2>d, <4>1 DEF RecordStuck
    <3>10. CASE SkipUndone \/ ReconcileRollback \/ RemoveFile \/ RemoveData \/ RemoveFails
      BY <3>10, <2>c DEF SkipUndone, ReconcileRollback, RemoveFile, RemoveData, RemoveFails, journal
    <3> QED
      BY <2>3, <3>3, <3>4, <3>5, <3>6, <3>7, <3>8, <3>9, <3>10 DEF UndoStep
  <2>4. CASE RepairStep
    BY <2>4, <2>a, <2>b
    DEF RepairStep, RepairPartly, RepairDone, RepairFails, Recapture, FinishRepair, Follows, Repairing
  <2>5. CASE Outside \/ UNCHANGED vars
    BY <2>5, <2>c DEF Outside, Crash, Edit, PutBack, vars, journal
  <2> QED
    BY <2>1, <2>2, <2>3, <2>4, <2>5 DEF Next
<1>2. IInv /\ [Next]_vars => [P]_vars
  BY <1>1
<1> HIDE DEF P
<1>3. Spec => [][P]_vars
  BY <1>2, Consistent, PTL DEF Spec
<1> QED
  BY <1>3 DEF P, RemovalEndsAsBegun

\* The adapters' rollback never takes what the operator asked to keep, nor a file whose bytes are not the
\* recorded ones.
THEOREM OperatorsThingsAreKept == Spec => OperatorsIsKept
<1> DEFINE P == \A a \in Actions :
                  /\ state.purge = "keep" /\ data[a] => data'[a]
                  /\ host[a] = "foreign" /\ host'[a] = "absent" => mem.own[a] = "none"
<1>1. IInv /\ [Next]_vars => P
  <2> SUFFICES ASSUME IInv, [Next]_vars PROVE P
    OBVIOUS
  <2>a. TypeOK /\ Follows(proc, state, plan, host) /\ proc \in Procs
    BY DEF IInv, TypeOK, Procs
  <2>0. CASE UNCHANGED <<host, data>>
    BY <2>0
  <2>1. CASE RemoveFile
    <3>1. /\ proc.pc = "remove" /\ at \in Actions /\ UNCHANGED data
          /\ host' = [host EXCEPT ![at] = "absent"]
          /\ mem = state /\ state \in States
          /\ mem.own[at] # "none" => host[at] \in {"absent", mem.own[at]}
      BY <2>1, <2>a, UndoFacts DEF RemoveFile, Follows, Undoing, at
    <3>2. mem.own[at] # "none" => host[at] # "foreign"
      BY <3>1, PlanAssumption DEF States
    <3> QED
      BY <2>a, <3>1, <3>2 DEF TypeOK
  <2>2. CASE RemoveData
    <3>1. mem = state /\ UNCHANGED host /\ data' = [data EXCEPT ![at] = @ /\ ~destructive]
      BY <2>2, UndoFacts DEF RemoveData
    <3>2. state.purge = "keep" => ~destructive
      BY <3>1 DEF destructive, purge_data
    <3> QED
      BY <2>a, <3>1, <3>2 DEF TypeOK
  <2>3. CASE MutatePartly \/ MutateDone \/ RepairPartly \/ RepairDone
    <3>1. mem = state /\ state \in States
      BY <2>3, <2>a, StatesAreWritten
      DEF MutatePartly, MutateDone, RepairPartly, RepairDone, Follows, InStep, TypeOK, mem
    <3>2. \A a \in Actions : host'[a] \in {host[a], "partial", state.plan} /\ (data[a] => data'[a])
      BY <2>3, <2>a, <3>1 DEF MutatePartly, MutateDone, RepairPartly, RepairDone, TypeOK
    <3> QED
      BY <3>1, <3>2, PlanAssumption DEF States
  <2>4. ASSUME NEW a \in Actions, Edit(a) \/ PutBack(a) PROVE P
    <3>1. UNCHANGED data /\ \A b \in Actions : b # a => host'[b] = host[b]
      BY <2>4, <2>a DEF Edit, PutBack, TypeOK
    <3>2. Edit(a) => host[a] # "foreign"
      BY PlanAssumption DEF Edit
    <3>3. PutBack(a) => host'[a] # "absent"
      BY <2>a, PlanAssumption DEF PutBack, TypeOK, States, NoState
    <3> QED
      BY <2>4, <3>1, <3>2, <3>3
  <2>5. CASE Command
    BY <2>5, <2>0 DEF Command, StartApply, StartResume, ResumeSettled, StartRepair, StartUninstall
  <2>6. CASE ApplyStep
    BY <2>6, <2>0, <2>3
    DEF ApplyStep, WritePlan, CreateState, Prepare, MarkApplying, ReconcileApply,
        MutateFails, FinishApply, Verify, NextAction, Activate, RollBackFailedApply
  <2>7. CASE UndoStep
    BY <2>7, <2>0, <2>1, <2>2
    DEF UndoStep, BeginRollback, SkipUndone, DropPrepared, MarkRollback, MarkHalfApplied, ReconcileRollback,
        RemoveFails, FinishUndo, FinishRollback, RecordStuck
  <2>8. CASE RepairStep
    BY <2>8, <2>0, <2>3 DEF RepairStep, RepairFails, Recapture, FinishRepair
  <2>9. CASE Outside \/ UNCHANGED vars
    BY <2>9, <2>0, <2>4 DEF Outside, Crash, vars
  <2> QED
    BY <2>5, <2>6, <2>7, <2>8, <2>9 DEF Next
<1>2. IInv /\ [Next]_vars => [P]_vars
  BY <1>1
<1> HIDE DEF P
<1>3. Spec => [][P]_vars
  BY <1>2, Consistent, PTL DEF Spec
<1> QED
  BY <1>3 DEF P, OperatorsIsKept

=============================================================================
