------------------------- MODULE ProvisioningProofs -------------------------
(***************************************************************************)
(* Proofs about Provisioning for any number of grants, of any kind, and    *)
(* every bound on restarts, refusals, lost replies and deletions.          *)
(***************************************************************************)
EXTENDS Provisioning, TLAPS

---------------------------------------------------------------------------
(* The runners *)

RunSet == [pc : Pcs, at : 0..N + 1, seen : [Grants -> StepStates], flag : BOOLEAN]
\* Where run() is at a step of the operation.
Stepping == {"create", "created", "escrowed", "applied", "confirm", "activate", "activated", "manual", "refused", "undone", "purge"}
Placed ==
  \A r \in Runners : /\ run[r].pc \in Stepping => run[r].at \in Grants
                     /\ run[r].pc \in {"mark", "advance", "undo"} => run[r].at \in 1..N + 1
\* A runner is about an operation with steps, and has them once it has read them.
Journaled ==
  /\ op # "none" => \A g \in Grants : step[g] # "none"
  /\ \A r \in Runners : /\ run[r].pc \notin {"idle", "reserve"} => op # "none"
                        /\ run[r].pc \notin {"idle", "reserve", "read"} => \A g \in Grants : run[r].seen[g] # "none"

---------------------------------------------------------------------------
(* Types *)

Budget == {"crash", "refuse", "lose", "delete", "other"}
Runs == run \in [Runners -> RunSet]
Files ==
  /\ op \in Ops /\ step \in [Grants -> StepStates]
  /\ row \in [Grants -> {"none", "live", "deleted"}] /\ secret \in [Grants -> {"none", "pending", "active", "revoked"}]
  /\ account \in [Grants -> {"none", "ours", "other"}]
Deletes == del \in [pc : {"idle", "account", "forget", "purge"}, grant : 0..N]
Spends == spent \in [DOMAIN Budgets -> Nat] /\ \A b \in DOMAIN Budgets : spent[b] <= Budgets[b]

Noting == marks \in [Grants -> SUBSET Marks]

\* The type invariant in its parts.
LEMMA TypeParts == TypeOK <=> Files /\ Runs /\ Deletes /\ Spends /\ Noting
BY DEF TypeOK, Files, Runs, Deletes, Spends, Noting, RunSet

\* What the actions write as a whole.
LEMMA Values == Idle \in RunSet /\ Idle.pc = "idle" /\ NoDelete \in [pc : {"idle", "account", "forget", "purge"}, grant : 0..N]
<1>1. N \in Nat
  BY GrantsAssumption
<1>2. [g \in Grants |-> "none"] \in [Grants -> StepStates]
  BY DEF StepStates
<1> QED BY <1>1, <1>2 DEF Idle, NoDelete, RunSet, Pcs

\* The budgets and their names.
LEMMA BudgetNames ==
  DOMAIN Budgets = Budget /\ \A b \in Budget : Budgets[b] \in Nat
<1>1. DOMAIN Budgets = Budget
  BY DEF Budgets, Budget
<1> QED BY <1>1, BoundsAssumption DEF Budgets, Budget

\* A budget is spent one at a time.
LEMMA SpendKeeps ==
  ASSUME Spends, NEW what \in Budget, spend(what) \/ UNCHANGED spent
  PROVE  Spends'
BY BudgetNames DEF Spends, spend

\* What a step of a runner leaves alone, and where the runner goes.
Turned(r) == run' \in [Runners -> RunSet] /\ \A q \in Runners : q # r => run'[q] = run[q]
Moved(r, pc, n) == Turned(r) /\ run'[r].pc = pc /\ run'[r].at = n /\ run'[r].flag = run[r].flag
Stays(r, pc) == Moved(r, pc, run[r].at) /\ run'[r].seen = run[r].seen

\* The runner goes on with the same step.
LEMMA Gotos ==
  ASSUME Runs, NEW r \in Runners, NEW pc \in Pcs, goto(r, pc)
  PROVE  Stays(r, pc)
<1>1. run[r] \in RunSet /\ run' = [run EXCEPT ![r] = [run[r] EXCEPT !.pc = pc]]
  BY DEF Runs, goto
<1>2. [run[r] EXCEPT !.pc = pc] \in RunSet
  BY <1>1 DEF RunSet
<1> QED BY <1>1, <1>2 DEF Runs, RunSet, Stays, Moved, Turned

\* The runner goes to the next step.
LEMMA Nexts ==
  ASSUME Runs, NEW r \in Runners, NEW pc \in Pcs, run[r].at \in Grants, next(r, pc)
  PROVE  Moved(r, pc, run[r].at + 1) /\ run'[r].seen = run[r].seen /\ run[r].at + 1 \in 1..N + 1
<1>1. run[r] \in RunSet /\ run' = [run EXCEPT ![r] = [run[r] EXCEPT !.pc = pc, !.at = run[r].at + 1]]
  BY DEF Runs, next
<1>2. run[r].at + 1 \in 0..N + 1 /\ run[r].at + 1 \in 1..N + 1
  BY GrantsAssumption DEF Grants
<1>3. [run[r] EXCEPT !.pc = pc, !.at = run[r].at + 1] \in RunSet
  BY <1>1, <1>2 DEF RunSet
<1> QED BY <1>1, <1>2, <1>3 DEF Runs, RunSet, Moved, Turned

\* The runner leaves.
LEMMA Raises ==
  ASSUME Runs, NEW r \in Runners, raise(r)
  PROVE  Turned(r) /\ run'[r] = Idle /\ run'[r].pc = "idle"
BY Values DEF Runs, raise, Turned

\* The runner writes down the step that it is at.
LEMMA MarkWrites ==
  ASSUME Runs, NEW r \in Runners, run[r].at \in Grants, NEW status \in StepStates, NEW pc \in Pcs, mark(r, status, pc), step \in [Grants -> StepStates]
  PROVE  /\ Moved(r, pc, run[r].at) /\ run'[r].seen = [run[r].seen EXCEPT ![run[r].at] = status]
         /\ step' \in [Grants -> StepStates] /\ step' = [step EXCEPT ![run[r].at] = status]
<1>1. run[r] \in RunSet /\ run' = [run EXCEPT ![r] = [run[r] EXCEPT !.pc = pc, !.seen[run[r].at] = status]] /\ step' = [step EXCEPT ![run[r].at] = status]
  BY DEF Runs, mark, at
<1>2. [run[r].seen EXCEPT ![run[r].at] = status] \in [Grants -> StepStates]
  BY <1>1 DEF RunSet
<1>3. [run[r] EXCEPT !.pc = pc, !.seen[run[r].at] = status] = [run[r] EXCEPT !.pc = pc, !.seen = [run[r].seen EXCEPT ![run[r].at] = status]]
  BY <1>1 DEF RunSet
<1>4. [run[r] EXCEPT !.pc = pc, !.seen = [run[r].seen EXCEPT ![run[r].at] = status]] \in RunSet
  BY <1>1, <1>2 DEF RunSet
<1> QED BY <1>1, <1>2, <1>3, <1>4 DEF Runs, RunSet, Moved, Turned

\* A runner that goes elsewhere stays at a step of the operation.
LEMMA PlacedStays ==
  ASSUME Placed, NEW r \in Runners, Turned(r), run'[r].pc \in Stepping => run'[r].at \in Grants,
         run'[r].pc \in {"mark", "advance", "undo"} => run'[r].at \in 1..N + 1
  PROVE  Placed'
BY DEF Placed, Turned

\* A runner keeps the steps that it has.
LEMMA JournaledStays ==
  ASSUME Journaled, NEW r \in Runners, Turned(r), op # "none" => op' # "none",
         op' # "none" => \A g \in Grants : step'[g] # "none",
         run'[r].pc \notin {"idle", "reserve"} => op' # "none",
         run'[r].pc \notin {"idle", "reserve", "read"} => \A g \in Grants : run'[r].seen[g] # "none"
  PROVE  Journaled'
BY DEF Journaled, Turned

Base == Files /\ Runs /\ Deletes /\ Spends /\ Placed /\ Journaled

\* A step that only moves its runner.
LEMMA RunnerOnly ==
  ASSUME Base, NEW r \in Runners, Turned(r), UNCHANGED <<journal, store, account, del>>, Spends',
         run'[r].pc \in Stepping => run'[r].at \in Grants, run'[r].pc \in {"mark", "advance", "undo"} => run'[r].at \in 1..N + 1,
         run'[r].pc \notin {"idle", "reserve"} => op # "none",
         run'[r].pc \notin {"idle", "reserve", "read"} => \A g \in Grants : run'[r].seen[g] # "none"
  PROVE  Base'
<1>1. Placed' /\ Journaled'
  BY PlacedStays, JournaledStays DEF Base, journal, Journaled
<1>2. Runs'
  BY DEF Turned, Runs
<1> QED BY <1>1, <1>2 DEF Base, Files, Deletes, journal, store

\* A step that also writes, but neither rows nor credentials.
LEMMA JournalOnly ==
  ASSUME Base, NEW r \in Runners, Turned(r), UNCHANGED <<store, del>>, Spends',
         op' \in Ops, step' \in [Grants -> StepStates], account' \in [Grants -> {"none", "ours", "other"}],
         run'[r].pc \in Stepping => run'[r].at \in Grants, run'[r].pc \in {"mark", "advance", "undo"} => run'[r].at \in 1..N + 1,
         op' # "none", \A g \in Grants : step'[g] # "none", run'[r].pc # "idle" => \A g \in Grants : run'[r].seen[g] # "none"
  PROVE  Base'
<1>1. Placed' /\ Journaled'
  BY PlacedStays, JournaledStays DEF Base, Journaled
<1>2. Runs'
  BY DEF Turned, Runs
<1> QED BY <1>1, <1>2 DEF Base, Files, Deletes, store

\* Every grant that is purged loses its credential.
LEMMA PurgeKeeps ==
  ASSUME Base, NEW set, purge(set)
  PROVE  /\ row' \in [Grants -> {"none", "live", "deleted"}] /\ secret' \in [Grants -> {"none", "pending", "active", "revoked"}]
BY DEF Base, Files, purge

\* The types of a runner's own.
LEMMA Own ==
  ASSUME Base, NEW r \in Runners
  PROVE  /\ run[r] \in RunSet /\ run[r].pc \in Pcs /\ run[r].at \in 0..N + 1 /\ run[r].seen \in [Grants -> StepStates] /\ run[r].flag \in BOOLEAN
         /\ run[r].pc \in Stepping => run[r].at \in Grants
         /\ run[r].pc \in {"mark", "advance", "undo"} => run[r].at \in 1..N + 1
         /\ N \in Nat /\ N > 0 /\ 1 \in Grants /\ N + 1 \notin Grants
         /\ run[r].pc \notin {"idle", "reserve"} => op # "none" /\ \A g \in Grants : step[g] # "none"
         /\ run[r].pc \notin {"idle", "reserve", "read"} => \A g \in Grants : run[r].seen[g] # "none"
<1>1. run[r] \in RunSet /\ N \in Nat \ {0}
  BY GrantsAssumption DEF Base, Runs
<1> QED BY <1>1 DEF Base, RunSet, Placed, Grants, Journaled

\* The run's start.
LEMMA StartKeeps ==
  ASSUME Base, NEW r \in Runners, Preflight(r) \/ Reserve(r) \/ Resume(r) \/ Read(r) \/ MarkApplying(r)
  PROVE  Base'
<1>1. CASE Preflight(r)
  <2>1. Stays(r, "reserve") /\ UNCHANGED <<journal, store, account, del, spent>>
    BY <1>1, Gotos DEF Preflight, Base, Pcs
  <2> QED BY <2>1, RunnerOnly DEF Base, Spends, Stays, Moved, Stepping
<1>2. CASE Reserve(r)
  <2>1. Stays(r, "read") /\ UNCHANGED <<account, del, spent>>
    BY <1>2, Gotos DEF Reserve, Base, Pcs
  <2>2. /\ step' \in [Grants -> StepStates] /\ row' \in [Grants -> {"none", "live", "deleted"}]
        /\ secret' \in [Grants -> {"none", "pending", "active", "revoked"}] /\ op' \in Ops /\ \A g \in Grants : row'[g] = "live"
    BY <1>2 DEF Reserve, StepStates, Ops
  <2>3. Placed' /\ Journaled'
    <3>1. op' # "none" /\ \A g \in Grants : step'[g] # "none"
      BY <1>2 DEF Reserve
    <3> QED BY <2>1, <3>1, PlacedStays, JournaledStays DEF Base, Stays, Moved, Stepping
  <2> QED BY <2>1, <2>2, <2>3 DEF Base, Files, Runs, Deletes, Spends, Stays, Moved, Turned
<1>3. CASE Resume(r)
  <2>1. Stays(r, "read") /\ UNCHANGED <<journal, store, account, del, spent>>
    BY <1>3, Gotos DEF Resume, Base, Pcs
  <2> QED BY <1>3, <2>1, RunnerOnly DEF Base, Spends, Stays, Moved, Stepping, Resume
<1>4. CASE Read(r)
  <2>1. UNCHANGED <<journal, store, account, del, spent>>
    BY <1>4 DEF Read
  <2>2. \E pc \in {"settle", "mark"} : run' = [run EXCEPT ![r] = IF op \in TERMINAL THEN Idle ELSE [pc |-> pc, at |-> 1, seen |-> step, flag |-> FALSE]]
    BY <1>4 DEF Read
  <2>3. PICK pc \in {"settle", "mark"} : run' = [run EXCEPT ![r] = IF op \in TERMINAL THEN Idle ELSE [pc |-> pc, at |-> 1, seen |-> step, flag |-> FALSE]]
    BY <2>2
  <2>4. [pc |-> pc, at |-> 1, seen |-> step, flag |-> FALSE] \in RunSet
    BY Own DEF RunSet, Pcs, Base, Files
  <2>5. Turned(r) /\ (run'[r] = Idle \/ run'[r] = [pc |-> pc, at |-> 1, seen |-> step, flag |-> FALSE])
    BY <2>3, <2>4, Values DEF Turned, Base, Runs
  <2>6. run'[r].pc \notin Stepping /\ (run'[r].pc \in {"mark", "advance", "undo"} => run'[r].at \in 1..N + 1)
    BY <2>5, Own, Values DEF Stepping
  <2>7. op # "none" /\ (run'[r].pc # "idle" => run'[r].seen = step)
    BY <1>4, <2>5, Own, Values DEF Read, in
  <2> QED BY <2>1, <2>5, <2>6, <2>7, RunnerOnly DEF Base, Spends, Journaled
<1>5. CASE MarkApplying(r)
  <2>1. Stays(r, "advance") /\ UNCHANGED <<step, store, account, del, spent>> /\ op' = "applying" /\ run[r].pc = "mark"
    BY <1>5, Gotos DEF MarkApplying, Base, Pcs, in
  <2>2. /\ Spends' /\ op' \in Ops /\ run'[r].pc \notin Stepping /\ run'[r].at \in 1..N + 1
        /\ op' # "none" /\ (\A g \in Grants : step'[g] # "none") /\ \A g \in Grants : run'[r].seen[g] # "none"
    BY <2>1, Own DEF Base, Spends, Ops, Stays, Moved, Stepping
  <2> QED BY <2>1, <2>2, JournalOnly DEF Base, Files, Stays, Moved
<1> QED BY <1>1, <1>2, <1>3, <1>4, <1>5

\* The loop over the steps.
LEMMA AdvanceKeeps ==
  ASSUME Base, NEW r \in Runners, Advance(r)
  PROVE  /\ Base' /\ UNCHANGED <<journal, store, account, del, spent>> /\ run[r].pc = "advance" /\ run[r].at \in Grants
         /\ \/ Moved(r, "advance", run[r].at + 1) /\ run'[r].seen = run[r].seen
               /\ run[r].seen[run[r].at] \in SETTLED \cup {"compensated", "manual"}
            \/ Turned(r) /\ run'[r] = Idle /\ row[run[r].at] = "none"
            \/ /\ row[run[r].at] # "none"
               /\ \/ Stays(r, "create") /\ run[r].seen[run[r].at] = "pending"
                  \/ Stays(r, "applied") /\ run[r].seen[run[r].at] = "applied"
                  \/ Stays(r, "confirm") /\ run[r].seen[run[r].at] = "escrowed"
<1>1. /\ run[r].pc = "advance" /\ run[r].at \in Grants /\ UNCHANGED <<journal, store, account, del, spent>>
      /\ run[r].seen[run[r].at] \in StepStates /\ run[r].seen[run[r].at] # "none"
  BY Own DEF Advance, in, at
<1>2. \/ next(r, "advance") /\ run[r].seen[run[r].at] \in SETTLED \cup {"compensated", "manual"}
      \/ raise(r) /\ row[run[r].at] = "none"
      \/ /\ row[run[r].at] # "none"
         /\ \/ goto(r, "create") /\ run[r].seen[run[r].at] = "pending"
            \/ goto(r, "applied") /\ run[r].seen[run[r].at] = "applied"
            \/ goto(r, "confirm") /\ run[r].seen[run[r].at] = "escrowed"
  BY <1>1 DEF Advance, at, seen, SETTLED, StepStates, CREATED
<1>3. Spends' /\ Runs
  BY <1>1 DEF Base, Spends
<1>4. ASSUME NEW pc \in {"create", "applied", "confirm"}, goto(r, pc) PROVE Base' /\ Stays(r, pc)
  <2>1. Stays(r, pc)
    BY <1>3, <1>4, Gotos DEF Pcs
  <2> QED BY <1>1, <1>3, <2>1, Own, RunnerOnly DEF Stays, Moved, Stepping
<1>5. ASSUME next(r, "advance") PROVE Base' /\ Moved(r, "advance", run[r].at + 1) /\ run'[r].seen = run[r].seen
  <2>1. Moved(r, "advance", run[r].at + 1) /\ run'[r].seen = run[r].seen /\ run[r].at + 1 \in 1..N + 1
    BY <1>1, <1>3, <1>5, Nexts DEF Pcs
  <2> QED BY <1>1, <1>3, <2>1, Own, RunnerOnly DEF Moved, Stepping
<1>6. ASSUME raise(r) PROVE Base' /\ Turned(r) /\ run'[r] = Idle
  <2>1. Turned(r) /\ run'[r] = Idle /\ run'[r].pc = "idle"
    BY <1>3, <1>6, Raises
  <2> QED BY <1>1, <1>3, <2>1, RunnerOnly DEF Stepping
<1> QED BY <1>1, <1>2, <1>4, <1>5, <1>6

\* A step that leaves the runner where it was in the loop.
LEMMA StayKeeps ==
  ASSUME Base, NEW r \in Runners, NEW pc \in Pcs, goto(r, pc), run[r].pc \notin {"idle", "reserve", "read"},
         pc \in Stepping => run[r].at \in Grants, pc \in {"mark", "advance", "undo"} => run[r].at \in 1..N + 1,
         UNCHANGED <<journal, store, del>>, account' \in [Grants -> {"none", "ours", "other"}], Spends'
  PROVE  Base' /\ Stays(r, pc)
<1>1. Stays(r, pc)
  BY Gotos DEF Base
<1>2. op' = op /\ step' = step
  BY DEF journal
<1> QED BY <1>1, <1>2, Own, JournalOnly DEF Stays, Moved, Base, Files

\* A step that ends the run.
LEMMA RaiseKeeps ==
  ASSUME Base, NEW r \in Runners, raise(r), run[r].pc \notin {"idle", "reserve"},
         UNCHANGED <<step, store, del>>, op' \in Ops \ {"none"}, account' \in [Grants -> {"none", "ours", "other"}], Spends'
  PROVE  Base' /\ Turned(r) /\ run'[r].pc = "idle"
<1>1. Turned(r) /\ run'[r].pc = "idle"
  BY Raises DEF Base
<1> QED BY <1>1, Own, JournalOnly DEF Base, Files, Stepping

\* The adapter's create.
LEMMA CreateKeeps ==
  ASSUME Base, NEW r \in Runners, CreateDone(r) \/ CreateRefused(r) \/ CreateLost(r) \/ CreateUnrecoverable(r)
  PROVE  Base'
<1>1. run[r].pc = "create" /\ UNCHANGED <<journal, store, del>> /\ run[r].at \in Grants
  BY Own DEF CreateDone, CreateRefused, CreateLost, CreateUnrecoverable, in, Stepping
<1>2. account' \in [Grants -> {"none", "ours", "other"}]
  BY DEF CreateDone, CreateRefused, CreateLost, CreateUnrecoverable, Base, Files
<1>3. Spends'
  <2>1. UNCHANGED spent \/ spend("refuse") \/ spend("lose")
    BY DEF CreateDone, CreateRefused, CreateLost, CreateUnrecoverable
  <2> QED BY <2>1, SpendKeeps DEF Base, Budget
<1>4. goto(r, "created") \/ goto(r, "refused") \/ goto(r, "manual") \/ raise(r)
  BY DEF CreateDone, CreateRefused, CreateLost, CreateUnrecoverable
<1>5. op' = op /\ step' = step /\ op \in Ops \ {"none"}
  BY <1>1, Own DEF journal, Base, Files
<1> QED BY <1>1, <1>2, <1>3, <1>4, <1>5, StayKeeps, RaiseKeeps DEF Pcs

\* A checkpoint.
LEMMA MarkKeeps ==
  ASSUME Base, NEW r \in Runners, NEW status \in StepStates \ {"none"}, NEW pc \in Pcs \ {"idle", "reserve"}, mark(r, status, pc),
         run[r].pc \notin {"idle", "reserve", "read"}, run[r].at \in Grants, UNCHANGED <<op, store, account, del, spent>>
  PROVE  /\ Base' /\ Moved(r, pc, run[r].at) /\ run'[r].seen = [run[r].seen EXCEPT ![run[r].at] = status]
         /\ step' = [step EXCEPT ![run[r].at] = status]
<1>1. /\ Moved(r, pc, run[r].at) /\ run'[r].seen = [run[r].seen EXCEPT ![run[r].at] = status]
      /\ step' \in [Grants -> StepStates] /\ step' = [step EXCEPT ![run[r].at] = status]
  BY MarkWrites DEF Base, Files
<1>2. (\A g \in Grants : step'[g] # "none") /\ \A g \in Grants : run'[r].seen[g] # "none"
  BY <1>1, Own DEF Base, Files
<1>3. run'[r].at \in Grants /\ run'[r].at \in 1..N + 1
  BY <1>1, Own DEF Moved, Grants
<1> QED BY <1>1, <1>2, <1>3, Own, JournalOnly DEF Moved, Base, Files, Spends

\* The account's checkpoints, and the one that calls for a person.
LEMMA MarksKeep ==
  ASSUME Base, NEW r \in Runners, MarkApplied(r) \/ MarkEscrowed(r) \/ MarkManualStep(r) \/ MarkRefused(r) \/ MarkUndone(r)
  PROVE  Base'
<1>1. /\ run[r].pc \in Stepping /\ UNCHANGED <<op, store, account, del, spent>>
      /\ \/ mark(r, "applied", "applied") \/ mark(r, "escrowed", "confirm") \/ mark(r, "manual", "stop")
         \/ mark(r, run[r].seen[run[r].at], "compensate") \/ mark(r, "compensated", "purge")
  BY DEF MarkApplied, MarkEscrowed, MarkManualStep, MarkRefused, MarkUndone, in, Stepping, seen, at
<1>2. run[r].at \in Grants /\ run[r].pc \notin {"idle", "reserve", "read"}
  BY <1>1, Own DEF Stepping
<1>3. run[r].seen[run[r].at] \in StepStates \ {"none"}
  BY <1>2, Own
<1> QED BY <1>1, <1>2, <1>3, MarkKeeps DEF StepStates, CREATED, Pcs

\* A step that writes credentials of grants that are there.
LEMMA SecretKeeps ==
  ASSUME Base, NEW r \in Runners, Turned(r), UNCHANGED <<journal, row, account, del, spent>>,
         run'[r].pc = "idle" \/ (run'[r].pc \in Stepping /\ run'[r].at \in Grants /\ run'[r].seen = run[r].seen),
         run[r].pc \notin {"idle", "reserve", "read"},
         secret' \in [Grants -> {"none", "pending", "active", "revoked"}],
         \A g \in Grants \ Chosen : secret'[g] # secret[g] => row[g] # "none"
  PROVE  Base'
<1>1. Placed' /\ Journaled'
  <2>1. run'[r].pc \notin {"mark", "advance", "undo"} /\ op' = op /\ step' = step
    BY DEF Stepping, journal
  <2> QED BY <2>1, PlacedStays, JournaledStays, Own DEF Base, Stepping
<1> QED BY <1>1 DEF Base, Files, Runs, Deletes, Spends, Turned, journal

\* The credential: escrowed, read back, activated.
LEMMA ConfirmKeeps ==
  ASSUME Base, NEW r \in Runners, Escrow(r) \/ Confirm(r) \/ Activate(r)
  PROVE  Base'
<1>1. run[r].pc \in Stepping /\ run[r].at \in Grants /\ run[r].pc \notin {"idle", "reserve", "read"}
  BY Own DEF Escrow, Confirm, Activate, in, Stepping
<1>2. CASE Escrow(r)
  <2>1. Stays(r, "escrowed") /\ UNCHANGED <<journal, row, account, del, spent>>
    BY <1>2, Gotos DEF Escrow, Base, Pcs
  <2>2. secret' \in [Grants -> {"none", "pending", "active", "revoked"}] /\ \A g \in Grants \ Chosen : secret'[g] = secret[g]
    BY <1>1, <1>2 DEF Escrow, at, Base, Files
  <2> QED BY <1>1, <2>1, <2>2, SecretKeeps DEF Stays, Moved, Stepping
<1>3. CASE Confirm(r)
  <2>1. (goto(r, "refused") \/ goto(r, "activate") \/ raise(r)) /\ UNCHANGED <<journal, store, account, del>> /\ (UNCHANGED spent \/ spend("refuse"))
    BY <1>3 DEF Confirm
  <2>2. Spends' /\ op' = op /\ step' = step /\ op \in Ops \ {"none"} /\ account \in [Grants -> {"none", "ours", "other"}]
    BY <1>1, <2>1, SpendKeeps, Own DEF Base, Files, Budget, journal
  <2> QED BY <1>1, <2>1, <2>2, StayKeeps, RaiseKeeps DEF Pcs
<1>4. CASE Activate(r)
  <2>1. UNCHANGED <<journal, row, account, del, spent>> /\ (goto(r, "activated") \/ raise(r))
    BY <1>4 DEF Activate
  <2>2. /\ secret' \in [Grants -> {"none", "pending", "active", "revoked"}]
        /\ \A g \in Grants : secret'[g] # secret[g] => row[g] # "none"
    BY <1>1, <1>4 DEF Activate, at, Base, Files
  <2>3. Stays(r, "activated") \/ (Turned(r) /\ run'[r].pc = "idle")
    BY <2>1, Gotos, Raises DEF Base, Pcs
  <2> QED BY <1>1, <2>1, <2>2, <2>3, SecretKeeps DEF Stays, Moved, Stepping
<1> QED BY <1>2, <1>3, <1>4

\* The end of a step, and of the run.
LEMMA FinishKeeps ==
  ASSUME Base, NEW r \in Runners, MarkActive(r) \/ Settle(r) \/ Finish(r) \/ MarkManual(r) \/ MarkCompensating(r) \/ MarkCompensated(r)
  PROVE  Base'
<1>1. CASE MarkActive(r)
  <2>1. run[r].pc = "activated" /\ run[r].at \in Grants /\ UNCHANGED <<op, store, account, del, spent>> /\ step' = [step EXCEPT ![run[r].at] = "active"]
    BY <1>1, Own DEF MarkActive, in, at, Stepping
  <2>2. Moved(r, "advance", run[r].at + 1) /\ run'[r].seen = run[r].seen /\ run[r].at + 1 \in 1..N + 1
    BY <1>1, <2>1, Nexts DEF MarkActive, Base, Pcs
  <2>3. step' \in [Grants -> StepStates] /\ \A g \in Grants : step'[g] # "none"
    BY <2>1, Own DEF Base, Files, StepStates, CREATED
  <2> QED BY <2>1, <2>2, <2>3, Own, JournalOnly DEF Moved, Base, Files, Spends, Stepping
<1>2. CASE Settle(r)
  <2>1. run[r].pc \in {"settle", "advance"} /\ UNCHANGED <<journal, store, account, del, spent>>
        /\ run' = [run EXCEPT ![r] = [run[r] EXCEPT !.pc = "finish", !.flag = \E g \in Grants : step[g] = "remote"]]
    BY <1>2 DEF Settle, in
  <2>2. [run[r] EXCEPT !.pc = "finish", !.flag = \E g \in Grants : step[g] = "remote"] \in RunSet
    BY Own DEF RunSet, Pcs
  <2>3. Turned(r) /\ run'[r].pc = "finish" /\ run'[r].seen = run[r].seen
    BY <2>1, <2>2 DEF Turned, Base, Runs, RunSet
  <2> QED BY <2>1, <2>3, Own, RunnerOnly DEF Base, Spends, Stepping
<1>3. CASE Finish(r) \/ MarkManual(r) \/ MarkCompensated(r)
  <2>1. /\ run[r].pc \notin {"idle", "reserve"} /\ raise(r) /\ UNCHANGED <<step, store, account, del, spent>>
        /\ op' \in {"pending_remote", "succeeded", "manual_intervention_required", "compensated"}
    BY <1>3 DEF Finish, MarkManual, MarkCompensated, in
  <2> QED BY <2>1, RaiseKeeps DEF Base, Spends, Files, Ops, TERMINAL
<1>4. CASE MarkCompensating(r)
  <2>1. run[r].pc = "compensate" /\ op' = "compensating" /\ Stays(r, "reread") /\ UNCHANGED <<step, store, account, del, spent>>
    BY <1>4, Gotos DEF MarkCompensating, Base, Pcs, in
  <2> QED BY <2>1, Own, JournalOnly DEF Stays, Moved, Stepping, Base, Spends, Files, Ops
<1> QED BY <1>1, <1>2, <1>3, <1>4

\* A compensated step.
LEMMA UndoKeeps ==
  ASSUME Base, NEW r \in Runners, Reread(r) \/ UndoNothing(r) \/ UndoAccount(r) \/ UndoFails(r)
  PROVE  Base'
<1>1. CASE Reread(r)
  <2>1. /\ run[r].pc = "reread" /\ UNCHANGED <<journal, store, account, del, spent>>
        /\ run' = [run EXCEPT ![r] = [pc |-> "undo", at |-> 1, seen |-> step, flag |-> FALSE]]
    BY <1>1 DEF Reread, in
  <2>2. [pc |-> "undo", at |-> 1, seen |-> step, flag |-> FALSE] \in RunSet
    BY Own DEF RunSet, Pcs, Base, Files
  <2>3. Turned(r) /\ run'[r] = [pc |-> "undo", at |-> 1, seen |-> step, flag |-> FALSE]
    BY <2>1, <2>2 DEF Turned, Base, Runs
  <2>4. run'[r].pc = "undo" /\ run'[r].at \in 1..N + 1 /\ \A g \in Grants : run'[r].seen[g] # "none"
    BY <2>1, <2>3, Own
  <2> QED BY <2>1, <2>3, <2>4, Own, RunnerOnly DEF Base, Spends, Stepping
<1>2. CASE UndoNothing(r)
  <2>1. run[r].pc = "undo" /\ run[r].at \in Grants /\ UNCHANGED <<op, store, account, del, spent>> /\ step' = [step EXCEPT ![run[r].at] = "compensated"]
    BY <1>2 DEF UndoNothing, in, at
  <2>2. Moved(r, "undo", run[r].at + 1) /\ run'[r].seen = run[r].seen /\ run[r].at + 1 \in 1..N + 1
    BY <1>2, <2>1, Nexts DEF UndoNothing, Base, Pcs
  <2>3. step' \in [Grants -> StepStates] /\ \A g \in Grants : step'[g] # "none"
    BY <2>1, Own DEF Base, Files, StepStates, CREATED
  <2> QED BY <2>1, <2>2, <2>3, Own, JournalOnly DEF Moved, Base, Files, Spends, Stepping
<1>3. CASE UndoAccount(r)
  <2>1. run[r].pc = "undo" /\ run[r].at \in Grants /\ goto(r, "undone") /\ UNCHANGED <<journal, store, del, spent>>
        /\ account' \in [Grants -> {"none", "ours", "other"}]
    BY <1>3 DEF UndoAccount, in, at, Base, Files
  <2> QED BY <2>1, StayKeeps DEF Base, Spends, Pcs
<1>4. CASE UndoFails(r)
  <2>1. /\ run[r].pc = "undo" /\ run[r].at \in Grants /\ UNCHANGED <<op, store, del>> /\ step' = [step EXCEPT ![run[r].at] = "manual"]
        /\ run' = [run EXCEPT ![r] = [run[r] EXCEPT !.at = run[r].at + 1, !.flag = TRUE]]
        /\ UNCHANGED spent \/ spend("refuse") \/ spend("lose")
    BY <1>4 DEF UndoFails, in, at
  <2>2. account' \in [Grants -> {"none", "ours", "other"}]
    BY <1>4 DEF UndoFails, Base, Files
  <2>3. run[r].at + 1 \in 1..N + 1 /\ run[r].at + 1 \in 0..N + 1
    BY <2>1, GrantsAssumption DEF Grants
  <2>4. [run[r] EXCEPT !.at = run[r].at + 1, !.flag = TRUE] \in RunSet
    BY <2>3, Own DEF RunSet
  <2>5. Turned(r) /\ run'[r].pc = "undo" /\ run'[r].at = run[r].at + 1 /\ run'[r].seen = run[r].seen
    BY <2>1, <2>4 DEF Turned, Base, Runs, RunSet
  <2>6. step' \in [Grants -> StepStates] /\ \A g \in Grants : step'[g] # "none"
    BY <2>1, Own DEF Base, Files, StepStates, CREATED
  <2>7. Spends'
    BY <2>1, SpendKeeps DEF Base, Budget
  <2> QED BY <2>1, <2>2, <2>3, <2>5, <2>6, <2>7, Own, JournalOnly DEF Base, Files, Stepping
<1> QED BY <1>1, <1>2, <1>3, <1>4

\* The rows of what was undone go.
LEMMA PurgesKeep ==
  ASSUME Base, NEW r \in Runners, PurgeUndone(r) \/ Close(r)
  PROVE  Base'
<1>1. CASE PurgeUndone(r) /\ raise(r)
  <2>1. UNCHANGED store \/ purge({run[r].at})
    BY <1>1 DEF PurgeUndone, in, at
  <2>2. run[r].pc = "purge" /\ run[r].at \in Grants /\ UNCHANGED <<journal, account, del, spent>>
    BY <1>1, Own DEF PurgeUndone, in, Stepping
  <2>3. Turned(r) /\ run'[r].pc = "idle"
    BY <1>1, Raises DEF Base
  <2>4. Placed' /\ Journaled'
    BY <2>2, <2>3, PlacedStays, JournaledStays, Own DEF Base, Stepping, journal
  <2>5. /\ row' \in [Grants -> {"none", "live", "deleted"}] /\ secret' \in [Grants -> {"none", "pending", "active", "revoked"}]
    BY <2>1, PurgeKeeps DEF Base, Files, store
  <2> QED BY <2>2, <2>3, <2>4, <2>5 DEF Base, Files, Runs, Deletes, Spends, Turned, journal
<1>2. CASE PurgeUndone(r) /\ purge({run[r].at}) /\ next(r, "undo")
  <2>1. run[r].pc = "purge" /\ run[r].at \in Grants /\ UNCHANGED <<journal, account, del, spent>>
    BY <1>2, Own DEF PurgeUndone, in, Stepping
  <2>2. Moved(r, "undo", run[r].at + 1) /\ run'[r].seen = run[r].seen /\ run[r].at + 1 \in 1..N + 1
    BY <1>2, <2>1, Nexts DEF Base, Pcs
  <2>3. Placed' /\ Journaled'
    BY <2>1, <2>2, PlacedStays, JournaledStays, Own DEF Base, Stepping, journal, Moved
  <2> QED BY <1>2, <2>1, <2>2, <2>3, PurgeKeeps DEF Base, Files, Runs, Deletes, Spends, Moved, Turned, journal
<1>3. CASE Close(r)
  <2>1. run[r].pc = "undo" /\ Stays(r, "close") /\ UNCHANGED <<journal, account, del, spent>>
    BY <1>3, Gotos DEF Close, in, Base, Pcs
  <2>2. Placed' /\ Journaled'
    BY <2>1, PlacedStays, JournaledStays, Own DEF Base, Stepping, journal, Stays, Moved
  <2>3. /\ row' \in [Grants -> {"none", "live", "deleted"}] /\ secret' \in [Grants -> {"none", "pending", "active", "revoked"}]
    BY <1>3 DEF Close, Base, Files, Local
  <2> QED BY <2>1, <2>2, <2>3 DEF Base, Files, Runs, Deletes, Spends, Stays, Moved, Turned, journal
<1> QED BY <1>1, <1>2, <1>3 DEF PurgeUndone, at

\* Steps that no runner takes.
LEMMA BesideKeeps ==
  ASSUME Base, run' = run, op' \in Ops, op # "none" => op' # "none", step' \in [Grants -> StepStates],
         \A g \in Grants : step[g] # "none" => step'[g] # "none", op' # "none" => op # "none",
         row' \in [Grants -> {"none", "live", "deleted"}], secret' \in [Grants -> {"none", "pending", "active", "revoked"}],
         account' \in [Grants -> {"none", "ours", "other"}], Deletes', Spends'
  PROVE  Base'
BY DEF Base, Files, Runs, Placed, Journaled

\* The linked panel.
LEMMA NodeKeeps ==
  ASSUME Base, NEW g \in Remote, Node(g) \/ DeleteRemote(g)
  PROVE  Base'
<1>0. g \in Grants
  BY GrantsAssumption DEF Grants
<1>1. \A steps : settled(steps) \in Ops /\ (settled(steps) = "none" <=> op = "none")
  BY DEF settled, Ops, TERMINAL, Base, Files
<1>2. CASE NodeApplies(g)
  <2>1. account' \in [Grants -> {"none", "ours", "other"}] /\ UNCHANGED <<journal, store, run, del, spent>>
    BY <1>2 DEF NodeApplies, Base, Files
  <2> QED BY <2>1, BesideKeeps DEF Base, Files, Deletes, Spends, journal, store
<1>3. CASE RemoteMissing(g)
  <2>1. purge({g}) /\ UNCHANGED <<journal, account, run, del, spent>>
    BY <1>3 DEF RemoteMissing
  <2> QED BY <2>1, PurgeKeeps, BesideKeeps DEF Base, Files, Deletes, Spends, journal
<1>4. CASE RemoteApplied(g)
  <2>1. /\ step' = [step EXCEPT ![g] = IF waiting /\ step[g] = "remote" THEN "active" ELSE step[g]] /\ UNCHANGED <<row, account, run, del, spent>>
        /\ (op' = op \/ \E steps : op' = settled(steps)) /\ row[g] = "live"
        /\ secret' = [secret EXCEPT ![g] = IF secret[g] = "pending" THEN "active" ELSE secret[g]]
    BY <1>4 DEF RemoteApplied
  <2>2. step' \in [Grants -> StepStates] /\ (\A h \in Grants : step[h] # "none" => step'[h] # "none")
    BY <1>0, <2>1 DEF Base, Files, StepStates, CREATED
  <2>3. op' \in Ops /\ (op' = "none" <=> op = "none")
    BY <1>1, <2>1 DEF Base, Files
  <2>4. secret' \in [Grants -> {"none", "pending", "active", "revoked"}]
    BY <1>0, <2>1 DEF Base, Files
  <2> QED BY <2>1, <2>2, <2>3, <2>4, BesideKeeps DEF Base, Files, Deletes, Spends
<1>5. CASE DeleteRemote(g)
  <2>1. /\ step' = [step EXCEPT ![g] = IF waiting /\ step[g] = "remote" THEN "compensated" ELSE step[g]] /\ UNCHANGED <<secret, account, run, del>>
        /\ (op' = op \/ \E steps : op' = settled(steps)) /\ spend("delete") /\ row' = [row EXCEPT ![g] = "deleted"]
    BY <1>5 DEF DeleteRemote
  <2>2. step' \in [Grants -> StepStates] /\ (\A h \in Grants : step[h] # "none" => step'[h] # "none")
    BY <1>0, <2>1 DEF Base, Files, StepStates, CREATED
  <2>3. op' \in Ops /\ (op' = "none" <=> op = "none")
    BY <1>1, <2>1 DEF Base, Files
  <2>4. row' \in [Grants -> {"none", "live", "deleted"}]
    BY <1>0, <2>1 DEF Base, Files
  <2>5. Spends'
    BY <2>1, SpendKeeps DEF Base, Budget
  <2> QED BY <2>1, <2>2, <2>3, <2>4, <2>5, BesideKeeps DEF Base, Files, Deletes
<1> QED BY <1>2, <1>3, <1>4, <1>5 DEF Node

\* The operator, and others.
LEMMA OperatorKeeps ==
  ASSUME Base, (\E g \in Local : DeleteLocal(g) \/ Other(g)) \/ DeleteAccount \/ Forget \/ PurgeDeleted
  PROVE  Base'
<1>0. del \in [pc : {"idle", "account", "forget", "purge"}, grant : 0..N] /\ N \in Nat
  BY GrantsAssumption DEF Base, Deletes
<1>1. ASSUME NEW g \in Local, DeleteLocal(g) PROVE Base'
  <2>1. spend("delete") /\ del' = [pc |-> "account", grant |-> g] /\ UNCHANGED <<journal, store, account, run>> /\ g \in 0..N
    BY <1>0, <1>1 DEF DeleteLocal, Local, Grants
  <2>2. Spends' /\ Deletes'
    BY <2>1, SpendKeeps DEF Base, Budget, Deletes
  <2> QED BY <2>1, <2>2, BesideKeeps DEF Base, Files, journal, store
<1>2. ASSUME NEW g \in Local, Other(g) PROVE Base'
  <2>1. spend("other") /\ account' = [account EXCEPT ![g] = "other"] /\ UNCHANGED <<journal, store, run, del>>
    BY <1>2 DEF Other
  <2>2. Spends' /\ account' \in [Grants -> {"none", "ours", "other"}]
    BY <2>1, SpendKeeps DEF Base, Budget, Files
  <2> QED BY <2>1, <2>2, BesideKeeps DEF Base, Files, Deletes, journal, store
<1>3. CASE DeleteAccount
  <2>1. account' = [account EXCEPT ![del.grant] = "none"] /\ del' = [del EXCEPT !.pc = "forget"] /\ UNCHANGED <<journal, store, run, spent>>
    BY <1>3 DEF DeleteAccount
  <2>2. Deletes' /\ account' \in [Grants -> {"none", "ours", "other"}]
    BY <1>0, <2>1 DEF Base, Files, Deletes
  <2> QED BY <2>1, <2>2, BesideKeeps DEF Base, Files, Spends, journal, store
<1>4. CASE Forget
  <2>1. /\ row' = [row EXCEPT ![del.grant] = IF row[del.grant] = "none" THEN row[del.grant] ELSE "deleted"]
        /\ del' = [del EXCEPT !.pc = "purge"] /\ UNCHANGED <<journal, secret, account, run, spent>>
    BY <1>4 DEF Forget
  <2>2. Deletes' /\ row' \in [Grants -> {"none", "live", "deleted"}]
    BY <1>0, <2>1 DEF Base, Files, Deletes
  <2> QED BY <2>1, <2>2, BesideKeeps DEF Base, Files, Spends, journal
<1>5. CASE PurgeDeleted
  <2>1. del' = NoDelete /\ (purge({del.grant}) \/ UNCHANGED store) /\ UNCHANGED <<journal, account, run, spent>>
    BY <1>5 DEF PurgeDeleted
  <2>2. /\ row' \in [Grants -> {"none", "live", "deleted"}] /\ secret' \in [Grants -> {"none", "pending", "active", "revoked"}]
    BY <2>1, PurgeKeeps DEF Base, Files, store
  <2>3. Deletes'
    BY <2>1, Values DEF Deletes
  <2> QED BY <2>1, <2>2, <2>3, BesideKeeps DEF Base, Files, Spends, journal
<1> QED BY <1>1, <1>2, <1>3, <1>4, <1>5

\* A restart.
LEMMA RestartKeeps ==
  ASSUME Base, Restart
  PROVE  Base'
<1>1. spend("crash") /\ run' = [r \in Runners |-> Idle] /\ del' = NoDelete /\ UNCHANGED <<journal, store, account>>
  BY DEF Restart
<1>2. Spends' /\ Runs' /\ Deletes'
  BY <1>1, SpendKeeps, Values DEF Base, Budget, Runs, Deletes
<1>3. Placed' /\ Journaled'
  BY <1>1, Values DEF Placed, Journaled, Base, Stepping, journal
<1> QED BY <1>1, <1>2, <1>3 DEF Base, Files, journal, store

\* The first state.
LEMMA InitBase == Init => Base
<1> SUFFICES ASSUME Init PROVE Base
  OBVIOUS
<1>1. Files
  BY DEF Init, Files, Ops, StepStates
<1>2. Runs /\ Deletes /\ \A r \in Runners : run[r].pc = "idle"
  BY Values DEF Init, Runs, Deletes
<1>3. Spends
  BY BudgetNames DEF Init, Spends
<1>4. Placed /\ Journaled
  BY <1>2 DEF Init, Placed, Journaled, Stepping
<1> QED BY <1>1, <1>2, <1>3, <1>4 DEF Base

\* Every step.
LEMMA NextBase == Base /\ [Next]_vars => Base'
<1> SUFFICES ASSUME Base, [Next]_vars PROVE Base'
  OBVIOUS
<1>1. ASSUME NEW r \in Runners, Preflight(r) \/ Resume(r) \/ RunStep(r) PROVE Base'
  BY <1>1, StartKeeps, AdvanceKeeps, CreateKeeps, MarksKeep, ConfirmKeeps, FinishKeeps, UndoKeeps, PurgesKeep DEF RunStep, Forward, Compensate
<1>2. CASE UNCHANGED vars
  BY <1>2 DEF vars, journal, store, Base, Files, Runs, Deletes, Spends, Placed, Journaled
<1> QED BY <1>1, <1>2, NodeKeeps, OperatorKeeps, RestartKeeps DEF Next

---------------------------------------------------------------------------
(* What is noted *)

Grown == Noting' /\ \A g \in Grants : marks[g] \subseteq marks'[g]

\* A note is added to what is there.
LEMMA Notes ==
  ASSUME Noting, NEW set, NEW m \in Marks, note(set, m)
  PROVE  Grown /\ \A g \in Grants : g \in set => m \in marks'[g]
<1>1. \A g \in Grants : marks'[g] = (IF g \in set THEN marks[g] \cup {m} ELSE marks[g]) /\ marks[g] \in SUBSET Marks
  BY DEF note, Noting
<1>2. marks' \in [Grants -> SUBSET Marks]
  BY <1>1 DEF note
<1> QED BY <1>1, <1>2 DEF Grown, Noting

\* A purge notes the grants that a run is creating.
LEMMA PurgeNotes ==
  ASSUME Noting, NEW set, purge(set)
  PROVE  Grown /\ \A g \in Grants : g \in set /\ creating(g) => "caught" \in marks'[g]
BY Notes DEF purge, Marks

\* Every step of a run.
LEMMA RunnerNotes ==
  ASSUME Noting, NEW r \in Runners, Preflight(r) \/ Resume(r) \/ RunStep(r)
  PROVE  Grown
<1>1. CASE UNCHANGED marks
  BY <1>1 DEF Grown, Noting
<1>2. CASE \E set : \E m \in Marks : note(set, m)
  BY <1>2, Notes
<1>3. CASE \E set : purge(set)
  BY <1>3, PurgeNotes
<1>4. CASE UndoFails(r)
  BY <1>4 DEF UndoFails, Grown, Noting, Marks
<1>5. Preflight(r) \/ Resume(r) \/ Reserve(r) \/ MarkApplying(r) \/ Advance(r) \/ CreateDone(r) \/ CreateRefused(r) \/ CreateUnrecoverable(r)
      \/ Escrow(r) \/ MarkApplied(r) \/ MarkEscrowed(r) \/ Confirm(r) \/ Activate(r) \/ MarkActive(r) \/ Settle(r) \/ Finish(r) \/ MarkManual(r)
      \/ MarkRefused(r) \/ MarkCompensating(r) \/ Reread(r) \/ MarkUndone(r) \/ MarkCompensated(r) => UNCHANGED marks
  BY DEF Preflight, Resume, Reserve, MarkApplying, Advance, CreateDone, CreateRefused, CreateUnrecoverable, Escrow, MarkApplied, MarkEscrowed,
     Confirm, Activate, MarkActive, Settle, Finish, MarkManual, MarkRefused, MarkCompensating, Reread, MarkUndone, MarkCompensated
<1>6. Read(r) \/ CreateLost(r) \/ MarkManualStep(r) \/ UndoNothing(r) \/ UndoAccount(r) \/ Close(r) => \E set : \E m \in Marks : note(set, m)
  BY DEF Read, CreateLost, MarkManualStep, UndoNothing, UndoAccount, Close, Marks
<1>7. PurgeUndone(r) => UNCHANGED marks \/ \E set : purge(set)
  BY DEF PurgeUndone
<1> QED BY <1>1, <1>2, <1>3, <1>4, <1>5, <1>6, <1>7 DEF RunStep, Forward, Compensate

\* Every step.
LEMMA NextNotes == Noting /\ [Next]_vars => Grown
<1> SUFFICES ASSUME Noting, [Next]_vars PROVE Grown
  OBVIOUS
<1>1. CASE UNCHANGED marks
  BY <1>1 DEF Grown, Noting
<1>2. CASE \E set : \E m \in Marks : note(set, m)
  BY <1>2, Notes
<1>3. CASE \E set : purge(set)
  BY <1>3, PurgeNotes
<1>4. ASSUME NEW g \in Remote, DeleteRemote(g) PROVE Grown
  <2>1. \E setd, sete : marks' = [h \in Grants |-> marks[h] \cup {m \in {"deleted", "early"} : IF m = "deleted" THEN h = setd ELSE h \in sete}]
    BY <1>4 DEF DeleteRemote
  <2> QED BY <2>1 DEF Grown, Noting, Marks
<1>5. ASSUME NEW g \in Remote, Node(g) PROVE Grown
  <2>1. UNCHANGED marks \/ (\E set : \E m \in Marks : note(set, m)) \/ \E set : purge(set)
    BY <1>5 DEF Node, NodeApplies, RemoteApplied, RemoteMissing, Marks
  <2> QED BY <1>1, <1>2, <1>3, <2>1
<1>6. ASSUME NEW g \in Local, DeleteLocal(g) \/ Other(g) PROVE Grown
  <2>1. UNCHANGED marks \/ (\E set : \E m \in Marks : note(set, m))
    BY <1>6 DEF DeleteLocal, Other, Marks
  <2> QED BY <1>1, <1>2, <2>1
<1>7. CASE DeleteAccount \/ Forget \/ PurgeDeleted \/ Restart
  <2>1. UNCHANGED marks \/ (\E set : \E m \in Marks : note(set, m)) \/ \E set : purge(set)
    BY <1>7 DEF DeleteAccount, Forget, PurgeDeleted, Restart, Marks
  <2> QED BY <1>1, <1>2, <1>3, <2>1
<1> QED BY <1>1, <1>4, <1>5, <1>6, <1>7, RunnerNotes DEF Next, vars

\* The types.
THEOREM TypedThroughout == Spec => [](Base /\ Noting)
<1>1. Init => Noting
  BY DEF Init, Noting
<1>2. Base /\ Noting /\ [Next]_vars => (Base /\ Noting)'
  BY NextBase, NextNotes DEF Grown
<1> QED BY <1>1, <1>2, InitBase, PTL DEF Spec

\* Every variable of the saga keeps its type, for any number of grants and runners.
THEOREM TypeCorrect == Spec => []TypeOK
<1>1. Base /\ Noting => TypeOK
  BY TypeParts DEF Base
<1> QED BY <1>1, TypedThroughout, PTL

---------------------------------------------------------------------------
(* Credentials *)

Creating == {"create", "created"}
\* A run whose grant went while it was creating the account.
Caught == \A r \in Runners : run[r].pc \in Creating /\ row[run[r].at] = "none" => "caught" \in marks[run[r].at]
Keys == Caught /\ RevokedWithGrant

\* What becomes of the rows, the credentials and the runs that create.
gone(g) ==
  row'[g] = "none" =>
    \/ row[g] = "none" /\ secret'[g] = secret[g]
    \/ secret'[g] \in {"none", "revoked"} /\ (creating(g) => "caught" \in marks'[g])
    \/ row[g] = "none" /\ g \in Chosen /\ secret'[g] = "pending" /\ "caught" \in marks'[g]
creates(r) ==
  run'[r].pc \in Creating =>
    \/ run[r].pc \in Creating /\ run'[r].at = run[r].at
    \/ row[run'[r].at] # "none" /\ row' = row

\* The credentials follow.
LEMMA KeysStay ==
  ASSUME Base, Base', Grown, Keys, \A g \in Grants : gone(g), \A r \in Runners : creates(r)
  PROVE  Keys'
<1>1. RevokedWithGrant'
  <2> SUFFICES ASSUME NEW g \in Grants, row'[g] = "none"
               PROVE  secret'[g] \in {"none", "revoked"} \/ (g \in Chosen /\ secret'[g] = "pending" /\ "caught" \in marks'[g])
    BY DEF RevokedWithGrant, marked
  <2>1. row[g] = "none" => secret[g] \in {"none", "revoked"} \/ (g \in Chosen /\ secret[g] = "pending" /\ "caught" \in marks[g])
    BY DEF Keys, RevokedWithGrant, marked
  <2> QED BY <2>1 DEF gone, Grown
<1>2. ASSUME NEW r \in Runners, run'[r].pc \in Creating, row'[run'[r].at] = "none" PROVE "caught" \in marks'[run'[r].at]
  <2>1. run'[r].at \in Grants
    BY <1>2 DEF Base, Placed, Stepping, Creating
  <2>2. run[r].pc \in Creating /\ run'[r].at = run[r].at
    BY <1>2 DEF creates
  <2>3. CASE row[run[r].at] = "none"
    BY <2>1, <2>2, <2>3 DEF Keys, Caught, Grown
  <2>4. CASE row[run[r].at] # "none"
    <3>1. creating(run[r].at)
      BY <2>2 DEF creating, at, Creating
    <3> QED BY <1>2, <2>1, <2>2, <2>4, <3>1 DEF gone
  <2> QED BY <2>3, <2>4
<1> QED BY <1>1, <1>2 DEF Keys, Caught

\* A run that creates began with its row there.
LEMMA Creates ==
  ASSUME Base, NEW r \in Runners, Preflight(r) \/ Resume(r) \/ RunStep(r)
  PROVE  \A q \in Runners : creates(q)
<1>1. ASSUME NEW q \in Runners, run'[q].pc \notin Creating \/ run'[q] = run[q] PROVE creates(q)
  BY <1>1 DEF creates
<1>2. CASE Advance(r)
  <2>1. Turned(r) /\ row' = row /\ (run'[r].pc \in Creating => row[run[r].at] # "none" /\ run'[r].at = run[r].at)
    BY <1>2, AdvanceKeeps, Values DEF Moved, Stays, Creating, store
  <2> QED BY <1>1, <2>1 DEF Turned, creates
<1>3. CASE CreateDone(r)
  <2>1. Stays(r, "created") /\ run[r].pc = "create"
    BY <1>3, Gotos DEF CreateDone, Base, Pcs, in
  <2> QED BY <1>1, <2>1 DEF Stays, Moved, Turned, creates, Creating
<1>4. ASSUME run' = [run EXCEPT ![r] = run'[r]], run'[r].pc \notin Creating PROVE \A q \in Runners : creates(q)
  <2>1. \A q \in Runners : q # r => run'[q] = run[q]
    BY <1>4 DEF Base, Runs
  <2> QED BY <1>1, <1>4, <2>1
<1>5. ASSUME NEW pc \in Pcs \ Creating, goto(r, pc) PROVE \A q \in Runners : creates(q)
  <2>1. Stays(r, pc)
    BY <1>5, Gotos DEF Base
  <2> QED BY <1>1, <2>1 DEF Stays, Moved, Turned
<1>6. ASSUME raise(r) PROVE \A q \in Runners : creates(q)
  <2>1. Turned(r) /\ run'[r].pc = "idle"
    BY <1>6, Raises DEF Base
  <2> QED BY <1>1, <2>1 DEF Turned, Creating
<1>7. ASSUME NEW pc \in Pcs \ Creating, next(r, pc), run[r].at \in Grants PROVE \A q \in Runners : creates(q)
  <2>1. Moved(r, pc, run[r].at + 1)
    BY <1>7, Nexts DEF Base
  <2> QED BY <1>1, <2>1 DEF Moved, Turned
<1>8. ASSUME NEW pc \in Pcs \ Creating, NEW status \in StepStates, mark(r, status, pc), run[r].at \in Grants PROVE \A q \in Runners : creates(q)
  <2>1. Moved(r, pc, run[r].at)
    BY <1>8, MarkWrites DEF Base, Files
  <2> QED BY <1>1, <2>1 DEF Moved, Turned
<1>9. CASE Read(r) \/ Settle(r) \/ Reread(r) \/ UndoFails(r)
  <2>1. \A q \in Runners : q # r => run'[q] = run[q]
    BY <1>9 DEF Read, Settle, Reread, UndoFails, Base, Runs
  <2>2. run'[r].pc \notin Creating
    BY <1>9, Values DEF Read, Settle, Reread, UndoFails, Base, Runs, RunSet, Creating, in
  <2> QED BY <1>1, <2>1, <2>2
<1>10. CASE Preflight(r) \/ Resume(r) \/ Reserve(r) \/ MarkApplying(r) \/ Escrow(r) \/ UndoAccount(r) \/ Close(r) \/ MarkCompensating(r)
  <2>1. \E pc \in Pcs \ Creating : goto(r, pc)
    BY <1>10 DEF Preflight, Resume, Reserve, MarkApplying, Escrow, UndoAccount, Close, MarkCompensating, Pcs, Creating
  <2> QED BY <1>5, <2>1
<1>11. CASE CreateRefused(r) \/ CreateLost(r) \/ CreateUnrecoverable(r) \/ Confirm(r) \/ Activate(r) \/ Finish(r) \/ MarkManual(r) \/ MarkCompensated(r)
  <2>1. raise(r) \/ \E pc \in Pcs \ Creating : goto(r, pc)
    BY <1>11 DEF CreateRefused, CreateLost, CreateUnrecoverable, Confirm, Activate, Finish, MarkManual, MarkCompensated, Pcs, Creating
  <2> QED BY <1>5, <1>6, <2>1
<1>12. CASE MarkApplied(r) \/ MarkEscrowed(r) \/ MarkManualStep(r) \/ MarkRefused(r) \/ MarkUndone(r)
  <2>1. run[r].pc \in Stepping
    BY <1>12 DEF MarkApplied, MarkEscrowed, MarkManualStep, MarkRefused, MarkUndone, in, Stepping
  <2>2. run[r].at \in Grants /\ run[r].seen[run[r].at] \in StepStates
    BY <2>1, Own
  <2>3. \E pc \in Pcs \ Creating, status \in StepStates : mark(r, status, pc)
    BY <1>12, <2>2 DEF MarkApplied, MarkEscrowed, MarkManualStep, MarkRefused, MarkUndone, Pcs, Creating, StepStates, CREATED, seen, at
  <2> QED BY <1>8, <2>2, <2>3
<1>13. CASE MarkActive(r) \/ UndoNothing(r) \/ PurgeUndone(r)
  <2>1. run[r].at \in Grants
    BY <1>13, Own DEF MarkActive, UndoNothing, PurgeUndone, in, at, Stepping
  <2>2. raise(r) \/ \E pc \in Pcs \ Creating : next(r, pc)
    BY <1>13 DEF MarkActive, UndoNothing, PurgeUndone, Pcs, Creating
  <2> QED BY <1>6, <1>7, <2>1, <2>2
<1> QED BY <1>2, <1>3, <1>9, <1>10, <1>11, <1>12, <1>13 DEF RunStep, Forward, Compensate

\* A purge revokes.
LEMMA PurgeGone ==
  ASSUME Base, Noting, NEW set, purge(set)
  PROVE  \A g \in Grants : gone(g)
<1> SUFFICES ASSUME NEW g \in Grants PROVE gone(g)
  OBVIOUS
<1>1. g \in set /\ creating(g) => "caught" \in marks'[g]
  BY PurgeNotes
<1>2. /\ row'[g] = (IF g \in set THEN "none" ELSE row[g])
      /\ secret'[g] = (IF g \in set /\ secret[g] # "none" THEN "revoked" ELSE secret[g])
  BY DEF purge
<1> QED BY <1>1, <1>2 DEF gone

\* What a run does to rows and credentials.
LEMMA RunnerGone ==
  ASSUME Base, Noting, Keys, NEW r \in Runners, Preflight(r) \/ Resume(r) \/ RunStep(r)
  PROVE  \A g \in Grants : gone(g)
<1>1. CASE UNCHANGED store
  BY <1>1 DEF store, gone
<1>2. CASE Reserve(r)
  BY <1>2 DEF Reserve, gone
<1>3. CASE Escrow(r)
  <2> SUFFICES ASSUME NEW g \in Grants, row[g] = "none" PROVE gone(g)
    BY <1>3 DEF Escrow, gone
  <2>1. run[r].pc = "created" /\ run[r].at \in Grants /\ marks' = marks
    BY <1>3, Own DEF Escrow, in, Stepping
  <2>2. secret' = [secret EXCEPT ![run[r].at] = IF run[r].at \in Chosen /\ secret[run[r].at] = "none" THEN "pending" ELSE secret[run[r].at]]
    BY <1>3 DEF Escrow, at
  <2>3. g # run[r].at => secret'[g] = secret[g]
    BY <2>2 DEF Base, Files
  <2>4. g = run[r].at => "caught" \in marks'[g]
    BY <2>1 DEF Keys, Caught, Creating
  <2>5. g = run[r].at => secret'[g] = secret[g] \/ (g \in Chosen /\ secret'[g] = "pending")
    BY <2>1, <2>2 DEF Base, Files
  <2> QED BY <2>3, <2>4, <2>5 DEF gone
<1>4. CASE Activate(r)
  <2>1. run[r].at \in Grants /\ row' = row
    BY <1>4, Own DEF Activate, in, Stepping
  <2>2. \A g \in Grants : row[g] = "none" => secret'[g] = secret[g]
    BY <1>4, <2>1 DEF Activate, at, Base, Files
  <2> QED BY <2>1, <2>2 DEF gone
<1>5. CASE Close(r)
  <2> SUFFICES ASSUME NEW g \in Grants, row'[g] = "none", row[g] # "none" PROVE secret'[g] \in {"none", "revoked"} /\ (creating(g) => "caught" \in marks'[g])
    <3>1. \A g \in Grants : row[g] = "none" => secret'[g] = secret[g]
      BY <1>5 DEF Close
    <3> QED BY <3>1 DEF gone
  <2> DEFINE left == {h \in Grants : step[h] = "compensated" /\ row[h] # "none"}
  <2>1. /\ row'[g] = (IF g \notin left THEN row[g] ELSE IF g \in Remote THEN "deleted" ELSE "none")
        /\ secret'[g] = (IF g \in left \cap Local /\ secret[g] # "none" THEN "revoked" ELSE secret[g])
        /\ note({h \in left \cap Local : creating(h)}, "caught")
    BY <1>5 DEF Close
  <2>2. g \in left \cap Local
    BY <2>1 DEF Local
  <2>3. creating(g) => "caught" \in marks'[g]
    BY <2>1, <2>2, Notes DEF Marks
  <2> QED BY <2>1, <2>2, <2>3
<1>6. CASE PurgeUndone(r)
  BY <1>1, <1>6, PurgeGone DEF PurgeUndone
<1>7. UNCHANGED store \/ Reserve(r) \/ Escrow(r) \/ Activate(r) \/ Close(r) \/ PurgeUndone(r)
  BY DEF RunStep, Forward, Compensate, Preflight, Resume, Read, MarkApplying, Advance, CreateDone, CreateRefused, CreateLost, CreateUnrecoverable,
     MarkApplied, MarkEscrowed, Confirm, MarkActive, Settle, Finish, MarkManualStep, MarkManual, MarkRefused, MarkCompensating, Reread,
     UndoNothing, UndoAccount, UndoFails, MarkUndone, MarkCompensated
<1> QED BY <1>1, <1>2, <1>3, <1>4, <1>5, <1>6, <1>7

\* What the others do.
LEMMA OthersGone ==
  ASSUME Base, Noting, (\E g \in Remote : Node(g) \/ DeleteRemote(g)) \/ (\E g \in Local : DeleteLocal(g) \/ Other(g))
                        \/ DeleteAccount \/ Forget \/ PurgeDeleted \/ Restart
  PROVE  \A g \in Grants : gone(g)
<1>1. CASE UNCHANGED store
  BY <1>1 DEF store, gone
<1>2. ASSUME NEW g \in Remote, Node(g) \/ DeleteRemote(g) PROVE \A h \in Grants : gone(h)
  <2>0. g \in Grants
    BY GrantsAssumption DEF Grants
  <2>1. CASE NodeApplies(g)
    BY <1>1, <2>1 DEF NodeApplies
  <2>2. CASE RemoteApplied(g)
    BY <2>0, <2>2 DEF RemoteApplied, gone, Base, Files
  <2>3. CASE RemoteMissing(g)
    BY <2>3, PurgeGone DEF RemoteMissing
  <2>4. CASE DeleteRemote(g)
    BY <2>0, <2>4 DEF DeleteRemote, gone, Base, Files
  <2> QED BY <1>2, <2>1, <2>2, <2>3, <2>4 DEF Node
<1>3. CASE Forget
  <2>1. secret' = secret /\ row' = [row EXCEPT ![del.grant] = IF row[del.grant] = "none" THEN row[del.grant] ELSE "deleted"]
    BY <1>3 DEF Forget
  <2>2. \A g \in Grants : row'[g] = "none" => row[g] = "none"
    BY <2>1 DEF Base, Files
  <2> QED BY <2>1, <2>2 DEF gone
<1>4. CASE PurgeDeleted
  BY <1>1, <1>4, PurgeGone DEF PurgeDeleted
<1>5. CASE (\E g \in Local : DeleteLocal(g) \/ Other(g)) \/ DeleteAccount \/ Restart
  BY <1>1, <1>5 DEF DeleteLocal, Other, DeleteAccount, Restart
<1> QED BY <1>2, <1>3, <1>4, <1>5

\* Every step.
LEMMA NextKeys == Base /\ Noting /\ Keys /\ [Next]_vars => Keys'
<1> SUFFICES ASSUME Base, Noting, Keys, [Next]_vars PROVE Keys'
  OBVIOUS
<1>1. Base' /\ Grown
  BY NextBase, NextNotes
<1>2. ASSUME NEW r \in Runners, Preflight(r) \/ Resume(r) \/ RunStep(r) PROVE Keys'
  BY <1>1, <1>2, RunnerGone, Creates, KeysStay
<1>3. ASSUME run' = run \/ Restart, \A g \in Grants : gone(g) PROVE Keys'
  <2>1. \A r \in Runners : creates(r)
    BY <1>3, Values DEF Restart, creates, Creating
  <2> QED BY <1>1, <1>3, <2>1, KeysStay
<1>4. CASE UNCHANGED vars
  <2>1. run' = run /\ UNCHANGED store
    BY <1>4 DEF vars
  <2> QED BY <1>3, <2>1 DEF store, gone
<1>5. CASE (\E g \in Remote : Node(g) \/ DeleteRemote(g)) \/ (\E g \in Local : DeleteLocal(g) \/ Other(g))
           \/ DeleteAccount \/ Forget \/ PurgeDeleted \/ Restart
  <2>1. run' = run \/ Restart
    BY <1>5 DEF Node, NodeApplies, RemoteApplied, RemoteMissing, DeleteRemote, DeleteLocal, Other, DeleteAccount, Forget, PurgeDeleted
  <2> QED BY <1>3, <1>5, <2>1, OthersGone
<1> QED BY <1>2, <1>4, <1>5 DEF Next

\* When a grant is gone its credential is revoked, for every grant, whatever runs, resumes, reports, deletions
\* and restarts interleave, for any number of them (purge_grant, compensate, remote_applied, delete). Only a
\* credential that the manager chose, of a grant that went while a run was creating its account, stays pending.
THEOREM CredentialsGoWithGrants == Spec => []RevokedWithGrant
<1>1. Init => Keys
  BY Values DEF Init, Keys, Caught, RevokedWithGrant, Creating
<1>2. Base /\ Noting /\ Keys /\ [Next]_vars => Keys'
  BY NextKeys
<1>3. Keys => RevokedWithGrant
  BY DEF Keys
<1> QED BY <1>1, <1>2, <1>3, TypedThroughout, PTL DEF Spec

---------------------------------------------------------------------------
(* What the journal says of the accounts *)

\* Neither an operator nor a compensation came to the grant; nor was it left to a person.
clear(g) == ~marked(g, {"deleted", "undone"})
wanted(g) == ~marked(g, {"deleted", "undone", "left"})
whole(g) == account[g] = "ours" /\ secret[g] = "active"
Working == {"create", "created", "escrowed", "applied", "confirm", "activate", "activated"}

\* A step, as the journal or a run's copy has it, with the grant's marks, account and credential.
Fits(s, g, m, a, k) ==
  /\ g \in Remote => s \in {"none", "remote", "active", "compensated"}
  /\ g \in Local => s # "remote"
  /\ s = "compensated" => m \cap {"deleted", "undone"} # {}
  /\ s = "manual" => "left" \in m
  /\ s \in CREATED /\ g \in Local /\ m \cap {"deleted", "undone"} = {} => a = "ours"
  /\ s = "active" /\ m \cap {"deleted", "undone"} = {} => a = "ours" /\ k = "active"
fits(s, g) == Fits(s, g, marks[g], account[g], secret[g])
fits_next(s, g) == Fits(s, g, marks'[g], account'[g], secret'[g])
Steps == \A g \in Grants : fits(step[g], g) /\ \A r \in Runners : fits(run[r].seen[g], g)

\* A run, by where it is.
Carried(r) ==
  /\ run[r].pc = "mark" => run[r].at = 1
  /\ run[r].pc \in Stepping => run[r].at \in Local
  /\ run[r].pc \in Working \ {"create"} /\ clear(run[r].at) => account[run[r].at] = "ours"
  /\ run[r].pc = "activated" /\ clear(run[r].at) => secret[run[r].at] = "active"
  /\ run[r].pc \in {"undone", "purge"} => ~clear(run[r].at)
  /\ run[r].pc \in Working \cup {"advance"} => \A g \in Local : g < run[r].at /\ wanted(g) => whole(g)
  /\ run[r].pc = "settle" => \A g \in Local : wanted(g) => whole(g)
  /\ run[r].pc = "finish" => \A g \in Grants : (g \in Local \/ ~run[r].flag) /\ wanted(g) => whole(g)

\* The rows before and after the operation began.
Rows ==
  /\ op # "none" => \A g \in Grants : clear(g) => row[g] = "live" /\ (g \in Remote => secret[g] \in {"pending", "active"})
  /\ op = "none" => del = NoDelete /\ \A g \in Grants : row[g] = "none" /\ secret[g] = "none"
  /\ \A r \in Runners : run[r].pc = "reserve" => op = "none" /\ \A q \in Runners : q # r => run[q].pc = "idle"
  /\ del.pc # "idle" => del.grant \in Local /\ "deleted" \in marks[del.grant]

Held == Steps /\ (\A r \in Runners : Carried(r)) /\ Rows /\ SucceededIsWhole

\* What is whole stays whole, unless the grant is taken back.
Lasts(g) == clear(g)' => (account[g] = "ours" => account'[g] = "ours") /\ (secret[g] = "active" => secret'[g] = "active")
\* A success, in the next state.
Succeeds == op' = "succeeded" => op = "succeeded" \/ \A g \in Grants : wanted(g)' /\ "early" \notin marks'[g] => whole(g)'

\* Notes are not taken back.
LEMMA Clearer ==
  ASSUME Grown
  PROVE  /\ \A g \in Grants : clear(g)' => clear(g)
         /\ \A g \in Grants : wanted(g)' => wanted(g) /\ clear(g)'
         /\ \A g \in Grants : marked(g, {"left"}) => marked(g, {"left"})'
BY DEF Grown, clear, wanted, marked

\* What fitted fits.
LEMMA FitsStays ==
  ASSUME Grown, NEW g \in Grants, Lasts(g), NEW s, fits(s, g)
  PROVE  fits_next(s, g)
<1>1. marks[g] \subseteq marks'[g]
  BY DEF Grown
<1> QED BY <1>1 DEF fits, fits_next, Fits, Lasts, clear, marked

\* A run that does not move.
LEMMA CarriedStays ==
  ASSUME Base, Grown, \A g \in Grants : Lasts(g), NEW r \in Runners, Carried(r), run'[r] = run[r]
  PROVE  Carried(r)'
<1>1. \A g \in Grants : wanted(g)' => wanted(g) /\ (whole(g) => whole(g)')
  BY Clearer DEF Lasts, whole
<1>2. Local \subseteq Grants /\ (run[r].pc \in Working \cup Stepping => run[r].at \in Grants)
  BY DEF Local, Base, Placed, Stepping, Working
<1>3. run[r].pc \in Working \ {"create"} => Lasts(run[r].at) /\ (clear(run[r].at)' => clear(run[r].at))
  BY <1>2, Clearer
<1>4. (run[r].pc \in Working \ {"create"} /\ clear(run[r].at) => account[run[r].at] = "ours")'
  BY <1>3 DEF Carried, Lasts
<1>5. (run[r].pc = "activated" /\ clear(run[r].at) => secret[run[r].at] = "active")'
  BY <1>3 DEF Carried, Lasts, Working
<1>6. (run[r].pc \in {"undone", "purge"} => ~clear(run[r].at))'
  BY <1>2, Clearer DEF Carried, Stepping
<1>7. /\ (run[r].pc \in Working \cup {"advance"} => \A g \in Local : g < run[r].at /\ wanted(g) => whole(g))'
      /\ (run[r].pc = "settle" => \A g \in Local : wanted(g) => whole(g))'
      /\ (run[r].pc = "finish" => \A g \in Grants : (g \in Local \/ ~run[r].flag) /\ wanted(g) => whole(g))'
  BY <1>1, <1>2 DEF Carried
<1> QED BY <1>4, <1>5, <1>6, <1>7 DEF Carried

\* An ended operation that nothing reopens.
LEMMA SuccessStays ==
  ASSUME Grown, SucceededIsWhole, \A g \in Grants : Lasts(g), Succeeds
  PROVE  SucceededIsWhole'
<1> SUFFICES ASSUME op' = "succeeded", NEW g \in Grants, ~marked(g, {"deleted", "undone", "left", "early"})'
             PROVE  whole(g)'
  BY DEF SucceededIsWhole, whole
<1>1. wanted(g)' /\ clear(g)' /\ "early" \notin marks'[g] /\ ~marked(g, {"deleted", "undone", "left", "early"})
  BY DEF wanted, clear, marked, Grown
<1>2. CASE op = "succeeded"
  BY <1>1, <1>2 DEF SucceededIsWhole, Lasts, whole
<1> QED BY <1>1, <1>2 DEF Succeeds

\* The steps, where they come from.
LEMMA StepsStay ==
  ASSUME Grown, Steps, \A g \in Grants : Lasts(g), \A g \in Grants : step'[g] = step[g] \/ fits_next(step'[g], g),
         \A r \in Runners, g \in Grants : run'[r].seen[g] \in {run[r].seen[g], step[g], step'[g], "none"}
  PROVE  Steps'
<1>1. ASSUME NEW g \in Grants PROVE fits_next(step[g], g) /\ fits_next("none", g) /\ \A r \in Runners : fits_next(run[r].seen[g], g)
  <2>1. fits("none", g)
    BY DEF fits, Fits, CREATED
  <2> QED BY <2>1, FitsStays DEF Steps
<1>2. ASSUME NEW g \in Grants PROVE fits_next(step'[g], g)
  BY <1>1
<1>3. ASSUME NEW g \in Grants, NEW r \in Runners PROVE fits_next(run'[r].seen[g], g)
  BY <1>1, <1>2
<1> QED BY <1>2, <1>3 DEF Steps, fits, fits_next

\* A step of a run.
LEMMA RunnerHeld ==
  ASSUME Base, Held, Grown, \A g \in Grants : Lasts(g), NEW r \in Runners, Turned(r),
         \A g \in Grants : step'[g] = step[g] \/ fits_next(step'[g], g),
         \A g \in Grants : run'[r].seen[g] \in {run[r].seen[g], step[g], step'[g], "none"},
         Carried(r)', Rows', Succeeds
  PROVE  Held'
<1>1. Steps'
  BY StepsStay DEF Held, Turned
<1>2. \A q \in Runners : Carried(q)'
  BY CarriedStays DEF Held, Turned
<1> QED BY <1>1, <1>2, SuccessStays DEF Held

\* A step of somebody else.
LEMMA BesideHeld ==
  ASSUME Base, Held, Grown, \A g \in Grants : Lasts(g), run' = run, \A g \in Grants : step'[g] = step[g] \/ fits_next(step'[g], g), Rows', Succeeds
  PROVE  Held'
<1>1. Steps'
  BY StepsStay DEF Held
<1>2. \A q \in Runners : Carried(q)'
  BY CarriedStays DEF Held
<1> QED BY <1>1, <1>2, SuccessStays DEF Held

\* A run at work leaves the rows.
LEMMA RowsStay ==
  ASSUME Rows, Grown, NEW r \in Runners, Turned(r), run[r].pc \notin {"idle", "reserve"}, run'[r].pc # "reserve",
         UNCHANGED <<row, del>>, \A h \in Remote : secret'[h] = secret[h], op # "none", op' # "none"
  PROVE  Rows'
<1>1. \A g \in Grants : clear(g)' => clear(g)
  BY Clearer
<1>2. \A q \in Runners : run'[q].pc # "reserve"
  BY DEF Rows, Turned
<1>3. del.pc # "idle" => del.grant \in Local /\ "deleted" \in marks'[del.grant]
  BY DEF Rows, Grown, Local
<1> QED BY <1>1, <1>2, <1>3 DEF Rows

\* A purge of grants that were taken back.
LEMMA PurgeLasts ==
  ASSUME Base, Noting, NEW set, purge(set), \A g \in Grants : g \in set => ~clear(g), UNCHANGED account
  PROVE  \A g \in Grants : Lasts(g)
<1>1. \A g \in Grants : clear(g)' => clear(g)
  BY PurgeNotes, Clearer
<1>2. \A g \in Grants : g \notin set => secret'[g] = secret[g]
  BY DEF purge
<1> QED BY <1>1, <1>2 DEF Lasts

\* What the runs do.
LEMMA RunnerLasts ==
  ASSUME Base, Noting, Held, Grown, NEW r \in Runners, Preflight(r) \/ Resume(r) \/ RunStep(r)
  PROVE  \A g \in Grants : Lasts(g)
<1>1. CASE UNCHANGED <<secret, account>>
  BY <1>1 DEF Lasts
<1>2. CASE Reserve(r)
  <2>1. run[r].pc = "reserve" /\ account' = account
    BY <1>2 DEF Reserve, in
  <2>2. \A g \in Grants : secret[g] = "none"
    BY <2>1 DEF Held, Rows
  <2> QED BY <2>1, <2>2 DEF Lasts
<1>3. CASE CreateDone(r) \/ CreateLost(r)
  BY <1>3 DEF CreateDone, CreateLost, store, Lasts, Base, Files
<1>4. CASE Escrow(r) \/ Activate(r)
  BY <1>4 DEF Escrow, Activate, Lasts, Base, Files
<1>5. CASE UndoAccount(r) \/ UndoFails(r)
  <2>1. run[r].at \in Grants /\ secret' = secret /\ (account' = account \/ account' = [account EXCEPT ![run[r].at] = "none"])
    BY <1>5 DEF UndoAccount, UndoFails, at, store
  <2>2. "undone" \in marks'[run[r].at]
    BY <1>5, <2>1, Notes DEF UndoAccount, UndoFails, at, Marks, Noting
  <2>3. \A g \in Grants : g = run[r].at => ~clear(g)'
    BY <2>2 DEF clear, marked
  <2>4. \A g \in Grants : g # run[r].at => account'[g] = account[g]
    BY <2>1 DEF Base, Files
  <2> QED BY <2>1, <2>3, <2>4 DEF Lasts
<1>6. CASE Close(r)
  <2>1. account' = account /\ \A g \in Grants : step[g] # "compensated" => secret'[g] = secret[g]
    BY <1>6 DEF Close
  <2>2. \A g \in Grants : step[g] = "compensated" => ~clear(g)
    BY DEF Held, Steps, fits, Fits, clear, marked
  <2> QED BY <2>1, <2>2, Clearer DEF Lasts
<1>7. CASE PurgeUndone(r)
  <2>1. run[r].pc = "purge" /\ account' = account /\ (UNCHANGED store \/ purge({run[r].at}))
    BY <1>7 DEF PurgeUndone, in, at
  <2>2. ~clear(run[r].at)
    BY <2>1 DEF Held, Carried
  <2>3. CASE UNCHANGED store
    BY <1>1, <2>1, <2>3 DEF store
  <2> QED BY <2>1, <2>2, <2>3, PurgeLasts
<1>8. \/ UNCHANGED <<secret, account>>
      \/ Reserve(r) \/ CreateDone(r) \/ CreateLost(r) \/ Escrow(r) \/ Activate(r) \/ UndoAccount(r) \/ UndoFails(r) \/ Close(r) \/ PurgeUndone(r)
  BY DEF RunStep, Forward, Compensate, Preflight, Resume, Read, MarkApplying, Advance, CreateRefused, CreateUnrecoverable,
     MarkApplied, MarkEscrowed, Confirm, MarkActive, Settle, Finish, MarkManualStep, MarkManual, MarkRefused, MarkCompensating, Reread,
     UndoNothing, MarkUndone, MarkCompensated, store
<1> QED BY <1>1, <1>2, <1>3, <1>4, <1>5, <1>6, <1>7, <1>8

\* A run that goes on without a write.
LEMMA MovesHeld ==
  ASSUME Base, Noting, Held, Grown, \A g \in Grants : Lasts(g), NEW r \in Runners, Turned(r), run[r].pc \notin {"idle", "reserve"},
         run'[r].pc # "reserve", UNCHANGED <<row, del>>, \A h \in Remote : secret'[h] = secret[h], op # "none", op' # "none", Succeeds,
         \A g \in Grants : step'[g] = step[g] \/ fits_next(step'[g], g),
         \A g \in Grants : run'[r].seen[g] \in {run[r].seen[g], step[g], step'[g], "none"}, Carried(r)'
  PROVE  Held'
<1>1. Rows'
  BY RowsStay DEF Held
<1> QED BY <1>1, RunnerHeld

\* A run that leaves.
LEMMA LeavesHeld ==
  ASSUME Base, Noting, Held, Grown, \A g \in Grants : Lasts(g), NEW r \in Runners, Turned(r), run'[r] = Idle, run[r].pc \notin {"idle", "reserve"},
         UNCHANGED <<step, row, del>>, \A h \in Remote : secret'[h] = secret[h], op # "none", op' # "none", Succeeds
  PROVE  Held'
<1>1. Carried(r)' /\ run'[r].pc # "reserve"
  BY Values DEF Carried, Stepping, Working
<1>2. \A g \in Grants : run'[r].seen[g] = "none"
  BY DEF Idle
<1> QED BY <1>1, <1>2, MovesHeld

\* The run's start.
LEMMA StartHeld ==
  ASSUME Base, Noting, Held, Grown, \A g \in Grants : Lasts(g), NEW r \in Runners, Preflight(r) \/ Reserve(r) \/ Resume(r) \/ Read(r) \/ MarkApplying(r)
  PROVE  Held'
<1>1. CASE Preflight(r) \/ Resume(r)
  <2>1. \E pc \in {"reserve", "read"} : Stays(r, pc)
    BY <1>1, Gotos DEF Preflight, Resume, Base, Pcs
  <2>2. UNCHANGED <<journal, store, account, del>> /\ run[r].pc = "idle" /\ (run'[r].pc = "reserve" => Preflight(r))
    <3>1. Resume(r) => Stays(r, "read")
      BY Gotos DEF Resume, Base, Pcs
    <3>2. Preflight(r) => run[r].pc = "idle"
      BY DEF Preflight, in
    <3> QED BY <1>1, <3>1, <3>2 DEF Preflight, Resume, in, Stays, Moved
  <2>3. Carried(r)' /\ run'[r].seen = run[r].seen /\ Turned(r)
    BY <2>1 DEF Carried, Stays, Moved, Stepping, Working
  <2>4. Rows'
    <3>1. ASSUME NEW q \in Runners, run'[q].pc = "reserve" PROVE op' = "none" /\ \A p \in Runners : p # q => run'[p].pc = "idle"
      <4>1. CASE q = r
        BY <2>2, <2>3, <3>1, <4>1 DEF Preflight, in, Turned, journal
      <4>2. CASE q # r
        <5>1. run[q].pc = "reserve"
          BY <2>3, <3>1, <4>2 DEF Turned
        <5>2. op = "none" /\ \E p \in Runners : run[p].pc # "idle"
          BY <5>1 DEF Held, Rows
        <5> QED BY <1>1, <5>2 DEF Preflight, Resume, in
      <4> QED BY <4>1, <4>2
    <3>2. del.pc # "idle" => del.grant \in Local /\ "deleted" \in marks'[del.grant]
      BY DEF Held, Rows, Grown, Local
    <3> QED BY <2>2, <3>1, <3>2, Clearer DEF Held, Rows, journal, store
  <2> QED BY <2>2, <2>3, <2>4, RunnerHeld DEF journal, Succeeds
<1>2. CASE Reserve(r)
  <2>1. Stays(r, "read") /\ UNCHANGED <<account, del>> /\ run[r].pc = "reserve" /\ op' # "none" /\ op' # "succeeded"
    BY <1>2, Gotos DEF Reserve, Base, Pcs, in
  <2>2. \A g \in Grants : /\ row'[g] = "live" /\ (g \in Remote => secret'[g] = "pending")
                          /\ step'[g] = IF g \in Remote THEN "remote" ELSE "pending"
    BY <1>2, GrantsAssumption DEF Reserve
  <2>3. \A g \in Grants : fits_next(step'[g], g)
    BY <2>2 DEF fits_next, Fits, Local, CREATED
  <2>4. Carried(r)' /\ run'[r].seen = run[r].seen /\ Turned(r)
    BY <2>1 DEF Carried, Stays, Moved, Stepping, Working
  <2>5. Rows'
    <3>1. \A q \in Runners : run'[q].pc # "reserve"
      BY <2>1 DEF Held, Rows, Stays, Moved, Turned
    <3>2. op = "none" /\ del = NoDelete
      BY <2>1 DEF Held, Rows
    <3> QED BY <2>1, <2>2, <3>1, <3>2 DEF Rows, NoDelete
  <2> QED BY <2>1, <2>3, <2>4, <2>5, RunnerHeld DEF Succeeds
<1>3. CASE Read(r)
  <2>1. /\ UNCHANGED <<journal, store, account, del>> /\ run[r].pc = "read"
        /\ run' = [run EXCEPT ![r] = IF op \in TERMINAL THEN Idle ELSE
             [pc |-> IF \A g \in Grants : step[g] \in SETTLED THEN "settle" ELSE "mark", at |-> 1, seen |-> step, flag |-> FALSE]]
    BY <1>3 DEF Read, in
  <2>2. Turned(r) /\ op # "none"
    <3>1. Base'
      BY <1>3, StartKeeps
    <3> QED BY <2>1, <3>1, Own DEF Turned, Base, Runs
  <2>3. CASE op \in TERMINAL
    <3>1. run'[r] = Idle
      BY <2>1, <2>3 DEF Base, Runs
    <3> QED BY <2>1, <2>2, <3>1, LeavesHeld DEF journal, store, Succeeds
  <2>4. CASE op \notin TERMINAL
    <3>1. run'[r] = [pc |-> IF \A g \in Grants : step[g] \in SETTLED THEN "settle" ELSE "mark", at |-> 1, seen |-> step, flag |-> FALSE]
      BY <2>1, <2>4 DEF Base, Runs
    <3>2. run'[r].seen = step /\ run'[r].at = 1 /\ run'[r].pc \in {"settle", "mark"} /\ (run'[r].pc = "settle" => \A g \in Grants : step[g] \in SETTLED)
      BY <3>1
    <3>3. ASSUME run'[r].pc = "settle", NEW g \in Local, wanted(g)' PROVE whole(g)'
      <4>1. g \in Grants /\ step[g] \in SETTLED /\ fits(step[g], g)
        BY <3>2, <3>3 DEF Local, Held, Steps
      <4>2. clear(g) /\ step[g] = "active"
        BY <3>3, <4>1, Clearer DEF fits, Fits, SETTLED
      <4>3. whole(g)
        BY <4>1, <4>2 DEF fits, Fits, whole, clear, marked
      <4> QED BY <2>1, <4>3 DEF whole, store
    <3>4. Carried(r)'
      BY <3>2, <3>3 DEF Carried, Stepping, Working
    <3> QED BY <2>1, <2>2, <3>2, <3>4, MovesHeld DEF journal, store, Succeeds
  <2> QED BY <2>3, <2>4
<1>4. CASE MarkApplying(r)
  <2>1. Stays(r, "advance") /\ UNCHANGED <<step, store, account, del>> /\ run[r].pc = "mark" /\ op' = "applying" /\ op # "none"
    BY <1>4, Gotos, Own DEF MarkApplying, Base, Pcs, in
  <2>2. run'[r].at = 1 /\ \A g \in Local : ~(g < 1)
    BY <2>1 DEF Held, Carried, Stays, Moved, Local, Grants
  <2>3. Carried(r)'
    BY <2>1, <2>2 DEF Carried, Stays, Moved, Stepping, Working
  <2> QED BY <2>1, <2>3, MovesHeld DEF Stays, Moved, store, Succeeds
<1> QED BY <1>1, <1>2, <1>3, <1>4

\* The loop over the steps.
LEMMA AdvanceHeld ==
  ASSUME Base, Noting, Held, Grown, \A g \in Grants : Lasts(g), NEW r \in Runners, Advance(r)
  PROVE  Held'
<1>1. /\ UNCHANGED <<journal, store, account, del, spent>> /\ run[r].pc = "advance" /\ run[r].at \in Grants /\ op # "none"
      /\ \/ Moved(r, "advance", run[r].at + 1) /\ run'[r].seen = run[r].seen
            /\ run[r].seen[run[r].at] \in SETTLED \cup {"compensated", "manual"}
         \/ Turned(r) /\ run'[r] = Idle
         \/ Stays(r, "create") /\ run[r].seen[run[r].at] = "pending"
         \/ Stays(r, "applied") /\ run[r].seen[run[r].at] = "applied"
         \/ Stays(r, "confirm") /\ run[r].seen[run[r].at] = "escrowed"
  BY AdvanceKeeps, Own
<1>2. fits(run[r].seen[run[r].at], run[r].at) /\ Carried(r) /\ N \in Nat
  BY <1>1, Own DEF Held, Steps
<1>3. \A g \in Local : g < run[r].at /\ wanted(g)' => whole(g)'
  <2>1. \A g \in Grants : whole(g)' <=> whole(g)
    BY <1>1 DEF whole, store
  <2> QED BY <1>1, <1>2, <2>1, Clearer DEF Carried, Local
<1>4. CASE Moved(r, "advance", run[r].at + 1) /\ run'[r].seen = run[r].seen /\ run[r].seen[run[r].at] \in SETTLED \cup {"compensated", "manual"}
  <2>1. ASSUME NEW g \in Local, g = run[r].at, wanted(g)' PROVE whole(g)'
    <3>0. g \in Grants
      BY DEF Local
    <3>1. clear(g) /\ wanted(g)
      BY <2>1, <3>0, Clearer
    <3>2. run[r].seen[g] = "active"
      BY <1>2, <1>4, <2>1, <3>1 DEF fits, Fits, SETTLED, wanted, clear, marked
    <3>3. whole(g)
      BY <1>2, <2>1, <3>1, <3>2 DEF fits, Fits, clear, marked, whole
    <3> QED BY <1>1, <3>3 DEF whole, store
  <2>2. \A g \in Local : g < run[r].at + 1 => g < run[r].at \/ g = run[r].at
    BY <1>1 DEF Local, Grants
  <2>3. \A g \in Local : g < run'[r].at /\ wanted(g)' => whole(g)'
    BY <1>3, <1>4, <2>1, <2>2 DEF Moved
  <2>4. Carried(r)'
    BY <1>4, <2>3 DEF Carried, Moved, Stepping, Working
  <2> QED BY <1>1, <1>4, <2>4, MovesHeld DEF Moved, journal, store, Succeeds
<1>5. CASE Turned(r) /\ run'[r] = Idle
  BY <1>1, <1>5, LeavesHeld DEF journal, store, Succeeds
<1>6. ASSUME NEW pc \in {"create", "applied", "confirm"}, Stays(r, pc), run[r].seen[run[r].at] \in {"pending", "applied", "escrowed"},
             pc # "create" => run[r].seen[run[r].at] \in CREATED
      PROVE  Held'
  <2>1. run[r].at \in Local
    BY <1>1, <1>2, <1>6 DEF fits, Fits, Local
  <2>2. ASSUME pc # "create", NEW g \in Grants, g = run[r].at, clear(g)' PROVE account'[g] = "ours"
    <3>1. clear(g)
      BY <2>2, Clearer
    <3> QED BY <1>1, <1>2, <1>6, <2>1, <2>2, <3>1 DEF fits, Fits, clear, marked
  <2>3. run'[r].pc = pc /\ run'[r].at = run[r].at /\ pc # "activated" /\ Turned(r) /\ run'[r].seen = run[r].seen
    BY <1>6 DEF Stays, Moved
  <2>4. Carried(r)'
    BY <1>1, <1>3, <2>1, <2>2, <2>3 DEF Carried, Stepping, Working
  <2> QED BY <1>1, <2>3, <2>4, MovesHeld DEF journal, store, Succeeds
<1> QED BY <1>1, <1>4, <1>5, <1>6 DEF CREATED

\* What a run that works on a step keeps of the steps before.
LEMMA Behind ==
  ASSUME Base, Held, Grown, \A g \in Grants : Lasts(g), NEW r \in Runners, run[r].pc \in Working \cup {"advance"}
  PROVE  \A g \in Local : g < run[r].at /\ wanted(g)' => whole(g)'
<1>1. \A g \in Local : g < run[r].at /\ wanted(g) => whole(g)
  BY DEF Held, Carried
<1>2. \A g \in Grants : wanted(g)' => wanted(g) /\ clear(g)'
  BY Clearer
<1> QED BY <1>1, <1>2 DEF Local, Lasts, whole

\* A run that goes to another place with the same step.
LEMMA WorksHeld ==
  ASSUME Base, Noting, Held, Grown, \A g \in Grants : Lasts(g), NEW r \in Runners, run[r].pc \in Working \cup {"manual", "refused"},
         NEW pc \in Working \cup {"manual", "refused", "stop", "compensate"}, Moved(r, pc, run[r].at), UNCHANGED <<row, del>>, \A h \in Remote : secret'[h] = secret[h], op' = op,
         \A g \in Grants : g = run[r].at /\ clear(g)' => (pc \in Working \ {"create"} => account'[g] = "ours") /\ (pc = "activated" => secret'[g] = "active"),
         pc \in Working => run[r].pc \in Working,
         \A g \in Grants : step'[g] = step[g] \/ fits_next(step'[g], g),
         \A g \in Grants : run'[r].seen[g] \in {run[r].seen[g], step[g], step'[g], "none"}
  PROVE  Held'
<1>1. run[r].at \in Local /\ run[r].at \in Grants /\ op # "none"
  BY Own DEF Held, Carried, Working, Stepping, Local
<1>2. pc \in Working => \A g \in Local : g < run[r].at /\ wanted(g)' => whole(g)'
  BY Behind
<1>3. run'[r].pc = pc /\ run'[r].at = run[r].at /\ Turned(r)
  BY DEF Moved
<1>4. Carried(r)'
  BY <1>1, <1>2, <1>3 DEF Carried, Stepping, Working
<1>5. pc # "reserve" /\ run[r].pc \notin {"idle", "reserve"}
  BY DEF Working
<1> QED BY <1>1, <1>3, <1>4, <1>5, MovesHeld DEF Succeeds

\* The adapter's create.
LEMMA CreateHeld ==
  ASSUME Base, Noting, Held, Grown, \A g \in Grants : Lasts(g), NEW r \in Runners, CreateDone(r) \/ CreateRefused(r) \/ CreateLost(r) \/ CreateUnrecoverable(r)
  PROVE  Held'
<1>1. run[r].pc = "create" /\ UNCHANGED <<journal, store, del>> /\ run[r].at \in Grants /\ op # "none"
  BY Own DEF CreateDone, CreateRefused, CreateLost, CreateUnrecoverable, in, Stepping
<1>2. op' = op /\ step' = step /\ row' = row /\ secret' = secret
  BY <1>1 DEF journal, store
<1>3. CASE CreateDone(r)
  <2>1. Stays(r, "created") /\ account'[run[r].at] = "ours"
    BY <1>1, <1>3, Gotos DEF CreateDone, at, Base, Files, Pcs
  <2> QED BY <1>1, <1>2, <2>1, WorksHeld DEF Stays, Working
<1>4. ASSUME NEW pc \in {"refused", "manual"}, goto(r, pc) PROVE Held'
  <2>1. Stays(r, pc)
    BY <1>4, Gotos DEF Base, Pcs
  <2> QED BY <1>1, <1>2, <2>1, WorksHeld DEF Stays, Working
<1>5. ASSUME raise(r) PROVE Held'
  BY <1>1, <1>2, <1>5, Raises, LeavesHeld DEF Base, Succeeds
<1> QED BY <1>3, <1>4, <1>5 DEF CreateRefused, CreateLost, CreateUnrecoverable

\* A checkpoint fits.
LEMMA CheckpointFits ==
  ASSUME Base, Held, Grown, NEW r \in Runners, run[r].pc \in {"escrowed", "applied"}, NEW status \in {"applied", "escrowed"}, UNCHANGED account
  PROVE  fits_next(status, run[r].at)
<1>1. run[r].at \in Local /\ run[r].at \in Grants
  BY DEF Held, Carried, Stepping, Local
<1>2. clear(run[r].at) => account[run[r].at] = "ours"
  BY DEF Held, Carried, Working
<1>3. marks[run[r].at] \subseteq marks'[run[r].at]
  BY <1>1 DEF Grown
<1> QED BY <1>1, <1>2, <1>3 DEF fits_next, Fits, clear, marked, Local

\* The checkpoints.
LEMMA MarksHeld ==
  ASSUME Base, Noting, Held, Grown, \A g \in Grants : Lasts(g), NEW r \in Runners,
         MarkApplied(r) \/ MarkEscrowed(r) \/ MarkManualStep(r) \/ MarkRefused(r)
  PROVE  Held'
<1>1. run[r].pc \in {"escrowed", "applied", "manual", "refused"} /\ UNCHANGED <<op, store, account, del>>
  BY DEF MarkApplied, MarkEscrowed, MarkManualStep, MarkRefused, in
<1>2. /\ run[r].at \in Grants /\ run[r].at \in Local /\ run[r].seen[run[r].at] \in StepStates
      /\ marks[run[r].at] \subseteq marks'[run[r].at] /\ row' = row /\ secret' = secret
  BY <1>1, Own DEF Stepping, Held, Carried, Grown, store
<1>3. ASSUME NEW status \in StepStates, NEW pc \in {"applied", "confirm", "stop", "compensate"}, mark(r, status, pc), fits_next(status, run[r].at),
             pc \in {"applied", "confirm"} => run[r].pc \in {"escrowed", "applied"}
      PROVE  Held'
  <2>1. /\ Moved(r, pc, run[r].at) /\ run'[r].seen = [run[r].seen EXCEPT ![run[r].at] = status]
        /\ step' = [step EXCEPT ![run[r].at] = status]
    BY <1>2, <1>3, MarkWrites DEF Base, Files, Pcs
  <2>2. \A g \in Grants : step'[g] = step[g] \/ fits_next(step'[g], g)
    BY <1>2, <1>3, <2>1 DEF Base, Files
  <2>3. \A g \in Grants : run'[r].seen[g] \in {run[r].seen[g], step'[g]}
    BY <1>2, <2>1, Own DEF Base, Files
  <2>4. ASSUME NEW g \in Grants, g = run[r].at, clear(g)', pc \in Working PROVE account'[g] = "ours"
    <3>1. clear(g) /\ run[r].pc \in {"escrowed", "applied"}
      BY <1>3, <2>4, Clearer DEF Working
    <3> QED BY <1>1, <2>4, <3>1 DEF Held, Carried, Working
  <2>5. pc # "activated" /\ (pc \in Working => run[r].pc \in Working) /\ run[r].pc \in Working \cup {"manual", "refused"}
        /\ pc \in Working \cup {"manual", "refused", "stop", "compensate"}
    BY <1>1, <1>3 DEF Working
  <2> QED BY <1>1, <1>2, <2>1, <2>2, <2>3, <2>4, <2>5, WorksHeld
<1>4. CASE MarkApplied(r)
  BY <1>1, <1>3, <1>4, CheckpointFits DEF MarkApplied, in, StepStates, CREATED
<1>5. CASE MarkEscrowed(r)
  BY <1>1, <1>3, <1>5, CheckpointFits DEF MarkEscrowed, in, StepStates, CREATED
<1>6. CASE MarkManualStep(r)
  <2>1. "left" \in marks'[run[r].at] /\ mark(r, "manual", "stop")
    BY <1>2, <1>6, Notes DEF MarkManualStep, at, Marks
  <2>2. fits_next("manual", run[r].at)
    BY <1>2, <2>1 DEF fits_next, Fits, CREATED, Local
  <2> QED BY <1>3, <2>1, <2>2 DEF StepStates
<1>7. CASE MarkRefused(r)
  <2>1. mark(r, run[r].seen[run[r].at], "compensate") /\ fits_next(run[r].seen[run[r].at], run[r].at)
    BY <1>2, <1>7, FitsStays DEF MarkRefused, seen, at, Held, Steps
  <2> QED BY <1>2, <1>3, <2>1
<1> QED BY <1>4, <1>5, <1>6, <1>7

\* The credential: escrowed, read back, activated.
LEMMA ConfirmHeld ==
  ASSUME Base, Noting, Held, Grown, \A g \in Grants : Lasts(g), NEW r \in Runners, Escrow(r) \/ Confirm(r) \/ Activate(r)
  PROVE  Held'
<1>1. run[r].pc \in {"created", "confirm", "activate"} /\ UNCHANGED <<journal, row, account, del>>
  BY DEF Escrow, Confirm, Activate, in, store
<1>2. run[r].at \in Grants /\ run[r].at \in Local /\ op # "none" /\ op' = op /\ step' = step
  BY <1>1, Own DEF Stepping, Held, Carried, journal
<1>3. \A g \in Remote : secret'[g] = secret[g]
  <2>1. \A g \in Remote : g \in Grants /\ g # run[r].at
    BY <1>2, GrantsAssumption DEF Local, Grants
  <2>2. secret' = secret \/ \E v : secret' = [secret EXCEPT ![run[r].at] = v]
    BY DEF Escrow, Confirm, Activate, at, store
  <2> QED BY <2>1, <2>2 DEF Base, Files
<1>4. \A g \in Grants : g = run[r].at /\ clear(g)' => account'[g] = "ours"
  BY <1>1, Clearer DEF Held, Carried, Working
<1>5. ASSUME NEW pc \in {"escrowed", "activate", "activated", "refused"}, goto(r, pc), pc = "activated" => secret'[run[r].at] = "active" PROVE Held'
  <2>1. Stays(r, pc)
    BY <1>5, Gotos DEF Base, Pcs
  <2> QED BY <1>1, <1>2, <1>3, <1>4, <1>5, <2>1, WorksHeld DEF Stays, Working
<1>6. ASSUME raise(r) PROVE Held'
  BY <1>1, <1>2, <1>3, <1>6, Raises, LeavesHeld DEF Base, Succeeds
<1>7. CASE Activate(r)
  <2>1. raise(r) \/ (goto(r, "activated") /\ secret' = [secret EXCEPT ![run[r].at] = "active"])
    BY <1>7 DEF Activate, at
  <2>2. secret' = [secret EXCEPT ![run[r].at] = "active"] => secret'[run[r].at] = "active"
    BY <1>2 DEF Base, Files
  <2> QED BY <1>5, <1>6, <2>1, <2>2
<1> QED BY <1>5, <1>6, <1>7 DEF Escrow, Confirm

\* A step that is done.
LEMMA ActiveHeld ==
  ASSUME Base, Noting, Held, Grown, \A g \in Grants : Lasts(g), NEW r \in Runners, MarkActive(r)
  PROVE  Held'
<1>1. /\ run[r].pc = "activated" /\ run[r].at \in Grants /\ run[r].at \in Local /\ UNCHANGED <<op, store, account, del>>
      /\ step' = [step EXCEPT ![run[r].at] = "active"] /\ op # "none"
  BY Own DEF MarkActive, in, at, Stepping, Held, Carried
<1>2. Moved(r, "advance", run[r].at + 1) /\ run'[r].seen = run[r].seen
  BY <1>1, Nexts DEF MarkActive, Base, Pcs
<1>3. \A g \in Grants : g = run[r].at /\ clear(g) => account[g] = "ours" /\ secret[g] = "active"
  BY <1>1 DEF Held, Carried, Working
<1>4. \A g \in Grants : g = run[r].at /\ clear(g)' => account'[g] = "ours" /\ secret'[g] = "active"
  BY <1>1, <1>3, Clearer DEF store
<1>5. ASSUME NEW g \in Grants, g = run[r].at PROVE fits_next("active", g)
  BY <1>1, <1>4, <1>5 DEF fits_next, Fits, Local, clear, marked
<1>6. \A g \in Grants : step'[g] = step[g] \/ fits_next(step'[g], g)
  BY <1>1, <1>5 DEF Base, Files
<1>7. \A g \in Local : g < run'[r].at /\ wanted(g)' => whole(g)'
  <2>1. \A g \in Local : g < run[r].at + 1 => g < run[r].at \/ g = run[r].at
    BY <1>1 DEF Local, Grants
  <2>2. \A g \in Local : g = run[r].at /\ wanted(g)' => whole(g)'
    BY <1>4, Clearer DEF Local, whole
  <2> QED BY <1>1, <1>2, <2>1, <2>2, Behind DEF Moved, Working
<1>8. Carried(r)'
  BY <1>2, <1>7 DEF Carried, Moved, Stepping, Working
<1> QED BY <1>1, <1>2, <1>6, <1>8, MovesHeld DEF Moved, store, Succeeds

\* The end of the run.
LEMMA FinishHeld ==
  ASSUME Base, Noting, Held, Grown, \A g \in Grants : Lasts(g), NEW r \in Runners, Settle(r) \/ Finish(r) \/ MarkManual(r) \/ MarkCompensated(r)
  PROVE  Held'
<1>1. CASE Settle(r)
  <2>1. /\ run[r].pc = "settle" \/ (run[r].pc = "advance" /\ run[r].at = N + 1)
        /\ UNCHANGED <<journal, store, account, del>>
        /\ run' = [run EXCEPT ![r] = [run[r] EXCEPT !.pc = "finish", !.flag = \E g \in Grants : step[g] = "remote"]]
    BY <1>1 DEF Settle, in, at
  <2>2. Turned(r) /\ run'[r].pc = "finish" /\ run'[r].seen = run[r].seen /\ (~run'[r].flag => \A g \in Grants : step[g] # "remote") /\ op # "none"
    <3>1. Base'
      BY <1>1, FinishKeeps
    <3>2. run'[r] = [run[r] EXCEPT !.pc = "finish", !.flag = \E g \in Grants : step[g] = "remote"] /\ run[r] \in RunSet
      BY <2>1 DEF Base, Runs
    <3>3. run'[r].pc = "finish" /\ run'[r].seen = run[r].seen /\ (~run'[r].flag => \A g \in Grants : step[g] # "remote")
      BY <3>2 DEF RunSet
    <3> QED BY <2>1, <3>1, <3>3, Own DEF Turned, Base, Runs
  <2>3. \A g \in Local : wanted(g) => whole(g)
    <3>1. \A g \in Local : g < N + 1
      BY GrantsAssumption DEF Local, Grants
    <3> QED BY <2>1, <3>1 DEF Held, Carried
  <2>4. ASSUME ~run'[r].flag, NEW g \in Remote, wanted(g) PROVE whole(g)
    <3>1. g \in Grants /\ g \in Remote
      BY GrantsAssumption DEF Grants
    <3>2. step[g] # "remote" /\ step[g] # "none" /\ fits(step[g], g) /\ clear(g)
      BY <2>1, <2>2, <2>4, <3>1, Own DEF Held, Steps, wanted, clear, marked
    <3>3. step[g] = "active"
      BY <3>1, <3>2 DEF fits, Fits, clear, marked
    <3> QED BY <3>2, <3>3 DEF fits, Fits, clear, marked, whole
  <2>5. \A g \in Grants : (g \in Local \/ ~run'[r].flag) /\ wanted(g)' => whole(g)'
    <3>1. \A g \in Grants : (g \in Local \/ ~run'[r].flag) /\ wanted(g) => whole(g)
      BY <2>3, <2>4 DEF Local
    <3>2. \A g \in Grants : (wanted(g)' => wanted(g)) /\ (whole(g) => whole(g)')
      BY <2>1, Clearer DEF whole, store
    <3> QED BY <3>1, <3>2
  <2>6. Carried(r)'
    BY <2>2, <2>5 DEF Carried, Stepping, Working
  <2> QED BY <2>1, <2>2, <2>6, MovesHeld DEF journal, store, Succeeds
<1>2. CASE Finish(r) \/ MarkManual(r) \/ MarkCompensated(r)
  <2>1. /\ run[r].pc \in {"finish", "stop", "close"} /\ raise(r) /\ UNCHANGED <<step, store, account, del>> /\ op' # "none" /\ op # "none"
        /\ op' = "succeeded" => run[r].pc = "finish" /\ ~run[r].flag
    BY <1>2, Own DEF Finish, MarkManual, MarkCompensated, in
  <2>2. Succeeds
    <3> SUFFICES ASSUME op' = "succeeded", NEW g \in Grants, wanted(g)' PROVE whole(g)'
      BY DEF Succeeds
    <3>1. wanted(g) /\ run[r].pc = "finish" /\ ~run[r].flag
      BY <2>1, Clearer
    <3> QED BY <2>1, <3>1 DEF Held, Carried, whole, store
  <2>3. Turned(r) /\ run'[r] = Idle
    BY <2>1, Raises DEF Base
  <2> QED BY <2>1, <2>2, <2>3, LeavesHeld DEF store
<1> QED BY <1>1, <1>2

\* The compensation of a step.
LEMMA UndoHeld ==
  ASSUME Base, Noting, Held, Grown, \A g \in Grants : Lasts(g), NEW r \in Runners,
         MarkCompensating(r) \/ Reread(r) \/ UndoNothing(r) \/ UndoAccount(r) \/ UndoFails(r) \/ MarkUndone(r)
  PROVE  Held'
<1>0. ASSUME Turned(r), run[r].pc \in {"compensate", "reread", "undo", "undone"}, UNCHANGED <<store, del>>, op' \in {op, "compensating"},
             run'[r].pc \in {"reread", "undo", "undone", "purge"},
             run'[r].pc \in {"undone", "purge"} => run'[r].at \in Local,
             \A g \in Grants : run'[r].pc \in {"undone", "purge"} /\ g = run'[r].at => ~clear(g)',
             \A g \in Grants : step'[g] = step[g] \/ fits_next(step'[g], g),
             \A g \in Grants : run'[r].seen[g] \in {run[r].seen[g], step[g], step'[g], "none"}
      PROVE  Held'
  <2>1. Carried(r)'
    <3>1. run'[r].pc \in {"undone", "purge"} => run'[r].at \in Grants
      BY <1>0 DEF Local
    <3> QED BY <1>0, <3>1 DEF Carried, Stepping, Working
  <2>2. op # "none" /\ op' # "none" /\ Succeeds
    BY <1>0, Own DEF Succeeds
  <2> QED BY <1>0, <2>1, <2>2, MovesHeld DEF store
<1>1. CASE MarkCompensating(r)
  <2>1. run[r].pc = "compensate" /\ op' = "compensating" /\ Stays(r, "reread") /\ UNCHANGED <<step, store, del>>
    BY <1>1, Gotos DEF MarkCompensating, Base, Pcs, in
  <2> QED BY <1>0, <2>1 DEF Stays, Moved
<1>2. CASE Reread(r)
  <2>1. /\ run[r].pc = "reread" /\ UNCHANGED <<journal, store, del>>
        /\ run' = [run EXCEPT ![r] = [pc |-> "undo", at |-> 1, seen |-> step, flag |-> FALSE]]
    BY <1>2 DEF Reread, in
  <2>2. Base'
    BY <1>2, UndoKeeps
  <2>3. Turned(r) /\ run'[r] = [pc |-> "undo", at |-> 1, seen |-> step, flag |-> FALSE]
    BY <2>1, <2>2 DEF Turned, Base, Runs
  <2> QED BY <1>0, <2>1, <2>3 DEF journal
<1>3. CASE UndoNothing(r)
  <2>1. run[r].pc = "undo" /\ run[r].at \in Grants /\ UNCHANGED <<op, store, del>> /\ step' = [step EXCEPT ![run[r].at] = "compensated"]
        /\ "undone" \in marks'[run[r].at]
    BY <1>3, Notes DEF UndoNothing, in, at, Marks
  <2>2. Moved(r, "undo", run[r].at + 1) /\ run'[r].seen = run[r].seen
    BY <1>3, <2>1, Nexts DEF UndoNothing, Base, Pcs
  <2>3. fits_next("compensated", run[r].at)
    BY <2>1 DEF fits_next, Fits, CREATED
  <2>4. \A g \in Grants : step'[g] = step[g] \/ fits_next(step'[g], g)
    BY <2>1, <2>3 DEF Base, Files
  <2> QED BY <1>0, <2>1, <2>2, <2>4 DEF Moved
<1>4. CASE UndoAccount(r)
  <2>1. run[r].pc = "undo" /\ run[r].at \in Grants /\ run[r].at \in Local /\ UNCHANGED <<journal, store, del>> /\ "undone" \in marks'[run[r].at]
    BY <1>4, Notes DEF UndoAccount, in, at, Marks, undoable
  <2>2. Stays(r, "undone")
    BY <1>4, Gotos DEF UndoAccount, Base, Pcs
  <2>3. \A g \in Grants : g = run[r].at => ~clear(g)'
    BY <2>1 DEF clear, marked
  <2> QED BY <1>0, <2>1, <2>2, <2>3 DEF Stays, Moved, journal
<1>5. CASE UndoFails(r)
  <2>1. /\ run[r].pc = "undo" /\ run[r].at \in Grants /\ run[r].at \in Local /\ UNCHANGED <<op, store, del>> /\ step' = [step EXCEPT ![run[r].at] = "manual"]
        /\ run' = [run EXCEPT ![r] = [run[r] EXCEPT !.at = run[r].at + 1, !.flag = TRUE]] /\ "left" \in marks'[run[r].at]
    BY <1>5 DEF UndoFails, in, at, undoable, Noting
  <2>2. Base'
    BY <1>5, UndoKeeps
  <2>3. Turned(r) /\ run'[r].pc = "undo" /\ run'[r].seen = run[r].seen
    BY <2>1, <2>2 DEF Turned, Base, Runs, RunSet
  <2>4. fits_next("manual", run[r].at)
    BY <2>1 DEF fits_next, Fits, CREATED, Local
  <2>5. \A g \in Grants : step'[g] = step[g] \/ fits_next(step'[g], g)
    BY <2>1, <2>4 DEF Base, Files
  <2> QED BY <1>0, <2>1, <2>3, <2>5
<1>6. CASE MarkUndone(r)
  <2>1. run[r].pc = "undone" /\ mark(r, "compensated", "purge") /\ UNCHANGED <<op, store, del>>
    BY <1>6 DEF MarkUndone, in
  <2>2. run[r].at \in Grants /\ run[r].at \in Local /\ ~clear(run[r].at) /\ marks[run[r].at] \subseteq marks'[run[r].at]
    BY <2>1 DEF Held, Carried, Stepping, Local, Grown
  <2>3. /\ Moved(r, "purge", run[r].at) /\ run'[r].seen = [run[r].seen EXCEPT ![run[r].at] = "compensated"]
        /\ step' = [step EXCEPT ![run[r].at] = "compensated"]
    BY <2>1, <2>2, MarkWrites DEF Base, Files, Pcs, StepStates
  <2>4. fits_next("compensated", run[r].at)
    BY <2>2 DEF fits_next, Fits, CREATED, clear, marked, Local
  <2>5. /\ \A g \in Grants : step'[g] = step[g] \/ fits_next(step'[g], g)
        /\ \A g \in Grants : run'[r].seen[g] \in {run[r].seen[g], step'[g]}
    BY <2>2, <2>3, <2>4, Own DEF Base, Files
  <2>6. \A g \in Grants : g = run[r].at => ~clear(g)'
    BY <2>2, Clearer
  <2> QED BY <1>0, <2>1, <2>2, <2>3, <2>5, <2>6 DEF Moved
<1> QED BY <1>1, <1>2, <1>3, <1>4, <1>5, <1>6

\* A row goes only when the grant was taken back.
LEMMA RowsGo ==
  ASSUME Rows, Grown, op # "none", op' # "none", \A r \in Runners : run'[r].pc # "reserve",
         \A g \in Grants : clear(g)' => row'[g] = row[g] /\ (g \in Remote => secret'[g] = secret[g] \/ secret'[g] = "active"),
         del'.pc = "idle" \/ (del'.grant = del.grant /\ del.pc # "idle")
  PROVE  Rows'
<1>1. \A g \in Grants : clear(g)' => clear(g)
  BY Clearer
<1>2. del'.pc # "idle" => del'.grant \in Local /\ "deleted" \in marks'[del'.grant]
  BY DEF Rows, Grown, Local
<1> QED BY <1>1, <1>2 DEF Rows

\* The rows of what was undone go.
LEMMA PurgesHeld ==
  ASSUME Base, Noting, Held, Grown, \A g \in Grants : Lasts(g), NEW r \in Runners, PurgeUndone(r) \/ Close(r)
  PROVE  Held'
<1>1. run[r].pc \in {"purge", "undo"} /\ UNCHANGED <<journal, account, del>> /\ op # "none"
  BY Own DEF PurgeUndone, Close, in
<1>2. ASSUME Turned(r), run'[r].pc \in {"idle", "undo", "close"}, run'[r].seen = run[r].seen \/ run'[r] = Idle,
             \A g \in Grants : clear(g) => row'[g] = row[g] /\ secret'[g] = secret[g]
      PROVE  Held'
  <2>1. Carried(r)'
    BY <1>2 DEF Carried, Stepping, Working
  <2>2. \A q \in Runners : run'[q].pc # "reserve"
    BY <1>1, <1>2 DEF Held, Rows, Turned
  <2>3. Rows'
    <3>1. \A g \in Grants : clear(g)' => clear(g)
      BY Clearer
    <3>2. del' = del /\ op' = op
      BY <1>1 DEF journal
    <3> QED BY <1>1, <1>2, <2>2, <3>1, <3>2, RowsGo DEF Held, Rows
  <2>4. \A g \in Grants : run'[r].seen[g] \in {run[r].seen[g], "none"}
    BY <1>2 DEF Idle
  <2> QED BY <1>1, <1>2, <2>1, <2>3, <2>4, RunnerHeld DEF journal, Succeeds
<1>3. CASE Close(r)
  <2>1. Stays(r, "close")
    BY <1>3, Gotos DEF Close, Base, Pcs
  <2>2. \A g \in Grants : step[g] = "compensated" => ~clear(g)
    BY DEF Held, Steps, fits, Fits, clear, marked
  <2>3. \A g \in Grants : step[g] # "compensated" => row'[g] = row[g] /\ secret'[g] = secret[g]
    BY <1>3 DEF Close
  <2> QED BY <1>2, <2>1, <2>2, <2>3 DEF Stays, Moved
<1>4. CASE PurgeUndone(r)
  <2>1. run[r].pc = "purge" /\ run[r].at \in Grants /\ ~clear(run[r].at)
    BY <1>4, Own DEF PurgeUndone, in, Stepping, Held, Carried
  <2>2. \A g \in Grants : g # run[r].at => row'[g] = row[g] /\ secret'[g] = secret[g]
    BY <1>4 DEF PurgeUndone, purge, at, store
  <2>3. CASE next(r, "undo")
    <3>1. Moved(r, "undo", run[r].at + 1) /\ run'[r].seen = run[r].seen
      BY <2>1, <2>3, Nexts DEF Base, Pcs
    <3> QED BY <1>2, <2>1, <2>2, <3>1 DEF Moved
  <2>4. CASE raise(r)
    <3>1. Turned(r) /\ run'[r] = Idle /\ run'[r].pc = "idle"
      BY <2>4, Raises DEF Base
    <3> QED BY <1>2, <2>1, <2>2, <3>1
  <2> QED BY <1>4, <2>3, <2>4 DEF PurgeUndone
<1> QED BY <1>3, <1>4

\* A report or a withdrawal ends the operation.
LEMMA ReportSucceeds ==
  ASSUME Base, NEW steps, step' = steps, op' = IF steps = step THEN op ELSE settled(steps),
         \A g \in cut_short(steps) : "early" \in marks'[g], \A g \in Grants : fits_next(step'[g], g)
  PROVE  Succeeds
<1> SUFFICES ASSUME op' = "succeeded", op # "succeeded", NEW g \in Grants, wanted(g)', "early" \notin marks'[g] PROVE whole(g)'
  BY DEF Succeeds
<1>1. steps # step /\ settled(steps) # op
  OBVIOUS
<1>2. steps[g] = "active"
  BY <1>1 DEF cut_short
<1>3. fits_next("active", g)
  BY <1>2
<1> QED BY <1>3 DEF fits_next, Fits, whole, wanted, marked

\* The linked panel, and the withdrawal of a grant there.
LEMMA NodeHeld ==
  ASSUME Base, Noting, Held, Grown, NEW g \in Remote, Node(g) \/ DeleteRemote(g)
  PROVE  Held' /\ \A h \in Grants : Lasts(h)
<1>0. g \in Grants /\ g \notin Local
  BY GrantsAssumption DEF Grants, Local
<1>1. op # "none" /\ (\A r \in Runners : run[r].pc # "reserve") /\ run' = run /\ del' = del
  <2>1. row[g] # "none" /\ run' = run /\ del' = del
    BY DEF Node, NodeApplies, RemoteApplied, RemoteMissing, DeleteRemote
  <2> QED BY <1>0, <2>1 DEF Held, Rows
<1>2. /\ \A h \in Grants : clear(h)' => clear(h)
      /\ \A h \in Grants : row[h] # "live" => ~clear(h)
      /\ del'.pc = "idle" \/ (del'.grant = del.grant /\ del.pc # "idle")
  BY <1>1, Clearer DEF Held, Rows
<1>3. CASE NodeApplies(g)
  <2>1. UNCHANGED <<journal, store>> /\ \A h \in Grants : h # g => account'[h] = account[h]
    BY <1>3 DEF NodeApplies, Base, Files
  <2>2. account[g] = "ours" => row[g] = "deleted"
    BY <1>3 DEF NodeApplies
  <2>3. \A h \in Grants : Lasts(h)
    BY <1>0, <1>2, <2>1, <2>2 DEF Lasts, store
  <2>4. Rows'
    BY <1>1, <1>2, <2>1, RowsGo DEF Held, journal, store
  <2> QED BY <1>1, <2>1, <2>3, <2>4, BesideHeld DEF journal, Succeeds
<1>4. CASE RemoteMissing(g)
  <2>1. UNCHANGED <<journal, account>> /\ row[g] = "deleted" /\ purge({g})
    BY <1>4 DEF RemoteMissing
  <2>2. ~clear(g)
    BY <1>0, <1>2, <2>1
  <2>3. \A h \in Grants : Lasts(h)
    BY <2>1, <2>2, PurgeLasts
  <2>4. \A h \in Grants : h # g => row'[h] = row[h] /\ secret'[h] = secret[h]
    BY <2>1 DEF purge
  <2>5. Rows'
    BY <1>1, <1>2, <2>1, <2>2, <2>4, RowsGo DEF Held, journal
  <2> QED BY <1>1, <2>1, <2>3, <2>5, BesideHeld DEF journal, Succeeds
<1>5. CASE RemoteApplied(g)
  <2> DEFINE steps == [step EXCEPT ![g] = IF waiting /\ step[g] = "remote" THEN "active" ELSE step[g]]
  <2>1. /\ row[g] = "live" /\ account[g] = "ours" /\ UNCHANGED <<row, account>> /\ step' = steps
        /\ op' = (IF steps = step THEN op ELSE settled(steps)) /\ note(cut_short(steps), "early")
        /\ secret' = [secret EXCEPT ![g] = IF secret[g] = "pending" THEN "active" ELSE secret[g]]
    BY <1>5 DEF RemoteApplied
  <2>2. \A h \in Grants : step'[h] = step[h] \/ (h = g /\ step'[h] = "active")
    BY <2>1 DEF Base, Files
  <2>3. \A h \in Grants : (h # g => secret'[h] = secret[h]) /\ (secret[h] \in {"pending", "active"} /\ h = g => secret'[h] = "active")
    BY <2>1 DEF Base, Files
  <2> HIDE DEF steps
  <2>4. \A h \in Grants : Lasts(h)
    BY <2>1, <2>3 DEF Lasts
  <2>5. clear(g) => secret'[g] = "active"
    BY <1>0, <1>1, <2>3 DEF Held, Rows
  <2>6. fits_next("active", g)
    BY <1>0, <1>2, <2>1, <2>5 DEF fits_next, Fits, clear, marked
  <2>7. \A h \in Grants : fits_next(step'[h], h)
    <3>1. \A h \in Grants : fits_next(step[h], h)
      BY <2>4, FitsStays DEF Held, Steps
    <3> QED BY <2>2, <2>6, <3>1
  <2>8. \A h \in cut_short(steps) : "early" \in marks'[h]
    BY <2>1, Notes DEF Marks, cut_short
  <2>9. Succeeds
    BY <2>1, <2>7, <2>8, ReportSucceeds
  <2>10. op' # "none"
    BY <1>1, <2>1 DEF settled
  <2>11. \A h \in Grants : clear(h)' => row'[h] = row[h] /\ (h \in Remote => secret'[h] = secret[h] \/ secret'[h] = "active")
    BY <1>2, <2>1, <2>3, <2>5
  <2>12. Rows'
    BY <1>1, <1>2, <2>10, <2>11, RowsGo DEF Held
  <2> QED BY <1>1, <2>4, <2>7, <2>9, <2>12, BesideHeld
<1>6. CASE DeleteRemote(g)
  <2> DEFINE steps == [step EXCEPT ![g] = IF waiting /\ step[g] = "remote" THEN "compensated" ELSE step[g]]
  <2>1. /\ UNCHANGED <<secret, account>> /\ step' = steps /\ row' = [row EXCEPT ![g] = "deleted"]
        /\ op' = (IF steps = step THEN op ELSE settled(steps))
        /\ marks' = [h \in Grants |-> marks[h] \cup {m \in {"deleted", "early"} : IF m = "deleted" THEN h = g ELSE h \in cut_short(steps)}]
    BY <1>6 DEF DeleteRemote
  <2>2. \A h \in Grants : step'[h] = step[h] \/ (h = g /\ step'[h] = "compensated")
    BY <2>1 DEF Base, Files
  <2>3. \A h \in Grants : h # g => row'[h] = row[h]
    BY <2>1 DEF Base, Files
  <2> HIDE DEF steps
  <2>4. \A h \in Grants : Lasts(h)
    BY <2>1 DEF Lasts
  <2>5. "deleted" \in marks'[g] /\ (\A h \in cut_short(steps) : "early" \in marks'[h]) /\ ~clear(g)'
    <3>1. "deleted" \in marks'[g] /\ (\A h \in cut_short(steps) : "early" \in marks'[h])
      BY <1>0, <2>1 DEF cut_short
    <3> QED BY <3>1 DEF clear, marked
  <2>6. fits_next("compensated", g)
    BY <1>0, <2>5 DEF fits_next, Fits, CREATED
  <2>7. \A h \in Grants : fits_next(step'[h], h)
    <3>1. \A h \in Grants : fits_next(step[h], h)
      BY <2>4, FitsStays DEF Held, Steps
    <3> QED BY <2>2, <2>6, <3>1
  <2>9. Succeeds
    BY <2>1, <2>5, <2>7, ReportSucceeds
  <2>10. op' # "none"
    BY <1>1, <2>1 DEF settled
  <2>12. Rows'
    BY <1>1, <1>2, <2>1, <2>3, <2>5, <2>10, RowsGo DEF Held
  <2> QED BY <1>1, <2>4, <2>7, <2>9, <2>12, BesideHeld
<1> QED BY <1>3, <1>4, <1>5, <1>6 DEF Node

\* The operator, and others.
LEMMA OperatorHeld ==
  ASSUME Base, Noting, Held, Grown, (\E g \in Local : DeleteLocal(g) \/ Other(g)) \/ DeleteAccount \/ Forget \/ PurgeDeleted
  PROVE  Held' /\ \A h \in Grants : Lasts(h)
<1>1. run' = run /\ UNCHANGED journal
  BY DEF DeleteLocal, Other, DeleteAccount, Forget, PurgeDeleted
<1>2. \A h \in Grants : clear(h)' => clear(h)
  BY Clearer
<1>3. ASSUME \A h \in Grants : Lasts(h), Rows' PROVE Held' /\ \A h \in Grants : Lasts(h)
  BY <1>1, <1>3, BesideHeld DEF journal, Succeeds
<1>4. ASSUME NEW g \in Local, DeleteLocal(g) PROVE Held' /\ \A h \in Grants : Lasts(h)
  <2>1. row[g] = "live" /\ UNCHANGED <<store, account>> /\ del' = [pc |-> "account", grant |-> g] /\ note({g}, "deleted") /\ g \in Grants
    BY <1>4 DEF DeleteLocal, Local
  <2>2. op # "none" /\ op' = op
    BY <1>1, <2>1 DEF Held, Rows, journal
  <2>3. "deleted" \in marks'[g] /\ del'.grant = g
    BY <2>1, Notes DEF Marks
  <2>4. Rows'
    BY <1>1, <1>2, <2>1, <2>2, <2>3 DEF Held, Rows, store
  <2> QED BY <1>3, <2>1, <2>4 DEF Lasts, store
<1>5. ASSUME NEW g \in Local, Other(g) PROVE Held' /\ \A h \in Grants : Lasts(h)
  <2>1. account[g] = "none" /\ account' = [account EXCEPT ![g] = "other"] /\ UNCHANGED <<store, del, marks>>
    BY <1>5 DEF Other
  <2>2. \A h \in Grants : account[h] = "ours" => account'[h] = "ours"
    BY <2>1 DEF Base, Files
  <2>3. Rows'
    BY <1>1, <2>1 DEF Held, Rows, store, journal, clear, marked
  <2> QED BY <1>3, <2>1, <2>2, <2>3 DEF Lasts, store
<1>6. CASE DeleteAccount \/ Forget \/ PurgeDeleted
  <2>1. del.pc # "idle"
    BY <1>6 DEF DeleteAccount, Forget, PurgeDeleted
  <2>2. op # "none" /\ del.grant \in Local /\ del.grant \in Grants /\ "deleted" \in marks[del.grant] /\ \A r \in Runners : run'[r].pc # "reserve"
    BY <1>1, <2>1 DEF Held, Rows, NoDelete, Local
  <2>3. \A h \in Grants : h = del.grant => ~clear(h)
    BY <2>2 DEF clear, marked
  <2>4. del'.pc = "idle" \/ (del'.grant = del.grant /\ del.pc # "idle")
    BY <1>6, <2>1 DEF DeleteAccount, Forget, PurgeDeleted, NoDelete, Base, Deletes
  <2>5. \A h \in Grants : h # del.grant => row'[h] = row[h] /\ secret'[h] = secret[h] /\ account'[h] = account[h]
    <3>1. CASE DeleteAccount
      BY <3>1 DEF DeleteAccount, store, Base, Files
    <3>2. CASE Forget
      BY <3>2 DEF Forget, Base, Files
    <3>3. CASE PurgeDeleted
      BY <3>3 DEF PurgeDeleted, store, purge
    <3> QED BY <1>6, <3>1, <3>2, <3>3
  <2>6. Rows'
    BY <1>1, <1>2, <2>2, <2>3, <2>4, <2>5, RowsGo DEF Held, journal
  <2> QED BY <1>2, <1>3, <2>3, <2>5, <2>6 DEF Lasts
<1> QED BY <1>4, <1>5, <1>6

\* A restart.
LEMMA RestartHeld ==
  ASSUME Base, Noting, Held, Grown, Restart
  PROVE  Held' /\ \A h \in Grants : Lasts(h)
<1>1. run' = [r \in Runners |-> Idle] /\ del' = NoDelete /\ UNCHANGED <<journal, store, account>>
  BY DEF Restart
<1>2. \A h \in Grants : Lasts(h)
  BY <1>1 DEF Lasts, store
<1>3. Steps'
  <2>1. \A r \in Runners, g \in Grants : run'[r].seen[g] = "none"
    BY <1>1 DEF Idle
  <2> QED BY <1>1, <1>2, <2>1, StepsStay DEF Held, journal
<1>4. \A r \in Runners : Carried(r)'
  BY <1>1, Values DEF Carried, Stepping, Working
<1>5. Rows'
  BY <1>1, Clearer, Values DEF Held, Rows, journal, store, NoDelete
<1>6. SucceededIsWhole'
  BY <1>1, <1>2, SuccessStays DEF Held, Succeeds, journal
<1> QED BY <1>2, <1>3, <1>4, <1>5, <1>6 DEF Held

\* Every step.
LEMMA NextHeld == Base /\ Noting /\ Held /\ [Next]_vars => Held'
<1> SUFFICES ASSUME Base, Noting, Held, [Next]_vars PROVE Held'
  OBVIOUS
<1>1. Grown
  BY NextNotes
<1>2. ASSUME NEW r \in Runners, Preflight(r) \/ Resume(r) \/ RunStep(r) PROVE Held'
  <2>1. \A g \in Grants : Lasts(g)
    BY <1>1, <1>2, RunnerLasts
  <2> QED BY <1>1, <1>2, <2>1, StartHeld, AdvanceHeld, CreateHeld, MarksHeld, ConfirmHeld, ActiveHeld, FinishHeld, UndoHeld, PurgesHeld
          DEF RunStep, Forward, Compensate
<1>3. CASE UNCHANGED vars
  <2>1. op' = op /\ step' = step /\ run' = run /\ del' = del /\ row' = row /\ secret' = secret /\ account' = account /\ marks' = marks
    BY <1>3 DEF vars, journal, store
  <2>2. Rows'
    BY <2>1 DEF Held, Rows, clear, marked
  <2> QED BY <1>1, <2>1, <2>2, BesideHeld DEF Lasts, Succeeds
<1> QED BY <1>1, <1>2, <1>3, NodeHeld, OperatorHeld, RestartHeld DEF Next

\* The first state.
LEMMA InitHeld == Init => Held
<1> SUFFICES ASSUME Init PROVE Held
  OBVIOUS
<1>1. \A r \in Runners : run[r].pc = "idle" /\ \A g \in Grants : run[r].seen[g] = "none"
  BY DEF Init, Idle
<1>2. Steps
  BY <1>1 DEF Init, Steps, fits, Fits, CREATED
<1>3. (\A r \in Runners : Carried(r)) /\ Rows /\ SucceededIsWhole
  BY <1>1 DEF Init, Carried, Rows, SucceededIsWhole, Stepping, Working, NoDelete
<1> QED BY <1>2, <1>3 DEF Held

\* What the journal says of the accounts, in every state.
THEOREM JournalHolds == Spec => [](Base /\ Noting /\ Held)
<1>1. Base /\ Noting /\ Held /\ [Next]_vars => Held'
  BY NextHeld
<1> QED BY <1>1, InitHeld, TypedThroughout, PTL DEF Spec

\* An operation that succeeded has every access it was asked for, for any number of grants, runs, restarts, lost
\* replies, refusals, deletions and accounts of others (run, advance, finish, remote_applied); the exceptions are
\* those of SucceededIsWhole, each of a grant that something else came to.
THEOREM SuccessIsWhole == Spec => []SucceededIsWhole
<1>1. Held => SucceededIsWhole
  BY DEF Held
<1> QED BY <1>1, JournalHolds, PTL

\* A run removes only what its operation created.
LEMMA OthersStay ==
  ASSUME Base, Noting, Held, [Next]_vars
  PROVE  \A g \in Grants : account[g] = "other" /\ ~marked(g, {"deleted", "undone"}) => account'[g] = "other"
<1> SUFFICES ASSUME NEW g \in Grants, account[g] = "other", clear(g) PROVE account'[g] = "other"
  BY DEF clear
<1>1. CASE UNCHANGED account
  BY <1>1
<1>2. ASSUME NEW r \in Runners, CreateDone(r) \/ CreateLost(r) PROVE account'[g] = "other"
  BY <1>2 DEF CreateDone, CreateLost, creatable, Base, Files
<1>3. ASSUME NEW r \in Runners, UndoAccount(r) \/ UndoFails(r) PROVE account'[g] = "other"
  <2>1. /\ undoable(r) /\ (account' = account \/ account' = [account EXCEPT ![run[r].at] = "none"])
        /\ run[r].at \in Grants
    BY <1>3 DEF UndoAccount, UndoFails, at
  <2>2. fits(run[r].seen[run[r].at], run[r].at)
    BY <2>1 DEF Held, Steps
  <2>3. run[r].at # g
    BY <2>1, <2>2 DEF undoable, seen, at, fits, Fits, clear, marked
  <2> QED BY <1>1, <2>1, <2>3 DEF Base, Files
<1>4. ASSUME NEW h \in Remote, Node(h) \/ DeleteRemote(h) PROVE account'[g] = "other"
  BY <1>4 DEF Node, NodeApplies, RemoteApplied, RemoteMissing, DeleteRemote, Base, Files
<1>5. ASSUME NEW h \in Local, DeleteLocal(h) \/ Other(h) PROVE account'[g] = "other"
  BY <1>5 DEF DeleteLocal, Other, Base, Files
<1>6. CASE DeleteAccount
  <2>1. "deleted" \in marks[del.grant]
    BY <1>6 DEF DeleteAccount, Held, Rows
  <2> QED BY <1>6, <2>1 DEF DeleteAccount, clear, marked, Base, Files
<1>7. ASSUME NEW r \in Runners, Preflight(r) \/ Resume(r) \/ RunStep(r) PROVE account'[g] = "other"
  <2>1. UNCHANGED account \/ CreateDone(r) \/ CreateLost(r) \/ UndoAccount(r) \/ UndoFails(r)
    BY <1>7 DEF RunStep, Forward, Compensate, Preflight, Resume, Reserve, Read, MarkApplying, Advance, CreateRefused, CreateUnrecoverable, Escrow,
       MarkApplied, MarkEscrowed, Confirm, Activate, MarkActive, Settle, Finish, MarkManualStep, MarkManual, MarkRefused, MarkCompensating, Reread,
       UndoNothing, MarkUndone, PurgeUndone, Close, MarkCompensated
  <2> QED BY <1>1, <1>2, <1>3, <2>1
<1>8. CASE Forget \/ PurgeDeleted \/ Restart \/ UNCHANGED vars
  BY <1>1, <1>8 DEF Forget, PurgeDeleted, Restart, vars
<1> QED BY <1>4, <1>5, <1>6, <1>7, <1>8 DEF Next

\* An account that somebody else created under the same name is not removed by a run, for any number of runs,
\* restarts and lost replies (compensate); the exceptions are those of OthersUntouched.
THEOREM OthersAreLeft == Spec => OthersUntouched
<1> DEFINE P == \A g \in Grants : account[g] = "other" /\ ~marked(g, {"deleted", "undone"}) => account'[g] = "other"
<1>1. Base /\ Noting /\ Held /\ [Next]_vars => P
  BY OthersStay
<1>2. OthersUntouched <=> [][P]_vars
  BY DEF OthersUntouched
<1> HIDE DEF P
<1> QED BY <1>1, <1>2, JournalHolds, PTL DEF Spec

---------------------------------------------------------------------------
(* A compensation, while no two runs meet *)

Met == \E g \in Grants : "met" \in marks[g]
AllMet == \A g, h \in Grants : "met" \in marks[g] => "met" \in marks[h]
Dropped == {"deleted", "left", "early", "unheard", "met"}
here(g) == ~marked(g, Dropped)
Away == {"idle", "reserve", "read"}
Fore == {"advance", "manual", "stop", "refused", "compensate"} \cup Working
Rear == {"reread", "undo", "undone", "purge", "close"}
Looping == {"mark", "advance", "refused", "undo", "undone", "purge"} \cup Working

Single == \A q, r \in Runners : q = r \/ run[q].pc \in Away \/ run[r].pc \in Away
\* Every step was taken back, and the grants with it.
Closed == \A g \in Grants : step[g] \in {"compensated", "manual"} /\ (step[g] = "compensated" => row[g] # "live")
\* The run and the journal.
Course(r) ==
  /\ run[r].pc \in Fore => op = "applying"
  /\ run[r].pc \in Rear => op = "compensating"
  /\ run[r].pc \in {"mark", "settle", "finish"} /\ op = "compensated" => \A g \in Grants : "early" \in marks[g]
  /\ run[r].pc \in Looping => \A g \in Local : g >= run[r].at => run[r].seen[g] = step[g]
  /\ run[r].pc \in {"create", "created", "escrowed"} /\ here(run[r].at) => row[run[r].at] # "none"
  /\ run[r].pc \in {"undone", "purge"} /\ here(run[r].at) => account[run[r].at] # "ours"
  /\ run[r].pc = "purge" => step[run[r].at] = "compensated"
  /\ run[r].pc \in {"undo", "undone", "purge"} => \A g \in Grants : g < run[r].at => step[g] \in {"compensated", "manual"}
  /\ run[r].pc = "close" => Closed
\* An account of the operation is in its journal, or its run is about to write it there.
making(g) == \E r \in Runners : run[r].at = g /\ run[r].pc \in {"created", "escrowed"}
Recorded == \A g \in Local : here(g) /\ account[g] = "ours" => (step[g] \in CREATED /\ row[g] # "none") \/ making(g)
Clean == op = "compensated" => \A g \in Grants : here(g) => row[g] # "live" /\ (g \in Local => account[g] # "ours")

Quiet == AllMet /\ (~Met => Single /\ Recorded /\ Clean /\ \A r \in Runners : Course(r))

\* The runs did not meet in this step.
Unmet == \A g \in Grants : "met" \in marks'[g] => "met" \in marks[g]

\* Only a run that reads the journal meets another.
LEMMA OthersUnmet ==
  ASSUME Noting, [Next]_vars, \A r \in Runners : ~Read(r)
  PROVE  Unmet
<1>1. CASE UNCHANGED marks
  BY <1>1 DEF Unmet
<1>2. CASE \E set : \E m \in Marks \ {"met"} : note(set, m)
  BY <1>2 DEF Unmet, note
<1>3. CASE \E set : purge(set)
  BY <1>3 DEF Unmet, note, purge
<1>4. ASSUME NEW r \in Runners, Preflight(r) \/ Resume(r) \/ RunStep(r) PROVE Unmet
  <2>1. CASE UndoFails(r)
    BY <2>1 DEF UndoFails, Unmet, Noting
  <2>2. Preflight(r) \/ Resume(r) \/ Reserve(r) \/ MarkApplying(r) \/ Advance(r) \/ CreateDone(r) \/ CreateRefused(r) \/ CreateUnrecoverable(r)
        \/ Escrow(r) \/ MarkApplied(r) \/ MarkEscrowed(r) \/ Confirm(r) \/ Activate(r) \/ MarkActive(r) \/ Settle(r) \/ Finish(r) \/ MarkManual(r)
        \/ MarkRefused(r) \/ MarkCompensating(r) \/ Reread(r) \/ MarkUndone(r) \/ MarkCompensated(r) => UNCHANGED marks
    BY DEF Preflight, Resume, Reserve, MarkApplying, Advance, CreateDone, CreateRefused, CreateUnrecoverable, Escrow, MarkApplied, MarkEscrowed,
       Confirm, Activate, MarkActive, Settle, Finish, MarkManual, MarkRefused, MarkCompensating, Reread, MarkUndone, MarkCompensated
  <2>3. CreateLost(r) \/ MarkManualStep(r) \/ UndoNothing(r) \/ UndoAccount(r) \/ Close(r) => \E set : \E m \in Marks \ {"met"} : note(set, m)
    BY DEF CreateLost, MarkManualStep, UndoNothing, UndoAccount, Close, Marks
  <2>4. PurgeUndone(r) => UNCHANGED marks \/ \E set : purge(set)
    BY DEF PurgeUndone
  <2> QED BY <1>1, <1>2, <1>3, <1>4, <2>1, <2>2, <2>3, <2>4 DEF RunStep, Forward, Compensate
<1>5. ASSUME NEW g \in Remote, DeleteRemote(g) PROVE Unmet
  BY <1>5 DEF DeleteRemote, Unmet
<1>6. ASSUME NEW g \in Remote, Node(g) PROVE Unmet
  <2>1. UNCHANGED marks \/ (\E set : \E m \in Marks \ {"met"} : note(set, m)) \/ \E set : purge(set)
    BY <1>6 DEF Node, NodeApplies, RemoteApplied, RemoteMissing, Marks
  <2> QED BY <1>1, <1>2, <1>3, <2>1
<1>7. ASSUME NEW g \in Local, DeleteLocal(g) \/ Other(g) PROVE Unmet
  <2>1. UNCHANGED marks \/ (\E set : \E m \in Marks \ {"met"} : note(set, m))
    BY <1>7 DEF DeleteLocal, Other, Marks
  <2> QED BY <1>1, <1>2, <2>1
<1>8. CASE DeleteAccount \/ Forget \/ PurgeDeleted \/ Restart
  <2>1. UNCHANGED marks \/ (\E set : \E m \in Marks \ {"met"} : note(set, m)) \/ \E set : purge(set)
    BY <1>8 DEF DeleteAccount, Forget, PurgeDeleted, Restart, Marks
  <2> QED BY <1>1, <1>2, <1>3, <2>1
<1> QED BY <1>1, <1>4, <1>5, <1>6, <1>7, <1>8 DEF Next, vars

\* What the marks say in the next state.
LEMMA Staying ==
  ASSUME Grown
  PROVE  /\ \A g \in Grants : here(g)' => here(g)
         /\ Met => Met'
BY DEF Grown, here, marked, Met

\* Steps that no run at work takes.
LEMMA BesideQuiet ==
  ASSUME Base, Held, Quiet, Grown, Unmet, \A r \in Runners : run'[r] = run[r] \/ (run[r].pc \in Away /\ run'[r].pc \in Away),
         \A g \in Local : step'[g] = step[g],
         \A g \in Local : here(g)' => (row'[g] = "none" => row[g] = "none") /\ (account'[g] = "ours" => account[g] = "ours"),
         \A g \in Grants : row'[g] = "live" => row[g] = "live",
         op = "applying" => op' = "applying", op = "compensating" => op' = "compensating" /\ step' = step,
         op' = "compensated" => op = "compensated" \/ \A g \in Grants : "early" \in marks'[g]
  PROVE  Quiet'
<1>1. AllMet'
  BY DEF Quiet, AllMet, Unmet, Grown
<1> SUFFICES ASSUME ~Met' PROVE Single' /\ Recorded' /\ Clean' /\ \A r \in Runners : Course(r)'
  BY <1>1 DEF Quiet
<1>2. Single /\ Recorded /\ Clean /\ \A r \in Runners : Course(r)
  BY Staying DEF Quiet
<1>3. Single' /\ \A g : making(g)' <=> making(g)
  BY <1>2 DEF Single, making, Away
<1>4. Recorded'
  <2> SUFFICES ASSUME NEW g \in Local, here(g)', account'[g] = "ours" PROVE (step'[g] \in CREATED /\ row'[g] # "none") \/ making(g)'
    BY DEF Recorded
  <2>1. here(g) /\ account[g] = "ours"
    BY Staying DEF Local
  <2> QED BY <1>2, <1>3, <2>1 DEF Recorded
<1>5. Clean'
  <2>1. \A g \in Grants : "early" \in marks'[g] => ~here(g)'
    BY DEF here, marked, Dropped
  <2>2. CASE op = "compensated"
    <3>1. \A g \in Grants : here(g)' => here(g)
      BY Staying
    <3> QED BY <1>2, <2>2, <3>1 DEF Clean, Local
  <2> QED BY <2>1, <2>2 DEF Clean
<1>6. ASSUME NEW r \in Runners PROVE Course(r)'
  <2>a. CASE run'[r].pc \in Away
    BY <2>a DEF Course, Away, Fore, Rear, Looping, Working
  <2> SUFFICES ASSUME run'[r].pc \notin Away PROVE Course(r)'
    BY <2>a
  <2>0. Course(r) /\ run'[r] = run[r] /\ Local \subseteq Grants
    BY <1>2 DEF Local
  <2>1. run[r].pc \in Stepping => run[r].at \in Local /\ run[r].at \in Grants
    BY DEF Held, Carried, Local
  <2>2. (run[r].pc \in Fore => op = "applying")' /\ (run[r].pc \in Rear => op = "compensating")'
    BY <2>0 DEF Course
  <2>3. (run[r].pc \in {"mark", "settle", "finish"} /\ op = "compensated" => \A g \in Grants : "early" \in marks[g])'
    BY <2>0 DEF Course, Grown
  <2>4. (run[r].pc \in Looping => \A g \in Local : g >= run[r].at => run[r].seen[g] = step[g])'
    BY <2>0 DEF Course
  <2>5. (run[r].pc \in {"create", "created", "escrowed"} /\ here(run[r].at) => row[run[r].at] # "none")'
    <3>1. ASSUME run[r].pc \in {"create", "created", "escrowed"}, NEW g \in Local, g = run[r].at, here(g)' PROVE row'[g] # "none"
      BY <2>0, <3>1, Staying DEF Course
    <3> QED BY <2>0, <2>1, <3>1 DEF Stepping
  <2>6. (run[r].pc \in {"undone", "purge"} /\ here(run[r].at) => account[run[r].at] # "ours")'
    <3>1. ASSUME run[r].pc \in {"undone", "purge"}, NEW g \in Local, g = run[r].at, here(g)' PROVE account'[g] # "ours"
      BY <2>0, <3>1, Staying DEF Course
    <3> QED BY <2>0, <2>1, <3>1 DEF Stepping
  <2>7. run[r].pc \in Rear => step' = step
    BY <2>0 DEF Course
  <2>8. (run[r].pc = "purge" => step[run[r].at] = "compensated")'
    BY <2>0, <2>7 DEF Course, Rear
  <2>9. (run[r].pc \in {"undo", "undone", "purge"} => \A g \in Grants : g < run[r].at => step[g] \in {"compensated", "manual"})'
    <3>1. run[r].pc \in {"undo", "undone", "purge"} => \A g \in Grants : g < run[r].at => step[g] \in {"compensated", "manual"}
      BY <2>0 DEF Course
    <3> QED BY <2>0, <2>7, <3>1 DEF Rear
  <2>10. (run[r].pc = "close" => Closed)'
    <3>1. run[r].pc = "close" => Closed
      BY <2>0 DEF Course
    <3>2. Closed /\ step' = step => Closed'
      BY DEF Closed
    <3> QED BY <2>0, <2>7, <3>1, <3>2 DEF Rear
  <2> QED BY <2>2, <2>3, <2>4, <2>5, <2>6, <2>8, <2>9, <2>10 DEF Course
<1> QED BY <1>3, <1>4, <1>5, <1>6

\* A step of the only run at work.
LEMMA WorkerQuiet ==
  ASSUME Base, Quiet, Grown, Unmet, NEW r \in Runners, Turned(r), run[r].pc \notin Away,
         ~Met' => Recorded' /\ Clean' /\ Course(r)'
  PROVE  Quiet'
<1>1. AllMet'
  BY DEF Quiet, AllMet, Unmet, Grown
<1> SUFFICES ASSUME ~Met' PROVE Single' /\ \A q \in Runners : Course(q)'
  BY <1>1 DEF Quiet
<1>2. \A q \in Runners : q # r => run'[q].pc \in Away
  BY Staying DEF Quiet, Single, Turned
<1>3. Single'
  BY <1>2 DEF Single
<1>4. \A q \in Runners : q # r => Course(q)'
  BY <1>2 DEF Course, Away, Fore, Rear, Looping, Working
<1> QED BY <1>3, <1>4

\* The only run at work.
LEMMA AtWork ==
  ASSUME Base, Noting, Held, Quiet, Grown, ~Met', NEW r \in Runners, run[r].pc \notin Away
  PROVE  /\ Recorded /\ Clean /\ Course(r) /\ \A q \in Runners : q # r => run[q].pc \in Away
         /\ \A g : making(g) <=> run[r].at = g /\ run[r].pc \in {"created", "escrowed"}
         /\ \A g \in Grants : here(g)' => here(g)
<1>1. Single /\ Recorded /\ Clean /\ Course(r) /\ \A g \in Grants : here(g)' => here(g)
  BY Staying DEF Quiet
<1>2. \A q \in Runners : q # r => run[q].pc \in Away
  BY <1>1 DEF Single
<1> QED BY <1>1, <1>2 DEF making, Away

\* What is recorded stays so while the accounts stay.
LEMMA RecordedStays ==
  ASSUME Base, Noting, Held, Quiet, Grown, ~Met', NEW r \in Runners, run[r].pc \notin Away, Turned(r),
         \A g \in Local : here(g)' /\ account'[g] = "ours" =>
           \/ /\ account[g] = "ours" /\ ((run[r].at = g /\ run[r].pc \in {"created", "escrowed"}) => run'[r].at = g /\ run'[r].pc \in {"created", "escrowed"})
              /\ step[g] \in CREATED /\ row[g] # "none" => step'[g] \in CREATED /\ row'[g] # "none"
           \/ step'[g] \in CREATED /\ row'[g] # "none"
           \/ run'[r].at = g /\ run'[r].pc \in {"created", "escrowed"}
  PROVE  Recorded'
<1> SUFFICES ASSUME NEW g \in Local, here(g)', account'[g] = "ours" PROVE (step'[g] \in CREATED /\ row'[g] # "none") \/ making(g)'
  BY DEF Recorded
<1>1. (run'[r].at = g /\ run'[r].pc \in {"created", "escrowed"}) => making(g)'
  BY DEF making
<1>2. here(g) /\ (account[g] = "ours" => (step[g] \in CREATED /\ row[g] # "none") \/ (run[r].at = g /\ run[r].pc \in {"created", "escrowed"}))
  BY AtWork DEF Recorded, Local
<1> QED BY <1>1, <1>2

\* A run on its way.
LEMMA ForeStep ==
  ASSUME Held', NEW r \in Runners, run'[r].pc \in Fore \cup {"idle"}, op' # "compensated", run'[r].pc # "idle" => op' = "applying",
         \A g \in Local : run'[r].pc \in Looping /\ g >= run'[r].at => run'[r].seen[g] = step'[g],
         \A g \in Local : run'[r].pc \in {"create", "created", "escrowed"} /\ g = run'[r].at /\ here(g)' => row'[g] # "none"
  PROVE  Clean' /\ Course(r)'
<1>1. Clean'
  BY DEF Clean
<1>2. /\ run'[r].pc \in {"create", "created", "escrowed"} => run'[r].at \in Local
      /\ run'[r].pc \notin Rear /\ run'[r].pc \notin {"mark", "settle", "finish", "undo", "undone", "purge", "close"}
  BY DEF Fore, Rear, Working, Held, Carried, Stepping
<1>3. Course(r)'
  BY <1>2 DEF Course, Fore, Looping, Working
<1> QED BY <1>1, <1>3

\* The loop over the steps.
LEMMA AdvanceQuiet ==
  ASSUME Base, Noting, Held, Held', Quiet, Grown, ~Met', NEW r \in Runners, MarkApplying(r) \/ Advance(r)
  PROVE  Turned(r) /\ run[r].pc \notin Away /\ Recorded' /\ Clean' /\ Course(r)'
<1>1. /\ run[r].pc \in {"mark", "advance"} /\ UNCHANGED <<step, store, account>> /\ run[r].at \in Nat /\ run[r].at \in 1..N + 1
      /\ MarkApplying(r) => op' = "applying"
      /\ Advance(r) => op' = op
  <2>1. run[r].pc \in {"mark", "advance"} /\ UNCHANGED <<step, store, account>>
    BY DEF MarkApplying, Advance, in, journal
  <2>2. run[r].at \in 1..N + 1 /\ N \in Nat
    BY <2>1, Own
  <2>3. (MarkApplying(r) => op' = "applying") /\ (Advance(r) => op' = op)
    BY DEF MarkApplying, Advance, journal
  <2> QED BY <2>1, <2>2, <2>3
<1>2. /\ Recorded /\ Course(r) /\ \A g \in Grants : here(g)' => here(g)
      /\ run[r].pc \notin Away
  BY <1>1, AtWork DEF Away
<1>3. /\ Turned(r) /\ run'[r].pc \in {"advance", "create", "applied", "confirm", "idle"}
      /\ run'[r].pc # "idle" => run'[r].at \in Nat /\ run'[r].at >= run[r].at /\ run'[r].seen = run[r].seen
      /\ run'[r].pc = "create" => run'[r].at = run[r].at /\ row[run[r].at] # "none"
  <2>1. CASE MarkApplying(r)
    <3>1. Stays(r, "advance")
      BY <2>1, Gotos DEF MarkApplying, Base, Pcs
    <3> QED BY <1>1, <3>1 DEF Stays, Moved
  <2>2. CASE Advance(r)
    <3>1. \/ Moved(r, "advance", run[r].at + 1) /\ run'[r].seen = run[r].seen
          \/ Turned(r) /\ run'[r] = Idle
          \/ row[run[r].at] # "none" /\ (Stays(r, "create") \/ Stays(r, "applied") \/ Stays(r, "confirm"))
      BY <2>2, AdvanceKeeps
    <3> QED BY <1>1, <3>1, Values DEF Stays, Moved
  <2> QED BY <2>1, <2>2
<1>4. op' = "applying"
  BY <1>1, <1>2 DEF Course, Fore, MarkApplying, Advance, in
<1>5. Recorded'
  BY <1>1, <1>2, <1>3, RecordedStays DEF store
<1>6. \A g \in Local : run'[r].pc \in Looping /\ g >= run'[r].at => run'[r].seen[g] = step'[g]
  <2>1. \A g \in Local : g >= run[r].at => run[r].seen[g] = step[g]
    BY <1>1, <1>2 DEF Course, Looping
  <2>2. \A g \in Local : run'[r].pc # "idle" /\ g >= run'[r].at => g >= run[r].at
    BY <1>1, <1>3 DEF Local, Grants
  <2> QED BY <1>1, <1>3, <2>1, <2>2 DEF Looping, Working
<1>7. \A g \in Local : run'[r].pc \in {"create", "created", "escrowed"} /\ g = run'[r].at /\ here(g)' => row'[g] # "none"
  BY <1>1, <1>3 DEF store
<1> QED BY <1>2, <1>3, <1>4, <1>5, <1>6, <1>7, ForeStep DEF Fore, Working

\* A run that stays at its step.
LEMMA StayQuiet ==
  ASSUME Base, Noting, Held, Held', Quiet, Grown, ~Met', NEW r \in Runners, run[r].pc \in Working, op' = op, step' = step, row' = row,
         NEW pc \in Working \cup {"manual", "refused"}, Stays(r, pc),
         pc \in {"create", "created", "escrowed"} => run[r].pc \in {"create", "created", "escrowed"},
         run[r].pc \in {"created", "escrowed"} => pc \in {"created", "escrowed"},
         \A g \in Local : here(g)' /\ account'[g] = "ours" => account[g] = "ours" \/ (g = run[r].at /\ pc = "created")
  PROVE  Turned(r) /\ run[r].pc \notin Away /\ Recorded' /\ Clean' /\ Course(r)'
<1>1. /\ Recorded /\ Course(r) /\ \A g \in Grants : here(g)' => here(g)
      /\ run[r].pc \notin Away
  BY AtWork DEF Away, Working
<1>2. Turned(r) /\ run'[r].pc = pc /\ run'[r].at = run[r].at /\ run'[r].seen = run[r].seen
  BY DEF Stays, Moved
<1>3. op' = "applying"
  BY <1>1 DEF Course, Fore
<1>4. Recorded'
  BY <1>1, <1>2, RecordedStays
<1>5. \A g \in Local : run'[r].pc \in Looping /\ g >= run'[r].at => run'[r].seen[g] = step'[g]
  BY <1>1, <1>2 DEF Course, Looping, Working
<1>6. \A g \in Local : run'[r].pc \in {"create", "created", "escrowed"} /\ g = run'[r].at /\ here(g)' => row'[g] # "none"
  BY <1>1, <1>2 DEF Course, Local
<1>7. run'[r].pc \in Fore
  BY <1>2 DEF Fore
<1> QED BY <1>1, <1>2, <1>3, <1>4, <1>5, <1>6, <1>7, ForeStep

\* A run that leaves.
LEMMA LeaveQuiet ==
  ASSUME Base, Noting, Held, Held', Quiet, Grown, ~Met', NEW r \in Runners, run[r].pc \in Fore \cup {"purge", "finish"}, op' # "compensated", step' = step,
         raise(r), \A g \in Local : here(g)' /\ account'[g] = "ours" => account[g] = "ours" /\ (row'[g] = "none" => row[g] = "none"),
         run[r].pc \notin {"created", "escrowed"}
  PROVE  Turned(r) /\ run[r].pc \notin Away /\ Recorded' /\ Clean' /\ Course(r)'
<1>1. Turned(r) /\ run'[r].pc = "idle"
  BY Raises DEF Base
<1>2. run[r].pc \notin Away
  BY DEF Away, Working, Fore
<1>3. Recorded'
  BY <1>1, <1>2, RecordedStays
<1>4. Clean' /\ Course(r)'
  BY <1>1, ForeStep DEF Looping, Working
<1> QED BY <1>1, <1>2, <1>3, <1>4

\* The adapter's create, the escrow, the read-back and the activation.
LEMMA CallsQuiet ==
  ASSUME Base, Noting, Held, Held', Quiet, Grown, ~Met', NEW r \in Runners,
         CreateDone(r) \/ CreateRefused(r) \/ CreateLost(r) \/ CreateUnrecoverable(r) \/ Escrow(r) \/ Confirm(r) \/ Activate(r)
  PROVE  Turned(r) /\ run[r].pc \notin Away /\ Recorded' /\ Clean' /\ Course(r)'
<1>1. run[r].pc \in {"create", "created", "confirm", "activate"} /\ op' = op /\ step' = step /\ row' = row
  BY DEF CreateDone, CreateRefused, CreateLost, CreateUnrecoverable, Escrow, Confirm, Activate, in, journal, store
<1>2. Course(r) /\ run[r].at \in Grants
  BY <1>1, AtWork, Own DEF Away, Stepping
<1>3. op' = "applying"
  BY <1>1, <1>2 DEF Course, Fore, Working
<1>4. \A g \in Local : here(g)' /\ account'[g] = "ours" => account[g] = "ours" \/ (g = run[r].at /\ CreateDone(r))
  <2>1. CASE CreateLost(r)
    <3>1. "unheard" \in marks'[run[r].at] /\ account' = [account EXCEPT ![run[r].at] = "ours"]
      BY <1>2, <2>1, Notes DEF CreateLost, at, Marks
    <3>2. \A g \in Grants : g = run[r].at => ~here(g)'
      BY <3>1 DEF here, marked, Dropped
    <3> QED BY <3>1, <3>2 DEF Base, Files, Local
  <2>2. CASE CreateDone(r)
    BY <2>2 DEF CreateDone, at, Base, Files, Local
  <2>3. ~CreateLost(r) /\ ~CreateDone(r) => account' = account
    BY DEF CreateRefused, CreateUnrecoverable, Escrow, Confirm, Activate
  <2> QED BY <2>1, <2>2, <2>3
<1>5. ASSUME NEW pc \in {"created", "escrowed", "activate", "activated", "refused", "manual"}, goto(r, pc),
             CreateDone(r) => pc = "created", run[r].pc = "created" => pc = "escrowed", pc \in {"created", "escrowed"} => run[r].pc \in {"create", "created"}
      PROVE  Turned(r) /\ run[r].pc \notin Away /\ Recorded' /\ Clean' /\ Course(r)'
  <2>1. Stays(r, pc)
    BY <1>5, Gotos DEF Base, Pcs
  <2> QED BY <1>1, <1>4, <1>5, <2>1, StayQuiet DEF Working
<1>6. ASSUME raise(r), run[r].pc # "created", ~CreateDone(r)
      PROVE  Turned(r) /\ run[r].pc \notin Away /\ Recorded' /\ Clean' /\ Course(r)'
  BY <1>1, <1>3, <1>4, <1>6, LeaveQuiet DEF Fore, Working
<1>7. CASE CreateDone(r)
  BY <1>5, <1>7 DEF CreateDone, in
<1>8. CASE Escrow(r)
  <2>1. run[r].pc = "created" /\ goto(r, "escrowed") /\ ~CreateDone(r)
    BY <1>8 DEF Escrow, in, CreateDone
  <2> QED BY <1>5, <2>1
<1>9. CASE ~CreateDone(r) /\ ~Escrow(r)
  <2>1. run[r].pc # "created" /\ (raise(r) \/ goto(r, "refused") \/ goto(r, "manual") \/ goto(r, "activate") \/ goto(r, "activated"))
    BY <1>9 DEF CreateRefused, CreateLost, CreateUnrecoverable, Confirm, Activate, in
  <2> QED BY <1>5, <1>6, <1>9, <2>1
<1> QED BY <1>7, <1>8, <1>9

\* A checkpoint of the run at work.
LEMMA MarksQuiet ==
  ASSUME Base, Noting, Held, Held', Quiet, Grown, ~Met', NEW r \in Runners,
         MarkApplied(r) \/ MarkEscrowed(r) \/ MarkManualStep(r) \/ MarkRefused(r) \/ MarkActive(r)
  PROVE  Turned(r) /\ run[r].pc \notin Away /\ Recorded' /\ Clean' /\ Course(r)'
<1>1. run[r].pc \in {"escrowed", "applied", "manual", "refused", "activated"} /\ UNCHANGED <<op, store, account>>
  BY DEF MarkApplied, MarkEscrowed, MarkManualStep, MarkRefused, MarkActive, in
<1>2. run[r].at \in Grants /\ run[r].at \in Local /\ run[r].at \in Nat /\ run[r].pc \notin Away /\ run[r].seen[run[r].at] \in StepStates
  BY <1>1, Own DEF Stepping, Held, Carried, Away, Grants
<1>3. /\ Recorded /\ Course(r) /\ (\A g \in Grants : here(g)' => here(g))
      /\ \A g : making(g) <=> run[r].at = g /\ run[r].pc \in {"created", "escrowed"}
  BY <1>2, AtWork
<1>4. op' = "applying" /\ row' = row /\ secret' = secret /\ account' = account
  BY <1>1, <1>3 DEF Course, Fore, Working, store
<1>5. \A g \in Local : run[r].pc # "manual" /\ g >= run[r].at => run[r].seen[g] = step[g]
  BY <1>1, <1>3 DEF Course, Looping, Working
<1>6. \A g \in Local : g = run[r].at /\ here(g)' /\ account[g] = "ours" => row[g] # "none"
  BY <1>1, <1>2, <1>3 DEF Recorded, Course
<1>7. ASSUME NEW status \in StepStates, step' = [step EXCEPT ![run[r].at] = status], Turned(r), run'[r].pc \in {"applied", "confirm", "stop", "compensate", "advance"},
             \A g \in Local : run'[r].pc \in Looping /\ g >= run'[r].at => run'[r].seen[g] = step'[g],
             status \in CREATED \/ (status = step[run[r].at] /\ run[r].pc = "refused") \/ "left" \in marks'[run[r].at]
      PROVE  Turned(r) /\ run[r].pc \notin Away /\ Recorded' /\ Clean' /\ Course(r)'
  <2>1. \A g \in Grants : g # run[r].at => step'[g] = step[g]
    BY <1>7 DEF Base, Files
  <2>2. step'[run[r].at] = status
    BY <1>2, <1>7 DEF Base, Files
  <2>3. \A g \in Grants : "left" \in marks'[g] => ~here(g)'
    BY DEF here, marked, Dropped
  <2>4. Recorded'
    <3> SUFFICES ASSUME NEW g \in Local, here(g)', account'[g] = "ours"
                 PROVE  \/ /\ account[g] = "ours" /\ ((run[r].at = g /\ run[r].pc \in {"created", "escrowed"}) => run'[r].at = g /\ run'[r].pc \in {"created", "escrowed"})
                           /\ step[g] \in CREATED /\ row[g] # "none" => step'[g] \in CREATED /\ row'[g] # "none"
                        \/ step'[g] \in CREATED /\ row'[g] # "none"
                        \/ run'[r].at = g /\ run'[r].pc \in {"created", "escrowed"}
      BY <1>2, <1>7, RecordedStays
    <3>1. CASE g # run[r].at
      BY <1>4, <2>1, <3>1 DEF Local
    <3>2. CASE g = run[r].at
      <4>1. row'[g] # "none" /\ account[g] = "ours"
        BY <1>4, <1>6, <3>2
      <4>2. status \in CREATED \/ (status = step[run[r].at] /\ run[r].pc = "refused")
        BY <1>2, <1>7, <2>3, <3>2
      <4> QED BY <1>4, <2>2, <3>2, <4>1, <4>2
    <3> QED BY <3>1, <3>2
  <2>5. run'[r].pc \in Fore /\ run'[r].pc \notin {"idle", "create", "created", "escrowed"}
    BY <1>7 DEF Fore, Working
  <2> QED BY <1>2, <1>4, <1>7, <2>4, <2>5, ForeStep
<1>8. ASSUME NEW status \in StepStates, NEW pc \in {"applied", "confirm", "stop", "compensate"}, mark(r, status, pc), run[r].pc = "manual" => pc = "stop",
             status \in CREATED \/ (status = step[run[r].at] /\ run[r].pc = "refused") \/ "left" \in marks'[run[r].at]
      PROVE  Turned(r) /\ run[r].pc \notin Away /\ Recorded' /\ Clean' /\ Course(r)'
  <2>1. /\ Moved(r, pc, run[r].at) /\ run'[r].seen = [run[r].seen EXCEPT ![run[r].at] = status]
        /\ step' = [step EXCEPT ![run[r].at] = status]
    BY <1>2, <1>8, MarkWrites DEF Base, Files, Pcs
  <2>2. \A g \in Grants : run[r].seen[g] = step[g] => run'[r].seen[g] = step'[g]
    BY <1>2, <2>1, Own DEF Base, Files
  <2>3. run'[r].pc \in Looping => run[r].pc # "manual"
    BY <1>8, <2>1 DEF Moved, Looping, Working
  <2>4. \A g \in Local : run'[r].pc \in Looping /\ g >= run'[r].at => run'[r].seen[g] = step'[g]
    BY <1>5, <2>1, <2>2, <2>3 DEF Moved, Local
  <2> QED BY <1>7, <1>8, <2>1, <2>4 DEF Moved
<1>9. CASE MarkApplied(r) \/ MarkEscrowed(r)
  <2>1. run[r].pc # "manual" /\ (mark(r, "applied", "applied") \/ mark(r, "escrowed", "confirm"))
    BY <1>9 DEF MarkApplied, MarkEscrowed, in
  <2> QED BY <1>8, <2>1 DEF StepStates, CREATED
<1>10. CASE MarkManualStep(r)
  <2>1. mark(r, "manual", "stop") /\ "left" \in marks'[run[r].at]
    BY <1>2, <1>10, Notes DEF MarkManualStep, at, Marks
  <2> QED BY <1>8, <2>1 DEF StepStates
<1>11. CASE MarkRefused(r)
  <2>1. run[r].pc = "refused" /\ mark(r, run[r].seen[run[r].at], "compensate")
    BY <1>11 DEF MarkRefused, in, seen, at
  <2>2. run[r].seen[run[r].at] = step[run[r].at]
    BY <1>2, <1>5, <2>1
  <2> QED BY <1>2, <1>8, <2>1, <2>2
<1>12. CASE MarkActive(r)
  <2>1. step' = [step EXCEPT ![run[r].at] = "active"] /\ run[r].pc = "activated"
    BY <1>12 DEF MarkActive, at, in
  <2>2. Moved(r, "advance", run[r].at + 1) /\ run'[r].seen = run[r].seen
    BY <1>2, <1>12, Nexts DEF MarkActive, Base, Pcs
  <2>3. \A g \in Local : g >= run[r].at + 1 => g >= run[r].at /\ g # run[r].at
    BY <1>2 DEF Local, Grants
  <2>4. \A g \in Grants : g # run[r].at => step'[g] = step[g]
    BY <2>1 DEF Base, Files
  <2>5. \A g \in Local : g >= run'[r].at => run'[r].seen[g] = step'[g]
    BY <1>5, <2>1, <2>2, <2>3, <2>4 DEF Moved, Local
  <2> QED BY <1>7, <2>1, <2>2, <2>5 DEF Moved, StepStates, CREATED
<1> QED BY <1>9, <1>10, <1>11, <1>12

\* The end of the run.
LEMMA FinishQuiet ==
  ASSUME Base, Noting, Held, Held', Quiet, Grown, ~Met', NEW r \in Runners, Settle(r) \/ Finish(r) \/ MarkManual(r)
  PROVE  Turned(r) /\ run[r].pc \notin Away /\ Recorded' /\ Clean' /\ Course(r)'
<1>1. CASE Settle(r)
  <2>1. /\ run[r].pc \in {"settle", "advance"} /\ UNCHANGED <<journal, store, account>>
        /\ run' = [run EXCEPT ![r] = [run[r] EXCEPT !.pc = "finish", !.flag = \E g \in Grants : step[g] = "remote"]]
    BY <1>1 DEF Settle, in
  <2>2. Turned(r) /\ run'[r].pc = "finish"
    <3>1. Base'
      BY <1>1, FinishKeeps
    <3> QED BY <2>1, <3>1 DEF Turned, Base, Runs, RunSet
  <2>3. run[r].pc \notin Away
    BY <2>1 DEF Away
  <2>4. Course(r) /\ Clean
    BY <2>3, AtWork
  <2>5. op = "compensated" => \A g \in Grants : "early" \in marks'[g]
    BY <2>1, <2>4 DEF Course, Fore, Grown
  <2>6. Course(r)'
    BY <2>1, <2>2, <2>5 DEF Course, Fore, Rear, Looping, Working, journal
  <2>7. Clean'
    BY <2>1, <2>5 DEF Clean, here, marked, Dropped, journal
  <2>8. Recorded'
    BY <2>1, <2>2, <2>3, RecordedStays DEF journal, store
  <2> QED BY <2>2, <2>3, <2>6, <2>7, <2>8
<1>2. CASE Finish(r) \/ MarkManual(r)
  <2>1. run[r].pc \in {"finish", "stop"} /\ raise(r) /\ UNCHANGED <<step, store, account>> /\ op' # "compensated"
    BY <1>2 DEF Finish, MarkManual, in
  <2> QED BY <2>1, LeaveQuiet DEF Fore, store
<1> QED BY <1>1, <1>2

\* A run on its way back.
LEMMA RearStep ==
  ASSUME Held', NEW r \in Runners, run'[r].pc \in {"reread", "undo", "undone", "purge"}, op' = "compensating",
         \A g \in Local : run'[r].pc # "reread" /\ g >= run'[r].at => run'[r].seen[g] = step'[g],
         \A g \in Local : run'[r].pc \in {"undone", "purge"} /\ g = run'[r].at /\ here(g)' => account'[g] # "ours",
         run'[r].pc = "purge" => step'[run'[r].at] = "compensated",
         \A g \in Grants : run'[r].pc # "reread" /\ g < run'[r].at => step'[g] \in {"compensated", "manual"}
  PROVE  Clean' /\ Course(r)'
<1>1. Clean'
  BY DEF Clean
<1>2. run'[r].pc \in {"undone", "purge"} => run'[r].at \in Local
  BY DEF Held, Carried, Stepping
<1>3. Course(r)'
  BY <1>2 DEF Course, Fore, Rear, Looping, Working
<1> QED BY <1>1, <1>3

\* The compensation of a step.
LEMMA UndoQuiet ==
  ASSUME Base, Noting, Held, Held', Quiet, Grown, ~Met', NEW r \in Runners,
         MarkCompensating(r) \/ Reread(r) \/ UndoNothing(r) \/ UndoAccount(r) \/ UndoFails(r) \/ MarkUndone(r)
  PROVE  Turned(r) /\ run[r].pc \notin Away /\ Recorded' /\ Clean' /\ Course(r)'
<1>1. run[r].pc \in {"compensate", "reread", "undo", "undone"} /\ row' = row
  BY DEF MarkCompensating, Reread, UndoNothing, UndoAccount, UndoFails, MarkUndone, in, store
<1>2. run[r].pc \notin Away
  BY <1>1 DEF Away
<1>3. /\ Recorded /\ Course(r) /\ (\A g \in Grants : here(g)' => here(g))
      /\ \A g : making(g) <=> run[r].at = g /\ run[r].pc \in {"created", "escrowed"}
  BY <1>2, AtWork
<1>4. \A g \in Local : here(g) /\ account[g] = "ours" => step[g] \in CREATED /\ row[g] # "none"
  BY <1>1, <1>3 DEF Recorded
<1>5. run[r].pc # "compensate" => op = "compensating"
  BY <1>1, <1>3 DEF Course, Rear
<1>6. /\ \A g \in Local : run[r].pc \in {"undo", "undone"} /\ g >= run[r].at => run[r].seen[g] = step[g]
      /\ \A g \in Grants : run[r].pc \in {"undo", "undone"} /\ g < run[r].at => step[g] \in {"compensated", "manual"}
  BY <1>3 DEF Course, Looping
<1>7. CASE MarkCompensating(r)
  <2>1. Stays(r, "reread") /\ op' = "compensating" /\ UNCHANGED <<step, store, account>>
    BY <1>7, Gotos DEF MarkCompensating, Base, Pcs
  <2>2. Recorded'
    BY <1>1, <1>2, <2>1, RecordedStays DEF Stays, Moved, store
  <2> QED BY <1>2, <2>1, <2>2, RearStep DEF Stays, Moved
<1>8. CASE Reread(r)
  <2>1. run' = [run EXCEPT ![r] = [pc |-> "undo", at |-> 1, seen |-> step, flag |-> FALSE]] /\ UNCHANGED <<journal, store, account>>
    BY <1>8 DEF Reread
  <2>2. Base'
    BY <1>8, UndoKeeps
  <2>3. Turned(r) /\ run'[r] = [pc |-> "undo", at |-> 1, seen |-> step, flag |-> FALSE]
    BY <2>1, <2>2 DEF Turned, Base, Runs
  <2>4. Recorded'
    BY <1>1, <1>2, <2>1, <2>3, RecordedStays DEF journal, store
  <2>5. \A g \in Grants : ~(g < 1)
    BY DEF Grants
  <2>6. op' = "compensating"
    BY <1>5, <1>8, <2>1 DEF Reread, in, journal
  <2> QED BY <1>2, <2>1, <2>3, <2>4, <2>5, <2>6, RearStep DEF journal
<1>9. ASSUME run[r].pc \in {"undo", "undone"}, run[r].at \in Grants PROVE run[r].at \in Nat /\ \A g \in Grants : /\ g < run[r].at + 1 => g < run[r].at \/ g = run[r].at
                                                                   /\ g >= run[r].at + 1 => g >= run[r].at /\ g # run[r].at
  BY <1>9 DEF Grants
<1>10. CASE UndoNothing(r)
  <2>1. run[r].pc = "undo" /\ run[r].at \in Grants /\ UNCHANGED <<op, store, account>> /\ step' = [step EXCEPT ![run[r].at] = "compensated"] /\ ~undoable(r)
    BY <1>10 DEF UndoNothing, in, at
  <2>2. Moved(r, "undo", run[r].at + 1) /\ run'[r].seen = run[r].seen
    BY <1>10, <2>1, Nexts DEF UndoNothing, Base, Pcs
  <2>3. step'[run[r].at] = "compensated" /\ \A g \in Grants : g # run[r].at => step'[g] = step[g]
    BY <2>1 DEF Base, Files
  <2>4. \A g \in Local : g = run[r].at => ~(here(g) /\ account[g] = "ours")
    <3> SUFFICES ASSUME NEW g \in Local, g = run[r].at, here(g), account[g] = "ours" PROVE FALSE
      OBVIOUS
    <3>1. step[g] \in CREATED /\ row[g] # "none" /\ run[r].seen[g] = step[g]
      BY <1>4, <1>6, <1>9, <2>1
    <3> QED BY <2>1, <3>1 DEF undoable, seen, at
  <2>5. Recorded'
    BY <1>1, <1>2, <1>3, <2>1, <2>2, <2>3, <2>4, RecordedStays DEF Moved, store, Local
  <2>6. \A g \in Local : g >= run'[r].at => run'[r].seen[g] = step'[g]
    <3> SUFFICES ASSUME NEW g \in Local, g >= run[r].at + 1 PROVE run[r].seen[g] = step'[g]
      BY <2>2, <2>3 DEF Moved
    <3>1. g \in Grants /\ g >= run[r].at /\ g # run[r].at
      BY <2>1 DEF Local, Grants
    <3> QED BY <1>6, <2>1, <3>1, <2>2, <2>3
  <2>7. \A g \in Grants : g < run'[r].at => step'[g] \in {"compensated", "manual"}
    <3> SUFFICES ASSUME NEW g \in Grants, g < run[r].at + 1 PROVE step'[g] \in {"compensated", "manual"}
      BY <2>2, <2>3 DEF Moved
    <3>1. g < run[r].at \/ g = run[r].at
      BY <2>1 DEF Grants
    <3> QED BY <1>6, <2>1, <3>1, <2>2, <2>3
  <2> QED BY <1>2, <1>5, <2>1, <2>2, <2>5, <2>6, <2>7, RearStep DEF Moved
<1>11. CASE UndoAccount(r)
  <2>1. run[r].pc = "undo" /\ run[r].at \in Grants /\ UNCHANGED <<journal, store>> /\ account' = [account EXCEPT ![run[r].at] = "none"]
    BY <1>11 DEF UndoAccount, in, at
  <2>2. Stays(r, "undone")
    BY <1>11, Gotos DEF UndoAccount, Base, Pcs
  <2>3. account'[run[r].at] = "none" /\ \A g \in Grants : g # run[r].at => account'[g] = account[g]
    BY <2>1 DEF Base, Files
  <2>4. Recorded'
    BY <1>1, <1>2, <2>1, <2>2, <2>3, RecordedStays DEF Stays, Moved, store, journal, Local
  <2> QED BY <1>2, <1>5, <1>6, <2>1, <2>2, <2>3, <2>4, RearStep DEF Stays, Moved, journal
<1>12. CASE UndoFails(r)
  <2>1. /\ run[r].pc = "undo" /\ run[r].at \in Grants /\ UNCHANGED <<op, store>> /\ step' = [step EXCEPT ![run[r].at] = "manual"]
        /\ run' = [run EXCEPT ![r] = [run[r] EXCEPT !.at = run[r].at + 1, !.flag = TRUE]] /\ "left" \in marks'[run[r].at]
        /\ account' = account \/ account' = [account EXCEPT ![run[r].at] = "none"]
    BY <1>12 DEF UndoFails, in, at, Noting
  <2>2. Base'
    BY <1>12, UndoKeeps
  <2>3. Turned(r) /\ run'[r].pc = "undo" /\ run'[r].seen = run[r].seen /\ run'[r].at = run[r].at + 1
    BY <2>1, <2>2 DEF Turned, Base, Runs, RunSet
  <2>4. step'[run[r].at] = "manual" /\ \A g \in Grants : g # run[r].at => step'[g] = step[g] /\ account'[g] = account[g]
    BY <2>1 DEF Base, Files
  <2>5. \A g \in Grants : g = run[r].at => ~here(g)'
    BY <2>1 DEF here, marked, Dropped
  <2>6. Recorded'
    BY <1>1, <1>2, <2>1, <2>3, <2>4, <2>5, RecordedStays DEF store, Local
  <2>7. \A g \in Local : g >= run'[r].at => run'[r].seen[g] = step'[g]
    <3> SUFFICES ASSUME NEW g \in Local, g >= run[r].at + 1 PROVE run[r].seen[g] = step'[g]
      BY <2>3, <2>4
    <3>1. g \in Grants /\ g >= run[r].at /\ g # run[r].at
      BY <2>1 DEF Local, Grants
    <3> QED BY <1>6, <2>1, <3>1, <2>3, <2>4
  <2>8. \A g \in Grants : g < run'[r].at => step'[g] \in {"compensated", "manual"}
    <3> SUFFICES ASSUME NEW g \in Grants, g < run[r].at + 1 PROVE step'[g] \in {"compensated", "manual"}
      BY <2>3, <2>4
    <3>1. g < run[r].at \/ g = run[r].at
      BY <2>1 DEF Grants
    <3> QED BY <1>6, <2>1, <3>1, <2>3, <2>4
  <2> QED BY <1>2, <1>5, <2>1, <2>3, <2>6, <2>7, <2>8, RearStep
<1>13. CASE MarkUndone(r)
  <2>1. run[r].pc = "undone" /\ run[r].at \in Grants /\ UNCHANGED <<op, store, account>> /\ mark(r, "compensated", "purge")
    BY <1>13, Own DEF MarkUndone, in, Stepping
  <2>2. /\ Moved(r, "purge", run[r].at) /\ run'[r].seen = [run[r].seen EXCEPT ![run[r].at] = "compensated"]
        /\ step' = [step EXCEPT ![run[r].at] = "compensated"]
    BY <2>1, MarkWrites DEF Base, Files, Pcs, StepStates
  <2>3. step'[run[r].at] = "compensated" /\ \A g \in Grants : g # run[r].at => step'[g] = step[g]
    BY <2>1, <2>2 DEF Base, Files
  <2>4. \A g \in Local : g = run[r].at /\ here(g)' => account[g] # "ours"
    BY <1>3, <2>1 DEF Course
  <2>5. Recorded'
    BY <1>1, <1>2, <2>1, <2>2, <2>3, <2>4, RecordedStays DEF Moved, store, Local
  <2>6. \A g \in Local : g >= run'[r].at => run'[r].seen[g] = step'[g]
    <3>1. \A g \in Grants : run[r].seen[g] = step[g] => run'[r].seen[g] = step'[g]
      BY <2>1, <2>2, Own DEF Base, Files
    <3> QED BY <1>6, <2>1, <2>2, <3>1 DEF Moved, Local
  <2>7. \A g \in Grants : g < run'[r].at => step'[g] \in {"compensated", "manual"}
    BY <1>6, <2>1, <2>2, <2>3 DEF Moved
  <2> QED BY <1>2, <1>5, <2>1, <2>2, <2>3, <2>4, <2>5, <2>6, <2>7, RearStep DEF Moved
<1> QED BY <1>7, <1>8, <1>10, <1>11, <1>12, <1>13

\* The end of the compensation.
LEMMA CloseQuiet ==
  ASSUME Base, Noting, Held, Held', Quiet, Grown, ~Met', NEW r \in Runners, PurgeUndone(r) \/ Close(r) \/ MarkCompensated(r)
  PROVE  Turned(r) /\ run[r].pc \notin Away /\ Recorded' /\ Clean' /\ Course(r)'
<1>1. run[r].pc \in {"purge", "undo", "close"} /\ UNCHANGED <<step, account>>
  BY DEF PurgeUndone, Close, MarkCompensated, in, journal
<1>2. run[r].pc \notin Away
  BY <1>1 DEF Away
<1>3. /\ Recorded /\ Course(r) /\ (\A g \in Grants : here(g)' => here(g))
      /\ \A g : making(g) <=> run[r].at = g /\ run[r].pc \in {"created", "escrowed"}
  BY <1>2, AtWork
<1>4. \A g \in Local : here(g) /\ account[g] = "ours" => step[g] \in CREATED /\ row[g] # "none"
  BY <1>1, <1>3 DEF Recorded
<1>5. op = "compensating"
  BY <1>1, <1>3 DEF Course, Rear
<1>6. CASE PurgeUndone(r)
  <2>1. run[r].pc = "purge" /\ run[r].at \in Grants /\ run[r].at \in Nat /\ op' = op /\ \A g \in Grants : g # run[r].at => row'[g] = row[g]
    BY <1>6, Own DEF PurgeUndone, in, Stepping, journal, purge, store, at, Grants
  <2>2. /\ \A g \in Local : g = run[r].at /\ here(g)' => account[g] # "ours"
        /\ step[run[r].at] = "compensated"
        /\ \A g \in Grants : g < run[r].at => step[g] \in {"compensated", "manual"}
        /\ \A g \in Local : g >= run[r].at => run[r].seen[g] = step[g]
    BY <1>3, <2>1 DEF Course, Looping
  <2>3. CASE raise(r)
    BY <1>1, <1>5, <2>1, <2>2, <2>3, LeaveQuiet DEF Local
  <2>4. CASE next(r, "undo")
    <3>1. Moved(r, "undo", run[r].at + 1) /\ run'[r].seen = run[r].seen
      BY <2>1, <2>4, Nexts DEF Base, Pcs
    <3>2. Recorded'
      BY <1>1, <1>2, <2>1, <2>2, <3>1, RecordedStays DEF Moved, Local
    <3>3. \A g \in Grants : /\ g < run[r].at + 1 => g < run[r].at \/ g = run[r].at
                            /\ g >= run[r].at + 1 => g >= run[r].at
      BY <2>1 DEF Grants
    <3>4. \A g \in Local : g >= run'[r].at => run'[r].seen[g] = step'[g]
      BY <1>1, <2>2, <3>1, <3>3 DEF Moved, Local
    <3>5. \A g \in Grants : g < run'[r].at => step'[g] \in {"compensated", "manual"}
      BY <1>1, <2>2, <3>1, <3>3 DEF Moved
    <3> QED BY <1>2, <1>5, <2>1, <3>1, <3>2, <3>4, <3>5, RearStep DEF Moved
  <2> QED BY <1>6, <2>3, <2>4 DEF PurgeUndone
<1>7. CASE Close(r)
  <2>1. run[r].pc = "undo" /\ run[r].at = N + 1 /\ Stays(r, "close") /\ op' = op
    BY <1>7, Gotos DEF Close, in, at, Base, Pcs, journal
  <2>2. \A g \in Grants : /\ step[g] # "compensated" => row'[g] = row[g]
                          /\ step[g] = "compensated" => row'[g] # "live"
    BY <1>7 DEF Close
  <2>3. \A g \in Grants : step[g] \in {"compensated", "manual"}
    <3>1. \A g \in Grants : g < N + 1
      BY GrantsAssumption DEF Grants
    <3> QED BY <1>3, <2>1, <3>1 DEF Course
  <2>4. Closed'
    BY <1>1, <2>2, <2>3 DEF Closed
  <2>5. Recorded'
    <3>1. \A g \in Local : here(g)' => account'[g] # "ours"
      BY <1>1, <1>3, <1>4, <2>3 DEF CREATED, Local
    <3> QED BY <3>1 DEF Recorded
  <2>6. run'[r].pc = "close" /\ Turned(r) /\ op' = "compensating"
    BY <1>5, <2>1 DEF Stays, Moved
  <2>7. Course(r)'
    BY <2>4, <2>6 DEF Course, Fore, Rear, Looping, Working
  <2>8. Clean'
    BY <2>6 DEF Clean
  <2> QED BY <1>2, <2>5, <2>6, <2>7, <2>8
<1>8. CASE MarkCompensated(r)
  <2>1. run[r].pc = "close" /\ raise(r) /\ row' = row
    BY <1>8 DEF MarkCompensated, in, store
  <2>2. Turned(r) /\ run'[r].pc = "idle"
    BY <2>1, Raises DEF Base
  <2>3. Closed
    BY <1>3, <2>1 DEF Course
  <2>4. Recorded'
    BY <1>1, <1>2, <2>1, <2>2, RecordedStays
  <2>5. Clean'
    <3> SUFFICES ASSUME NEW g \in Grants, here(g)' PROVE row'[g] # "live" /\ (g \in Local => account'[g] # "ours")
      BY DEF Clean
    <3>1. here(g) /\ fits(step[g], g) /\ step[g] \in {"compensated", "manual"}
      BY <1>3, <2>3 DEF Held, Steps, Closed
    <3>2. step[g] = "compensated"
      BY <3>1 DEF fits, Fits, here, marked, Dropped
    <3>3. row[g] # "live" /\ step[g] \notin CREATED
      BY <2>3, <3>2 DEF Closed, CREATED
    <3> QED BY <1>1, <1>4, <2>1, <3>1, <3>3
  <2>6. Course(r)'
    BY <2>2 DEF Course, Fore, Rear, Looping, Working
  <2> QED BY <1>2, <2>2, <2>4, <2>5, <2>6
<1> QED BY <1>6, <1>7, <1>8

\* No run is at work.
LEMMA RestQuiet ==
  ASSUME Quiet, Grown, Unmet, \A r \in Runners : run'[r].pc \in Away, ~Met' => Recorded' /\ Clean'
  PROVE  Quiet'
<1>1. AllMet'
  BY DEF Quiet, AllMet, Unmet, Grown
<1>2. Single' /\ \A r \in Runners : Course(r)'
  BY DEF Single, Course, Away, Fore, Rear, Looping, Working
<1> QED BY <1>1, <1>2 DEF Quiet

\* The run that reads the journal begins.
LEMMA ReadQuiet ==
  ASSUME Base, Noting, Held, Quiet, Grown, NEW r \in Runners, Read(r)
  PROVE  Quiet'
<1> DEFINE busy == \E q \in Runners \ {r} : run[q].pc \notin {"idle", "read"}
           met == {g \in Grants : op \notin TERMINAL /\ busy}
<1>1. /\ run[r].pc = "read" /\ UNCHANGED <<op, step, row, secret, account>> /\ note(met, "met")
      /\ run' = [run EXCEPT ![r] = IF op \in TERMINAL THEN Idle
                                    ELSE [pc |-> IF \A g \in Grants : step[g] \in SETTLED THEN "settle" ELSE "mark",
                                          at |-> 1, seen |-> step, flag |-> FALSE]]
  BY DEF Read, in, journal, store
<1>2. \A q \in Runners : q # r => run'[q] = run[q]
  BY <1>1 DEF Base, Runs
<1>3. CASE op \in TERMINAL
  <2>1. run'[r].pc = "idle" /\ met = {}
    BY <1>1, <1>3, Values DEF Base, Runs
  <2>2. Unmet
    BY <1>1, <2>1 DEF Unmet, note
  <2> QED BY <1>1, <1>2, <2>1, <2>2, BesideQuiet DEF Away
<1>4. CASE op \notin TERMINAL /\ busy
  <2>1. \A g \in Grants : "met" \in marks'[g]
    BY <1>1, <1>4, Notes DEF Marks
  <2>2. 1 \in Grants
    BY GrantsAssumption DEF Grants
  <2> QED BY <2>1, <2>2 DEF Quiet, AllMet, Met
<1>5. CASE op \notin TERMINAL /\ ~busy
  <2>1. /\ run'[r].pc \in {"settle", "mark"} /\ run'[r].seen = step /\ \A q \in Runners : q # r => run'[q].pc \in {"idle", "read"} /\ run[q].pc \in {"idle", "read"}
    BY <1>1, <1>2, <1>5 DEF Base, Runs
  <2>2. Unmet
    BY <1>1, <1>5 DEF Unmet, note
  <2>3. AllMet'
    BY <2>2 DEF Quiet, AllMet, Unmet, Grown
  <2> SUFFICES ASSUME ~Met' PROVE Single' /\ Recorded' /\ Clean' /\ \A q \in Runners : Course(q)'
    BY <2>3 DEF Quiet
  <2>4. Single'
    BY <2>1 DEF Single, Away
  <2>5. Clean'
    BY <1>1, <1>5 DEF Clean, TERMINAL
  <2>6. Recorded'
    <3>1. Recorded /\ \A g : ~making(g)
      BY <1>1, <2>1, Staying DEF Quiet, making
    <3>2. \A g \in Local : here(g)' => here(g)
      BY Staying DEF Local
    <3> QED BY <1>1, <3>1, <3>2 DEF Recorded
  <2>7. Course(r)'
    BY <1>1, <1>5, <2>1 DEF Course, Fore, Rear, Looping, Working, TERMINAL
  <2>8. \A q \in Runners : q # r => Course(q)'
    BY <2>1 DEF Course, Fore, Rear, Looping, Working
  <2> QED BY <2>4, <2>5, <2>6, <2>7, <2>8
<1> QED BY <1>3, <1>4, <1>5

\* The operation begins, or is taken up again.
LEMMA StartQuiet ==
  ASSUME Base, Noting, Held, Quiet, Grown, Unmet, NEW r \in Runners, Preflight(r) \/ Reserve(r) \/ Resume(r)
  PROVE  Quiet'
<1>1. CASE Preflight(r) \/ Resume(r)
  <2>1. run[r].pc = "idle" /\ UNCHANGED <<op, step, row, account>> /\ (goto(r, "reserve") \/ goto(r, "read"))
    BY <1>1 DEF Preflight, Resume, in, journal, store
  <2>2. Turned(r) /\ run'[r].pc \in {"reserve", "read"}
    BY <2>1, Gotos DEF Stays, Moved, Base, Pcs
  <2> QED BY <2>1, <2>2, BesideQuiet DEF Turned, Away
<1>2. CASE Reserve(r)
  <2>1. run[r].pc = "reserve" /\ account' = account /\ op' \in {"pending", "pending_remote"} /\ Stays(r, "read")
    BY <1>2, Gotos DEF Reserve, in, Base, Pcs
  <2>2. (\A q \in Runners : q # r => run[q].pc = "idle") /\ \A g \in Grants : row[g] = "none"
    BY <2>1 DEF Held, Rows
  <2>3. \A q \in Runners : run'[q].pc \in Away
    BY <2>1, <2>2 DEF Stays, Moved, Turned, Away
  <2>4. ASSUME ~Met' PROVE Recorded'
    <3>1. Recorded /\ \A g : ~making(g)
      BY <2>1, <2>2, <2>4, Staying DEF Quiet, making
    <3>2. \A g \in Local : here(g)' => here(g)
      BY Staying DEF Local
    <3> QED BY <2>1, <2>2, <3>1, <3>2 DEF Recorded, Local
  <2>5. Clean'
    BY <2>1 DEF Clean
  <2> QED BY <2>3, <2>4, <2>5, RestQuiet
<1> QED BY <1>1, <1>2

\* A report and a withdrawal: an operation that they end was of remote steps only, or is cut short.
LEMMA ReportCloses ==
  ASSUME Base, NEW steps, step' = steps, waiting \/ steps = step, op' = IF steps = step THEN op ELSE settled(steps),
         \A g \in cut_short(steps) : "early" \in marks'[g]
  PROVE  /\ op = "applying" => op' = "applying"
         /\ op = "compensating" => op' = "compensating" /\ step' = step
         /\ op' = "compensated" => op = "compensated" \/ \A g \in Grants : "early" \in marks'[g]
<1>1. op = "applying" => op' = "applying"
  BY DEF settled
<1>2. op = "compensating" => op' = "compensating" /\ step' = step
  BY DEF settled, waiting
<1>3. ASSUME op' = "compensated", op # "compensated" PROVE \A g \in Grants : "early" \in marks'[g]
  <2>1. steps # step /\ settled(steps) # op /\ \A g \in Grants : steps[g] # "active"
    BY <1>3 DEF settled
  <2> QED BY <2>1 DEF cut_short
<1> QED BY <1>1, <1>2, <1>3

\* The linked panel, and the withdrawal of a grant there.
LEMMA NodeQuiet ==
  ASSUME Base, Noting, Held, Quiet, Grown, Unmet, NEW g \in Remote, Node(g) \/ DeleteRemote(g)
  PROVE  Quiet'
<1>0. g \in Grants /\ g \notin Local /\ Local \subseteq Grants
  BY GrantsAssumption DEF Grants, Local
<1>1. CASE NodeApplies(g)
  <2>1. UNCHANGED <<op, step, row, run>> /\ \A h \in Grants : h # g => account'[h] = account[h]
    BY <1>1 DEF NodeApplies, Base, Files, journal, store
  <2> QED BY <1>0, <2>1, BesideQuiet
<1>2. CASE RemoteMissing(g)
  <2>1. UNCHANGED <<op, step, account, run>> /\ \A h \in Grants : row'[h] = IF h = g THEN "none" ELSE row[h]
    BY <1>2 DEF RemoteMissing, purge, journal
  <2> QED BY <1>0, <2>1, BesideQuiet
<1>3. CASE RemoteApplied(g)
  <2> DEFINE steps == [step EXCEPT ![g] = IF waiting /\ step[g] = "remote" THEN "active" ELSE step[g]]
  <2>1. /\ UNCHANGED <<row, account, run>> /\ step' = steps
        /\ op' = (IF steps = step THEN op ELSE settled(steps)) /\ note(cut_short(steps), "early")
    BY <1>3 DEF RemoteApplied
  <2>2. \A h \in Local : step'[h] = step[h]
    BY <1>0, <2>1 DEF Base, Files
  <2>3. waiting \/ steps = step
    BY <1>0 DEF Base, Files
  <2> HIDE DEF steps
  <2>4. \A h \in cut_short(steps) : "early" \in marks'[h]
    BY <2>1, Notes DEF Marks, cut_short
  <2>5. /\ op = "applying" => op' = "applying"
        /\ op = "compensating" => op' = "compensating" /\ step' = step
        /\ op' = "compensated" => op = "compensated" \/ \A h \in Grants : "early" \in marks'[h]
    BY <2>1, <2>3, <2>4, ReportCloses
  <2> QED BY <2>1, <2>2, <2>5, BesideQuiet
<1>4. CASE DeleteRemote(g)
  <2> DEFINE steps == [step EXCEPT ![g] = IF waiting /\ step[g] = "remote" THEN "compensated" ELSE step[g]]
  <2>1. /\ UNCHANGED <<account, run>> /\ step' = steps /\ row' = [row EXCEPT ![g] = "deleted"]
        /\ op' = (IF steps = step THEN op ELSE settled(steps))
        /\ marks' = [h \in Grants |-> marks[h] \cup {m \in {"deleted", "early"} : IF m = "deleted" THEN h = g ELSE h \in cut_short(steps)}]
    BY <1>4 DEF DeleteRemote
  <2>2. \A h \in Local : step'[h] = step[h]
    BY <1>0, <2>1 DEF Base, Files
  <2>3. waiting \/ steps = step
    BY <1>0 DEF Base, Files
  <2>4. \A h \in Grants : row'[h] = IF h = g THEN "deleted" ELSE row[h]
    BY <2>1 DEF Base, Files
  <2> HIDE DEF steps
  <2>5. \A h \in cut_short(steps) : "early" \in marks'[h]
    BY <2>1 DEF cut_short
  <2>6. /\ op = "applying" => op' = "applying"
        /\ op = "compensating" => op' = "compensating" /\ step' = step
        /\ op' = "compensated" => op = "compensated" \/ \A h \in Grants : "early" \in marks'[h]
    BY <2>1, <2>3, <2>5, ReportCloses
  <2> QED BY <1>0, <2>1, <2>2, <2>4, <2>6, BesideQuiet
<1> QED BY <1>1, <1>2, <1>3, <1>4 DEF Node

\* The operator, and others.
LEMMA OperatorQuiet ==
  ASSUME Base, Noting, Held, Quiet, Grown, Unmet, (\E g \in Local : DeleteLocal(g) \/ Other(g)) \/ DeleteAccount \/ Forget \/ PurgeDeleted
  PROVE  Quiet'
<1>1. run' = run /\ op' = op /\ step' = step
  BY DEF DeleteLocal, Other, DeleteAccount, Forget, PurgeDeleted, journal
<1>2. ASSUME NEW g \in Local, DeleteLocal(g) PROVE Quiet'
  <2>1. row' = row /\ account' = account
    BY <1>2 DEF DeleteLocal, store
  <2> QED BY <1>1, <2>1, BesideQuiet
<1>3. ASSUME NEW g \in Local, Other(g) PROVE Quiet'
  <2>1. row' = row /\ \A h \in Local : account'[h] = "ours" => account[h] = "ours"
    BY <1>3 DEF Other, store, Base, Files, Local
  <2> QED BY <1>1, <2>1, BesideQuiet
<1>4. CASE DeleteAccount \/ Forget \/ PurgeDeleted
  <2>1. del.pc # "idle"
    BY <1>4 DEF DeleteAccount, Forget, PurgeDeleted
  <2>2. del.grant \in Grants /\ "deleted" \in marks[del.grant]
    BY <2>1 DEF Held, Rows, Local
  <2>3. \A h \in Grants : h = del.grant => ~here(h)'
    BY <2>2 DEF here, marked, Dropped, Grown
  <2>4. \A h \in Grants : (h # del.grant => row'[h] = row[h] /\ account'[h] = account[h]) /\ (row'[h] = "live" => row[h] = "live")
    <3>1. CASE DeleteAccount
      BY <3>1 DEF DeleteAccount, store, Base, Files
    <3>2. CASE Forget
      BY <3>2 DEF Forget, Base, Files
    <3>3. CASE PurgeDeleted
      BY <3>3 DEF PurgeDeleted, store, purge
    <3> QED BY <1>4, <3>1, <3>2, <3>3
  <2> QED BY <1>1, <2>3, <2>4, BesideQuiet DEF Local
<1> QED BY <1>2, <1>3, <1>4

\* A restart: what a run was making is no longer heard of.
LEMMA RestartQuiet ==
  ASSUME Base, Noting, Held, Quiet, Grown, Unmet, Restart
  PROVE  Quiet'
<1>1. /\ run' = [r \in Runners |-> Idle] /\ UNCHANGED <<op, step, row, account>>
      /\ note({g \in Grants : \E r \in Runners : at(r) = g /\ run[r].pc \in {"created", "escrowed"}}, "unheard")
  BY DEF Restart, journal, store
<1>2. \A g \in Grants : making(g) => "unheard" \in marks'[g]
  BY <1>1, Notes DEF making, at, Marks
<1>3. \A g \in Grants : making(g) => ~here(g)'
  BY <1>2 DEF here, marked, Dropped
<1>4. \A r \in Runners : run'[r].pc \in Away
  BY <1>1, Values DEF Away
<1>5. ASSUME ~Met' PROVE Recorded' /\ Clean'
  <2>1. Recorded /\ Clean /\ \A g \in Grants : here(g)' => here(g)
    BY <1>5, Staying DEF Quiet
  <2>2. Recorded'
    BY <1>1, <1>3, <2>1 DEF Recorded, Local
  <2>3. Clean'
    BY <1>1, <2>1 DEF Clean
  <2> QED BY <2>2, <2>3
<1> QED BY <1>4, <1>5, RestQuiet

\* Every step.
LEMMA NextQuiet == Base /\ Noting /\ Held /\ Held' /\ Quiet /\ [Next]_vars => Quiet'
<1> SUFFICES ASSUME Base, Noting, Held, Held', Quiet, [Next]_vars PROVE Quiet'
  OBVIOUS
<1>1. Grown
  BY NextNotes
<1>2. CASE \E r \in Runners : Read(r)
  BY <1>1, <1>2, ReadQuiet
<1> SUFFICES ASSUME \A r \in Runners : ~Read(r) PROVE Quiet'
  BY <1>2
<1>3. Unmet
  BY OthersUnmet
<1>4. ASSUME NEW r \in Runners, RunStep(r), ~Reserve(r) PROVE Quiet'
  <2>1. run[r].pc \notin Away
    BY <1>4 DEF RunStep, Forward, Compensate, Reserve, Away, MarkApplying, Advance, CreateDone, CreateRefused, CreateLost, CreateUnrecoverable, Escrow,
       MarkApplied, MarkEscrowed, Confirm, Activate, MarkActive, Settle, Finish, MarkManualStep, MarkManual, MarkRefused, MarkCompensating, Reread,
       UndoNothing, UndoAccount, UndoFails, MarkUndone, PurgeUndone, Close, MarkCompensated, in
  <2>2. CASE Met'
    <3>1. AllMet'
      BY <1>1, <1>3 DEF Quiet, AllMet, Unmet, Grown
    <3> QED BY <2>2, <3>1 DEF Quiet
  <2>3. CASE ~Met'
    <3>1. Turned(r) /\ Recorded' /\ Clean' /\ Course(r)'
      BY <1>1, <1>4, <2>3, AdvanceQuiet, CallsQuiet, MarksQuiet, FinishQuiet, UndoQuiet, CloseQuiet DEF RunStep, Forward, Compensate
    <3> QED BY <1>1, <1>3, <2>1, <3>1, WorkerQuiet
  <2> QED BY <2>2, <2>3
<1>5. CASE UNCHANGED vars
  <2>1. op' = op /\ step' = step /\ run' = run /\ row' = row /\ account' = account
    BY <1>5 DEF vars, journal, store
  <2> QED BY <1>1, <1>3, <2>1, BesideQuiet
<1>6. ASSUME NEW r \in Runners, Preflight(r) \/ Resume(r) \/ RunStep(r) PROVE Quiet'
  BY <1>1, <1>3, <1>4, <1>6, StartQuiet
<1> QED BY <1>1, <1>3, <1>5, <1>6, NodeQuiet, OperatorQuiet, RestartQuiet DEF Next

\* An operation that was compensated left nothing behind, for any number of grants and runs, through restarts,
\* refusals, lost replies, reports, deletions and accounts of others (compensate, purge_grant, finish); the
\* exceptions are those of CompensatedIsClean, each of a grant that something else came to, and two runs that
\* overlapped.
THEOREM CompensationIsClean == Spec => []CompensatedIsClean
<1>1. Init => Quiet
  <2> SUFFICES ASSUME Init PROVE Quiet
    OBVIOUS
  <2>1. (\A r \in Runners : run[r].pc \in Away) /\ \A g \in Grants : marks[g] = {}
    BY Values DEF Init, Away
  <2>2. Single /\ \A r \in Runners : Course(r)
    BY <2>1 DEF Single, Course, Away, Fore, Rear, Looping, Working
  <2>3. AllMet /\ Recorded /\ Clean
    BY <2>1 DEF Init, AllMet, Recorded, Clean, Local
  <2> QED BY <2>2, <2>3 DEF Quiet
<1>2. Base /\ Noting /\ Held /\ Held' /\ Quiet /\ [Next]_vars => Quiet'
  BY NextQuiet
<1>3. Quiet => CompensatedIsClean
  <2> SUFFICES ASSUME Quiet, op = "compensated", NEW g \in Grants, here(g)
               PROVE  row[g] # "live" /\ (g \in Local => account[g] # "ours")
    BY DEF CompensatedIsClean, here, Dropped
  <2>1. ~Met
    BY DEF Quiet, AllMet, Met, here, marked, Dropped
  <2> QED BY <2>1 DEF Quiet, Clean
<1> QED BY <1>1, <1>2, <1>3, JournalHolds, PTL DEF Spec

=============================================================================
