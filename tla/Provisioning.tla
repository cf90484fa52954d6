---------------------------- MODULE Provisioning ----------------------------
(***************************************************************************)
(* The provisioning saga (clients/src/provisioning.rs): one operation that *)
(* issues several accesses. The accounts of local grants are created       *)
(* through manager adapters, one step after the other, each with a durable *)
(* checkpoint; grants on a linked panel wait for that node's report. An    *)
(* adapter error compensates what the operation created, and a restarted   *)
(* or repeated run goes on from the journal.                               *)
(*                                                                         *)
(* Runs share no lock: the request that issued the accesses, a resume of   *)
(* the same operation, the fleet pusher and an operator who deletes a      *)
(* grant interleave between database transactions and manager calls.       *)
(***************************************************************************)
EXTENDS Naturals

CONSTANTS
  N,          \* grants of the operation, in the order of its steps
  Remote,     \* grants on a linked panel
  Chosen,     \* local grants whose manager chooses the credential
  Unkeyed,    \* local grants whose manager cannot replay a create by its operation id (Telemt)
  Runners,    \* requests that run the operation
  MaxCrashes, \* bound: restarts of the panel
  MaxRefusals,\* bound: managers that refuse or cannot confirm
  MaxLost,    \* bound: manager calls whose replies are all lost
  MaxDeletes, \* bound: grants an operator deletes
  MaxOthers   \* bound: accounts of the same name that somebody else creates

ASSUME GrantsAssumption ==
  N \in Nat \ {0} /\ Remote \subseteq 1..N /\ Chosen \cup Unkeyed \subseteq (1..N) \ Remote
ASSUME BoundsAssumption ==
  MaxCrashes \in Nat /\ MaxRefusals \in Nat /\ MaxLost \in Nat /\ MaxDeletes \in Nat /\ MaxOthers \in Nat

Grants == 1..N
Local == Grants \ Remote

VARIABLES
  op,      \* provisioning_operations.status
  step,    \* per grant, its step of steps_json
  row,     \* per grant, its access_grants row: absent, live or with desired_state deleted
  secret,  \* per grant, its secret_versions row
  account, \* per grant, the runtime account of its name: none, the operation's, or somebody else's
  run,     \* per runner, where run() is
  del,     \* the operator's delete of a local grant
  spent,   \* the budgets used up
  marks    \* history: per grant, what came to it besides its own run (Marks)

journal == <<op, step>>
store == <<row, secret>>
vars == <<journal, store, account, run, del, spent, marks>>

TERMINAL == {"succeeded", "compensated", "manual_intervention_required"}
CREATED == {"applied", "escrowed", "active"}
SETTLED == {"active", "remote"}
Ops == TERMINAL \cup {"none", "pending", "pending_remote", "applying", "compensating"}
StepStates == CREATED \cup {"none", "pending", "remote", "compensated", "manual"}

\* deleted: an operator began to delete it; undone: a compensation came to it; left: its step was left to a
\* person; early: a report or a withdrawal ended the operation before its step was done; unheard: its manager
\* created the account and the run did not live or hear to record that; met: a run of the operation began while
\* another was at work; caught: its row went while a run was creating its account.
Marks == {"deleted", "undone", "left", "early", "unheard", "met", "caught"}
note(set, m) == marks' = [g \in Grants |-> IF g \in set THEN marks[g] \cup {m} ELSE marks[g]]
marked(g, set) == marks[g] \cap set # {}

\* A runner: where it is, the step it is at, its copy of the steps, and whether a rollback failed
\* or a remote step was still waiting when it looked.
Idle == [pc |-> "idle", at |-> 0, seen |-> [g \in Grants |-> "none"], flag |-> FALSE]
NoDelete == [pc |-> "idle", grant |-> 0]

Budgets == [crash |-> MaxCrashes, refuse |-> MaxRefusals, lose |-> MaxLost, delete |-> MaxDeletes, other |-> MaxOthers]
spend(what) == spent[what] < Budgets[what] /\ spent' = [spent EXCEPT ![what] = @ + 1]

at(r) == run[r].at
seen(r) == run[r].seen[at(r)]
in(r, pc) == run[r].pc = pc
goto(r, pc) == run' = [run EXCEPT ![r].pc = pc]
\* The error leaves run(), with the journal where it was.
raise(r) == run' = [run EXCEPT ![r] = Idle]
\* The next step of the loop.
next(r, pc) == run' = [run EXCEPT ![r].pc = pc, ![r].at = @ + 1]

Init ==
  /\ op = "none" /\ step = [g \in Grants |-> "none"]
  /\ row = [g \in Grants |-> "none"] /\ secret = [g \in Grants |-> "none"]
  /\ account = [g \in Grants |-> "none"]
  /\ run = [r \in Runners |-> Idle] /\ del = NoDelete
  /\ spent = [b \in DOMAIN Budgets |-> 0] /\ marks = [g \in Grants |-> {}]

---------------------------------------------------------------------------
(* start *)

\* Every runtime is asked whether the name is free.
Preflight(r) ==
  /\ op = "none" /\ \A q \in Runners : in(q, "idle")
  /\ \A g \in Local : account[g] = "none"
  /\ goto(r, "reserve")
  /\ UNCHANGED <<journal, store, account, del, spent, marks>>

\* reserve: every row of the operation in one transaction. A credential the caller chooses is
\* escrowed before a manager sees it.
Reserve(r) ==
  /\ in(r, "reserve")
  /\ row' = [g \in Grants |-> "live"]
  /\ secret' = [g \in Grants |-> IF g \in Chosen THEN "none" ELSE "pending"]
  /\ step' = [g \in Grants |-> IF g \in Remote THEN "remote" ELSE "pending"]
  /\ op' = IF Remote = {} THEN "pending" ELSE "pending_remote"
  /\ goto(r, "read")
  /\ UNCHANGED <<account, del, spent, marks>>

---------------------------------------------------------------------------
(* run *)

\* A resume, of any operation.
Resume(r) ==
  /\ in(r, "idle") /\ op # "none"
  /\ goto(r, "read")
  /\ UNCHANGED <<journal, store, account, del, spent, marks>>

LeftToTheOther(r) ==
  /\ in(r, "read")
  /\ run' = [run EXCEPT ![r] =
       IF op \in TERMINAL \cup {"applying"} THEN Idle
       ELSE [pc |-> IF \A g \in Grants : step[g] \in SETTLED THEN "settle" ELSE "mark",
             at |-> 1, seen |-> step, flag |-> FALSE]]
  /\ UNCHANGED <<journal, store, account, del, spent>>
  /\ note({g \in Grants : op \notin TERMINAL /\ \E q \in Runners \ {r} : run[q].pc \notin {"idle", "read"}}, "met")
Read(r) ==
  /\ in(r, "read")
  /\ run' = [run EXCEPT ![r] =
       IF op \in TERMINAL THEN Idle
       ELSE [pc |-> IF \A g \in Grants : step[g] \in SETTLED THEN "settle" ELSE "mark",
             at |-> 1, seen |-> step, flag |-> FALSE]]
  /\ UNCHANGED <<journal, store, account, del, spent>>
  /\ note({g \in Grants : op \notin TERMINAL /\ \E q \in Runners \ {r} : run[q].pc \notin {"idle", "read"}}, "met")

MarkApplying(r) ==
  /\ in(r, "mark")
  /\ op' = "applying"
  /\ goto(r, "advance")
  /\ UNCHANGED <<step, store, account, del, spent, marks>>

\* A settled step is passed over; advance loads the grant and goes to where the step is.
Advance(r) ==
  /\ in(r, "advance") /\ at(r) \in Grants
  /\ CASE seen(r) \in SETTLED -> next(r, "advance")
       [] seen(r) \notin SETTLED /\ row[at(r)] = "none" -> raise(r)
       [] seen(r) = "pending" /\ row[at(r)] # "none" -> goto(r, "create")
       [] seen(r) = "applied" /\ row[at(r)] # "none" -> goto(r, "applied")
       [] seen(r) = "escrowed" /\ row[at(r)] # "none" -> goto(r, "confirm")
       [] seen(r) \in {"compensated", "manual"} /\ row[at(r)] # "none" -> next(r, "advance")
  /\ UNCHANGED <<journal, store, account, del, spent, marks>>

\* The adapter's create: it succeeds on a free name, and again on its own account if the manager
\* replays the operation id.
creatable(g) == account[g] = "none" \/ (account[g] = "ours" /\ g \notin Unkeyed)
CreateDone(r) ==
  /\ in(r, "create") /\ creatable(at(r))
  /\ account' = [account EXCEPT ![at(r)] = "ours"]
  /\ goto(r, "created")
  /\ UNCHANGED <<journal, store, del, spent, marks>>
CreateRefused(r) ==
  /\ in(r, "create")
  /\ IF creatable(at(r)) THEN spend("refuse") ELSE UNCHANGED spent
  /\ goto(r, "refused")
  /\ UNCHANGED <<journal, store, account, del, marks>>
\* The replies of the first call and of its retry are lost, after the manager committed. Telemt's
\* indeterminate answer escapes as it is, the other adapters report a refusal.
CreateLost(r) ==
  /\ in(r, "create") /\ creatable(at(r))
  /\ spend("lose")
  /\ account' = [account EXCEPT ![at(r)] = "ours"]
  /\ IF at(r) \in Unkeyed THEN raise(r) ELSE goto(r, "refused")
  /\ UNCHANGED <<journal, store, del>>
  /\ note({at(r)}, "unheard")
\* The manager committed before and can no longer tell the result.
CreateUnrecoverable(r) ==
  /\ in(r, "create") /\ account[at(r)] = "ours" /\ at(r) \notin Unkeyed
  /\ spend("refuse")
  /\ goto(r, "manual")
  /\ UNCHANGED <<journal, store, account, del, marks>>

\* escrow_manager_credential.
Escrow(r) ==
  /\ in(r, "created")
  /\ secret' = [secret EXCEPT ![at(r)] = IF at(r) \in Chosen /\ @ = "none" THEN "pending" ELSE @]
  /\ goto(r, "escrowed")
  /\ UNCHANGED <<journal, row, account, del, spent, marks>>

mark(r, status, pc) ==
  /\ step' = [step EXCEPT ![at(r)] = status]
  /\ run' = [run EXCEPT ![r].pc = pc, ![r].seen[at(r)] = status]
MarkApplied(r) ==
  /\ in(r, "escrowed")
  /\ mark(r, "applied", "applied")
  /\ UNCHANGED <<op, store, account, del, spent, marks>>
MarkEscrowed(r) ==
  /\ in(r, "applied")
  /\ mark(r, "escrowed", "confirm")
  /\ UNCHANGED <<op, store, account, del, spent, marks>>

\* reconcile_access: the account is read back from the runtime before the grant counts.
Confirm(r) ==
  /\ in(r, "confirm")
  /\ \/ row[at(r)] = "none" /\ raise(r) /\ UNCHANGED spent
     \/ row[at(r)] = "live" /\ account[at(r)] = "none" /\ goto(r, "refused") /\ UNCHANGED spent
     \/ row[at(r)] = "live" /\ account[at(r)] # "none" /\ goto(r, "activate") /\ UNCHANGED spent
     \/ row[at(r)] = "live" /\ account[at(r)] # "none" /\ goto(r, "refused") /\ spend("refuse")
     \/ row[at(r)] = "deleted" /\ goto(r, "activate") /\ UNCHANGED spent
  /\ UNCHANGED <<journal, store, account, del, marks>>

TransitionAnyway(r) ==
  /\ in(r, "activate")
  /\ secret' = [secret EXCEPT ![at(r)] = IF @ = "none" THEN @ ELSE "active"]
  /\ IF secret[at(r)] # "none" /\ row[at(r)] # "none" THEN goto(r, "activated") ELSE raise(r)
  /\ UNCHANGED <<journal, row, account, del, spent, marks>>
NoTransition(r) ==
  /\ in(r, "activate")
  /\ IF secret[at(r)] # "none" /\ row[at(r)] # "none" THEN goto(r, "activated") ELSE raise(r)
  /\ UNCHANGED <<journal, store, account, del, spent, marks>>
\* activate: one transaction, which fails as a whole if the grant or its credential is gone.
Activate(r) ==
  LET found == secret[at(r)] # "none" /\ row[at(r)] # "none" IN
  /\ in(r, "activate")
  /\ secret' = [secret EXCEPT ![at(r)] = IF found THEN "active" ELSE @]
  /\ IF found THEN goto(r, "activated") ELSE raise(r)
  /\ UNCHANGED <<journal, row, account, del, spent, marks>>
MarkActive(r) ==
  /\ in(r, "activated")
  /\ step' = [step EXCEPT ![at(r)] = "active"]
  /\ next(r, "advance")
  /\ UNCHANGED <<op, store, account, del, spent, marks>>

\* The journal decides how the run ends: a node may have reported meanwhile.
Settle(r) ==
  /\ in(r, "settle") \/ (in(r, "advance") /\ at(r) = N + 1)
  /\ run' = [run EXCEPT ![r].pc = "finish", ![r].flag = \E g \in Grants : step[g] = "remote"]
  /\ UNCHANGED <<journal, store, account, del, spent, marks>>
Finish(r) ==
  /\ in(r, "finish")
  /\ op' = IF run[r].flag THEN "pending_remote" ELSE "succeeded"
  /\ raise(r)
  /\ UNCHANGED <<step, store, account, del, spent, marks>>

\* ManualInterventionRequired: the step, then the operation.
MarkManualStep(r) ==
  /\ in(r, "manual")
  /\ mark(r, "manual", "stop")
  /\ UNCHANGED <<op, store, account, del, spent>>
  /\ note({at(r)}, "left")
MarkManual(r) ==
  /\ in(r, "stop")
  /\ op' = "manual_intervention_required"
  /\ raise(r)
  /\ UNCHANGED <<step, store, account, del, spent, marks>>

---------------------------------------------------------------------------
(* compensate *)

\* The error is recorded with the status the runner knows.
MarkRefused(r) ==
  /\ in(r, "refused")
  /\ mark(r, seen(r), "compensate")
  /\ UNCHANGED <<op, store, account, del, spent, marks>>
MarkCompensating(r) ==
  /\ in(r, "compensate")
  /\ op' = "compensating"
  /\ goto(r, "reread")
  /\ UNCHANGED <<step, store, account, del, spent, marks>>
Reread(r) ==
  /\ in(r, "reread")
  /\ run' = [run EXCEPT ![r] = [pc |-> "undo", at |-> 1, seen |-> step, flag |-> FALSE]]
  /\ UNCHANGED <<journal, store, account, del, spent, marks>>

OnlyActive(r) == seen(r) = "active" /\ row[at(r)] # "none" /\ at(r) \in Local
EverythingGoes(r) == row[at(r)] # "none" /\ at(r) \in Local
\* What this operation created here: never a grant of another node, never a step that did not
\* reach its manager.
undoable(r) == seen(r) \in CREATED /\ row[at(r)] # "none" /\ at(r) \in Local

UndoNothing(r) ==
  /\ in(r, "undo") /\ at(r) \in Grants /\ ~undoable(r)
  /\ step' = [step EXCEPT ![at(r)] = "compensated"]
  /\ next(r, "undo")
  /\ UNCHANGED <<op, store, account, del, spent>>
  /\ note({at(r)}, "undone")
UndoAccount(r) ==
  /\ in(r, "undo") /\ at(r) \in Grants /\ undoable(r)
  /\ account[at(r)] # "none"
  /\ account' = [account EXCEPT ![at(r)] = "none"]
  /\ goto(r, "undone")
  /\ UNCHANGED <<journal, store, del, spent>>
  /\ note({at(r)}, "undone")
\* An error, also that of an account that is gone, leaves the step to a person.
UndoFails(r) ==
  /\ in(r, "undo") /\ at(r) \in Grants /\ undoable(r)
  /\ \/ account[at(r)] = "none" /\ UNCHANGED <<account, spent>>
     \/ account[at(r)] # "none" /\ spend("refuse") /\ UNCHANGED account
     \/ account[at(r)] # "none" /\ spend("lose") /\ account' = [account EXCEPT ![at(r)] = "none"]
  /\ step' = [step EXCEPT ![at(r)] = "manual"]
  /\ run' = [run EXCEPT ![r].at = @ + 1, ![r].flag = TRUE]
  /\ UNCHANGED <<op, store, del>>
  /\ marks' = [marks EXCEPT ![at(r)] = @ \cup {"undone", "left"}]
MarkUndone(r) ==
  /\ in(r, "undone")
  /\ mark(r, "compensated", "purge")
  /\ UNCHANGED <<op, store, account, del, spent, marks>>

\* purge_grant: the row goes and its credential is revoked.
creating(g) == \E r \in Runners : at(r) = g /\ run[r].pc \in {"create", "created"}
purge(set) ==
  /\ note({g \in set : creating(g)}, "caught")
  /\ row' = [g \in Grants |-> IF g \in set THEN "none" ELSE row[g]]
  /\ secret' = [g \in Grants |-> IF g \in set /\ secret[g] # "none" THEN "revoked" ELSE secret[g]]
PurgeUndone(r) ==
  /\ in(r, "purge")
  /\ \/ row[at(r)] # "none" /\ purge({at(r)}) /\ next(r, "undo")
     \/ row[at(r)] = "none" /\ raise(r) /\ UNCHANGED <<store, marks>>
  /\ UNCHANGED <<journal, account, del, spent>>

\* The last transaction withdraws the remote grants and purges the rows of steps that never started.
Close(r) ==
  LET left == {g \in Grants : step[g] = "compensated" /\ row[g] # "none"} IN
  /\ in(r, "undo") /\ at(r) = N + 1
  /\ row' = [g \in Grants |-> IF g \notin left THEN row[g] ELSE IF g \in Remote THEN "deleted" ELSE "none"]
  /\ secret' = [g \in Grants |-> IF g \in left \cap Local /\ secret[g] # "none" THEN "revoked" ELSE secret[g]]
  /\ note({g \in left \cap Local : creating(g)}, "caught")
  /\ goto(r, "close")
  /\ UNCHANGED <<journal, account, del, spent>>
MarkCompensated(r) ==
  /\ in(r, "close")
  /\ op' = IF run[r].flag THEN "manual_intervention_required" ELSE "compensated"
  /\ raise(r)
  /\ UNCHANGED <<step, store, account, del, spent, marks>>

---------------------------------------------------------------------------
(* The linked panel, through the fleet pusher *)

waiting == op \in {"pending_remote", "applying"}
\* settled, after a report or a withdrawal changed the steps.
settled(steps) ==
  IF op # "pending_remote" \/ (\E g \in Grants : steps[g] = "remote") THEN op
  ELSE IF \E g \in Grants : steps[g] = "active" THEN "succeeded" ELSE "compensated"
cut_short(steps) == {g \in Grants : steps # step /\ settled(steps) # op /\ steps[g] # "active"}

\* external: the node brings the account to what the latest generation says.
NodeApplies(g) ==
  /\ \/ row[g] = "live" /\ account[g] = "none" /\ account' = [account EXCEPT ![g] = "ours"]
     \/ row[g] = "deleted" /\ account[g] = "ours" /\ account' = [account EXCEPT ![g] = "none"]
  /\ UNCHANGED <<journal, store, run, del, spent, marks>>

\* remote_applied with confirm_credential, for a report of the latest generation.
RemoteApplied(g) ==
  LET steps == [step EXCEPT ![g] = IF waiting /\ @ = "remote" THEN "active" ELSE @] IN
  /\ row[g] = "live" /\ account[g] = "ours"
  /\ secret' = [secret EXCEPT ![g] = IF @ = "pending" THEN "active" ELSE @]
  /\ step' = steps
  /\ op' = IF steps = step THEN op ELSE settled(steps)
  /\ note(cut_short(steps), "early")
  /\ UNCHANGED <<row, account, run, del, spent>>

\* A report of a deleted grant as missing purges it.
RemoteMissing(g) ==
  /\ row[g] = "deleted" /\ account[g] = "none"
  /\ purge({g})
  /\ UNCHANGED <<journal, account, run, del, spent>>

---------------------------------------------------------------------------
(* GrantLifecycle::delete *)

DeleteRemote(g) ==
  LET steps == [step EXCEPT ![g] = IF waiting /\ @ = "remote" THEN "compensated" ELSE @] IN
  /\ row[g] = "live"
  /\ spend("delete")
  /\ row' = [row EXCEPT ![g] = "deleted"]
  /\ step' = steps
  /\ op' = IF steps = step THEN op ELSE settled(steps)
  /\ marks' = [h \in Grants |-> marks[h] \cup {m \in {"deleted", "early"} :
                                  IF m = "deleted" THEN h = g ELSE h \in cut_short(steps)}]
  /\ UNCHANGED <<secret, account, run, del>>

DeleteLocal(g) ==
  /\ del = NoDelete /\ row[g] = "live"
  /\ spend("delete")
  /\ del' = [pc |-> "account", grant |-> g] /\ note({g}, "deleted")
  /\ UNCHANGED <<journal, store, account, run>>
DeleteAccount ==
  /\ del.pc = "account"
  /\ account' = [account EXCEPT ![del.grant] = "none"]
  /\ del' = [del EXCEPT !.pc = "forget"]
  /\ UNCHANGED <<journal, store, run, spent, marks>>
Forget ==
  /\ del.pc = "forget"
  /\ row' = [row EXCEPT ![del.grant] = IF @ = "none" THEN @ ELSE "deleted"]
  /\ del' = [del EXCEPT !.pc = "purge"]
  /\ UNCHANGED <<journal, secret, account, run, spent, marks>>
PurgeDeleted ==
  /\ del.pc = "purge"
  /\ IF row[del.grant] # "none" THEN purge({del.grant}) ELSE UNCHANGED <<store, marks>>
  /\ del' = NoDelete
  /\ UNCHANGED <<journal, account, run, spent>>

---------------------------------------------------------------------------
(* Outside *)

\* Somebody creates an account of the name on the server.
Other(g) ==
  /\ account[g] = "none"
  /\ spend("other")
  /\ account' = [account EXCEPT ![g] = "other"]
  /\ UNCHANGED <<journal, store, run, del, marks>>

Restart ==
  /\ spend("crash")
  /\ run' = [r \in Runners |-> Idle] /\ del' = NoDelete
  /\ note({g \in Grants : \E r \in Runners : at(r) = g /\ run[r].pc \in {"created", "escrowed"}}, "unheard")
  /\ UNCHANGED <<journal, store, account>>

---------------------------------------------------------------------------

Forward(r) ==
  \/ Reserve(r) \/ Read(r) \/ MarkApplying(r) \/ Advance(r)
  \/ CreateDone(r) \/ CreateRefused(r) \/ CreateLost(r) \/ CreateUnrecoverable(r)
  \/ Escrow(r) \/ MarkApplied(r) \/ MarkEscrowed(r) \/ Confirm(r) \/ Activate(r) \/ MarkActive(r)
  \/ Settle(r) \/ Finish(r) \/ MarkManualStep(r) \/ MarkManual(r)
Compensate(r) ==
  \/ MarkRefused(r) \/ MarkCompensating(r) \/ Reread(r) \/ UndoNothing(r) \/ UndoAccount(r) \/ UndoFails(r)
  \/ MarkUndone(r) \/ PurgeUndone(r) \/ Close(r) \/ MarkCompensated(r)
RunStep(r) == Forward(r) \/ Compensate(r)
Node(g) == NodeApplies(g) \/ RemoteApplied(g) \/ RemoteMissing(g)

Next ==
  \/ \E r \in Runners : Preflight(r) \/ Resume(r) \/ RunStep(r)
  \/ \E g \in Remote : Node(g) \/ DeleteRemote(g)
  \/ (\E g \in Local : DeleteLocal(g) \/ Other(g)) \/ DeleteAccount \/ Forget \/ PurgeDeleted
  \/ Restart
Spec == Init /\ [][Next]_vars

---------------------------------------------------------------------------
(* Safety *)

Pcs == {"idle", "reserve", "read", "mark", "advance", "create", "created", "escrowed", "applied", "confirm",
        "activate", "activated", "settle", "finish", "manual", "stop", "refused", "compensate", "reread",
        "undo", "undone", "purge", "close"}
\* Every variable has its type and no budget is overdrawn.
TypeOK ==
  /\ op \in Ops /\ step \in [Grants -> StepStates]
  /\ row \in [Grants -> {"none", "live", "deleted"}]
  /\ secret \in [Grants -> {"none", "pending", "active", "revoked"}]
  /\ account \in [Grants -> {"none", "ours", "other"}]
  /\ run \in [Runners -> [pc : Pcs, at : 0..N + 1, seen : [Grants -> StepStates], flag : BOOLEAN]]
  /\ del \in [pc : {"idle", "account", "forget", "purge"}, grant : 0..N]
  /\ marks \in [Grants -> SUBSET Marks]
  /\ spent \in [DOMAIN Budgets -> Nat] /\ \A b \in DOMAIN Budgets : spent[b] <= Budgets[b]

\* What docs/guides/PANEL.en.md says of a success: every access exists and its credential is in storage,
\* unless an operator deleted the grant.
EveryAccessExists ==
  op = "succeeded" => \A g \in Grants : ~marked(g, {"deleted"}) => account[g] = "ours" /\ secret[g] = "active"

\* An operation that ended as succeeded has every access it was asked for, through restarts, lost replies,
\* overlapping runs, reports and accounts of others: the account exists and its credential is active. The
\* exceptions are the grants that an operator deleted, that a compensation came to (a resumed operation passes
\* over what an interrupted compensation left and still ends as succeeded), that were left to a person, and
\* those whose step was not done when a node's report ended the operation.
SucceededIsWhole ==
  op = "succeeded" =>
    \A g \in Grants : ~marked(g, {"deleted", "undone", "left", "early"}) => account[g] = "ours" /\ secret[g] = "active"

\* An operation that ended as compensated left no account behind here, and no grant to apply, through
\* restarts, refusals and accounts of others. The exceptions: an operator deleted the grant meanwhile, its step
\* was left to a person, a withdrawal ended the operation before the step was done, the manager's answer to the
\* creation was lost or died with the panel, and two runs of the operation that overlapped.
CompensatedIsClean ==
  op = "compensated" =>
    \A g \in Grants : ~marked(g, {"deleted", "left", "early", "unheard", "met"}) =>
      row[g] # "live" /\ (g \in Local => account[g] # "ours")

\* When a grant is gone its credential is revoked, whatever the runs that issue it do meanwhile. The exception
\* is a credential that the manager chose, of a grant that went while a run was creating its account: the run
\* stores it afterwards (escrow_manager_credential), and it stays pending.
RevokedWithGrant ==
  \A g \in Grants : row[g] = "none" =>
    \/ secret[g] \in {"none", "revoked"}
    \/ g \in Chosen /\ secret[g] = "pending" /\ marked(g, {"caught"})

\* An account that somebody else created under the same name is not removed by a run, whatever restarts, lost
\* replies and overlapping runs do. The exceptions: the operator deletes that grant, or a compensation removed
\* the operation's own account of that name before (and died before it could record that).
OthersUntouched ==
  [][\A g \in Grants : account[g] = "other" /\ ~marked(g, {"deleted", "undone"}) => account'[g] = "other"]_vars

---------------------------------------------------------------------------
(* Liveness *)

\* A run goes on, an interrupted operation is resumed by the operator it is shown to, and the linked
\* panel applies and reports.
FairSpec ==
  /\ Spec
  /\ \A r \in Runners : WF_vars(RunStep(r)) /\ WF_vars(Resume(r))
  /\ \A g \in Remote : WF_vars(Node(g))

\* Every operation ends in one of the declared outcomes, whatever fails and restarts, unless a grant
\* that its journal still names is gone.
Settles == op # "none" ~> op \in TERMINAL \/ \E g \in Grants : row[g] = "none"
=============================================================================
