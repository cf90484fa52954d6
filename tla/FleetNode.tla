----------------------------- MODULE FleetNode ------------------------------
(***************************************************************************)
(* The node side of the fleet, one protocol of it: the reconciler that     *)
(* brings the runtime accounts to the latest generation                    *)
(* (fleet/src/node/reconcile.rs), the rows that say which of them the      *)
(* central owns (managed_resources, fleet/src/node/managed.rs), and the    *)
(* panel's own writers, which ask those rows first (guard.rs, ADR 003).    *)
(*                                                                         *)
(* The reconcile lock admits one apply at a time. It does not hold back    *)
(* the panel's other writers, a newer generation, or a restart between a   *)
(* manager's call and the row that records it.                             *)
(***************************************************************************)
EXTENDS Naturals

CONSTANTS
  N,              \* runtime names, in the order of the document
  Refs,           \* resource references
  Imported,       \* references the central took over from the node's inventory
  Windowed,       \* references whose validity ends
  AcceptsCaller,  \* whether the manager takes a credential from its caller
  MaxGenerations, \* bound: generations
  MaxCredentials, \* bound: versions of a credential
  MaxFailures,    \* bound: manager calls that fail or whose reply is lost
  MaxOutages,     \* bound: inventories that cannot be read
  MaxCrashes,     \* bound: restarts
  MaxLocals,      \* bound: writes by the panel itself
  MaxUnlinks      \* bound: unlinks of the central

ASSUME ReferencesAssumption ==
  N \in Nat \ {0} /\ Imported \subseteq Refs /\ Windowed \subseteq Refs /\ "none" \notin Refs
ASSUME SwitchesAssumption == AcceptsCaller \in BOOLEAN
ASSUME BoundsAssumption ==
  /\ MaxGenerations \in Nat /\ MaxCredentials \in Nat /\ MaxFailures \in Nat /\ MaxOutages \in Nat
  /\ MaxCrashes \in Nat /\ MaxLocals \in Nat /\ MaxUnlinks \in Nat

Names == 1..N
Versions == 1..MaxCredentials

VARIABLES
  latest,  \* the latest row of managed_generations; generation 0 before any push
  rows,    \* managed_resources
  account, \* the runtime's accounts, each with whose it is
  job,     \* the apply that holds the reconcile lock
  local,   \* a writer of the panel itself
  elapsed, \* the validity windows have ended
  spent,   \* the budgets used up
  overtaken, \* history: an apply recorded the writer's name after the writer had asked for it
  crossed    \* history: names that a writer wrote behind an apply's back, or that an apply recorded unread

history == <<overtaken, crossed>>
vars == <<latest, rows, account, job, local, elapsed, spent, history>>

\* A credential_ref: a secret of its own for every reference, and its version.
Credentials == Refs \X Versions
Null == <<"none", 0>>

\* A resource of a document, and one that left it (want "none"), which the central still knows. The
\* credentials a name is given are numbered in their order: none is named again after another one.
Resources == [ref : Refs, version : Versions, want : {"none", "enabled", "disabled", "deleted"}]
NoResource == [ref |-> "none", version |-> 0, want |-> "none"]
credential(resource) == <<resource.ref, resource.version>>
Docs == [Names -> Resources \cup {NoResource}]

\* A row of managed_resources.
Rows == [ref : Refs, cred : Credentials \cup {Null}, state : {"enabled", "disabled", "failed", "missing"}]
NoRow == [ref |-> "none", cred |-> Null, state |-> "none"]

\* A runtime account: made by the panel itself or by hand, or the central's.
Accounts == [owner : {"local", "central"}, cred : Credentials \cup {Null}, enabled : BOOLEAN]
NoAccount == [owner |-> "none", cred |-> Null, enabled |-> FALSE]

Budgets == [failure |-> MaxFailures, outage |-> MaxOutages, crash |-> MaxCrashes, local |-> MaxLocals, unlink |-> MaxUnlinks]
spend(what) == spent[what] < Budgets[what] /\ spent' = [spent EXCEPT ![what] = @ + 1]

Idle ==
  [pc |-> "idle", generation |-> 0, doc |-> [n \in Names |-> NoResource], known |-> [n \in Names |-> NoRow],
   seen |-> [n \in Names |-> NoAccount], at |-> 0, applied |-> {}, failed |-> FALSE]
NoWriter == [pc |-> "idle", name |-> 0]
Unlinked == [generation |-> 0, state |-> "none", doc |-> [n \in Names |-> NoResource]]

Init ==
  /\ latest = Unlinked /\ rows = [n \in Names |-> NoRow] /\ account = [n \in Names |-> NoAccount]
  /\ job = Idle /\ local = NoWriter /\ elapsed = FALSE
  /\ spent = [b \in DOMAIN Budgets |-> 0] /\ overtaken = FALSE /\ crossed = {}

state_of(enabled) == IF enabled THEN "enabled" ELSE "disabled"
wanted(resource) == resource.want = "enabled" /\ (resource.ref \in Windowed => ~elapsed)

---------------------------------------------------------------------------
(* The central's next generation *)

\* What may follow a resource: its next state, with its credential or the next one. A deleted one is
\* dropped, or its name granted again, once the node reported it missing.
follows(old, new, row) ==
  LET same == new.ref = old.ref /\ new.version \in {old.version, old.version + 1}
      other == new.ref # old.ref /\ new.version = old.version + 1
      dropped == new = [old EXCEPT !.want = "none"]
  IN CASE old.want = "none" -> new.want # "none" /\ (same \/ other)
       [] old.want \in {"enabled", "disabled"} -> dropped \/ (same /\ new.want # "none")
       [] old.want = "deleted" -> row.state = "missing" /\ (dropped \/ (other /\ new.want \in {"enabled", "disabled"}))

\* FleetNode::accept of a document that is newer than the latest.
Accept(n, resource) ==
  /\ latest.generation < MaxGenerations
  /\ resource # latest.doc[n] /\ follows(latest.doc[n], resource, rows[n])
  /\ latest' = [generation |-> latest.generation + 1, state |-> "received", doc |-> [latest.doc EXCEPT ![n] = resource]]
  /\ UNCHANGED <<rows, account, job, local, elapsed, spent, history>>

---------------------------------------------------------------------------
(* The start of an apply *)

\* A missing row that the generation names under another reference has been reported.
stale ==
  {n \in Names : rows[n].state = "missing" /\ latest.doc[n].want # "none" /\ latest.doc[n].ref # rows[n].ref}

start ==
  LET known == [n \in Names |-> IF n \in stale THEN NoRow ELSE rows[n]] IN
  /\ job.pc = "idle" /\ latest.generation > 0
  /\ rows' = known
  /\ latest' = [latest EXCEPT !.state = "applying"]
  /\ job' = [Idle EXCEPT !.pc = "discover", !.generation = latest.generation, !.doc = latest.doc, !.known = known]
  /\ UNCHANGED <<account, local, elapsed, spent, history>>

\* apply, for a push of the latest generation, also for one that is pushed again.
Apply == start

FailuresOnly == FALSE
\* An elapsed window makes a converged generation due again.
due == \E n \in Names :
  /\ latest.doc[n].want \in {"enabled", "disabled"}
  /\ rows[n].state # state_of(wanted(latest.doc[n]))
RunPending == (latest.state # "converged" \/ due) /\ start

---------------------------------------------------------------------------
(* apply_protocol: the inventory *)

here == job.at
resource_here == job.doc[here]
named(n) == job.doc[n].want # "none"
orphan(n) == ~named(n) /\ job.known[n].state # "none"
in(pc) == job.pc = pc
goto(pc) == job' = [job EXCEPT !.pc = pc]
Named == {n \in Names : named(n)}
Orphans == {n \in Names : orphan(n)}
\* The next name after the given one that a loop is about.
after(n, chosen) ==
  LET left == {m \in chosen : m > n} IN
  IF left = {} THEN N + 1 ELSE CHOOSE m \in left : \A k \in left : m <= k

\* History: an apply records these names, and a writer may have asked for one of them.
record(names) == overtaken' = (overtaken \/ (local # NoWriter /\ local.name \in names))

StoredReference(n) == [ref |-> rows[n].ref, cred |-> rows[n].cred, state |-> "failed"]
\* record_failed keeps the credential that the row names.
failed_row(n) == [ref |-> IF named(n) THEN job.doc[n].ref ELSE rows[n].ref, cred |-> rows[n].cred, state |-> "failed"]

Discover ==
  /\ in("discover")
  /\ job' = [job EXCEPT !.pc = "resource", !.seen = account, !.at = after(0, Named)]
  /\ UNCHANGED <<latest, rows, account, local, elapsed, spent, history>>
DiscoverFails ==
  /\ in("discover") /\ spend("outage")
  /\ rows' = [n \in Names |-> IF n \in Named \cup Orphans THEN failed_row(n) ELSE rows[n]]
  /\ job' = [job EXCEPT !.pc = "lanes", !.failed = TRUE]
  /\ UNCHANGED <<latest, account, local, elapsed>>
  /\ record(Named \cup Orphans)
  /\ crossed' = crossed \cup {n \in Named \cup Orphans : account[n].owner = "local"}

---------------------------------------------------------------------------
(* apply_resource *)

item == job.seen[here].owner # "none"
OwnedWhenKnown == job.known[here].state # "none"
\* A missing row owns nothing.
stored == job.known[here].state \notin {"none", "missing"}
at_resource == in("resource") /\ here \in Names

\* A runtime user that this node never recorded as its own is reported, and not written down.
Collision ==
  /\ at_resource /\ item /\ ~stored
  /\ resource_here.ref \notin Imported \/ resource_here.want = "deleted"
  /\ job' = [job EXCEPT !.at = after(here, Named), !.failed = TRUE]
  /\ UNCHANGED <<latest, rows, account, local, elapsed, spent, history>>

\* The one deliberate adoption: the pushed reference names the credential the runtime holds today.
Adopt ==
  LET row == [ref |-> resource_here.ref, cred |-> credential(resource_here), state |-> state_of(job.seen[here].enabled)] IN
  /\ at_resource /\ item /\ ~stored
  /\ resource_here.ref \in Imported /\ resource_here.want # "deleted"
  /\ rows' = [rows EXCEPT ![here] = row]
  /\ account' = [account EXCEPT ![here] =
       IF @ = NoAccount THEN @ ELSE [@ EXCEPT !.owner = "central", !.cred = credential(resource_here)]]
  /\ job' = [job EXCEPT !.known[here] = row]
  /\ UNCHANGED <<latest, local, elapsed, spent, crossed>>
  /\ record({here})

Withdraw ==
  /\ at_resource /\ resource_here.want = "deleted" /\ (item => stored)
  /\ goto(IF item THEN "delete" ELSE "record")
  /\ UNCHANGED <<latest, rows, account, local, elapsed, spent, history>>

NoPlaceholder ==
  /\ at_resource /\ resource_here.want # "deleted" /\ ~item
  /\ goto("create")
  /\ UNCHANGED <<latest, rows, account, local, elapsed, spent, history>>
\* The row comes before the account, so that a restart after the create finds its own.
Placeholder ==
  /\ at_resource /\ resource_here.want # "deleted" /\ ~item
  /\ rows' = [rows EXCEPT ![here] = failed_row(here)]
  /\ goto("create")
  /\ UNCHANGED <<latest, account, local, elapsed, spent, crossed>>
  /\ record({here})

NeverRotated == FALSE
\* The credential changed, or the row of an interrupted create names none.
rotates ==
  LET row == job.known[here] IN row.cred # credential(resource_here) /\ (row.cred # Null \/ AcceptsCaller)
\* Without a rotation a credential that the manager chose is captured and handed back under the reference named.
Keep ==
  /\ at_resource /\ resource_here.want # "deleted" /\ item /\ stored
  /\ account' = [account EXCEPT ![here].cred = IF rotates \/ AcceptsCaller \/ account[here] = NoAccount THEN @ ELSE credential(resource_here)]
  /\ goto(IF rotates THEN "rotate" ELSE "switch")
  /\ UNCHANGED <<latest, rows, local, elapsed, spent, history>>

---------------------------------------------------------------------------
(* The manager's calls. A call may fail before or after it took effect. *)

call(pc, possible, result, then) ==
  /\ in(pc)
  /\ \/ possible /\ account' = [account EXCEPT ![here] = result] /\ job' = then /\ UNCHANGED spent
     \/ possible /\ account' = [account EXCEPT ![here] = result] /\ goto("fail") /\ spend("failure")
     \/ possible /\ UNCHANGED account /\ goto("fail") /\ spend("failure")
     \/ ~possible /\ UNCHANGED account /\ goto("fail") /\ UNCHANGED spent
  /\ UNCHANGED <<latest, rows, local, elapsed, history>>

exists == account[here] # NoAccount
to(pc) == [job EXCEPT !.pc = pc]
Create ==
  call("create", ~exists, [owner |-> "central", cred |-> credential(resource_here), enabled |-> TRUE],
       [to("switch") EXCEPT !.seen[here].enabled = TRUE])
Rotate == call("rotate", exists, [account[here] EXCEPT !.cred = credential(resource_here)], to("switch"))
Delete == call("delete", exists, NoAccount, to("record"))
unswitched == job.seen[here].enabled # wanted(resource_here)
Switch ==
  /\ in("switch") /\ unswitched
  /\ call("switch", exists, [account[here] EXCEPT !.enabled = wanted(resource_here)],
          [to("record") EXCEPT !.seen[here].enabled = wanted(resource_here)])
Switched ==
  /\ in("switch") /\ ~unswitched
  /\ goto("record")
  /\ UNCHANGED <<latest, rows, account, local, elapsed, spent, history>>
\* The other calls about an account that stands may fail: the capture of its credential, and its options.
DetailFails ==
  /\ \/ at_resource /\ resource_here.want # "deleted" /\ item /\ stored /\ ~rotates /\ ~AcceptsCaller
     \/ in("switch") /\ ~unswitched
  /\ goto("fail") /\ spend("failure")
  /\ UNCHANGED <<latest, rows, account, local, elapsed, history>>

Record ==
  /\ in("record")
  /\ rows' = [rows EXCEPT ![here] =
       [ref |-> resource_here.ref, cred |-> credential(resource_here),
        state |-> IF resource_here.want = "deleted" THEN "missing" ELSE state_of(job.seen[here].enabled)]]
  /\ job' = [job EXCEPT !.pc = "resource", !.at = after(here, Named), !.applied = @ \cup {here}]
  /\ UNCHANGED <<latest, account, local, elapsed, spent, crossed>>
  /\ record({here})
Fail ==
  /\ in("fail")
  /\ rows' = [rows EXCEPT ![here] = failed_row(here)]
  /\ job' = [job EXCEPT !.pc = "resource", !.at = after(here, Named), !.failed = TRUE]
  /\ UNCHANGED <<latest, account, local, elapsed, spent, crossed>>
  /\ record({here})

---------------------------------------------------------------------------
(* The readback, the orphans and the end *)

to_orphans(failed) == [job EXCEPT !.pc = "orphan", !.at = after(0, Orphans), !.failed = failed]
\* A manager's answer is not evidence: the inventory is.
confirmed(n) ==
  IF job.doc[n].want = "deleted" THEN account[n] = NoAccount
  ELSE account[n] # NoAccount /\ account[n].enabled = wanted(job.doc[n])
readback(refuted) ==
  /\ in("resource") /\ here = N + 1
  /\ rows' = [n \in Names |-> IF n \in refuted THEN failed_row(n) ELSE rows[n]]
  /\ job' = to_orphans(job.failed \/ refuted # {})
  /\ UNCHANGED <<latest, account, local, elapsed, crossed>>
  /\ record(refuted)
Readback == readback({n \in job.applied : ~confirmed(n)}) /\ UNCHANGED spent
ReadbackFails == job.applied # {} /\ readback(job.applied) /\ spend("outage")

\* Owned accounts that the generation no longer names; a missing row leaves a local user of its
\* name alone.
at_orphan == in("orphan") /\ here \in Names
doomed == job.seen[here].owner # "none" /\ job.known[here].state # "missing"
OrphanDelete ==
  /\ at_orphan /\ doomed
  /\ \/ exists /\ account' = [account EXCEPT ![here] = NoAccount] /\ goto("forget") /\ UNCHANGED spent
     \/ /\ \/ exists /\ spend("failure") /\ account' \in {account, [account EXCEPT ![here] = NoAccount]}
           \/ ~exists /\ UNCHANGED <<account, spent>>
        /\ job' = [job EXCEPT !.at = after(here, Orphans), !.failed = TRUE]
  /\ UNCHANGED <<latest, rows, local, elapsed, history>>
OrphanForget ==
  /\ in("forget") \/ (at_orphan /\ ~doomed)
  /\ rows' = [rows EXCEPT ![here] = NoRow]
  /\ job' = [job EXCEPT !.pc = "orphan", !.at = after(here, Orphans)]
  /\ UNCHANGED <<latest, account, local, elapsed, spent, history>>

\* The lanes, the relay and the egress are sections of their own, here with their outcome alone.
section_fails(pc) == job' = [job EXCEPT !.pc = pc, !.failed = TRUE] /\ spend("failure")
\* A refused lane fails the resources it carries, never the users themselves.
Lanes ==
  LET running == {n \in Names : named(n) /\ wanted(job.doc[n]) /\ rows[n].state = "enabled"} IN
  /\ in("lanes") \/ (in("orphan") /\ here = N + 1)
  /\ \/ goto("relay") /\ UNCHANGED <<rows, spent>>
     \/ \E laned \in SUBSET running :
          /\ rows' = [n \in Names |->
               IF n \in laned THEN [ref |-> job.doc[n].ref, cred |-> credential(job.doc[n]), state |-> "failed"] ELSE rows[n]]
          /\ section_fails("relay")
  /\ UNCHANGED <<latest, account, local, elapsed, history>>
Relay ==
  /\ in("relay")
  /\ (goto("egress") /\ UNCHANGED spent) \/ section_fails("egress")
  /\ UNCHANGED <<latest, rows, account, local, elapsed, history>>
Egress ==
  /\ in("egress")
  /\ (goto("finish") /\ UNCHANGED spent) \/ section_fails("finish")
  /\ UNCHANGED <<latest, rows, account, local, elapsed, history>>

\* The state goes to the generation that was applied, which a newer one may have superseded.
Finish ==
  /\ in("finish")
  /\ latest' = [latest EXCEPT !.state =
       IF latest.generation # job.generation THEN @ ELSE IF job.failed THEN "failed" ELSE "converged"]
  /\ job' = Idle
  /\ UNCHANGED <<rows, account, local, elapsed, spent, history>>

---------------------------------------------------------------------------
(* The panel's own writers, unlinking, the clock and restarts *)

FailedIsFree(n) == rows[n].state \in {"enabled", "disabled"}
\* The one question every local writer asks first.
is_managed(n) == rows[n].state \notin {"none", "missing"}
\* History: a write after an apply took the name, or while one that has read the inventory is about the name.
cross(n) ==
  /\ crossed' = IF overtaken \/ (job.pc \notin {"idle", "discover"} /\ (named(n) \/ orphan(n))) THEN crossed \cup {n} ELSE crossed
  /\ UNCHANGED overtaken

LocalCheck(n, what) ==
  /\ local = NoWriter /\ ~is_managed(n)
  /\ spend("local")
  /\ local' = [pc |-> what, name |-> n]
  /\ overtaken' = FALSE
  /\ UNCHANGED <<latest, rows, account, job, elapsed, crossed>>
LocalCreate ==
  /\ local.pc = "create"
  /\ account' = [account EXCEPT ![local.name] = IF @ = NoAccount THEN [owner |-> "local", cred |-> Null, enabled |-> TRUE] ELSE @]
  /\ local' = NoWriter
  /\ UNCHANGED <<latest, rows, job, elapsed, spent>>
  /\ cross(local.name)
LocalDelete ==
  /\ local.pc = "delete"
  /\ account' = [account EXCEPT ![local.name] = NoAccount]
  /\ local' = NoWriter
  /\ UNCHANGED <<latest, rows, job, elapsed, spent>>
  /\ cross(local.name)

\* Unlinking waits for the reconcile lock; the accounts stay and become local.
Unlink ==
  /\ job.pc = "idle" /\ latest # Unlinked
  /\ spend("unlink")
  /\ latest' = Unlinked /\ rows' = [n \in Names |-> NoRow]
  /\ account' = [n \in Names |-> IF account[n] = NoAccount THEN NoAccount ELSE [account[n] EXCEPT !.owner = "local"]]
  /\ UNCHANGED <<job, local, elapsed, history>>

Elapse ==
  /\ ~elapsed /\ elapsed' = TRUE
  /\ UNCHANGED <<latest, rows, account, job, local, spent, history>>

Restart ==
  /\ spend("crash")
  /\ job' = Idle /\ local' = NoWriter
  /\ UNCHANGED <<latest, rows, account, elapsed, history>>

---------------------------------------------------------------------------

JobStep ==
  \/ Discover \/ DiscoverFails \/ Collision \/ Adopt \/ Withdraw \/ Placeholder \/ Keep
  \/ Create \/ Rotate \/ Delete \/ Switch \/ Switched \/ DetailFails \/ Record \/ Fail
  \/ Readback \/ ReadbackFails \/ OrphanDelete \/ OrphanForget
  \/ Lanes \/ Relay \/ Egress \/ Finish

Next ==
  \/ \E n \in Names, resource \in Resources : Accept(n, resource)
  \/ Apply \/ RunPending \/ JobStep
  \/ (\E n \in Names, what \in {"create", "delete"} : LocalCheck(n, what)) \/ LocalCreate \/ LocalDelete
  \/ Unlink \/ Elapse \/ Restart
Spec == Init /\ [][Next]_vars

---------------------------------------------------------------------------
(* Safety *)

Pcs == {"idle", "discover", "resource", "create", "rotate", "delete", "switch", "record", "fail", "orphan", "forget",
        "lanes", "relay", "egress", "finish"}
\* Every variable has its type and no budget is overdrawn.
TypeOK ==
  /\ latest \in [generation : 0..MaxGenerations, state : {"none", "received", "applying", "converged", "failed"}, doc : Docs]
  /\ rows \in [Names -> Rows \cup {NoRow}]
  /\ account \in [Names -> Accounts \cup {NoAccount}]
  /\ job \in [pc : Pcs, generation : 0..MaxGenerations, doc : Docs, known : [Names -> Rows \cup {NoRow}],
              seen : [Names -> [owner : {"none", "local", "central"}, cred : Credentials \cup {Null}, enabled : BOOLEAN]],
              at : 0..N + 1, applied : SUBSET Names, failed : BOOLEAN]
  /\ local \in [pc : {"idle", "create", "delete"}, name : 0..N]
  /\ elapsed \in BOOLEAN /\ overtaken \in BOOLEAN /\ crossed \subseteq Names
  /\ spent \in [DOMAIN Budgets -> Nat] /\ \A b \in DOMAIN Budgets : spent[b] <= Budgets[b]

\* An account the central put on the node is never without a row that owns it, whatever failed or
\* crashed: it can always be withdrawn, and the next apply does not take it for somebody else's.
OwnedHasRow == \A n \in Names : account[n].owner = "central" => is_managed(n)

\* A generation that the node reports as converged is what the runtime holds: accounts, credentials
\* and states as the document says, and nothing of the central's beside it, through lost replies, outages,
\* restarts and the panel's own writers. The exceptions are the names of crossed: a local writer wrote one after
\* an apply had read the inventory or recorded the name, or an apply recorded it unread over a local account.
ConvergedIsApplied ==
  latest.state = "converged" /\ job.pc = "idle" =>
    \A n \in Names \ crossed :
      LET wish == latest.doc[n] IN
      IF wish.want \in {"none", "deleted"} THEN account[n].owner # "central"
      ELSE /\ account[n].owner = "central" /\ account[n].cred = credential(wish)
           /\ account[n].enabled => wish.want = "enabled"
           /\ wish.ref \notin Windowed => account[n].enabled = (wish.want = "enabled")

\* What a step of an apply may do to an account that the panel or a person made: nothing, or adopt one that the
\* central imported.
kept(n) ==
  account[n].owner = "local" =>
    \/ account'[n] = account[n]
    \/ job.doc[n].ref \in Imported /\ account'[n] = [account[n] EXCEPT !.owner = "central", !.cred = credential(job.doc[n])]

\* What reconcile.rs and ADR 003 say: a runtime user that the node did not record as its own is never touched.
NoForeignTaken == [][job' # job => \A n \in Names : kept(n)]_vars

\* An apply never changes an account that the panel or a person made, whatever failed, restarted or was written
\* meanwhile. The exceptions are the names of crossed: those that an apply recorded as its own while it could not
\* read the inventory, and those that a local writer wrote behind the apply's back.
ForeignUntouched == [][job' # job => \A n \in Names \ crossed : kept(n)]_vars

\* The panel's own writers never change an account that the central owns, with applies at work between their
\* question and their write. The exception is a writer whose name an apply recorded after it had asked.
CentralIsOnlyWriter ==
  [][local' # local /\ ~overtaken => \A n \in Names : account[n].owner = "central" => account'[n] = account[n]]_vars

---------------------------------------------------------------------------
(* Liveness *)

\* An apply goes on, and the enforcer's tick retries what is pending.
FairSpec == Spec /\ WF_vars(JobStep) /\ WF_vars(RunPending)

\* Failures, outages and restarts that stop leave a generation converged with every window enforced,
\* unless a local account stands in the way of a name or a writer crossed an apply.
Converges ==
  latest.generation > 0 ~>
    \/ /\ latest.state = "converged"
       /\ \A n \in Names : latest.doc[n].want \in {"enabled", "disabled"} => account[n].enabled = wanted(latest.doc[n])
    \/ latest.generation = 0
    \/ \E n \in Names : latest.doc[n].want # "none" /\ (account[n].owner = "local" \/ n \in crossed)
=============================================================================
