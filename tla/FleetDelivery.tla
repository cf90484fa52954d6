--------------------------- MODULE FleetDelivery ---------------------------
(***************************************************************************)
(* Delivery of desired generations from a central panel to one node: the   *)
(* central's publisher and pusher (panel/crates/fleet-central), the node's *)
(* generation store and reconcile queue (panel/crates/fleet/src/node), and *)
(* the HTTP calls between them, which can be lost or answered too late.    *)
(*                                                                         *)
(* A generation document is its number, the content the node must run and  *)
(* the lineage of the central that issued it: two documents are equal      *)
(* exactly when their canonical digests are.                               *)
(***************************************************************************)
EXTENDS Naturals, FiniteSets

CONSTANTS
  Contents,       \* what a node can be asked to run
  Managed,        \* contents with a credential that the node's manager chooses
  Windowed,       \* contents with a validity window (valid_from, valid_until)
  NoContent,      \* the content of NoDoc
  WithheldTicks,  \* WITHHELD_TICKS_BEFORE_BACKOFF
  MaxGen,         \* bound: operators publish up to this number
  Mishaps,        \* what may happen: "crash" of either panel, "unlink" of the node, "restore" of
                  \* the central's database, from a "backup" or empty (a link removed and added)
  MaxMishaps      \* bound: crashes, unlinks and restores

ASSUME ContentsAssumption ==
  Managed \subseteq Contents /\ Windowed \subseteq Contents /\ NoContent \notin Contents
ASSUME BoundsAssumption ==
  /\ WithheldTicks \in Nat \ {0} /\ MaxGen \in Nat /\ MaxMishaps \in Nat

VARIABLES
  \* The central's database.
  latest,    \* desired_generations: the row with the highest number
  pushed,    \* its pushed_at: absent, within STALE_APPLY_SECONDS, or older
  dirty,     \* node_links.config_dirty
  ack,       \* node_links.acknowledged_generation
  seen,      \* observed_generations: the node's last report
  escrow,    \* manager-chosen credentials the central holds
  backup,    \* a copy of the six above
  \* The pusher's memory.
  sess,      \* the one sync of this node in progress (per-node mutex)
  backoff,   \* FleetPusher.backoff
  withheld,  \* FleetPusher.withheld
  \* HTTP.
  req,       \* the push the sync is waiting for
  reply,     \* its answer, on the way back
  late,      \* documents of pushes the central gave up on, still to arrive
  \* The node.
  nodeDoc,   \* managed_generations: the row with the highest number
  nodeState, \* that row's state
  jobs,      \* applies waiting for the reconcile lock
  running,   \* the apply that holds it
  \* History and budgets.
  issued,    \* every document a central ever inserted
  done,      \* documents some apply brought to converged while they were the latest
  started,   \* highest number the node started to apply since it was last unlinked
  epoch,     \* restores of the central's database so far
  mishaps

centralDb == <<latest, pushed, dirty, ack, seen, escrow>>
pusherVars == <<sess, backoff, withheld>>
httpVars == <<req, reply, late>>
nodeVars == <<nodeDoc, nodeState, jobs, running>>
budgets == <<epoch, mishaps>>
vars == <<centralDb, backup, pusherVars, httpVars, nodeVars, issued, done, started, budgets>>

---------------------------------------------------------------------------
(* Documents, reports and jobs *)

NoDoc == [gen |-> 0, content |-> NoContent, epoch |-> 0]
Docs == [gen : Nat \ {0}, content : Contents, epoch : Nat]
Doc(gen, content) == [gen |-> gen, content |-> content, epoch |-> epoch]

\* ObservedGeneration: number and digest, and the reconcile state.
Reports == [doc : Docs \cup {NoDoc}, state : {"idle", "applying", "converged", "failed"}]
Initial == [doc |-> NoDoc, state |-> "idle"]
settled(rep) == rep.state \in {"converged", "failed"}

ReceivedIsReported(doc, state) == [doc |-> doc, state |-> IF state = "none" THEN "idle" ELSE state]
\* ManagedStore::observed: a received generation is reported as applying.
observed(doc, state) ==
  [doc |-> doc,
   state |-> CASE state = "none" -> "idle"
               [] state \in {"received", "applying"} -> "applying"
               [] OTHER -> state]

\* Who waits for an apply: the push in progress, the enforcer's tick, or nobody.
Owners == {"push", "tick", "nobody"}
Jobs == [gen : Nat \ {0}, owner : Owners]
NoJob == [doc |-> NoDoc, owner |-> "nobody"]

NoReply == [code |-> "none", rep |-> Initial, creds |-> {}]
Refusals == {"stale_generation", "digest_conflict", "refused", "error"}
StaleOnly == {"stale_generation"}
RESYNC_CODES == {"stale_generation", "digest_conflict"}

Idle == [pc |-> "idle", doc |-> NoDoc, flying |-> FALSE, dirty |-> FALSE, ack |-> 0,
         rep |-> Initial, creds |-> {}]
NoBackoff == [gen |-> 0, active |-> FALSE]
NoWithheld == [gen |-> 0, ticks |-> 0]

\* The credentials that an apply of this document hands back.
credentials(doc) == {doc.content} \cap Managed

Init ==
  /\ latest = NoDoc /\ pushed = "no" /\ dirty = FALSE /\ ack = 0
  /\ seen = Initial /\ escrow = {}
  /\ backup = [latest |-> NoDoc, pushed |-> "no", dirty |-> FALSE,
               ack |-> 0, seen |-> Initial, escrow |-> {}]
  /\ sess = Idle /\ backoff = NoBackoff /\ withheld = NoWithheld
  /\ req = "none" /\ reply = NoReply /\ late = {}
  /\ nodeDoc = NoDoc /\ nodeState = "none" /\ jobs = {} /\ running = NoJob
  /\ issued = {} /\ done = {} /\ started = 0
  /\ epoch = 0 /\ mishaps = 0

---------------------------------------------------------------------------
(* The central: publishing *)

\* DesiredStore::insert: the new row and the dirty flag, in one transaction.
insert(doc) ==
  /\ latest' = doc
  /\ pushed' = "no"
  /\ dirty' = TRUE
  /\ issued' = issued \cup {doc}

\* PublishService::publish_at, in the transaction of the change it publishes. A change that
\* compiles to the same content publishes nothing.
Publish(content) ==
  /\ latest.gen < MaxGen
  /\ content # latest.content
  /\ insert(Doc(latest.gen + 1, content))
  /\ UNCHANGED <<ack, seen, escrow, backup, pusherVars, httpVars, nodeVars, done,
                 started, budgets>>

\* STALE_APPLY_SECONDS pass since pushed_at; only the next sync looks.
PushedGrowsStale ==
  /\ sess = Idle
  /\ pushed = "fresh"
  /\ pushed' = "stale"
  /\ UNCHANGED <<latest, dirty, ack, seen, escrow, backup, pusherVars, httpVars,
                 nodeVars, issued, done, started, budgets>>

---------------------------------------------------------------------------
(* The central: one sync of the node *)

in_flight_at(doc, mark, rep) ==
  mark = "fresh" /\ rep.doc.gen = doc.gen /\ rep.state = "applying"

\* sync_client: a heartbeat the node answered; link, latest and observed are read in one
\* transaction and used, unlocked, until the sync ends. A paused or unreachable link is one whose
\* syncs do not start.
SyncStart ==
  /\ sess.pc = "idle"
  /\ sess' = [Idle EXCEPT !.pc = "started", !.doc = latest, !.dirty = dirty, !.ack = ack,
                          !.flying = in_flight_at(latest, pushed, seen)]
  /\ UNCHANGED <<centralDb, backup, backoff, withheld, httpVars, nodeVars, issued, done,
                 started, budgets>>

\* adopt imports accounts, which publishes; latest and observed are read again, the link is not.
Adopt(content) ==
  /\ sess.pc = "started"
  /\ latest.gen < MaxGen
  /\ content # latest.content
  /\ insert(Doc(latest.gen + 1, content))
  /\ sess' = [sess EXCEPT !.pc = "adopted", !.doc = latest',
                          !.flying = in_flight_at(latest', pushed', seen)]
  /\ UNCHANGED <<ack, seen, escrow, backup, backoff, withheld, httpVars, nodeVars,
                 done, started, budgets>>

deferred(gen) == backoff.gen = gen /\ backoff.active

\* What sync_client does after the reads: poll, wait, push or stop.
Decide ==
  LET undelivered == sess.dirty \/ sess.ack < sess.doc.gen
      goto(pc) == sess' = [Idle EXCEPT !.pc = pc, !.doc = sess.doc]
  IN
  /\ sess.pc \in {"started", "adopted"}
  /\ \/ sess.doc = NoDoc /\ sess' = Idle /\ UNCHANGED <<backoff, req>>
     \/ sess.doc # NoDoc /\ sess.flying /\ goto("poll") /\ UNCHANGED <<backoff, req>>
     \/ /\ sess.doc # NoDoc /\ ~sess.flying
        /\ backoff' = IF backoff.gen = sess.doc.gen THEN backoff ELSE NoBackoff
        /\ \/ deferred(sess.doc.gen) /\ sess' = Idle /\ UNCHANGED req
           \/ ~deferred(sess.doc.gen) /\ undelivered /\ goto("push") /\ req' = "sent"
           \/ /\ ~deferred(sess.doc.gen) /\ ~undelivered
              /\ IF sess.doc.content \in Windowed THEN goto("poll") ELSE sess' = Idle
              /\ UNCHANGED req
  /\ UNCHANGED <<centralDb, backup, withheld, reply, late, nodeVars, issued, done, started, budgets>>

\* FleetPusher::defer: the wait doubles up to a cap; only whether it has passed matters here.
defer(gen) == [gen |-> gen, active |-> TRUE]

BackoffElapses ==
  /\ backoff.active
  /\ backoff' = [backoff EXCEPT !.active = FALSE]
  /\ UNCHANGED <<centralDb, backup, sess, withheld, httpVars, nodeVars, issued, done, started, budgets>>

\* push, answered 2xx: mark_pushed in its own transaction, then absorb.
PushAccepted ==
  /\ sess.pc = "push" /\ req = "replied" /\ reply.code = "ok"
  /\ pushed' = IF latest.gen = sess.doc.gen THEN "fresh" ELSE pushed
  /\ sess' = [Idle EXCEPT !.pc = "absorb", !.rep = reply.rep, !.creds = reply.creds]
  /\ req' = "none" /\ reply' = NoReply
  /\ UNCHANGED <<latest, dirty, ack, seen, escrow, backup, backoff, withheld, late,
                 nodeVars, issued, done, started, budgets>>

\* push, rejected: resync on the two codes that say the numbering is behind, else defer.
PushRejected ==
  /\ sess.pc = "push" /\ req = "replied" /\ reply.code \in Refusals
  /\ IF reply.code \in RESYNC_CODES
       THEN sess' = [Idle EXCEPT !.pc = "resync", !.doc = sess.doc] /\ UNCHANGED backoff
       ELSE sess' = Idle /\ backoff' = defer(sess.doc.gen)
  /\ req' = "none" /\ reply' = NoReply
  /\ UNCHANGED <<centralDb, backup, withheld, late, nodeVars, issued, done, started, budgets>>

\* The call's owner goes away: what the node has not read yet may still arrive, and an apply
\* already started goes on with nobody waiting for it.
abandoned(js) == {IF j.owner = "push" THEN [j EXCEPT !.owner = "nobody"] ELSE j : j \in js}
abandonPush ==
  /\ late' = IF req = "sent" THEN late \cup {sess.doc} ELSE late
  /\ jobs' = abandoned(jobs)
  /\ running' = IF running.owner = "push" THEN [running EXCEPT !.owner = "nobody"] ELSE running
  /\ req' = "none" /\ reply' = NoReply

\* push, no answer: the node counts as offline until the next tick.
PushUnanswered ==
  /\ sess.pc = "push"
  /\ abandonPush
  /\ sess' = Idle
  /\ UNCHANGED <<centralDb, backup, backoff, withheld, nodeDoc, nodeState, issued, done, started, budgets>>

\* A GET of the node's report, for resync or for poll_observed, or its failure.
GetObserved ==
  /\ sess.pc \in {"resync", "poll"}
  /\ LET rep == observed(nodeDoc, nodeState)
         next == IF sess.pc = "resync" THEN "reissue"
                 ELSE IF settled(rep) THEN "capture" ELSE "absorb"
     IN sess' = [sess EXCEPT !.pc = next, !.rep = rep]
  /\ UNCHANGED <<centralDb, backup, backoff, withheld, httpVars, nodeVars, issued, done, started, budgets>>

GetUnanswered ==
  /\ sess.pc \in {"resync", "poll"}
  /\ sess' = Idle
  /\ UNCHANGED <<centralDb, backup, backoff, withheld, httpVars, nodeVars, issued, done, started, budgets>>

\* resync's transaction: compile what the node should run under the number after the node's.
Reissue ==
  LET behind == latest.gen = sess.doc.gen /\ sess.rep.doc.gen >= latest.gen IN
  /\ sess.pc = "reissue"
  /\ IF behind THEN insert(Doc(sess.rep.doc.gen + 1, latest.content))
               ELSE UNCHANGED <<latest, pushed, dirty, issued>>
  /\ sess' = Idle
  /\ UNCHANGED <<ack, seen, escrow, backup, backoff, withheld, httpVars, nodeVars,
                 done, started, budgets>>

\* capture_pending: asks for the pending credential of the generation the report names, if that
\* is still the latest. An unanswered call captures nothing.
Capture ==
  LET wanted == IF latest.gen = sess.rep.doc.gen /\ latest.gen > 0 /\ sess.rep.state = "converged"
                  THEN credentials(latest) \ escrow ELSE {}
  IN
  /\ sess.pc = "capture"
  /\ \E answered \in {wanted, {}} :
       sess' = [sess EXCEPT !.pc = "absorb", !.creds = answered]
  /\ UNCHANGED <<centralDb, backup, backoff, withheld, httpVars, nodeVars, issued, done, started, budgets>>

LateAckClears(rep, acknowledge) ==
  /\ seen' = rep
  /\ ack' = IF acknowledge /\ rep.state = "converged" THEN rep.doc.gen ELSE ack
  /\ dirty' = IF acknowledge /\ rep.state = "converged" THEN FALSE ELSE dirty
\* DesiredStore::record_observed: the report verbatim, and the acknowledgement of a converged one.
\* "A late acknowledgement of an older generation must not clear a newer dirty flag."
record_observed(rep, acknowledge) ==
  /\ seen' = rep
  /\ ack' = IF acknowledge /\ rep.state = "converged" THEN rep.doc.gen ELSE ack
  /\ dirty' = IF acknowledge /\ rep.state = "converged" /\ latest.gen = rep.doc.gen
                THEN FALSE ELSE dirty

CaptureNotAwaited(held) == FALSE
\* Absorber::uncaptured: the latest generation's manager-chosen credential is still pending.
uncaptured(held) == credentials(latest) \ held # {}

\* Absorber::absorb and FleetPusher::absorb: one transaction that escrows what came back, stores
\* the report and acknowledges it, then the in-memory counters. The resource that carries the
\* credential counts as failed when the report says failed.
Absorb ==
  LET rep == sess.rep
      current == settled(rep) /\ latest.gen = rep.doc.gen
      applied == current /\ rep.state = "converged"
      held == IF applied THEN escrow \cup (sess.creds \cap credentials(latest)) ELSE escrow
      missing == applied /\ uncaptured(held)
      ticks == IF withheld.gen # rep.doc.gen THEN 1
               ELSE IF withheld.ticks < WithheldTicks THEN withheld.ticks + 1 ELSE withheld.ticks
  IN
  /\ sess.pc = "absorb"
  /\ escrow' = held
  /\ record_observed(rep, ~missing)
  /\ withheld' = IF missing THEN [gen |-> rep.doc.gen, ticks |-> ticks] ELSE NoWithheld
  /\ backoff' = IF missing /\ ticks = WithheldTicks THEN defer(rep.doc.gen)
                ELSE IF rep.state = "converged" THEN NoBackoff
                ELSE IF current THEN defer(rep.doc.gen) ELSE backoff
  /\ sess' = Idle
  /\ UNCHANGED <<latest, pushed, backup, httpVars, nodeVars, issued, done, started, budgets>>

---------------------------------------------------------------------------
(* The central: failures *)

mishap(kind) == kind \in Mishaps /\ mishaps < MaxMishaps /\ mishaps' = mishaps + 1

CentralCrash ==
  /\ mishap("crash")
  /\ abandonPush
  /\ sess' = Idle /\ backoff' = NoBackoff /\ withheld' = NoWithheld
  /\ UNCHANGED <<centralDb, backup, nodeDoc, nodeState, issued, done, started, epoch>>

\* The procedure of docs/BACKUP_RESTORE.en.md: the database is copied, and may later be put back
\* with the panel stopped, long after its last call ended.
Backup ==
  /\ "backup" \in Mishaps /\ mishaps < MaxMishaps
  /\ backup' = [latest |-> latest, pushed |-> pushed, dirty |-> dirty, ack |-> ack,
                seen |-> seen, escrow |-> escrow]
  /\ backup' # backup
  /\ UNCHANGED <<centralDb, pusherVars, httpVars, nodeVars, issued, done, started, budgets>>

Restore ==
  /\ mishap("restore")
  /\ sess = Idle /\ late = {}
  /\ epoch' = epoch + 1
  /\ latest' = backup.latest /\ pushed' = backup.pushed /\ dirty' = backup.dirty
  /\ ack' = backup.ack /\ seen' = backup.seen /\ escrow' = backup.escrow
  /\ backoff' = NoBackoff /\ withheld' = NoWithheld
  /\ UNCHANGED <<backup, sess, httpVars, nodeVars, issued, done, started>>

---------------------------------------------------------------------------
(* The node *)

OlderIsTaken(doc, refused) ==
  CASE doc.gen = nodeDoc.gen /\ doc # nodeDoc -> "digest_conflict"
    [] OTHER -> IF refused THEN "refused" ELSE "ok"
\* ManagedStore::accept with the escrow of the pushed secrets, one transaction: the refusal
\* code, or "ok". The secret store may refuse (no master key), which rolls everything back.
verdict(doc, refused) ==
  CASE doc.gen < nodeDoc.gen -> "stale_generation"
    [] doc.gen = nodeDoc.gen /\ doc # nodeDoc -> "digest_conflict"
    [] OTHER -> IF refused THEN "refused" ELSE "ok"

accept(doc, code) ==
  IF code = "ok" /\ doc # nodeDoc
    THEN nodeDoc' = doc /\ nodeState' = "received"
    ELSE UNCHANGED <<nodeDoc, nodeState>>

\* apply_with_deadline: every accepted push runs an apply of its own, a repeated one too.
spawnApply(doc) == jobs' = jobs \cup {[gen |-> doc.gen, owner |-> "push"]}

\* PUT /generation: accept, then the apply is spawned.
NodeAccept(refused) ==
  LET code == verdict(sess.doc, refused) IN
  /\ req = "sent"
  /\ accept(sess.doc, code)
  /\ IF code = "ok"
       THEN /\ req' = "accepted" /\ UNCHANGED reply
            /\ spawnApply(sess.doc)
       ELSE /\ req' = "replied" /\ reply' = [NoReply EXCEPT !.code = code]
            /\ UNCHANGED jobs
  /\ UNCHANGED <<centralDb, backup, pusherVars, late, running, issued, done, started, budgets>>

\* The same request, read after the central stopped waiting, if it ever is.
NodeAcceptLate(doc) ==
  LET code == verdict(doc, FALSE) IN
  /\ late' = late \ {doc}
  /\ accept(doc, code)
  /\ jobs' = IF code = "ok" THEN jobs \cup {[gen |-> doc.gen, owner |-> "nobody"]} ELSE jobs
  /\ UNCHANGED <<centralDb, backup, pusherVars, req, reply, running, issued, done, started, budgets>>

\* APPLY_DEADLINE passes: 202 with the report so far and no credentials. Without a generation to
\* report (the node was unlinked meanwhile) the answer is an error.
ApplyDeadline ==
  /\ req = "accepted"
  /\ running.owner = "push" \/ \E j \in jobs : j.owner = "push"
  /\ reply' = [code |-> IF nodeDoc = NoDoc THEN "error" ELSE "ok",
               rep |-> observed(nodeDoc, nodeState), creds |-> {}]
  /\ req' = "replied"
  /\ jobs' = abandoned(jobs)
  /\ running' = IF running.owner = "push" THEN [running EXCEPT !.owner = "nobody"] ELSE running
  /\ UNCHANGED <<centralDb, backup, pusherVars, late, nodeDoc, nodeState, issued, done, started, budgets>>

\* What run_pending retries: anything not converged, and a generation with a validity window that
\* may have opened or closed.
due == nodeState # "converged" \/ nodeDoc.content \in Windowed

\* FleetReconciler::run_pending: the generation is read without the lock and applied under it.
RunPending ==
  /\ nodeDoc # NoDoc
  /\ due
  /\ running.owner # "tick" /\ \A j \in jobs : j.owner # "tick"
  /\ jobs' = jobs \cup {[gen |-> nodeDoc.gen, owner |-> "tick"]}
  /\ UNCHANGED <<centralDb, backup, pusherVars, httpVars, nodeDoc, nodeState, running, issued,
                 done, started, budgets>>

answer(job, code, rep, creds) ==
  IF job.owner = "push"
    THEN req' = "replied" /\ reply' = [code |-> code, rep |-> rep, creds |-> creds]
    ELSE UNCHANGED <<req, reply>>

AsQueued(gen) == CHOOSE d \in issued : d.gen = gen
\* What apply finds under the lock: the latest generation, read again.
reread(gen) == nodeDoc

\* FleetReconciler::apply gets the lock: a latest generation that is not the one it was asked for
\* means it is superseded, else apply_latest begins.
ApplyStart(job) ==
  LET doc == reread(job.gen) IN
  /\ running = NoJob
  /\ jobs' = jobs \ {job}
  /\ IF doc.gen # job.gen
       THEN /\ answer(job, "stale_generation", Initial, {})
            /\ UNCHANGED <<running, nodeState, started>>
       ELSE /\ running' = [doc |-> doc, owner |-> job.owner]
            /\ nodeState' = IF nodeDoc.gen = doc.gen THEN "applying" ELSE nodeState
            /\ started' = IF started < doc.gen THEN doc.gen ELSE started
            /\ UNCHANGED <<req, reply>>
  /\ UNCHANGED <<centralDb, backup, pusherVars, late, nodeDoc, issued, done, budgets>>

\* The end of apply_latest: the state of the generation it applied, and a report of the latest,
\* which may be a newer one that arrived meanwhile.
ApplyEnd(outcome) ==
  /\ running # NoJob
  /\ nodeState' = IF nodeDoc.gen = running.doc.gen THEN outcome ELSE nodeState
  /\ done' = IF nodeDoc.gen = running.doc.gen /\ outcome = "converged"
               THEN done \cup {running.doc} ELSE done
  /\ answer(running, "ok", observed(nodeDoc, nodeState'),
            IF outcome = "converged" THEN credentials(running.doc) ELSE {})
  /\ running' = NoJob
  /\ UNCHANGED <<centralDb, backup, pusherVars, late, nodeDoc, jobs, issued, started, budgets>>

\* apply_latest stops on a database error: no final state, the push is answered 500.
ApplyError ==
  /\ running # NoJob
  /\ answer(running, "error", Initial, {})
  /\ running' = NoJob
  /\ UNCHANGED <<centralDb, backup, pusherVars, late, nodeDoc, nodeState, jobs, issued, done,
                 started, budgets>>

\* FleetReconciler::unlink, under the lock apply takes.
Unlink ==
  /\ mishap("unlink")
  /\ running = NoJob
  /\ nodeDoc # NoDoc
  /\ nodeDoc' = NoDoc /\ nodeState' = "none" /\ started' = 0
  /\ UNCHANGED <<centralDb, backup, pusherVars, httpVars, jobs, running, issued, done, epoch>>

\* The node restarts: its queue is gone, the generations it recorded are not.
NodeCrash ==
  /\ mishap("crash")
  /\ jobs' = {} /\ running' = NoJob
  /\ UNCHANGED <<centralDb, backup, pusherVars, httpVars, nodeDoc, nodeState, issued, done,
                 started, epoch>>

---------------------------------------------------------------------------

Operator == \E c \in Contents : Publish(c)
Time == PushedGrowsStale \/ BackoffElapses
Sync ==
  \/ SyncStart \/ (\E c \in Contents : Adopt(c)) \/ Decide
  \/ PushAccepted \/ PushRejected \/ PushUnanswered
  \/ GetObserved \/ GetUnanswered \/ Reissue \/ Capture \/ Absorb
Node ==
  \/ (\E refused \in BOOLEAN : NodeAccept(refused))
  \/ (\E d \in late : NodeAcceptLate(d))
  \/ ApplyDeadline \/ RunPending
  \/ (\E j \in jobs : ApplyStart(j))
  \/ (\E o \in {"converged", "failed"} : ApplyEnd(o)) \/ ApplyError
Failure == CentralCrash \/ Backup \/ Restore \/ Unlink \/ NodeCrash

Next == Operator \/ Time \/ Sync \/ Node \/ Failure
Spec == Init /\ [][Next]_vars

---------------------------------------------------------------------------
(* Safety *)

Phases == {"idle", "started", "adopted", "push", "poll", "resync", "reissue", "capture", "absorb"}
Marks == {"no", "fresh", "stale"}
Rows == [latest : Docs \cup {NoDoc}, pushed : Marks, dirty : BOOLEAN, ack : Nat, seen : Reports,
         escrow : SUBSET Managed]
Sessions == [pc : Phases, doc : Docs \cup {NoDoc}, flying : BOOLEAN, dirty : BOOLEAN, ack : Nat,
             rep : Reports, creds : SUBSET Managed]
Replies == [code : Refusals \cup {"none", "ok"}, rep : Reports, creds : SUBSET Managed]
NodeStates == {"none", "received", "applying", "converged", "failed"}
\* Every value either panel stores or sends has its type.
TypeOK ==
  /\ latest \in Docs \cup {NoDoc} /\ pushed \in Marks /\ dirty \in BOOLEAN /\ ack \in Nat
  /\ seen \in Reports /\ escrow \in SUBSET Managed
  /\ backup \in Rows
  /\ sess \in Sessions
  /\ backoff \in [gen : Nat, active : BOOLEAN]
  /\ withheld \in [gen : Nat, ticks : 0..WithheldTicks]
  /\ req \in {"none", "sent", "accepted", "replied"} /\ reply \in Replies
  /\ late \in SUBSET Docs
  /\ nodeDoc \in Docs \cup {NoDoc} /\ nodeState \in NodeStates
  /\ jobs \in SUBSET Jobs
  /\ running \in [doc : Docs \cup {NoDoc}, owner : Owners]
  /\ issued \in SUBSET Docs /\ done \in SUBSET Docs
  /\ started \in Nat /\ epoch \in Nat /\ mishaps \in Nat

\* A link the central shows as clean (config_dirty = 0) means the node converged on exactly the
\* document the central now wants, whatever was lost, repeated, superseded or restarted.
CleanIsConverged == ~dirty /\ latest # NoDoc => latest \in done

\* The same link also means that the central holds the credential the node's manager chose, so a
\* client's subscription can be rendered: a lost reply never leaves it behind.
CleanHoldsCredential == ~dirty => credentials(latest) \subseteq escrow

\* The node never goes back to an older generation: however pushes, ticks and late requests queue
\* for the reconcile lock, an apply in progress is the highest one begun so far and is not below
\* any generation whose convergence was reported since the node was linked.
NoOlderGenerationApplied ==
  /\ running # NoJob => running.doc.gen = started
  /\ nodeDoc.gen >= started

\* The implementation keeps the promise of ADR 002 as long as the central's database only moves
\* forward: each step of either panel is a step of FleetGenerations or changes nothing there.
Abstract == INSTANCE FleetGenerations WITH
  published <- latest, held <- nodeDoc, converged <- done, clean <- ~dirty
RefinesGenerations == Abstract!Spec

---------------------------------------------------------------------------
(* Liveness *)

\* The node's own tasks: the enforcer ticks and the reconcile lock is handed out in order. An
\* apply that fails is tried again, and one in the end succeeds.
NodeFairness ==
  /\ WF_vars(RunPending)
  /\ \A o \in Owners : SF_vars(\E j \in jobs : j.owner = o /\ ApplyStart(j))
  /\ SF_vars(ApplyEnd("converged"))

\* The node restarted, and no apply is left to answer the push.
unanswerable == req = "accepted" /\ running.owner # "push" /\ \A j \in jobs : j.owner # "push"
\* The pusher ticks, carries its sync through and is answered; REQUEST_TIMEOUT is longer than
\* APPLY_DEADLINE, so an answer that is not lost comes in time, and a call without one ends.
PusherFairness ==
  /\ WF_vars(SyncStart \/ Decide \/ PushAccepted \/ PushRejected \/ GetObserved \/ Reissue \/ Capture \/ Absorb)
  /\ WF_vars(BackoffElapses)
  /\ WF_vars(NodeAccept(FALSE)) /\ WF_vars(Node /\ req = "accepted" /\ req' = "replied")
  /\ WF_vars(unanswerable /\ PushUnanswered)

FairSpec == Spec /\ NodeFairness /\ PusherFairness

\* What may go wrong in a call or in the runtime, and an apply that outlasts STALE_APPLY_SECONDS.
Fault ==
  \/ PushUnanswered \/ GetUnanswered \/ PushedGrowsStale
  \/ Capture /\ sess'.creds = {} /\ ~(credentials(latest) \subseteq escrow)
  \/ (\E r \in BOOLEAN : NodeAccept(r)) /\ reply'.code = "refused"
  \/ ApplyEnd("failed") /\ nodeState' = "failed"
  \/ ApplyError

\* Every change reaches the node: once the faults stop, a dirty link becomes clean, whatever lost
\* calls, refusals, failed applies and reused numbers came before.
EventuallyClean == <>[][~Fault]_vars => (dirty ~> ~dirty)
=============================================================================
