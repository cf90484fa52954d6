------------------------ MODULE FleetDeliveryProofs ------------------------
(***************************************************************************)
(* Proofs about FleetDelivery for every set of contents and every bound.   *)
(***************************************************************************)
EXTENDS FleetDelivery, TLAPS

---------------------------------------------------------------------------
(* Types *)

\* What keeps TypeOK: a sync past its decision has a document, a request that is on the way belongs
\* to a push, and an apply that runs has a document.
Shape ==
  /\ sess.pc \in {"push", "poll", "resync", "reissue"} => sess.doc # NoDoc
  /\ req \in {"sent", "accepted"} => sess.pc = "push"
  /\ running.doc = NoDoc => running = NoJob
TypeInv == TypeOK /\ Shape

AnyDoc == Docs \cup {NoDoc}

\* Only NoDoc has number 0.
LEMMA DocFacts ==
  /\ NoDoc \notin Docs /\ NoDoc.gen = 0
  /\ \A d \in AnyDoc : d.gen \in Nat /\ (d.gen = 0 <=> d = NoDoc) /\ (d \in Docs <=> d # NoDoc)
  /\ \A d \in Docs : d.content \in Contents
BY DEF NoDoc, Docs, AnyDoc

\* A document made from a positive number and a content is a document.
LEMMA DocType ==
  ASSUME epoch \in Nat, NEW g \in Nat \ {0}, NEW c \in Contents
  PROVE  Doc(g, c) \in Docs /\ Doc(g, c).gen = g /\ Doc(g, c).content = c
BY DEF Doc, Docs

\* The report the node gives of a document it holds is a report.
LEMMA ObservedType ==
  ASSUME NEW d \in AnyDoc, NEW s \in {"none", "received", "applying", "converged", "failed"}
  PROVE  observed(d, s) \in Reports /\ observed(d, s).doc = d
         /\ (observed(d, s).state = "converged" <=> s = "converged")
BY DEF observed, Reports, AnyDoc

\* The constant values that states are reset to have their types.
LEMMA ResetTypes ==
  /\ Initial \in Reports /\ Initial.state = "idle" /\ Initial.doc = NoDoc
  /\ Idle \in Sessions /\ Idle.pc = "idle" /\ Idle.rep = Initial
  /\ NoReply \in Replies /\ NoReply.rep = Initial /\ NoReply.code = "none"
  /\ NoBackoff \in [gen : Nat, active : BOOLEAN]
  /\ NoWithheld \in [gen : Nat, ticks : 0..WithheldTicks]
  /\ NoJob \in [doc : AnyDoc, owner : Owners] /\ NoJob.doc = NoDoc /\ NoJob.owner = "nobody"
<1>1. Initial \in Reports /\ Initial.state = "idle" /\ Initial.doc = NoDoc
  BY DEF Initial, Reports
<1>2. Idle \in Sessions /\ Idle.pc = "idle" /\ Idle.rep = Initial
  BY <1>1 DEF Idle, Sessions, Phases
<1>3. NoReply \in Replies /\ NoReply.rep = Initial /\ NoReply.code = "none"
  BY <1>1 DEF NoReply, Replies, Refusals
<1>4. NoBackoff \in [gen : Nat, active : BOOLEAN]
  BY DEF NoBackoff
<1>5. NoWithheld \in [gen : Nat, ticks : 0..WithheldTicks]
  BY BoundsAssumption DEF NoWithheld
<1>6. NoJob \in [doc : AnyDoc, owner : Owners] /\ NoJob.doc = NoDoc /\ NoJob.owner = "nobody"
  BY DEF NoJob, Owners, AnyDoc
<1> QED
  BY <1>1, <1>2, <1>3, <1>4, <1>5, <1>6

\* The initial state is well typed.
LEMMA TypeInit == Init => TypeInv
<1> SUFFICES ASSUME Init PROVE TypeInv
  OBVIOUS
<1>1. backup \in Rows
  BY ResetTypes DEF Init, Rows, Marks
<1>2. TypeOK
  BY <1>1, ResetTypes DEF Init, TypeOK, AnyDoc, Marks, NodeStates
<1>3. Shape
  BY ResetTypes DEF Init, Shape
<1> QED
  BY <1>2, <1>3 DEF TypeInv

\* A waiting apply whose caller went away is still an apply of the same generation.
LEMMA AbandonedType ==
  ASSUME jobs \in SUBSET Jobs PROVE abandoned(jobs) \in SUBSET Jobs
BY DEF abandoned, Jobs, Owners

\* Giving up on a push leaves well-typed requests, applies and late documents.
LEMMA AbandonType ==
  ASSUME TypeInv, abandonPush
  PROVE  /\ late' \in SUBSET Docs /\ jobs' \in SUBSET Jobs
         /\ running' \in [doc : AnyDoc, owner : Owners]
         /\ running'.doc = NoDoc => running' = NoJob
         /\ req' = "none" /\ reply' = NoReply
<1>1. late' \in SUBSET Docs
  BY DocFacts DEF TypeInv, TypeOK, Shape, abandonPush, Sessions, AnyDoc
<1>2. jobs' \in SUBSET Jobs
  BY AbandonedType DEF TypeInv, TypeOK, abandonPush
<1>3. running' \in [doc : AnyDoc, owner : Owners] /\ (running'.doc = NoDoc => running' = NoJob)
  BY ResetTypes DEF TypeInv, TypeOK, Shape, abandonPush, Owners, AnyDoc
<1> QED
  BY <1>1, <1>2, <1>3 DEF abandonPush

\* A sync that goes on to another phase keeps nothing but its document.
LEMMA GotoType ==
  ASSUME sess \in Sessions, NEW pc \in Phases
  PROVE  LET next == [Idle EXCEPT !.pc = pc, !.doc = sess.doc]
         IN  next \in Sessions /\ next.pc = pc /\ next.doc = sess.doc /\ next.rep = Initial
BY ResetTypes DEF Sessions

\* A wait for a generation is a wait.
LEMMA DeferType ==
  ASSUME NEW g \in Nat PROVE defer(g) \in [gen : Nat, active : BOOLEAN]
BY DEF defer

\* Each step of either panel keeps the types.
LEMMA TypeStep == TypeInv /\ [Next]_vars => TypeInv'
<1> SUFFICES ASSUME TypeInv, [Next]_vars PROVE TypeInv'
  OBVIOUS
<1> USE DEF TypeInv
<1>1. ASSUME NEW c \in Contents, Publish(c) PROVE TypeInv'
  <2>1. Doc(latest.gen + 1, c) \in Docs
    BY DocType, DocFacts DEF TypeOK, AnyDoc
  <2> QED
    BY <1>1, <2>1 DEF Publish, insert, TypeOK, Shape, Marks, pusherVars, httpVars, nodeVars, budgets
<1>2. CASE PushedGrowsStale
  BY <1>2 DEF PushedGrowsStale, TypeOK, Shape, Marks, pusherVars, httpVars, nodeVars, budgets
<1>3. CASE SyncStart
  <2>1. in_flight_at(latest, pushed, seen) \in BOOLEAN
    BY DEF in_flight_at
  <2>2. sess' \in Sessions /\ sess'.pc = "started"
    BY <1>3, <2>1, ResetTypes DEF SyncStart, TypeOK, Sessions, Phases
  <2> QED
    BY <1>3, <2>2 DEF SyncStart, TypeOK, Shape, centralDb, httpVars, nodeVars, budgets
<1>4. ASSUME NEW c \in Contents, Adopt(c) PROVE TypeInv'
  <2>1. Doc(latest.gen + 1, c) \in Docs
    BY DocType, DocFacts DEF TypeOK, AnyDoc
  <2>2. in_flight_at(latest', pushed', seen) \in BOOLEAN
    BY DEF in_flight_at
  <2>3. sess' \in Sessions /\ sess'.pc = "adopted"
    BY <1>4, <2>1, <2>2 DEF Adopt, insert, TypeOK, Sessions, Phases
  <2> QED
    BY <1>4, <2>1, <2>3
    DEF Adopt, insert, TypeOK, Shape, Marks, httpVars, nodeVars, budgets
<1>5. CASE Decide
  <2> DEFINE goto(pc) == [Idle EXCEPT !.pc = pc, !.doc = sess.doc]
  <2>a. \/ sess' = Idle /\ req' = req
        \/ sess' = goto("poll") /\ req' = req /\ sess.doc # NoDoc
        \/ sess' = goto("push") /\ req' = "sent" /\ sess.doc # NoDoc
    BY <1>5, Zenon DEF Decide
  <2>b. goto("poll") \in Sessions /\ goto("poll").pc = "poll" /\ goto("poll").doc = sess.doc
    BY GotoType DEF TypeOK, Phases
  <2>c. goto("push") \in Sessions /\ goto("push").pc = "push" /\ goto("push").doc = sess.doc
    BY GotoType DEF TypeOK, Phases
  <2> HIDE DEF goto
  <2>1. sess' \in Sessions /\ (sess'.pc \in {"push", "poll"} => sess'.doc # NoDoc)
    BY <2>a, <2>b, <2>c, ResetTypes
  <2>2. sess'.pc \in {"idle", "push", "poll"} /\ ((req' = "sent" /\ sess'.pc = "push") \/ req' = req)
    BY <2>a, <2>b, <2>c, ResetTypes
  <2>3. backoff' \in [gen : Nat, active : BOOLEAN]
    BY <1>5, ResetTypes DEF Decide, TypeOK
  <2> QED
    BY <1>5, <2>1, <2>2, <2>3 DEF Decide, TypeOK, Shape, centralDb, nodeVars, budgets
<1>6. CASE BackoffElapses
  BY <1>6 DEF BackoffElapses, TypeOK, Shape, centralDb, httpVars, nodeVars, budgets
<1>7. CASE PushAccepted
  <2>1. sess' \in Sessions /\ sess'.pc = "absorb"
    BY <1>7, ResetTypes DEF PushAccepted, TypeOK, Sessions, Replies, Phases
  <2> QED
    BY <1>7, <2>1, ResetTypes DEF PushAccepted, TypeOK, Shape, Marks, nodeVars, budgets
<1>8. CASE PushRejected
  <2>1. sess' \in Sessions /\ ((sess'.pc = "resync" /\ sess'.doc = sess.doc) \/ sess'.pc = "idle")
    BY <1>8, ResetTypes, GotoType DEF PushRejected, TypeOK, Phases
  <2>2. sess.doc.gen \in Nat
    BY DocFacts DEF TypeOK, Sessions, AnyDoc
  <2>3. backoff' \in [gen : Nat, active : BOOLEAN]
    BY <1>8, <2>2, DeferType DEF PushRejected, TypeOK
  <2> QED
    BY <1>8, <2>1, <2>3, ResetTypes
    DEF PushRejected, TypeOK, Shape, centralDb, nodeVars, budgets
<1>9. CASE PushUnanswered
  BY <1>9, AbandonType, ResetTypes
  DEF PushUnanswered, TypeOK, Shape, centralDb, budgets, AnyDoc
<1>10. CASE GetObserved
  <2>1. observed(nodeDoc, nodeState) \in Reports
    BY ObservedType DEF TypeOK, AnyDoc, NodeStates
  <2>2. sess' \in Sessions /\ sess'.pc \in {"reissue", "capture", "absorb"} /\ sess'.doc = sess.doc
    BY <1>10, <2>1 DEF GetObserved, TypeOK, Sessions, Phases
  <2> QED
    BY <1>10, <2>2 DEF GetObserved, TypeOK, Shape, centralDb, httpVars, nodeVars, budgets
<1>11. CASE GetUnanswered
  BY <1>11, ResetTypes DEF GetUnanswered, TypeOK, Shape, centralDb, httpVars, nodeVars, budgets
<1>12. CASE Reissue
  <2>1. latest.gen = sess.doc.gen => latest.content \in Contents
    BY <1>12, DocFacts DEF Reissue, TypeOK, Shape, Sessions, AnyDoc
  <2>2. sess.rep.doc.gen \in Nat
    BY DocFacts DEF TypeOK, Sessions, Reports, AnyDoc
  <2>3. latest.gen = sess.doc.gen => Doc(sess.rep.doc.gen + 1, latest.content) \in Docs
    BY <2>1, <2>2, DocType DEF TypeOK
  <2> QED
    BY <1>12, <2>3, ResetTypes
    DEF Reissue, insert, TypeOK, Shape, Marks, httpVars, nodeVars, budgets
<1>13. CASE Capture
  <2>1. \A x : credentials(x) \in SUBSET Managed
    BY DEF credentials
  <2>2. sess' \in Sessions /\ sess'.pc = "absorb"
    <3>1. PICK answered \in SUBSET Managed :
                 sess' = [sess EXCEPT !.pc = "absorb", !.creds = answered]
      BY <1>13, <2>1 DEF Capture
    <3> QED
      BY <3>1 DEF TypeOK, Sessions, Phases
  <2> QED
    BY <1>13, <2>2 DEF Capture, TypeOK, Shape, centralDb, httpVars, nodeVars, budgets
<1>14. CASE Absorb
  <2>1. sess.rep \in Reports /\ sess.rep.doc.gen \in Nat /\ sess.creds \in SUBSET Managed
    BY DocFacts DEF TypeOK, Sessions, Reports, AnyDoc
  <2>2. escrow' \in SUBSET Managed
    BY <1>14 DEF Absorb, TypeOK, credentials
  <2>3. seen' \in Reports /\ ack' \in Nat
    BY <1>14, <2>1 DEF Absorb, record_observed, TypeOK
  <2>4. dirty' \in BOOLEAN
    BY <1>14 DEF Absorb, record_observed, TypeOK
  <2>5. withheld' \in [gen : Nat, ticks : 0..WithheldTicks]
    BY <1>14, <2>1, ResetTypes, BoundsAssumption DEF Absorb, TypeOK
  <2>6. backoff' \in [gen : Nat, active : BOOLEAN]
    BY <1>14, <2>1, ResetTypes DEF Absorb, TypeOK, defer
  <2> QED
    BY <1>14, <2>2, <2>3, <2>4, <2>5, <2>6, ResetTypes
    DEF Absorb, TypeOK, Shape, httpVars, nodeVars, budgets
<1>15. CASE CentralCrash
  BY <1>15, AbandonType, ResetTypes DEF CentralCrash, mishap, TypeOK, Shape, centralDb, AnyDoc
<1>16. CASE Backup
  <2>1. backup' \in Rows
    BY <1>16 DEF Backup, TypeOK, Rows
  <2> QED
    BY <1>16, <2>1 DEF Backup, TypeOK, Shape, centralDb, pusherVars, httpVars, nodeVars, budgets
<1>17. CASE Restore
  BY <1>17, ResetTypes DEF Restore, mishap, TypeOK, Shape, Rows, httpVars, nodeVars
<1>18. ASSUME NEW refused \in BOOLEAN, NodeAccept(refused) PROVE TypeInv'
  <2>1. sess.doc \in Docs /\ [gen |-> sess.doc.gen, owner |-> "push"] \in Jobs
    BY <1>18, DocFacts DEF NodeAccept, TypeOK, Shape, Sessions, Jobs, Owners, AnyDoc
  <2>2. nodeDoc' \in AnyDoc /\ nodeState' \in NodeStates
    BY <1>18, <2>1 DEF NodeAccept, accept, TypeOK, NodeStates, AnyDoc
  <2>3. verdict(sess.doc, refused) \in {"stale_generation", "digest_conflict", "refused", "ok"}
    BY DEF verdict
  <2>4. reply' \in Replies /\ jobs' \in SUBSET Jobs /\ req' \in {"accepted", "replied"}
    BY <1>18, <2>1, <2>3, ResetTypes DEF NodeAccept, spawnApply, TypeOK, Replies, Refusals
  <2> QED
    BY <1>18, <2>2, <2>4 DEF NodeAccept, TypeOK, Shape, AnyDoc, centralDb, pusherVars, budgets
<1>19. ASSUME NEW d \in late, NodeAcceptLate(d) PROVE TypeInv'
  <2>1. d \in Docs /\ [gen |-> d.gen, owner |-> "nobody"] \in Jobs
    BY DocFacts DEF TypeOK, Jobs, Owners, AnyDoc
  <2>2. nodeDoc' \in AnyDoc /\ nodeState' \in NodeStates
    BY <1>19, <2>1 DEF NodeAcceptLate, accept, TypeOK, NodeStates, AnyDoc
  <2>3. jobs' \in SUBSET Jobs /\ late' \in SUBSET Docs
    BY <1>19, <2>1 DEF NodeAcceptLate, TypeOK
  <2> QED
    BY <1>19, <2>2, <2>3 DEF NodeAcceptLate, TypeOK, Shape, AnyDoc, centralDb, pusherVars, budgets
<1>20. CASE ApplyDeadline
  <2>1. observed(nodeDoc, nodeState) \in Reports
    BY ObservedType DEF TypeOK, AnyDoc, NodeStates
  <2>2. reply' \in Replies
    BY <1>20, <2>1 DEF ApplyDeadline, Replies, Refusals
  <2>3. running' \in [doc : AnyDoc, owner : Owners] /\ (running'.doc = NoDoc => running' = NoJob)
    BY <1>20, ResetTypes DEF ApplyDeadline, TypeOK, Shape, Owners, AnyDoc
  <2> QED
    BY <1>20, <2>2, <2>3, AbandonedType
    DEF ApplyDeadline, TypeOK, Shape, AnyDoc, centralDb, pusherVars, budgets
<1>21. CASE RunPending
  <2>1. [gen |-> nodeDoc.gen, owner |-> "tick"] \in Jobs
    BY <1>21, DocFacts DEF RunPending, TypeOK, Jobs, Owners, AnyDoc
  <2> QED
    BY <1>21, <2>1 DEF RunPending, TypeOK, Shape, centralDb, pusherVars, httpVars, budgets
<1>22. ASSUME NEW j \in jobs, ApplyStart(j) PROVE TypeInv'
  <2>1. reply' \in Replies /\ req' \in {req, "replied"}
    BY <1>22, ResetTypes DEF ApplyStart, answer, TypeOK, Replies, Refusals
  <2>2. j.gen \in Nat \ {0} /\ j.owner \in Owners /\ nodeDoc.gen \in Nat
    BY DocFacts DEF TypeOK, Jobs, AnyDoc
  <2>3. running' \in [doc : AnyDoc, owner : Owners] /\ (running'.doc = NoDoc => running' = NoJob)
    BY <1>22, <2>2, DocFacts DEF ApplyStart, reread, TypeOK, Shape, AnyDoc
  <2>4. nodeState' \in NodeStates /\ started' \in Nat /\ jobs' \in SUBSET Jobs
    BY <1>22, <2>2 DEF ApplyStart, reread, TypeOK, NodeStates
  <2> QED
    BY <1>22, <2>1, <2>3, <2>4
    DEF ApplyStart, TypeOK, Shape, AnyDoc, centralDb, pusherVars, budgets
<1>23. ASSUME NEW o \in {"converged", "failed"}, ApplyEnd(o) PROVE TypeInv'
  <2>1. nodeState' \in NodeStates
    BY <1>23 DEF ApplyEnd, TypeOK, NodeStates
  <2>2. observed(nodeDoc, nodeState') \in Reports
    BY <2>1, ObservedType DEF TypeOK, AnyDoc, NodeStates
  <2>3. credentials(running.doc) \in SUBSET Managed
    BY DEF credentials
  <2>4. reply' \in Replies /\ req' \in {req, "replied"}
    BY <1>23, <2>2, <2>3 DEF ApplyEnd, answer, TypeOK, Replies, Refusals
  <2>5. done' \in SUBSET Docs
    BY <1>23, DocFacts DEF ApplyEnd, TypeOK, Shape, AnyDoc
  <2> QED
    BY <1>23, <2>1, <2>4, <2>5, ResetTypes
    DEF ApplyEnd, TypeOK, Shape, AnyDoc, centralDb, pusherVars, budgets
<1>24. CASE ApplyError
  <2>1. reply' \in Replies /\ req' \in {req, "replied"}
    BY <1>24, ResetTypes DEF ApplyError, answer, TypeOK, Replies, Refusals
  <2> QED
    BY <1>24, <2>1, ResetTypes DEF ApplyError, TypeOK, Shape, AnyDoc, centralDb, pusherVars, budgets
<1>25. CASE Unlink
  BY <1>25 DEF Unlink, mishap, TypeOK, Shape, NodeStates, centralDb, pusherVars, httpVars
<1>26. CASE NodeCrash
  BY <1>26, ResetTypes DEF NodeCrash, mishap, TypeOK, Shape, AnyDoc, centralDb, pusherVars, httpVars
<1>27. CASE UNCHANGED vars
  BY <1>27 DEF vars, TypeOK, Shape, centralDb, pusherVars, httpVars, nodeVars, budgets
<1> QED
  BY <1>1, <1>2, <1>3, <1>4, <1>5, <1>6, <1>7, <1>8, <1>9, <1>10, <1>11, <1>12, <1>13, <1>14,
     <1>15, <1>16, <1>17, <1>18, <1>19, <1>20, <1>21, <1>22, <1>23, <1>24, <1>25, <1>26, <1>27
  DEF Next, Operator, Time, Sync, Node, Failure

\* Every value either panel stores or sends stays within its type, whatever is lost or restarted.
THEOREM TypeCorrect == Spec => []TypeOK
<1>1. Spec => []TypeInv
  BY TypeInit, TypeStep, PTL DEF Spec
<1>2. TypeInv => TypeOK
  BY DEF TypeInv
<1> QED
  BY <1>1, <1>2, PTL

---------------------------------------------------------------------------
(* A clean link is converged *)

Known == issued \cup {NoDoc}

\* The inductive strengthening of CleanIsConverged while the central's database only moves forward.
\* No two documents were issued under one number, and the latest has the highest.
OneLineage ==
  /\ \A d, e \in issued : d.gen = e.gen => d = e
  /\ \A d \in issued : d.gen <= latest.gen
\* Whatever is stored, carried or applied was issued.
Issued ==
  /\ latest \in Known /\ sess.doc \in Known /\ late \subseteq issued
  /\ nodeDoc \in Known /\ running.doc \in Known /\ done \subseteq issued
\* A report of convergence, wherever it is, is about a document that converged.
Truthful ==
  /\ sess.rep.state = "converged" => sess.rep.doc \in done
  /\ reply.rep.state = "converged" => reply.rep.doc \in done
  /\ nodeState = "converged" => nodeDoc \in done
LineageInv == OneLineage /\ Issued /\ Truthful /\ CleanIsConverged

\* The initial state has the invariant.
LEMMA LineageInit == Init => LineageInv
BY ResetTypes, DocFacts
DEF Init, LineageInv, OneLineage, Issued, Truthful, Known, CleanIsConverged, Idle, Sessions

\* A document with a number above every earlier one, inserted as the latest, keeps the lineage.
LEMMA InsertStep ==
  ASSUME TypeInv, LineageInv, NEW doc \in Docs, doc.gen > latest.gen, insert(doc),
         sess'.doc \in Known \cup {doc}, sess'.rep \in {sess.rep, Initial},
         UNCHANGED <<reply, late, nodeDoc, nodeState, running, done>>
  PROVE  LineageInv'
<1>1. latest.gen \in Nat /\ doc.gen \in Nat /\ \A d \in issued : d.gen \in Nat
  BY DocFacts DEF TypeInv, TypeOK, AnyDoc
<1>2. OneLineage'
  BY <1>1 DEF insert, LineageInv, OneLineage
<1>3. Issued'
  BY DEF insert, LineageInv, Issued, Known
<1>4. Truthful'
  BY ResetTypes DEF LineageInv, Truthful
<1>5. CleanIsConverged'
  BY DEF insert, CleanIsConverged
<1> QED
  BY <1>2, <1>3, <1>4, <1>5 DEF LineageInv

\* A step that issues nothing, keeps the central's rows and moves only issued documents keeps it too.
LEMMA QuietStep ==
  ASSUME LineageInv, UNCHANGED <<latest, dirty, issued>>, done' = done,
         sess'.doc \in Known, late' \subseteq issued, nodeDoc' \in Known, running'.doc \in Known, Truthful'
  PROVE  LineageInv'
BY DEF LineageInv, OneLineage, Issued, Known, CleanIsConverged

\* The node takes only issued documents, and taking one does not make it converged.
LEMMA TakenStep ==
  ASSUME LineageInv, NEW d \in issued, NEW code, accept(d, code)
  PROVE  nodeDoc' \in Known /\ (nodeState' = "converged" => nodeDoc' \in done)
BY DEF accept, LineageInv, Issued, Truthful, Known

\* Each step of either panel keeps the invariant, as long as no backup is put back.
LEMMA LineageStep ==
  ASSUME "restore" \notin Mishaps, TypeInv, LineageInv, [Next]_vars PROVE LineageInv'
<1> USE DEF TypeInv
<1>0. NoDoc \in Known /\ sess.doc \in Known /\ latest.gen \in Nat
  BY DocFacts DEF LineageInv, Issued, Known, TypeOK, AnyDoc
<1>1. ASSUME NEW c \in Contents, Publish(c) PROVE LineageInv'
  <2>0. latest.gen + 1 \in Nat \ {0} /\ latest.gen + 1 > latest.gen
    BY <1>0
  <2>1. Doc(latest.gen + 1, c) \in Docs /\ Doc(latest.gen + 1, c).gen > latest.gen
    BY <2>0, DocType DEF TypeOK
  <2> QED
    BY <1>0, <1>1, <2>1, InsertStep DEF Publish, pusherVars, httpVars, nodeVars
<1>2. CASE PushedGrowsStale
  BY <1>2, QuietStep DEF PushedGrowsStale, pusherVars, httpVars, nodeVars, LineageInv, Issued, Truthful, Known
<1>3. CASE SyncStart
  <2>1. sess'.doc = latest /\ sess'.rep = Initial
    BY <1>3, ResetTypes DEF SyncStart, Sessions
  <2> QED
    BY <1>3, <2>1, QuietStep, ResetTypes
    DEF SyncStart, centralDb, httpVars, nodeVars, LineageInv, Issued, Truthful, Known
<1>4. ASSUME NEW c \in Contents, Adopt(c) PROVE LineageInv'
  <2>0. latest.gen + 1 \in Nat \ {0} /\ latest.gen + 1 > latest.gen
    BY <1>0
  <2>1. Doc(latest.gen + 1, c) \in Docs /\ Doc(latest.gen + 1, c).gen > latest.gen
    BY <2>0, DocType DEF TypeOK
  <2>2. sess'.doc = Doc(latest.gen + 1, c) /\ sess'.rep = sess.rep
    BY <1>4 DEF Adopt, insert, TypeOK, Sessions
  <2> QED
    BY <1>4, <2>1, <2>2, InsertStep DEF Adopt, httpVars, nodeVars
<1>5. CASE Decide
  <2> DEFINE goto(pc) == [Idle EXCEPT !.pc = pc, !.doc = sess.doc]
  <2>a. sess' \in {Idle, goto("poll"), goto("push")}
    BY <1>5, Zenon DEF Decide
  <2>b. \A pc \in {"poll", "push"} : goto(pc).doc = sess.doc /\ goto(pc).rep = Initial
    BY GotoType DEF TypeOK, Phases
  <2>c. Idle.doc = NoDoc
    BY DEF Idle
  <2> HIDE DEF goto
  <2>1. sess'.doc \in Known /\ sess'.rep = Initial
    BY <1>0, <2>a, <2>b, <2>c, ResetTypes
  <2> QED
    BY <1>5, <2>1, QuietStep, ResetTypes
    DEF Decide, centralDb, nodeVars, LineageInv, Issued, Truthful, Known
<1>6. CASE BackoffElapses
  BY <1>6, QuietStep DEF BackoffElapses, centralDb, httpVars, nodeVars, LineageInv, Issued, Truthful, Known
<1>7. CASE PushAccepted
  <2>1. sess'.doc = NoDoc /\ sess'.rep = reply.rep
    BY <1>7 DEF PushAccepted, Idle
  <2> QED
    BY <1>0, <1>7, <2>1, QuietStep, ResetTypes
    DEF PushAccepted, nodeVars, LineageInv, Issued, Truthful, Known
<1>8. CASE PushRejected
  <2>1. sess'.doc \in {NoDoc, sess.doc} /\ sess'.rep = Initial
    <3>1. CASE reply.code \in RESYNC_CODES
      BY <1>8, <3>1 DEF PushRejected, Idle
    <3>2. CASE reply.code \notin RESYNC_CODES
      BY <1>8, <3>2 DEF PushRejected, Idle
    <3> QED
      BY <3>1, <3>2
  <2> QED
    BY <1>0, <1>8, <2>1, QuietStep, ResetTypes
    DEF PushRejected, centralDb, nodeVars, LineageInv, Issued, Truthful, Known
<1>9. ASSUME abandonPush, sess' = Idle, UNCHANGED <<latest, dirty, issued, done, nodeDoc, nodeState>>
      PROVE  LineageInv'
  <2>1. running'.doc = running.doc
    BY <1>9 DEF abandonPush, TypeOK
  <2>2. late' \subseteq issued
    BY <1>9, DocFacts DEF abandonPush, Shape, LineageInv, Issued, Known
  <2>3. sess'.doc = NoDoc /\ sess'.rep = Initial /\ reply' = NoReply
    BY <1>9 DEF Idle, abandonPush
  <2> QED
    BY <1>0, <1>9, <2>1, <2>2, <2>3, QuietStep, ResetTypes DEF LineageInv, Issued, Truthful
<1>10. CASE PushUnanswered
  BY <1>9, <1>10 DEF PushUnanswered, centralDb
<1>11. CASE CentralCrash
  BY <1>9, <1>11 DEF CentralCrash, centralDb
<1>12. CASE GetObserved
  <2>1. sess'.doc = sess.doc /\ sess'.rep = observed(nodeDoc, nodeState)
    BY <1>12 DEF GetObserved, TypeOK, Sessions
  <2>2. sess'.rep.state = "converged" => sess'.rep.doc \in done
    BY <2>1, ObservedType DEF TypeOK, AnyDoc, NodeStates, LineageInv, Truthful
  <2> QED
    BY <1>0, <1>12, <2>1, <2>2, QuietStep
    DEF GetObserved, centralDb, httpVars, nodeVars, LineageInv, Issued, Truthful, Known
<1>13. CASE GetUnanswered
  BY <1>0, <1>13, QuietStep, ResetTypes
  DEF GetUnanswered, Idle, centralDb, httpVars, nodeVars, LineageInv, Issued, Truthful, Known
<1>14. CASE Reissue
  <2> DEFINE doc == Doc(sess.rep.doc.gen + 1, latest.content)
  <2>1. sess'.doc = NoDoc /\ sess'.rep = Initial
    BY <1>14 DEF Reissue, Idle
  <2>2. CASE latest.gen = sess.doc.gen /\ sess.rep.doc.gen >= latest.gen
    <3>1. latest.content \in Contents /\ sess.rep.doc.gen \in Nat
      BY <1>14, <2>2, DocFacts DEF Reissue, TypeOK, Shape, Sessions, Reports, AnyDoc
    <3>2. doc \in Docs /\ doc.gen > latest.gen
      BY <1>0, <2>2, <3>1, DocType DEF TypeOK
    <3>3. insert(doc)
      BY <1>14, <2>2 DEF Reissue
    <3> HIDE DEF doc
    <3> QED
      BY <1>0, <1>14, <2>1, <3>2, <3>3, InsertStep DEF Reissue, httpVars, nodeVars
  <2>3. CASE ~(latest.gen = sess.doc.gen /\ sess.rep.doc.gen >= latest.gen)
    BY <1>0, <1>14, <2>1, <2>3, QuietStep, ResetTypes
    DEF Reissue, httpVars, nodeVars, LineageInv, Issued, Truthful, Known
  <2> QED
    BY <2>2, <2>3
<1>15. CASE Capture
  <2>1. sess'.doc = sess.doc /\ sess'.rep = sess.rep
    BY <1>15 DEF Capture, TypeOK, Sessions
  <2> QED
    BY <1>0, <1>15, <2>1, QuietStep
    DEF Capture, centralDb, httpVars, nodeVars, LineageInv, Issued, Truthful, Known
<1>16. CASE Absorb
  <2>1. sess'.doc = NoDoc /\ sess'.rep = Initial
    BY <1>16 DEF Absorb, Idle
  <2>2. dirty' = dirty \/ latest \in done
    <3>1. dirty' = dirty \/ (sess.rep.state = "converged" /\ latest.gen = sess.rep.doc.gen)
      BY <1>16 DEF Absorb, record_observed
    <3>2. ASSUME sess.rep.state = "converged", latest.gen = sess.rep.doc.gen PROVE latest \in done
      <4>1. sess.rep.doc \in issued /\ sess.rep.doc \in done
        BY <3>2 DEF LineageInv, Truthful, Issued
      <4>2. latest \in issued
        BY <3>2, <4>1, DocFacts DEF LineageInv, Issued, Known, TypeOK, AnyDoc
      <4> QED
        BY <3>2, <4>1, <4>2 DEF LineageInv, OneLineage
    <3> QED
      BY <3>1, <3>2
  <2>3. CleanIsConverged'
    BY <1>16, <2>2 DEF Absorb, LineageInv, CleanIsConverged
  <2> QED
    BY <1>0, <1>16, <2>1, <2>3, ResetTypes
    DEF Absorb, httpVars, nodeVars, LineageInv, OneLineage, Issued, Truthful, Known
<1>17. CASE Backup
  BY <1>17, QuietStep
  DEF Backup, centralDb, pusherVars, httpVars, nodeVars, LineageInv, Issued, Truthful, Known
<1>18. CASE Restore
  BY <1>18 DEF Restore, mishap
<1>19. ASSUME NEW refused \in BOOLEAN, NodeAccept(refused) PROVE LineageInv'
  <2>1. sess.doc \in issued
    BY <1>19, <1>0 DEF NodeAccept, Shape, Known
  <2>2. nodeDoc' \in Known /\ (nodeState' = "converged" => nodeDoc' \in done)
    BY <1>19, <2>1, TakenStep DEF NodeAccept
  <2>3. reply'.rep \in {reply.rep, Initial}
    BY <1>19, ResetTypes DEF NodeAccept, Replies
  <2> QED
    BY <1>0, <1>19, <2>2, <2>3, QuietStep, ResetTypes
    DEF NodeAccept, centralDb, pusherVars, LineageInv, Issued, Truthful
<1>20. ASSUME NEW d \in late, NodeAcceptLate(d) PROVE LineageInv'
  <2>1. d \in issued
    BY DEF LineageInv, Issued
  <2>2. nodeDoc' \in Known /\ (nodeState' = "converged" => nodeDoc' \in done)
    BY <1>20, <2>1, TakenStep DEF NodeAcceptLate
  <2> QED
    BY <1>0, <1>20, <2>2, QuietStep
    DEF NodeAcceptLate, centralDb, pusherVars, LineageInv, Issued, Truthful
<1>21. CASE ApplyDeadline
  <2>1. reply'.rep = observed(nodeDoc, nodeState) /\ running'.doc = running.doc
    BY <1>21 DEF ApplyDeadline, TypeOK
  <2>2. reply'.rep.state = "converged" => reply'.rep.doc \in done
    BY <2>1, ObservedType DEF TypeOK, AnyDoc, NodeStates, LineageInv, Truthful
  <2> QED
    BY <1>0, <1>21, <2>1, <2>2, QuietStep
    DEF ApplyDeadline, centralDb, pusherVars, LineageInv, Issued, Truthful, Known
<1>22. CASE RunPending
  BY <1>22, QuietStep
  DEF RunPending, centralDb, pusherVars, httpVars, LineageInv, Issued, Truthful, Known
<1>23. ASSUME NEW j \in jobs, ApplyStart(j) PROVE LineageInv'
  <2>1. running'.doc \in {running.doc, nodeDoc} /\ reply'.rep \in {reply.rep, Initial}
    BY <1>23 DEF ApplyStart, reread, answer
  <2>2. nodeState' \in {nodeState, "applying"}
    BY <1>23 DEF ApplyStart
  <2> QED
    BY <1>0, <1>23, <2>1, <2>2, QuietStep, ResetTypes
    DEF ApplyStart, centralDb, pusherVars, LineageInv, Issued, Truthful, Known
<1>24. ASSUME NEW o \in {"converged", "failed"}, ApplyEnd(o) PROVE LineageInv'
  <2>1. running.doc \in issued
    BY <1>24, ResetTypes DEF ApplyEnd, Shape, LineageInv, Issued, Known
  <2>2. nodeDoc.gen = running.doc.gen => nodeDoc = running.doc
    <3>1. nodeDoc.gen = running.doc.gen => nodeDoc \in issued
      BY <2>1, DocFacts DEF LineageInv, Issued, Known, TypeOK, AnyDoc
    <3> QED
      BY <2>1, <3>1 DEF LineageInv, OneLineage
  <2>3. done \subseteq done' /\ done' \subseteq issued
    BY <1>24, <2>1 DEF ApplyEnd, LineageInv, Issued
  <2>4. nodeState' = "converged" => nodeDoc \in done'
    BY <1>24, <2>2 DEF ApplyEnd, LineageInv, Truthful
  <2>5. nodeState' \in NodeStates
    BY <1>24 DEF ApplyEnd, TypeOK, NodeStates
  <2>6. reply'.rep.state = "converged" => reply'.rep.doc \in done'
    <3>1. reply' = reply \/ reply'.rep = observed(nodeDoc, nodeState')
      BY <1>24 DEF ApplyEnd, answer
    <3> QED
      BY <2>3, <2>4, <2>5, <3>1, ObservedType DEF TypeOK, AnyDoc, NodeStates, LineageInv, Truthful
  <2>7. running'.doc = NoDoc
    BY <1>24, ResetTypes DEF ApplyEnd
  <2> QED
    BY <1>0, <1>24, <2>3, <2>4, <2>6, <2>7
    DEF ApplyEnd, centralDb, pusherVars, LineageInv, OneLineage, Issued, Truthful, Known, CleanIsConverged
<1>25. CASE ApplyError
  <2>1. reply'.rep \in {reply.rep, Initial} /\ running'.doc = NoDoc
    BY <1>25, ResetTypes DEF ApplyError, answer
  <2> QED
    BY <1>0, <1>25, <2>1, QuietStep, ResetTypes
    DEF ApplyError, centralDb, pusherVars, LineageInv, Issued, Truthful
<1>26. CASE Unlink
  BY <1>0, <1>26, QuietStep DEF Unlink, centralDb, pusherVars, httpVars, LineageInv, Issued, Truthful, Known
<1>27. CASE NodeCrash
  BY <1>0, <1>27, QuietStep, ResetTypes
  DEF NodeCrash, centralDb, pusherVars, httpVars, LineageInv, Issued, Truthful
<1>28. CASE UNCHANGED vars
  BY <1>28, QuietStep
  DEF vars, centralDb, pusherVars, httpVars, nodeVars, LineageInv, Issued, Truthful, Known
<1> QED
  BY <1>1, <1>2, <1>3, <1>4, <1>5, <1>6, <1>7, <1>8, <1>10, <1>11, <1>12, <1>13, <1>14, <1>15,
     <1>16, <1>17, <1>18, <1>19, <1>20, <1>21, <1>22, <1>23, <1>24, <1>25, <1>26, <1>27, <1>28
  DEF Next, Operator, Time, Sync, Node, Failure

\* While the central's database only moves forward, a link it shows as clean means the node
\* converged on exactly the document the central wants, for any number of generations, contents,
\* lost calls, restarts and unlinks: record_observed and Absorber::absorb may trust the number.
THEOREM CleanLinkIsConverged ==
  ASSUME "restore" \notin Mishaps PROVE Spec => []CleanIsConverged
<1>1. Init => TypeInv /\ LineageInv
  BY TypeInit, LineageInit
<1>2. TypeInv /\ LineageInv /\ [Next]_vars => (TypeInv /\ LineageInv)'
  BY TypeStep, LineageStep
<1>3. LineageInv => CleanIsConverged
  BY DEF LineageInv
<1> QED
  BY <1>1, <1>2, <1>3, PTL DEF Spec

---------------------------------------------------------------------------
(* The node never goes back *)

\* The central's steps, and the passing of time, leave the node's generation and its apply alone.
CentralStep ==
  \/ Operator \/ Time \/ Sync \/ CentralCrash \/ Backup \/ Restore

\* What the node holds, and which apply it started, change only in the node's own steps.
LEMMA CentralLeavesNode ==
  ASSUME TypeInv, CentralStep
  PROVE  /\ UNCHANGED <<nodeDoc, nodeState, started, done>>
         /\ running'.doc = running.doc /\ (running' = NoJob <=> running = NoJob)
<1>1. ASSUME abandonPush PROVE running'.doc = running.doc /\ (running' = NoJob <=> running = NoJob)
  BY <1>1, ResetTypes DEF abandonPush, TypeInv, TypeOK, Shape, NoJob
<1>2. CASE Operator \/ Time \/ Backup \/ Restore
  BY <1>2 DEF Operator, Publish, Time, PushedGrowsStale, BackoffElapses, Backup, Restore, nodeVars
<1>3. CASE SyncStart \/ (\E c \in Contents : Adopt(c)) \/ Decide \/ PushAccepted \/ PushRejected
  BY <1>3 DEF SyncStart, Adopt, Decide, PushAccepted, PushRejected, nodeVars
<1>4. CASE GetObserved \/ GetUnanswered \/ Reissue \/ Capture \/ Absorb
  BY <1>4 DEF GetObserved, GetUnanswered, Reissue, Capture, Absorb, nodeVars
<1>5. CASE PushUnanswered \/ CentralCrash
  BY <1>1, <1>5 DEF PushUnanswered, CentralCrash
<1> QED
  BY <1>2, <1>3, <1>4, <1>5 DEF CentralStep, Sync

\* A push the node takes has at least the number it holds.
LEMMA TakenIsHigher ==
  ASSUME nodeDoc \in AnyDoc, NEW d \in Docs, NEW r, accept(d, verdict(d, r))
  PROVE  nodeDoc'.gen >= nodeDoc.gen
BY DocFacts DEF accept, verdict, AnyDoc

\* Each step keeps the order of applies.
LEMMA OrderStep ==
  ASSUME TypeInv, NoOlderGenerationApplied, [Next]_vars PROVE NoOlderGenerationApplied'
<1> USE DEF TypeInv, NoOlderGenerationApplied
<1>0. nodeDoc.gen \in Nat /\ nodeDoc \in AnyDoc /\ started \in Nat
  BY DocFacts DEF TypeOK, AnyDoc
<1>1. CASE CentralStep
  BY <1>1, CentralLeavesNode
<1>2. ASSUME NEW refused \in BOOLEAN, NodeAccept(refused) PROVE NoOlderGenerationApplied'
  <2>1. sess.doc \in Docs
    BY <1>2, DocFacts DEF NodeAccept, TypeOK, Shape, Sessions, AnyDoc
  <2>2. nodeDoc'.gen >= nodeDoc.gen /\ nodeDoc'.gen \in Nat
    BY <1>0, <1>2, <2>1, TakenIsHigher, DocFacts DEF NodeAccept, accept, AnyDoc
  <2> QED
    BY <1>0, <1>2, <2>2 DEF NodeAccept
<1>3. ASSUME NEW d \in late, NodeAcceptLate(d) PROVE NoOlderGenerationApplied'
  <2>1. d \in Docs
    BY DEF TypeOK
  <2>2. nodeDoc'.gen >= nodeDoc.gen /\ nodeDoc'.gen \in Nat
    BY <1>0, <1>3, <2>1, TakenIsHigher, DocFacts DEF NodeAcceptLate, accept, AnyDoc
  <2> QED
    BY <1>0, <1>3, <2>2 DEF NodeAcceptLate
<1>4. CASE ApplyDeadline
  BY <1>4, ResetTypes DEF ApplyDeadline, TypeOK
<1>5. CASE RunPending
  BY <1>5 DEF RunPending
<1>6. ASSUME NEW j \in jobs, ApplyStart(j) PROVE NoOlderGenerationApplied'
  BY <1>0, <1>6 DEF ApplyStart, reread
<1>7. CASE (\E o \in {"converged", "failed"} : ApplyEnd(o)) \/ ApplyError
  BY <1>7 DEF ApplyEnd, ApplyError
<1>8. CASE Unlink
  BY <1>8, DocFacts DEF Unlink
<1>9. CASE NodeCrash
  BY <1>9 DEF NodeCrash
<1>10. CASE UNCHANGED vars
  BY <1>10 DEF vars, nodeVars
<1> QED
  BY <1>1, <1>2, <1>3, <1>4, <1>5, <1>6, <1>7, <1>8, <1>9, <1>10
  DEF Next, CentralStep, Node, Failure

\* However many pushes, ticks and late requests queue for the reconcile lock, and even if the
\* central is restored and reuses numbers, the node never starts an apply of a generation below one
\* it has started since it was linked, because apply reads the latest again under the lock.
THEOREM NodeNeverGoesBack == Spec => []NoOlderGenerationApplied
<1>1. Init => TypeInv /\ NoOlderGenerationApplied
  BY TypeInit, DocFacts DEF Init, NoOlderGenerationApplied
<1>2. TypeInv /\ NoOlderGenerationApplied /\ [Next]_vars => (TypeInv /\ NoOlderGenerationApplied)'
  BY TypeStep, OrderStep
<1> QED
  BY <1>1, <1>2, PTL DEF Spec

---------------------------------------------------------------------------
(* Implementation of the abstract specification *)

\* Each step of either panel is a step of FleetGenerations or leaves its variables alone.
LEMMA RefinementStep ==
  ASSUME "restore" \notin Mishaps, TypeInv, LineageInv, LineageInv', [Next]_vars
  PROVE  [Abstract!Next]_(Abstract!vars)
<1> USE DEF TypeInv, Abstract!Next, Abstract!vars
<1>0. latest.gen \in Nat /\ nodeDoc.gen \in Nat /\ nodeDoc \in AnyDoc
  BY DocFacts DEF TypeOK, AnyDoc
<1>1. ASSUME NEW doc \in Docs, doc.gen > latest.gen, insert(doc), UNCHANGED <<nodeDoc, done>>
      PROVE  Abstract!Publish
  BY <1>1 DEF Abstract!Publish, insert
<1>2. ASSUME NEW c \in Contents, Publish(c) \/ Adopt(c) PROVE Abstract!Publish
  <2>0. latest.gen + 1 \in Nat \ {0} /\ latest.gen + 1 > latest.gen
    BY <1>0
  <2>1. Doc(latest.gen + 1, c) \in Docs /\ Doc(latest.gen + 1, c).gen > latest.gen
    BY <2>0, DocType DEF TypeOK
  <2> QED
    BY <1>1, <1>2, <2>1 DEF Publish, Adopt, nodeVars
<1>3. CASE Reissue
  <2> DEFINE doc == Doc(sess.rep.doc.gen + 1, latest.content)
  <2>1. CASE latest.gen = sess.doc.gen /\ sess.rep.doc.gen >= latest.gen
    <3>1. latest.content \in Contents /\ sess.rep.doc.gen \in Nat
      BY <1>3, <2>1, DocFacts DEF Reissue, TypeOK, Shape, Sessions, Reports, AnyDoc
    <3>2. doc \in Docs /\ doc.gen > latest.gen
      BY <1>0, <2>1, <3>1, DocType DEF TypeOK
    <3>3. insert(doc)
      BY <1>3, <2>1 DEF Reissue
    <3> HIDE DEF doc
    <3> QED
      BY <1>1, <1>3, <3>2, <3>3 DEF Reissue, nodeVars
  <2>2. CASE ~(latest.gen = sess.doc.gen /\ sess.rep.doc.gen >= latest.gen)
    BY <1>3, <2>2 DEF Reissue, nodeVars
  <2> QED
    BY <2>1, <2>2
<1>4. CASE Absorb
  <2>1. UNCHANGED <<latest, issued, nodeDoc, done>>
    BY <1>4 DEF Absorb, nodeVars
  <2>2. dirty' = dirty \/ dirty' = FALSE
    BY <1>4 DEF Absorb, record_observed
  <2>3. dirty' # dirty => latest \in done
    <3>1. dirty' # dirty => sess.rep.state = "converged" /\ latest.gen = sess.rep.doc.gen
      BY <1>4 DEF Absorb, record_observed
    <3>2. dirty' # dirty => latest # NoDoc
      BY <3>1, DocFacts DEF LineageInv, Truthful, TypeOK, AnyDoc
    <3> QED
      BY <2>1, <2>2, <3>2 DEF LineageInv, CleanIsConverged, TypeOK
  <2>4. CASE dirty' = dirty
    BY <2>1, <2>4
  <2>5. CASE dirty' # dirty
    <3>1. (~dirty)' = TRUE
      BY <2>2, <2>5
    <3> QED
      BY <2>1, <2>3, <2>5, <3>1 DEF Abstract!Confirm
  <2> QED
    BY <2>4, <2>5
<1>5. ASSUME NEW d \in issued, NEW r, accept(d, verdict(d, r)),
             UNCHANGED <<latest, issued, dirty, done>>
      PROVE  [Abstract!Next]_(Abstract!vars)
  <2>1. d \in Docs /\ d.gen \in Nat
    BY DocFacts DEF TypeOK, AnyDoc
  <2>2. nodeDoc' = nodeDoc \/ (nodeDoc' = d /\ d.gen > nodeDoc.gen)
    BY <1>0, <1>5, <2>1 DEF accept, verdict
  <2> QED
    BY <1>5, <2>2 DEF Abstract!Take
<1>6. ASSUME NEW refused \in BOOLEAN, NodeAccept(refused) PROVE [Abstract!Next]_(Abstract!vars)
  <2>1. sess.doc \in issued
    BY <1>6 DEF NodeAccept, Shape, LineageInv, Issued, Known
  <2> QED
    BY <1>5, <1>6, <2>1 DEF NodeAccept, centralDb
<1>7. ASSUME NEW d \in late, NodeAcceptLate(d) PROVE [Abstract!Next]_(Abstract!vars)
  <2>1. d \in issued
    BY DEF LineageInv, Issued
  <2> QED
    BY <1>5, <1>7, <2>1 DEF NodeAcceptLate, centralDb
<1>8. ASSUME NEW o \in {"converged", "failed"}, ApplyEnd(o) PROVE [Abstract!Next]_(Abstract!vars)
  <2>1. running.doc \in issued
    BY <1>8, ResetTypes DEF ApplyEnd, Shape, LineageInv, Issued, Known
  <2>2. nodeDoc.gen = running.doc.gen => nodeDoc = running.doc /\ nodeDoc # NoDoc
    <3>1. nodeDoc.gen = running.doc.gen => nodeDoc \in issued
      BY <2>1, DocFacts DEF LineageInv, Issued, Known, TypeOK, AnyDoc
    <3> QED
      BY <2>1, <3>1, DocFacts DEF LineageInv, OneLineage, TypeOK
  <2>3. done' = done \/ (done' = done \cup {nodeDoc} /\ nodeDoc # NoDoc)
    BY <1>8, <2>2 DEF ApplyEnd
  <2> QED
    BY <1>8, <2>3 DEF ApplyEnd, Abstract!Converge, centralDb
<1>9. CASE Unlink
  BY <1>9 DEF Unlink, Abstract!Release, centralDb
<1>10. CASE Restore
  BY <1>10 DEF Restore, mishap
<1>11. CASE Time \/ SyncStart \/ Decide \/ PushAccepted \/ PushRejected \/ PushUnanswered
  BY <1>11
  DEF Time, PushedGrowsStale, BackoffElapses, SyncStart, Decide, PushAccepted, PushRejected,
      PushUnanswered, centralDb, nodeVars
<1>12. CASE GetObserved \/ GetUnanswered \/ Capture \/ CentralCrash \/ Backup \/ NodeCrash
  BY <1>12 DEF GetObserved, GetUnanswered, Capture, CentralCrash, Backup, NodeCrash, centralDb, nodeVars
<1>13. CASE ApplyDeadline \/ RunPending \/ (\E j \in jobs : ApplyStart(j)) \/ ApplyError
  BY <1>13 DEF ApplyDeadline, RunPending, ApplyStart, ApplyError, centralDb
<1>14. CASE UNCHANGED vars
  BY <1>14 DEF vars, centralDb, nodeVars
<1> QED
  BY <1>2, <1>3, <1>4, <1>6, <1>7, <1>8, <1>9, <1>10, <1>11, <1>12, <1>13, <1>14
  DEF Next, Operator, Sync, Node, Failure

\* As long as the central's database only moves forward, publisher, pusher, HTTP and reconcile
\* queue together implement what ADR 002 promises of declarative generations.
THEOREM DeliveryRefinesGenerations ==
  ASSUME "restore" \notin Mishaps PROVE Spec => RefinesGenerations
<1>1. Init => Abstract!Init
  BY DEF Init, Abstract!Init
<1>2. Init => TypeInv /\ LineageInv
  BY TypeInit, LineageInit
<1>3. TypeInv /\ LineageInv /\ [Next]_vars
        => (TypeInv /\ LineageInv)' /\ [Abstract!Next]_(Abstract!vars)
  BY TypeStep, LineageStep, RefinementStep
<1> QED
  BY <1>1, <1>2, <1>3, PTL DEF Spec, RefinesGenerations, Abstract!Spec

---------------------------------------------------------------------------
(* A clean link holds the credential *)

\* The same of the rows in the backup, which a restore brings back.
BackupHoldsCredential == ~backup.dirty => credentials(backup.latest) \subseteq backup.escrow
CredentialInv == CleanHoldsCredential /\ BackupHoldsCredential

\* NoDoc carries no credential.
LEMMA NoCredential == credentials(NoDoc) = {}
BY ContentsAssumption DEF credentials, NoDoc

\* Each step of either panel keeps it.
LEMMA CredentialStep ==
  ASSUME TypeInv, CredentialInv, [Next]_vars PROVE CredentialInv'
<1> USE DEF CredentialInv, CleanHoldsCredential, BackupHoldsCredential
<1>1. CASE Operator \/ \E c \in Contents : Adopt(c)
  BY <1>1 DEF Operator, Publish, Adopt, insert
<1>2. CASE Reissue
  BY <1>2 DEF Reissue, insert
<1>3. CASE Absorb
  <2>0. escrow \subseteq escrow' /\ UNCHANGED <<latest, backup>>
    BY <1>3 DEF Absorb
  <2>1. CASE dirty' = dirty
    BY <2>0, <2>1
  <2>2. CASE dirty' # dirty
    <3>1. /\ sess.rep.state = "converged" /\ latest.gen = sess.rep.doc.gen
          /\ ~uncaptured(escrow \cup (sess.creds \cap credentials(latest)))
      BY <1>3, <2>2 DEF Absorb, record_observed, settled
    <3>2. escrow' = escrow \cup (sess.creds \cap credentials(latest))
      BY <1>3, <3>1 DEF Absorb, settled
    <3> QED
      BY <2>0, <3>1, <3>2 DEF uncaptured
  <2> QED
    BY <2>1, <2>2
<1>4. CASE Backup
  BY <1>4 DEF Backup, centralDb
<1>5. CASE Restore
  BY <1>5 DEF Restore
<1>6. CASE Time \/ SyncStart \/ Decide \/ PushAccepted \/ PushRejected \/ PushUnanswered
  BY <1>6
  DEF Time, PushedGrowsStale, BackoffElapses, SyncStart, Decide, PushAccepted, PushRejected,
      PushUnanswered, centralDb
<1>7. CASE GetObserved \/ GetUnanswered \/ Capture \/ CentralCrash \/ Unlink \/ NodeCrash
  BY <1>7 DEF GetObserved, GetUnanswered, Capture, CentralCrash, Unlink, NodeCrash, centralDb
<1>8. CASE Node
  BY <1>8
  DEF Node, NodeAccept, NodeAcceptLate, ApplyDeadline, RunPending, ApplyStart, ApplyEnd, ApplyError,
      centralDb
<1>9. CASE UNCHANGED vars
  BY <1>9 DEF vars, centralDb
<1> QED
  BY <1>1, <1>2, <1>3, <1>4, <1>5, <1>6, <1>7, <1>8, <1>9 DEF Next, Sync, Failure

\* A link is shown as clean only when the central holds the credential that the node's manager
\* chose, whatever replies are lost and even if backups are put back: Absorber::absorb withholds
\* the acknowledgement until the credential is escrowed.
THEOREM CleanLinkHoldsCredential == Spec => []CleanHoldsCredential
<1>1. Init => TypeInv /\ CredentialInv
  BY TypeInit, NoCredential DEF Init, CredentialInv, CleanHoldsCredential, BackupHoldsCredential
<1>2. TypeInv /\ CredentialInv /\ [Next]_vars => (TypeInv /\ CredentialInv)'
  BY TypeStep, CredentialStep
<1>3. CredentialInv => CleanHoldsCredential
  BY DEF CredentialInv
<1> QED
  BY <1>1, <1>2, <1>3, PTL DEF Spec
=============================================================================
