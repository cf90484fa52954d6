------------------------ MODULE EgressRoutingProofs ------------------------
(***************************************************************************)
(* Proofs about EgressRouting and RouterManager for any callers, lanes and *)
(* bodies, and every bound on requests, sections, mishaps and deaths.      *)
(***************************************************************************)
EXTENDS EgressRouting, SequenceTheorems, TLAPS

---------------------------------------------------------------------------
(* The router's manager *)

Busy == {"render", "stop", "start", "back", "current"}
Rendered == {"stop", "start", "current"}
\* A file per generation, the current one among them; the operation makes the next generation, and the
\* process is the current one or the operation's.
Swapping ==
  /\ current \in files /\ \A f, g \in files : f.gen = g.gen => f = g
  /\ op.pc \in Busy => op.gen = current.gen + 1
  /\ op.pc \in Rendered => candidate \in files
  /\ op.pc = "current" => process \in {candidate, NoProcess}
  /\ op.pc = "journal" => process \in {current, NoProcess} /\ op.gen = current.gen /\ op.doc = current.doc
  /\ ~up => op = NoOp /\ process = NoProcess
  /\ up /\ state.phase = "idle" => op.pc \in {"idle", "boot", "render", "stop"} /\ process \in {current, NoProcess}
  /\ op.kind = "none" <=> op.pc = "idle"
  /\ op.pc = "boot" => op.kind = "boot"
  /\ op.kind = "boot" => op.by = "nobody"
  /\ op.kind = "rollback" => Len(history) > 1

backed(doc, known_) == \A l \in GrantLanes : doc[l] # 0 => known_[l] # 0
\* Every lane of the current document has an account, or gets it back when a forget fails.
Backed ==
  /\ up /\ op.kind # "boot" => backed(current.doc, IF op.kind = "forget" THEN op.undo ELSE accounts)
  /\ op.pc \in Rendered => backed(op.doc, accounts)
  /\ op.pc = "journal" => backed(current.doc, accounts)
  /\ op.kind = "forget" => \A l \in GrantLanes : accounts[l] # 0 => op.undo[l] # 0

---------------------------------------------------------------------------
(* The requests *)

Moving == {"attach", "detach"}
Stamps == {"stamp"} \X Nat

\* The steps of enable and disable that are none of the router's.
Laning == {"mark", "push", "reissue", "unmark", "draft"}
\* What a request may be at which step.
shape(r) ==
  /\ r.pc = "native" => r.kind \in {"apply", "rollback", "attach", "detach"}
  /\ r.pc = "router" => r.kind \in {"apply", "rollback", "attach", "detach", "section"}
  /\ r.pc \in {"compile", "plan"} => r.kind = "apply"
  /\ r.pc = "handover" => r.kind \in {"attach", "detach", "section"}
  /\ r.kind = "none" <=> r.pc = "idle"
  /\ r.kind = "section" => r.id \in {"node"} \X Nat
  /\ r.pc \in Laning => r.kind \in {"on", "off"}
  /\ r.kind \in {"on", "off"} => r.lane \in GrantLanes /\ r.pc \in {"send", "wait"} \cup Laning /\ (r.pc = "send" => r.turn \in GrantLanes)
  /\ r.kind = "forget" => r.lane \in GrantLanes /\ r.pc \in {"send", "wait"}
Shaped == /\ \A c \in Clients : shape(req[c])
          /\ \A call \in late : call.kind \in {"issue", "forget"} => call.lane \in GrantLanes

\* The operation of a caller that waits is its own, and begins from the revision it read; an answer is
\* for a caller that waits, and no other operation of its own is under way.
Owned ==
  /\ op.by \in Clients => /\ req[op.by].pc = "wait" /\ answer[op.by] = Pending
                          /\ op.kind = "apply" => op.id = req[op.by].id /\ op.doc = req[op.by].doc
                                                  /\ (op.pc \in Busy => revision = req[op.by].seen)
  /\ \A c \in Clients : answer[c] # Pending => req[c].pc = "wait"

---------------------------------------------------------------------------
(* Attach and detach *)

\* Every attach and detach has an id of its own.
young(id, n) == id \in Stamps => id[2] < n
Stamped ==
  /\ \A c \in Clients : young(req[c].id, requests) /\ (req[c].kind \in Moving <=> req[c].id \in Stamps)
  /\ \A c, d \in Clients : req[c].kind \in Moving /\ req[d].id = req[c].id => c = d
  /\ \A call \in late : young(call.id, requests) /\ \A c \in Clients : req[c].kind \in Moving => call.id # req[c].id
  /\ young(op.id, requests) /\ \A c \in Clients : req[c].kind \in Moving /\ op.id = req[c].id => op.by = c
  /\ young(current_entry.id, requests)

\* An attach that the router has made is one that it was asked.
Sent == \A c \in Clients : req[c].kind = "attach" /\ current_entry.id = req[c].id => req[c].pc \in {"wait", "handover", "record"}

\* Under a central nobody attaches or detaches. A revision that was read is not newer than the current one, and
\* is it if the generation is.
Seen ==
  \A c \in Clients :
    /\ req[c].kind = "section" => managed
    /\ req[c].kind \in Moving =>
         /\ ~managed
         /\ req[c].pc \in {"router", "handover", "send", "wait"} => req[c].native <= native.rev
         /\ req[c].pc \in {"handover", "send", "wait"} =>
              req[c].seen.gen <= current.gen /\ (req[c].seen.gen = current.gen => req[c].seen.doc = current.doc)

\* A detach that took the service back and has not withdrawn the policy yet.
pulls(d) == req[d].kind = "detach" /\ req[d].attached /\ req[d].pc \in {"send", "wait"}
\* An attach that read the service as it still is, and will give it to the router that it has seen or made.
pushes(c) ==
  /\ req[c].kind = "attach" /\ req[c].native = native.rev
  /\ req[c].pc = "handover" \/ (req[c].pc = "wait" /\ (answer[c].tag = "ok" \/ (op.by = c /\ op.pc = "journal")))
\* The router has moved on from what such a detach read before the service can be handed to it again.
Overtaken ==
  \A d \in Clients : pulls(d) =>
    /\ req[d].seen.doc # Direct /\ req[d].native < native.rev
    /\ native.attached => current.gen > req[d].seen.gen
    /\ \A c \in Clients : pushes(c) => current.gen > req[d].seen.gen

---------------------------------------------------------------------------
(* Sections *)

plain(doc) == \A l \in GrantLanes : doc[l] = 0
nodeIds == {"node"} \X Nat
\* The generation a section's request is for.
age(c) == req[c].id[2]
passing(c) == req[c].kind = "section"
\* What the last entry of the journal says is what runs, for the generation it names.
Booked(g) == current_entry.id = <<"node", g>> => current.doc = current_entry.doc

\* Only sections change this router, one pass at a time.
Sectioned ==
  /\ \A c \in Clients : req[c].kind \in {"none", "section"}
  /\ \A c, d \in Clients : passing(c) /\ passing(d) => c = d
  /\ op.kind \in {"none", "boot", "apply", "rerender"} /\ plain(current.doc) /\ plain(section.doc)
  /\ op.kind \in {"boot", "rerender"} /\ op.pc # "boot" => op.doc = current.doc
  /\ op.kind \in {"boot", "rerender"} => op.id = <<>> /\ op.by = "nobody"

\* The operation, the journal and the report by their generations: nothing older comes after.
Latest ==
  /\ egress.gen <= section.gen /\ Booked(section.gen)
  /\ current_entry.id = <<>> \/ (current_entry.id \in nodeIds /\ current_entry.id[2] <= section.gen)
  /\ op.kind = "apply" =>
       /\ op.id \in nodeIds /\ op.id[2] <= section.gen /\ (op.id[2] = section.gen => op.doc = section.doc) /\ plain(op.doc)
       /\ current_entry.id # <<>> => current_entry.id[2] <= op.id[2]
       /\ op.pc \in Busy => current_entry.id # op.id

\* A pass is for the section it was asked for, and no other is ahead of it.
Aged(c) ==
  /\ plain(req[c].doc) /\ req[c].id \in nodeIds /\ age(c) <= section.gen /\ egress.gen <= age(c) /\ Booked(age(c))
  /\ age(c) = section.gen => req[c].doc = section.doc /\ req[c].policy.backend = section.backend
  /\ current_entry.id # <<>> => current_entry.id[2] <= age(c)
  /\ op.kind = "apply" => op.id[2] <= age(c)

\* The router holds this pass's document, and no section is on its way to it, unless a late call came in between.
delivered(c) ==
  \/ req[c].pc = "record" /\ req[c].ok
  \/ req[c].pc = "handover" /\ wants_router(req[c])
  \/ req[c].pc = "wait" /\ answer[c].tag = "ok"
Delivered(c) ==
  /\ "pass" \notin misled =>
       /\ delivered(c) => current.doc = req[c].doc /\ op.kind # "apply"
       /\ op.kind = "apply" => op.by = c \/ req[c].pc \in {"router", "handover"} \/ (req[c].pc = "record" /\ ~req[c].ok)
  /\ answer[c].tag = "ok" => answer[c].doc = req[c].doc
  /\ ~wants_router(req[c]) /\ req[c].pc \in {"router", "send", "wait"} => ~native.attached
  /\ req[c].pc = "record" /\ req[c].ok => native.attached = wants_router(req[c])

\* Once converged, a section sends nothing again.
converged == egress = [gen |-> section.gen, state |-> "converged"] /\ "report" \notin misled
Converged ==
  converged =>
    /\ op.kind # "apply" /\ \A c \in Clients : req[c].pc \notin {"send", "wait"}
    /\ current.doc = section.doc /\ native.attached = (section.backend = "router")

Central == Sectioned /\ Latest /\ (\A c \in Clients : passing(c) => Aged(c) /\ Delivered(c)) /\ Converged

\* What was read is not newer than the current generation, and nothing is about to be booked for it.
read(seen) == seen.gen <= current.gen /\ (seen.gen = current.gen => op.pc # "journal")
\* A call that was given up is a section's: none that a newer one has overtaken in the journal will be let in, and
\* none is newer than the pass.
timely(call) ==
  /\ call.kind = "apply" /\ call.id \in nodeIds /\ call.id[2] <= section.gen /\ plain(call.doc)
  /\ call.id[2] = section.gen => call.doc = section.doc
  /\ read(call.seen)
  /\ call.seen.gen = current.gen /\ current_entry.id # <<>> => current_entry.id[2] <= call.id[2]
  /\ \A c \in Clients : passing(c) => call.id[2] <= age(c)
Lately ==
  /\ \A c \in Clients : passing(c) /\ req[c].pc = "send" => read(req[c].seen)
  /\ \A call \in late : timely(call)

---------------------------------------------------------------------------
(* Types *)

Disk ==
  /\ current \in Generations /\ files \subseteq Generations /\ accounts \in Accounts /\ state \in RouterStates
  /\ history \in Seq(Entries) /\ Len(history) \in 1..HistoryLimit
Machine == Disk /\ process \in Generations \cup {NoProcess} /\ op \in Operations /\ answer \in [Clients -> Answers] /\ up \in BOOLEAN
Counters == requests \in Nat /\ edits \in Nat /\ crashes \in 0..MaxCrashes /\ faults \in 0..MaxFaults
Panel ==
  /\ managed \in BOOLEAN /\ native \in [rev : Nat, attached : BOOLEAN]
  /\ policy \in [Lanes -> Policies] /\ own \subseteq GrantLanes
  /\ req \in [Clients -> Requests] /\ late \subseteq Calls
  /\ section \in [gen : Nat, backend : Backends, doc : Docs]
  /\ egress \in [gen : Nat, state : {"none", "converged", "failed"}]
  /\ misled \in {{}, {"report"}, {"report", "pass"}}

\* The type invariant in its parts.
LEMMA TypeParts == TypeOK <=> Machine /\ Counters /\ Panel /\ bare \subseteq Lanes
BY DEF TypeOK, RouterTypeOK, Machine, Disk, Counters, Panel

\* The same of the next state.
LEMMA TypePartsNext == TypeOK' <=> Machine' /\ Counters' /\ Panel' /\ bare' \subseteq Lanes
BY DEF TypeOK, RouterTypeOK, Machine, Disk, Counters, Panel

\* The constant values that the actions write.
LEMMA Values ==
  /\ Direct \in Docs /\ NoOp \in Operations /\ Pending \in Answers /\ Failed \in Answers
  /\ \A doc \in Docs : Applied(doc) \in Answers
  /\ idle \in RouterStates
<1>1. Direct \in Docs
  BY BoundsAssumption DEF Direct, Docs
<1>2. [l \in GrantLanes |-> 0] \in Accounts
  BY DEF Accounts
<1>3. NoOp \in Operations
  BY <1>1, <1>2 DEF NoOp, Operations, Callers, OperationIds
<1>4. Pending \in Answers /\ Failed \in Answers /\ \A doc \in Docs : Applied(doc) \in Answers
  BY <1>1 DEF Pending, Failed, Applied, Answers
<1>5. idle \in RouterStates
  BY DEF idle, RouterStates
<1> QED BY <1>1, <1>3, <1>4, <1>5

\* An intent without the lanes that have no account.
LEMMA Without ==
  ASSUME NEW doc \in Docs, NEW lanes
  PROVE  /\ without_lanes(doc, lanes) \in Docs
         /\ \A l \in GrantLanes : without_lanes(doc, lanes)[l] # 0 => l \in lanes /\ doc[l] # 0
         /\ without_lanes(doc, lanes)["svc"] = doc["svc"]
BY BoundsAssumption, LanesAssumption DEF without_lanes, Docs, Lanes

\* The file of a generation that has one.
LEMMA FileOf ==
  ASSUME NEW g, has_file(g)
  PROVE  file(g) \in files /\ file(g).gen = g
BY DEF file, has_file

\* What the manager answers a caller.
LEMMA Replies ==
  ASSUME Machine, NEW c, NEW a \in Answers, reply(c, a)
  PROVE  answer' \in [Clients -> Answers]
BY DEF Machine, reply

\* The journal of a service keeps its form and its limit; its last entry is the operation's, or the one it was.
LEMMA Books ==
  ASSUME Machine, op.kind = "rollback" => Len(history) > 1
  PROVE  /\ booked \in Seq(Entries) /\ Len(booked) \in 1..HistoryLimit
         /\ changed => booked[Len(booked)] = entry
         /\ ~changed => booked[Len(booked)].id = current_entry.id /\ booked[Len(booked)].doc = current_entry.doc
         /\ current_entry \in Entries
<1>1. entry \in Entries
  BY DEF Machine, Operations, entry, Entries
<1>2. history \in Seq(Entries) /\ Len(history) \in Nat /\ Len(history) >= 1 /\ Len(history) <= HistoryLimit /\ HistoryLimit \in Nat /\ HistoryLimit >= 2
  BY BoundsAssumption DEF Machine, Disk
<1>3. \A i \in 1..Len(history) : history[i] \in Entries
  BY <1>2
<1>4. CASE ~changed
  <2>1. current_entry \in Entries
    BY <1>2 DEF current_entry
  <2>2. [current_entry EXCEPT !.gen = op.gen] \in Entries
    BY <2>1 DEF Entries, Machine, Operations
  <2>3. booked = [history EXCEPT ![Len(history)] = [current_entry EXCEPT !.gen = op.gen]]
    BY <1>4 DEF booked, current_entry
  <2>4. Len(booked) = Len(history) /\ booked \in Seq(Entries) /\ booked[Len(history)] = [current_entry EXCEPT !.gen = op.gen]
    BY <1>2, <2>2, <2>3
  <2>5. [current_entry EXCEPT !.gen = op.gen].id = current_entry.id /\ [current_entry EXCEPT !.gen = op.gen].doc = current_entry.doc
    BY <2>1 DEF Entries
  <2> QED BY <1>2, <1>4, <2>1, <2>4, <2>5
<1>5. CASE changed /\ op.kind = "rollback"
  <2> DEFINE s == SubSeq(history, 1, Len(history) - 2)
  <2>1. s \in Seq(Entries) /\ Len(s) = Len(history) - 2
    <3>1. Len(history) - 2 \in Int /\ \A i \in 1..(Len(history) - 2) : history[i] \in Entries
      BY <1>2, <1>3
    <3>2. s \in Seq(Entries) /\ Len(s) = IF 1 <= Len(history) - 2 THEN Len(history) - 2 - 1 + 1 ELSE 0
      BY <3>1, SubSeqProperties
    <3>3. Len(history) > 1
      BY <1>5
    <3>4. CASE 1 <= Len(history) - 2
      BY <1>2, <3>2, <3>4
    <3>5. CASE ~(1 <= Len(history) - 2)
      <4>1. Len(history) - 2 = 0
        BY <1>2, <3>3, <3>5
      <4> QED BY <3>2, <3>5, <4>1
    <3> QED BY <3>4, <3>5
  <2>2. booked = Append(s, entry)
    BY <1>5 DEF booked
  <2> HIDE DEF s
  <2> QED BY <1>1, <1>2, <1>5, <2>1, <2>2, AppendProperties DEF current_entry
<1>6. CASE changed /\ op.kind # "rollback"
  <2> DEFINE s == Append(history, entry)
  <2>1. s \in Seq(Entries) /\ Len(s) = Len(history) + 1 /\ s[Len(s)] = entry
    BY <1>1, <1>2, AppendProperties
  <2>2. booked = limited(s)
    BY <1>6 DEF booked
  <2> HIDE DEF s
  <2>3. CASE Len(history) + 1 <= HistoryLimit
    <3>1. booked = s
      BY <1>2, <2>1, <2>2, <2>3 DEF limited
    <3>2. Len(booked) \in 1..HistoryLimit
      BY <1>2, <2>1, <2>3, <3>1
    <3> QED BY <1>2, <1>3, <1>6, <2>1, <3>1, <3>2 DEF current_entry
  <2>4. CASE Len(history) + 1 > HistoryLimit
    <3>1. booked = SubSeq(s, Len(s) - HistoryLimit + 1, Len(s))
      BY <1>2, <2>1, <2>2, <2>4 DEF limited
    <3>2. Len(s) = HistoryLimit + 1
      BY <1>2, <2>1, <2>4
    <3>3. booked = SubSeq(s, 2, HistoryLimit + 1)
      BY <1>2, <3>1, <3>2
    <3>4. \A i \in 2..(HistoryLimit + 1) : s[i] \in Entries
      BY <1>2, <2>1, <3>2
    <3>5. booked \in Seq(Entries) /\ Len(booked) = HistoryLimit /\ booked[HistoryLimit] = s[HistoryLimit + 1]
      BY <1>2, <3>3, <3>4, SubSeqProperties
    <3> QED BY <1>2, <1>6, <2>1, <3>2, <3>5 DEF current_entry
  <2> QED BY <1>2, <2>3, <2>4
<1> QED BY <1>4, <1>5, <1>6

---------------------------------------------------------------------------
(* The manager's operations *)

Router == Machine /\ Swapping /\ Backed
still == UNCHANGED <<current, files, history, state, process, up>>

\* No operation is none in every respect.
LEMMA Idle == NoOp.pc = "idle" /\ NoOp.kind = "none" /\ NoOp.by = "nobody" /\ NoOp.id = <<>> /\ NoOp.doc = Direct
BY DEF NoOp

\* A call that was answered at once.
LEMMA Refuses ==
  ASSUME Router, lock_free, still, op' = op, accounts' \in Accounts, answer' \in [Clients -> Answers],
         backed(current.doc, accounts')
  PROVE  Router'
<1>1. Machine'
  BY DEF Router, Machine, Disk, still
<1>2. Swapping'
  BY DEF Router, Swapping, still, lock_free, Busy, Rendered, candidate
<1>3. Backed'
  BY DEF Router, Swapping, Backed, still, lock_free, Rendered, backed
<1> QED BY <1>1, <1>2, <1>3 DEF Router

\* A call that begins an operation: what the document that runs needs is there, or comes back with a failure.
LEMMA Begins ==
  ASSUME Router, lock_free, still, answer' = answer, accounts' \in Accounts,
         NEW kind \in {"apply", "rollback", "issue", "forget", "rerender"}, NEW c \in Callers, NEW doc \in Docs,
         NEW id \in OperationIds, NEW undo \in Accounts, begin(kind, c, doc, id, undo),
         backed(current.doc, IF kind = "forget" THEN undo ELSE accounts'),
         kind = "forget" => \A l \in GrantLanes : accounts'[l] # 0 => undo[l] # 0,
         kind = "rollback" => Len(history) > 1
  PROVE  Router'
<1>1. current.gen \in Nat
  BY DEF Router, Machine, Disk, Generations
<1>2. op' = [pc |-> "render", kind |-> kind, by |-> c, gen |-> current.gen + 1, doc |-> doc, id |-> id, undo |-> undo]
  BY DEF begin
<1>3. op' \in Operations
  BY <1>1, <1>2 DEF Operations
<1>4. /\ op'.pc = "render" /\ op'.kind = kind /\ op'.by = c /\ op'.gen = current.gen + 1 /\ op'.doc = doc
      /\ op'.id = id /\ op'.undo = undo
  BY <1>2
<1>5. Machine'
  BY <1>3 DEF Router, Machine, Disk, still
<1>6. Swapping'
  BY <1>4 DEF Router, Swapping, still, lock_free, Busy, Rendered
<1>7. Backed'
  BY <1>4 DEF Backed, still, Rendered, backed
<1> QED BY <1>5, <1>6, <1>7 DEF Router

\* Between two operations the document that runs has its accounts.
LEMMA Free ==
  ASSUME Router, lock_free
  PROVE  /\ backed(current.doc, accounts) /\ current \in Generations /\ current.doc \in Docs /\ current.gen \in Nat \ {0}
         /\ accounts \in Accounts /\ Len(history) >= 1 /\ history \in Seq(Entries)
BY DEF Router, Machine, Disk, Swapping, Backed, lock_free, Generations

\* egress_apply.
LEMMA ApplyKeeps ==
  ASSUME Router, NEW c \in Callers, NEW expected, NEW doc \in Docs, NEW id \in OperationIds,
         EgressApply(c, expected, doc, id)
  PROVE  Router'
<1>1. lock_free /\ still /\ accounts' = accounts
  BY DEF EgressApply, taken, still
<1>2. accounts' \in Accounts /\ backed(current.doc, accounts')
  BY <1>1, Free
<1>3. CASE op' = op /\ \E a \in Answers : reply(c, a)
  <2>1. answer' \in [Clients -> Answers]
    BY <1>3, Replies DEF Router
  <2> QED BY <1>1, <1>2, <1>3, <2>1, Refuses
<1>4. CASE begin("apply", c, doc, id, accounts) /\ answer' = answer
  BY <1>1, <1>2, <1>4, Begins, Free
<1>5. Failed \in Answers /\ Applied(doc) \in Answers
  BY Values
<1> QED BY <1>3, <1>4, <1>5 DEF EgressApply

\* egress_rollback.
LEMMA RollbackKeeps ==
  ASSUME Router, NEW c \in Callers, NEW expected, EgressRollback(c, expected)
  PROVE  Router'
<1>1. lock_free /\ still /\ accounts' = accounts
  BY DEF EgressRollback, taken, still
<1>2. accounts' \in Accounts /\ backed(current.doc, accounts')
  BY <1>1, Free
<1>3. CASE op' = op /\ reply(c, Failed)
  <2>1. answer' \in [Clients -> Answers]
    BY <1>3, Replies, Values DEF Router
  <2> QED BY <1>1, <1>2, <1>3, <2>1, Refuses
<1>4. CASE /\ Len(history) > 1 /\ answer' = answer
           /\ begin("rollback", c, without_lanes(previous_entry.doc, known), <<>>, accounts)
  <2>1. previous_entry \in Entries
    BY <1>1, <1>4, Free DEF previous_entry
  <2>2. without_lanes(previous_entry.doc, known) \in Docs
    BY <2>1, Without DEF Entries
  <2>3. <<>> \in OperationIds
    BY DEF OperationIds
  <2> QED BY <1>1, <1>2, <1>4, <2>2, <2>3, Begins
<1> QED BY <1>3, <1>4 DEF EgressRollback

\* lane_issue.
LEMMA IssueKeeps ==
  ASSUME Router, NEW c \in Callers, NEW l \in GrantLanes, LaneIssue(c, l)
  PROVE  Router'
<1>1. lock_free /\ still /\ accounts' = [accounts EXCEPT ![l] = current.gen + 1]
  BY DEF LaneIssue, taken, still
<1>2. accounts' \in Accounts /\ backed(current.doc, accounts')
  BY <1>1, Free DEF Accounts, backed
<1>3. CASE op' = op /\ reply(c, Failed)
  <2>1. answer' \in [Clients -> Answers]
    BY <1>3, Replies, Values DEF Router
  <2> QED BY <1>1, <1>2, <1>3, <2>1, Refuses
<1>4. CASE begin("issue", c, without_lanes(current.doc, known \cup {l}), <<>>, accounts') /\ answer' = answer
  <2>2. without_lanes(current.doc, known \cup {l}) \in Docs
    BY <1>1, Free, Without
  <2>3. <<>> \in OperationIds
    BY DEF OperationIds
  <2> QED BY <1>1, <1>2, <1>4, <2>2, <2>3, Begins
<1> QED BY <1>3, <1>4 DEF LaneIssue

\* lane_forget.
LEMMA ForgetKeeps ==
  ASSUME Router, NEW c \in Callers, NEW l \in GrantLanes, LaneForget(c, l)
  PROVE  Router'
<1>1. lock_free /\ still
  BY DEF LaneForget, taken, still
<1>3. CASE op' = op /\ reply(c, Failed) /\ accounts' = accounts
  <2>1. answer' \in [Clients -> Answers]
    BY <1>3, Replies, Values DEF Router
  <2> QED BY <1>1, <1>3, <2>1, Free, Refuses
<1>4. CASE /\ begin("forget", c, without_lanes(current.doc, known \ {l}), <<>>, accounts)
           /\ answer' = answer /\ accounts' = [accounts EXCEPT ![l] = 0]
  <2>1. accounts' \in Accounts /\ \A k \in GrantLanes : accounts'[k] # 0 => accounts[k] # 0
    BY <1>1, <1>4, Free DEF Accounts
  <2>2. without_lanes(current.doc, known \ {l}) \in Docs
    BY <1>1, Free, Without
  <2>3. <<>> \in OperationIds
    BY DEF OperationIds
  <2> QED BY <1>1, <1>4, <2>1, <2>2, <2>3, Begins, Free
<1> QED BY <1>3, <1>4 DEF LaneForget

\* Another service's change.
LEMMA RerenderKeeps ==
  ASSUME Router, Rerender
  PROVE  Router'
<1>1. lock_free /\ still /\ accounts' = accounts /\ answer' = answer /\ begin("rerender", "nobody", current_intents, <<>>, accounts)
  BY DEF Rerender, taken, still
<1>2. current_intents \in Docs /\ <<>> \in OperationIds /\ "nobody" \in Callers
  BY <1>1, Free, Without DEF current_intents, OperationIds, Callers
<1> QED BY <1>1, <1>2, Begins, Free

---------------------------------------------------------------------------
(* commit_generation and swap *)

\* A file per generation, the current one among them.
Filed(fs) == fs \subseteq Generations /\ current \in fs /\ \A f, g \in fs : f.gen = g.gen => f = g

\* What is known of the machine, by name.
LEMMA Parts ==
  ASSUME Router
  PROVE  /\ current \in Generations /\ current.gen \in Nat \ {0} /\ current.doc \in Docs /\ accounts \in Accounts
         /\ state \in RouterStates /\ state.candidate \in Nat /\ state.failures \in Nat
         /\ history \in Seq(Entries) /\ Len(history) \in 1..HistoryLimit
         /\ process \in Generations \cup {NoProcess} /\ answer \in [Clients -> Answers] /\ up \in BOOLEAN
         /\ op \in Operations /\ op.by \in Callers /\ op.gen \in Nat /\ op.doc \in Docs /\ op.id \in OperationIds /\ op.undo \in Accounts
         /\ Filed(files) /\ (op.pc # "idle" => up) /\ (op.kind = "none" <=> op.pc = "idle")
BY Idle DEF Router, Machine, Disk, Swapping, Generations, RouterStates, Operations, Filed

\* An operation ends with an error: the document that runs keeps its accounts, a forgotten one comes back.
LEMMA Fails ==
  ASSUME Router, op.pc \notin {"idle", "boot"}, NEW running \in Generations \cup {NoProcess}, fail(running),
         current' = current, Filed(files'), history' \in Seq(Entries), Len(history') \in 1..HistoryLimit,
         state' \in RouterStates, state'.phase = "idle" => running \in {current, NoProcess}
  PROVE  Router'
<1>1. /\ accounts' = undone /\ op' = NoOp /\ reply(op.by, Failed) /\ up' = (op.kind # "boot")
      /\ process' = IF op.kind = "boot" THEN NoProcess ELSE running
  BY DEF fail
<1>2. accounts' \in Accounts
  BY <1>1, Parts DEF undone
<1>3. answer' \in [Clients -> Answers]
  BY <1>1, Replies, Values DEF Router
<1>4. op'.pc = "idle" /\ op'.kind = "none" /\ op'.by = "nobody"
  BY <1>1, Idle
<1>5. Machine'
  BY <1>1, <1>2, <1>3, Values, Parts DEF Machine, Disk, Filed
<1>6. Swapping'
  BY <1>1, <1>4 DEF Swapping, Filed, Busy, Rendered
<1>7. Backed'
  <2>1. op.kind # "boot" => backed(current.doc, undone)
    BY Parts DEF Router, Backed, undone
  <2> QED BY <1>1, <1>4, <2>1 DEF Backed, Rendered, backed
<1> QED BY <1>5, <1>6, <1>7 DEF Router

\* The files that the operation leaves when it takes back its own.
LEMMA Others ==
  ASSUME Router, NEW g, g # current.gen
  PROVE  Filed(others(g))
BY Parts DEF Filed, others

\* The operation of a step that changes pc only.
LEMMA Moves ==
  ASSUME op \in Operations, NEW pc \in {"idle", "boot", "render", "stop", "start", "back", "current", "journal"}, to(pc)
  PROVE  /\ op' \in Operations /\ op'.pc = pc /\ op'.kind = op.kind /\ op'.by = op.by /\ op'.gen = op.gen
         /\ op'.doc = op.doc /\ op'.id = op.id /\ op'.undo = op.undo
BY DEF Operations, to

\* The generation the operation makes.
LEMMA Candidate ==
  ASSUME Router, op.pc \in Busy
  PROVE  /\ candidate \in Generations /\ candidate.gen = current.gen + 1 /\ op.gen = current.gen + 1 /\ op.gen # current.gen
         /\ candidate.doc = op.doc /\ candidate.accounts = accounts /\ candidate.gen = op.gen
<1>1. op.gen = current.gen + 1
  BY DEF Router, Swapping
<1>2. current.gen \in Nat /\ op.doc \in Docs /\ accounts \in Accounts
  BY Parts
<1> QED BY <1>1, <1>2 DEF candidate, Generations

\* render_generation.
LEMMA RenderKeeps ==
  ASSUME Router, Render
  PROVE  Router'
<1>0. op.pc = "render" /\ op.pc \in Busy /\ UNCHANGED <<current, history, state>>
  BY DEF Render, step, Busy
<1>1. CASE renders(op.doc) /\ files' = others(op.gen) \cup {candidate} /\ to("stop") /\ UNCHANGED <<accounts, answer, process, up>>
  <2>1. /\ op' \in Operations /\ op'.pc = "stop" /\ op'.kind = op.kind /\ op'.by = op.by /\ op'.gen = op.gen
        /\ op'.doc = op.doc /\ op'.id = op.id /\ op'.undo = op.undo
    BY <1>1, Moves, Parts
  <2>2. Filed(files') /\ candidate \in files' /\ candidate' = candidate
    <3>1. candidate' = candidate
      BY <1>1, <2>1 DEF candidate
    <3>2. Filed(others(op.gen))
      BY <1>0, Candidate, Others
    <3>3. \A f \in others(op.gen) : f.gen # candidate.gen
      BY <1>0, Candidate DEF others
    <3> QED BY <1>0, <1>1, <3>1, <3>2, <3>3, Candidate DEF Filed
  <2>3. Machine'
    BY <1>0, <1>1, <2>1, <2>2, Parts DEF Machine, Disk, Filed
  <2>4. Swapping'
    <3>1. up
      BY <1>0, Parts
    <3> QED BY <1>0, <1>1, <2>1, <2>2, <3>1 DEF Router, Swapping, Filed, Busy, Rendered
  <2>5. Backed'
    BY <1>0, <1>1, <2>1 DEF Router, Backed, Rendered, backed, renders
  <2> QED BY <2>3, <2>4, <2>5 DEF Router
<1>2. CASE files' \in {others(op.gen), others(op.gen) \cup {candidate}} /\ fail(process)
  <2>1. Filed(files')
    <3>1. Filed(others(op.gen)) /\ \A f \in others(op.gen) : f.gen # candidate.gen
      BY <1>0, Candidate, Others DEF others
    <3> QED BY <1>0, <1>2, <3>1, Candidate DEF Filed
  <2>2. state.phase = "idle" => process \in {current, NoProcess}
    BY <1>0, Parts DEF Router, Swapping
  <2> QED BY <1>0, <1>2, <2>1, <2>2, Fails, Parts
<1> QED BY <1>1, <1>2 DEF Render

\* The swap begins.
LEMMA StopKeeps ==
  ASSUME Router, Stop
  PROVE  Router'
<1>1. op.pc = "stop" /\ to("start") /\ state' = swapping /\ process' = NoProcess /\ UNCHANGED <<current, files, history, accounts, answer, up>>
  BY DEF Stop, step
<1>2. /\ op' \in Operations /\ op'.pc = "start" /\ op'.kind = op.kind /\ op'.by = op.by /\ op'.gen = op.gen
      /\ op'.doc = op.doc /\ op'.id = op.id /\ op'.undo = op.undo
  BY <1>1, Moves, Parts
<1>3. state' \in RouterStates /\ state'.phase = "swapping"
  BY <1>1, Parts DEF swapping, RouterStates
<1>4. candidate' = candidate
  BY <1>1, <1>2 DEF candidate
<1>5. Machine'
  BY <1>1, <1>2, <1>3, Parts DEF Machine, Disk, Filed
<1>6. Swapping'
  <2>1. up
    BY <1>1, Parts
  <2> QED BY <1>1, <1>2, <1>3, <1>4, <2>1 DEF Router, Swapping, Busy, Rendered
<1>7. Backed'
  BY <1>1, <1>2 DEF Router, Backed, Rendered, backed
<1> QED BY <1>5, <1>6, <1>7 DEF Router

\* The new generation starts, or not.
LEMMA StartKeeps ==
  ASSUME Router, Start
  PROVE  Router'
<1>0. op.pc = "start" /\ op.pc \in Busy /\ UNCHANGED <<current, history>>
  BY DEF Start, step, Busy
<1>1. candidate \in files /\ state.phase # "idle"
  BY <1>0, Parts DEF Router, Swapping, Rendered
<1>12. CASE fails_to(state, NoProcess) /\ files' = files
  BY <1>0, <1>1, <1>12, Fails, Parts DEF fails_to, Filed
<1>13. CASE \E pc \in {"current", "back"} : to(pc) /\ UNCHANGED <<state, accounts, answer, up>>
  <2>3. PICK pc \in {"current", "back"} : to(pc) /\ UNCHANGED <<state, accounts, answer, up>>
    BY <1>13
  <2>4. /\ op' \in Operations /\ op'.pc = pc /\ op'.kind = op.kind /\ op'.by = op.by /\ op'.gen = op.gen
        /\ op'.doc = op.doc /\ op'.id = op.id /\ op'.undo = op.undo
    BY <2>3, Moves, Parts
  <2>5. candidate' = candidate
    BY <1>0, <2>3, <2>4 DEF candidate
  <2>6. file(op.gen) = candidate
    <3>1. has_file(op.gen)
      BY <1>0, <1>1, Candidate DEF has_file
    <3>2. file(op.gen) \in files /\ file(op.gen).gen = op.gen
      BY <3>1, FileOf
    <3> QED BY <1>0, <1>1, <3>2, Candidate, Parts DEF Filed
  <2>7. \/ pc = "current" /\ process' = candidate /\ files' = files
        \/ pc = "back" /\ process' = NoProcess /\ files' = others(op.gen)
    BY <2>3, <2>4, <2>6, Moves, Parts, Idle DEF Start, fails_to, fail
  <2>8. Filed(files') /\ (pc = "current" => candidate \in files')
    BY <1>0, <1>1, <2>7, Candidate, Others, Parts DEF Filed
  <2>9. Machine'
    BY <1>0, <2>3, <2>4, <2>7, <2>8, Candidate, Parts DEF Machine, Disk, Filed
  <2>10. Swapping'
    <3>1. up
      BY <1>0, Parts
    <3> QED BY <1>0, <1>1, <2>3, <2>4, <2>5, <2>7, <2>8, <3>1 DEF Router, Swapping, Busy, Rendered, Filed
  <2>11. Backed'
    BY <1>0, <2>3, <2>4 DEF Router, Backed, Rendered, backed
  <2> QED BY <2>9, <2>10, <2>11 DEF Router
<1> QED BY <1>12, <1>13 DEF Start

\* The last known good generation, or none.
LEMMA BackKeeps ==
  ASSUME Router, Back
  PROVE  Router'
<1>0. op.pc = "back" /\ op.pc \in Busy /\ UNCHANGED <<current, history, files>>
  BY DEF Back, step, Busy
<1>1. has_file(current.gen) /\ file(current.gen) = current
  <2>1. has_file(current.gen)
    BY Parts DEF Filed, has_file
  <2> QED BY <2>1, FileOf, Parts DEF Filed
<1>2. PICK running \in {current, NoProcess},
           phase \in {idle, state, [phase |-> "broken", candidate |-> 0, failures |-> MaxStartFailures]} : fails_to(phase, running)
  BY <1>1 DEF Back
<1>3. phase \in RouterStates
  BY <1>2, Values, Parts, BoundsAssumption DEF RouterStates
<1> QED BY <1>0, <1>2, <1>3, Fails, Parts DEF fails_to, Filed

\* current.json.
LEMMA CurrentKeeps ==
  ASSUME Router, WriteCurrent
  PROVE  Router'
<1>0. op.pc = "current" /\ op.pc \in Busy /\ op.pc \in Rendered /\ history' = history
  BY DEF WriteCurrent, step, Busy, Rendered
<1>1. candidate \in files /\ state.phase # "idle" /\ process \in {candidate, NoProcess}
  BY <1>0, Parts DEF Router, Swapping
<1>2. CASE /\ current' = candidate /\ files' = {f \in files : f.gen >= op.gen}
           /\ to("journal") /\ UNCHANGED <<state, accounts, answer, process, up>>
  <2>1. /\ op' \in Operations /\ op'.pc = "journal" /\ op'.kind = op.kind /\ op'.by = op.by /\ op'.gen = op.gen
        /\ op'.doc = op.doc /\ op'.id = op.id /\ op'.undo = op.undo
    BY <1>2, Moves, Parts
  <2>2. Filed(files)' /\ current'.gen = op.gen /\ current'.doc = op.doc
    BY <1>0, <1>1, <1>2, Candidate, Parts DEF Filed
  <2>3. Machine'
    BY <1>0, <1>2, <2>1, <2>2, Candidate, Parts DEF Machine, Disk, Filed
  <2>4. Swapping'
    <3>1. up
      BY <1>0, Parts
    <3> QED BY <1>0, <1>1, <1>2, <2>1, <2>2, <3>1 DEF Router, Swapping, Filed, Busy, Rendered
  <2>5. Backed'
    BY <1>0, <1>2, <2>1, <2>2 DEF Router, Backed, Rendered, backed
  <2> QED BY <2>3, <2>4, <2>5 DEF Router
<1>3. CASE fails_to(state, process) /\ UNCHANGED <<current, files>>
  BY <1>0, <1>1, <1>3, Fails, Parts DEF fails_to, Filed
<1> QED BY <1>2, <1>3 DEF WriteCurrent

\* journal.json and state.json.
LEMMA JournalKeeps ==
  ASSUME Router, WriteJournal
  PROVE  Router'
<1>0. op.pc = "journal" /\ UNCHANGED <<current, files>>
  BY DEF WriteJournal, step
<1>1. /\ process \in {current, NoProcess} /\ backed(current.doc, accounts)
  BY <1>0 DEF Router, Swapping, Backed
<1>2. booked \in Seq(Entries) /\ Len(booked) \in 1..HistoryLimit
  BY Books DEF Router, Swapping
<1>3. CASE /\ history' = booked /\ state' = idle /\ op' = NoOp
           /\ reply(op.by, Applied(op.doc)) /\ UNCHANGED <<accounts, process, up>>
  <2>1. answer' \in [Clients -> Answers]
    BY <1>3, Replies, Values, Parts DEF Router
  <2>2. Machine'
    BY <1>0, <1>2, <1>3, <2>1, Values, Parts DEF Machine, Disk, Filed
  <2>3. up
    BY <1>0, Parts
  <2>4. Swapping'
    BY <1>0, <1>1, <1>3, <2>3, Idle, Parts DEF Swapping, Filed, Busy, Rendered
  <2>5. Backed'
    BY <1>0, <1>1, <1>3, Idle DEF Backed, Rendered, backed
  <2> QED BY <2>2, <2>4, <2>5 DEF Router
<1>4. CASE fails_to(state, process) /\ history' \in {history, booked}
  BY <1>0, <1>1, <1>2, <1>4, Fails, Parts DEF fails_to, Filed
<1> QED BY <1>3, <1>4 DEF WriteJournal

---------------------------------------------------------------------------
(* The processes *)

\* Xray dies.
LEMMA XrayKeeps ==
  ASSUME Router, XrayDies
  PROVE  Router'
<1>1. process' = NoProcess /\ UNCHANGED <<current, files, history, state, accounts, op, answer, up>>
  BY DEF XrayDies, disk
<1>2. Machine'
  BY <1>1 DEF Router, Machine, Disk
<1>3. Swapping'
  BY <1>1 DEF Router, Swapping, candidate
<1>4. Backed'
  BY <1>1 DEF Router, Backed, backed
<1> QED BY <1>2, <1>3, <1>4 DEF Router

\* watchdog_tick.
LEMMA WatchdogKeeps ==
  ASSUME Router, Watchdog
  PROVE  Router'
<1>0. op.pc = "idle" /\ up /\ process = NoProcess /\ UNCHANGED <<current, files, history, accounts, op, answer, up>>
  BY DEF Watchdog, lock_free
<1>1. has_file(current.gen) /\ file(current.gen) = current
  <2>1. has_file(current.gen)
    BY Parts DEF Filed, has_file
  <2> QED BY <2>1, FileOf, Parts DEF Filed
<1>2. process' \in {current, NoProcess}
  BY <1>0, <1>1 DEF Watchdog
<1>3. state' \in RouterStates
  <2>1. state.failures + 1 \in Nat
    BY Parts
  <2>2. \A ph \in {"broken", "idle"} : [phase |-> ph, candidate |-> 0, failures |-> state.failures + 1] \in RouterStates
    BY <2>1 DEF RouterStates
  <2> QED BY <2>2, Values DEF Watchdog
<1>4. Machine'
  BY <1>0, <1>2, <1>3, Parts DEF Machine, Disk, Filed
<1>5. Swapping'
  BY <1>0, <1>2 DEF Router, Swapping, candidate, Busy, Rendered
<1>6. Backed'
  BY <1>0 DEF Router, Backed, backed
<1> QED BY <1>4, <1>5, <1>6 DEF Router

\* The manager is down, its disk as it was.
LEMMA Downs ==
  ASSUME Router, down, UNCHANGED disk
  PROVE  Router'
<1>1. up' = FALSE /\ process' = NoProcess /\ op' = NoOp /\ reply(op.by, Failed) /\ UNCHANGED <<current, files, history, state, accounts>>
  BY DEF down, disk
<1>2. answer' \in [Clients -> Answers]
  BY <1>1, Replies, Values DEF Router
<1>3. Machine'
  BY <1>1, <1>2, Values DEF Router, Machine, Disk
<1>4. Swapping'
  BY <1>1, Idle DEF Router, Swapping, Busy, Rendered
<1>5. Backed'
  BY <1>1, Idle DEF Backed, Rendered, backed
<1> QED BY <1>3, <1>4, <1>5 DEF Router

\* bootstrap begins.
LEMMA BootKeeps ==
  ASSUME Router, Boot
  PROVE  Router'
<1>1. /\ ~up /\ up' = TRUE /\ op' = [NoOp EXCEPT !.pc = "boot", !.kind = "boot"] /\ state'.phase = "idle"
      /\ UNCHANGED <<current, history, accounts, process, answer>>
  BY DEF Boot, idle
<1>2. process = NoProcess
  BY <1>1 DEF Router, Swapping
<1>3. Filed(files')
  <2>1. CASE files' = files
    BY <2>1, Parts
  <2>2. CASE files' = others(state.candidate) /\ ~committed
    BY <2>2, Others DEF committed
  <2> QED BY <2>1, <2>2 DEF Boot
<1>4. state' \in RouterStates
  BY Parts DEF Boot, idle, RouterStates
<1>5. op' \in Operations /\ op'.pc = "boot" /\ op'.kind = "boot" /\ op'.by = "nobody"
  BY <1>1, Values DEF NoOp, Operations
<1>6. Machine'
  BY <1>1, <1>3, <1>4, <1>5, Parts DEF Machine, Disk, Filed
<1>7. Swapping'
  BY <1>1, <1>2, <1>3, <1>5 DEF Swapping, Busy, Rendered, Filed
<1>8. Backed'
  BY <1>5 DEF Backed, Rendered
<1> QED BY <1>6, <1>7, <1>8 DEF Router

\* bootstrap starts the current generation, or renders it anew.
LEMMA BootStartKeeps ==
  ASSUME Router, BootStart
  PROVE  Router'
<1>0. op.pc = "boot" /\ UNCHANGED disk /\ UNCHANGED <<current, files, history, state, accounts>>
  BY DEF BootStart, disk
<1>1. CASE unchanged_since /\ process' = file(current.gen) /\ op' = NoOp /\ UNCHANGED <<up, answer>>
  <2>1. has_file(current.gen) /\ file(current.gen) = current
    BY <1>1, FileOf, Parts DEF Filed, unchanged_since
  <2>2. backed(current.doc, accounts)
    <3>1. current.doc = without_lanes(current.doc, known)
      BY <1>1, Parts DEF unchanged_since, current_intents, Generations
    <3> QED BY <3>1, Without, Parts DEF backed, known
  <2>3. Machine'
    BY <1>0, <1>1, <2>1, Values, Parts DEF Machine, Disk, Filed
  <2>4. Swapping'
    BY <1>0, <1>1, <2>1, Idle, Parts DEF Swapping, Busy, Rendered, Filed
  <2>5. Backed'
    BY <1>0, <1>1, <2>2, Idle DEF Backed, Rendered, backed
  <2> QED BY <2>3, <2>4, <2>5 DEF Router
<1>2. CASE down
  BY <1>0, <1>2, Downs
<1>3. CASE begin("boot", "nobody", current_intents, <<>>, accounts) /\ UNCHANGED <<process, up, answer>>
  <2>1. op' = [pc |-> "render", kind |-> "boot", by |-> "nobody", gen |-> current.gen + 1, doc |-> current_intents, id |-> <<>>, undo |-> accounts]
    BY <1>3 DEF begin
  <2>2. current_intents \in Docs
    BY Parts, Without DEF current_intents
  <2>3. op' \in Operations /\ op'.pc = "render" /\ op'.kind = "boot" /\ op'.by = "nobody" /\ op'.gen = current.gen + 1
    BY <2>1, <2>2, Parts DEF Operations, Callers, OperationIds
  <2>4. Machine'
    BY <1>0, <1>3, <2>3, Parts DEF Machine, Disk, Filed
  <2>5. up
    BY <1>0, Parts
  <2>6. Swapping'
    BY <1>0, <1>3, <2>3, <2>5 DEF Router, Swapping, Busy, Rendered
  <2>7. Backed'
    BY <2>3 DEF Backed, Rendered
  <2> QED BY <2>4, <2>6, <2>7 DEF Router
<1> QED BY <1>1, <1>2, <1>3 DEF BootStart

\* The manager's own steps.
LEMMA OwnKeeps ==
  ASSUME Router, RouterOwn
  PROVE  Router'
BY RenderKeeps, StopKeeps, StartKeeps, BackKeeps, CurrentKeeps, JournalKeeps, WatchdogKeeps, BootKeeps, BootStartKeeps
   DEF RouterOwn, Commit

\* The router as it was: another caller's answer, or the caller of the operation gone.
LEMMA RouterStays ==
  ASSUME Router, UNCHANGED <<disk, process, up>>, answer' \in [Clients -> Answers],
         op' = op \/ op' = [op EXCEPT !.by = "nobody"]
  PROVE  Router'
<1>1. UNCHANGED <<current, files, history, state, accounts, process, up>>
  BY DEF disk
<1>2. op \in Operations
  BY Parts
<1>3. /\ op' \in Operations /\ op'.pc = op.pc /\ op'.kind = op.kind /\ op'.gen = op.gen
      /\ op'.doc = op.doc /\ op'.id = op.id /\ op'.undo = op.undo /\ op'.by \in {op.by, "nobody"}
  BY <1>2 DEF Operations, Callers
<1>4. up \/ op' = op
  <2>1. ~up => op = NoOp
    BY DEF Router, Swapping
  <2>2. [NoOp EXCEPT !.by = "nobody"] = NoOp
    BY DEF NoOp
  <2> QED BY <2>1, <2>2
<1>5. Machine'
  BY <1>1, <1>3 DEF Router, Machine, Disk
<1>6. candidate' = candidate
  BY <1>1, <1>3 DEF candidate
<1>7. Swapping'
  BY <1>1, <1>3, <1>4, <1>6 DEF Router, Swapping
<1>8. Backed'
  BY <1>1, <1>3 DEF Router, Backed, backed
<1> QED BY <1>5, <1>7, <1>8 DEF Router

\* What RunsCurrent asks.
LEMMA RouterRuns ==
  ASSUME Router
  PROVE  RunsCurrent
BY Idle DEF Router, Swapping, Backed, RunsCurrent, backed

---------------------------------------------------------------------------
(* How a request goes on *)

Base == Router /\ Counters /\ Panel /\ Shaped
Pcs == {"idle", "native", "router", "compile", "plan", "send", "wait", "handover", "record"} \cup Laning

Turned(c) == req' \in [Clients -> Requests] /\ \A d \in Clients : d # c => req'[d] = req[d]
Same(c) ==
  /\ req'[c].kind = req[c].kind /\ req'[c].lane = req[c].lane /\ req'[c].policy = req[c].policy
  /\ req'[c].id = req[c].id
Held(c) ==
  /\ Same(c) /\ req'[c].attached = req[c].attached /\ req'[c].native = req[c].native
  /\ req'[c].seen = req[c].seen /\ req'[c].doc = req[c].doc
Ended(c) == req'[c] = NoRequest
Noted(c) == Held(c) /\ req'[c].pc = "record" /\ req'[c].ok = FALSE
\* What enable or disable told the grant is taken back.
Backs(c) == Held(c) /\ req'[c].pc = "unmark" /\ req[c].kind \in {"on", "off"}
\* The router is told to forget the lane.
Forgets(c) ==
  /\ req'[c].kind = "forget" /\ req'[c].pc = "send" /\ req'[c].lane = req[c].lane /\ req'[c].policy = req[c].policy
  /\ req'[c].id = req[c].id /\ req'[c].doc = req[c].doc /\ req[c].kind \in {"on", "off"}

\* A request that is none.
LEMMA None ==
  /\ NoPolicy \in Policies /\ NoRequest \in Requests
  /\ NoRequest.pc = "idle" /\ NoRequest.kind = "none" /\ NoRequest.id = <<>> /\ shape(NoRequest)
  /\ NoRequest.lane = "svc" /\ NoRequest.doc = Direct /\ NoRequest.policy = NoPolicy /\ NoPolicy.body = 0 /\ NoPolicy.state = "none"
<1>1. Direct \in Docs /\ 0 \in 0..MaxBody /\ "svc" \in Lanes
  BY Values, BoundsAssumption DEF Lanes
<1>2. NoPolicy \in Policies
  BY <1>1 DEF NoPolicy, Policies, Backends
<1>3. [gen |-> 0, doc |-> Direct] \in Revisions
  BY <1>1 DEF Revisions
<1>4. NoRequest \in Requests
  BY <1>1, <1>2, <1>3 DEF NoRequest, Requests, Kinds, OperationIds
<1>6. NoRequest.lane = "svc" /\ NoRequest.doc = Direct /\ NoRequest.policy = NoPolicy /\ NoPolicy.body = 0 /\ NoPolicy.state = "none"
  BY DEF NoRequest, NoPolicy
<1>5. NoRequest.pc = "idle" /\ NoRequest.kind = "none" /\ NoRequest.id = <<>>
  BY DEF NoRequest
<1> QED BY <1>2, <1>4, <1>5, <1>6 DEF shape, Laning

\* Its end.
LEMMA Ends ==
  ASSUME Panel, NEW c \in Clients, done(c)
  PROVE  Turned(c) /\ Ended(c)
BY None DEF Panel, done, Turned, Ended

\* Its next step.
LEMMA Goes ==
  ASSUME Panel, NEW c \in Clients, NEW pc \in Pcs, goes(c, pc)
  PROVE  Turned(c) /\ Held(c) /\ req'[c].pc = pc /\ req'[c].ok = req[c].ok
<1>1. req[c] \in Requests /\ req' = [req EXCEPT ![c] = [req[c] EXCEPT !.pc = pc]]
  BY DEF Panel, goes
<1>2. [req[c] EXCEPT !.pc = pc] \in Requests
  BY <1>1 DEF Requests, Pcs, Laning
<1>3. req'[c] = [req[c] EXCEPT !.pc = pc] /\ Turned(c)
  BY <1>1, <1>2 DEF Panel, Turned
<1> QED BY <1>1, <1>3 DEF Requests, Held, Same

\* A failure that is noted.
LEMMA Notes ==
  ASSUME Panel, NEW c \in Clients, req' = [req EXCEPT ![c].pc = "record", ![c].ok = FALSE]
  PROVE  Turned(c) /\ Noted(c)
<1>1. req[c] \in Requests /\ req' = [req EXCEPT ![c] = [req[c] EXCEPT !.pc = "record", !.ok = FALSE]]
  BY DEF Panel
<1>2. [req[c] EXCEPT !.pc = "record", !.ok = FALSE] \in Requests
  BY <1>1 DEF Requests
<1>3. req'[c] = [req[c] EXCEPT !.pc = "record", !.ok = FALSE] /\ Turned(c)
  BY <1>1, <1>2 DEF Panel, Turned
<1> QED BY <1>1, <1>3 DEF Requests, Held, Same, Noted

\* Refused, only a section is noted.
LEMMA Refusal ==
  ASSUME Panel, NEW c \in Clients, refused(c)
  PROVE  Turned(c) /\ ((Ended(c) /\ req[c].kind # "section") \/ (Noted(c) /\ req[c].kind = "section"))
BY Ends, Notes DEF refused

\* What an enable or a disable has told is taken back, or not.
LEMMA Unpushing ==
  ASSUME Panel, NEW c \in Clients, unpushed(c), req[c].kind \in {"on", "off"}
  PROVE  Turned(c) /\ (Ended(c) \/ Backs(c))
<1>1. CASE goes(c, "unmark")
  <2>1. "unmark" \in Pcs
    BY DEF Pcs, Laning
  <2> QED BY <1>1, <2>1, Goes DEF Backs
<1>2. CASE done(c)
  BY <1>2, Ends
<1> QED BY <1>1, <1>2 DEF unpushed

\* Failed, an apply is noted too, and what was told a grant is taken back.
LEMMA Failure ==
  ASSUME Panel, NEW c \in Clients, failed(c)
  PROVE  /\ Turned(c)
         /\ \/ Ended(c) /\ req[c].kind \notin {"section", "apply"}
            \/ Noted(c) /\ req[c].kind \in {"section", "apply"}
            \/ Backs(c)
<1>1. CASE pushing(req[c])
  <2>1. req[c].kind \in {"on", "off"} /\ unpushed(c)
    BY <1>1 DEF failed, pushing
  <2> QED BY <2>1, Unpushing
<1>2. CASE ~pushing(req[c])
  BY <1>2, Ends, Notes, Refusal DEF failed
<1> QED BY <1>1, <1>2

\* A request that ends or notes a failure has its shape.
LEMMA EndShaped ==
  ASSUME Panel, Shaped, NEW c \in Clients, Turned(c),
         Ended(c) \/ (Noted(c) /\ req[c].kind \in {"section", "apply"}) \/ Backs(c), late' = late
  PROVE  Shaped'
<1>1. shape(req'[c])
  <2>1. CASE Ended(c)
    BY <2>1, None DEF Ended
  <2>2. CASE Noted(c) /\ req[c].kind \in {"section", "apply"}
    BY <2>2 DEF Shaped, shape, Noted, Held, Same, Laning
  <2>3. CASE Backs(c)
    BY <2>3 DEF Shaped, shape, Backs, Held, Same, Laning
  <2> QED BY <2>1, <2>2, <2>3
<1> QED BY <1>1 DEF Shaped, Turned

\* The panel's state when a step changes only the requests.
LEMMA PanelStays ==
  ASSUME Panel, NEW c \in Clients, Turned(c), UNCHANGED <<managed, native, store, late, section, egress>>,
         misled' \in {{}, {"report"}, {"report", "pass"}}
  PROVE  Panel'
BY DEF Panel, Turned, store

\* The node's state when nothing of it changes.
LEMMA NodeStays ==
  ASSUME Panel, UNCHANGED node
  PROVE  UNCHANGED <<section, egress>> /\ misled' = misled /\ misled' \in {{}, {"report"}, {"report", "pass"}}
BY DEF Panel, node

\* The counters of a step that asks nothing.
LEMMA CountersStay ==
  ASSUME Counters, fine \/ fault, idly, UNCHANGED crashes
  PROVE  Counters'
BY BoundsAssumption DEF Counters, fine, fault, idly

\* The counters of a request.
LEMMA CountersAsk ==
  ASSUME Counters, asked
  PROVE  Counters' /\ requests' = requests + 1
BY DEF Counters, asked, fine

\* The router, when nothing of it changes.
LEMMA RouterSame ==
  ASSUME Router, UNCHANGED router
  PROVE  Router'
<1>1. UNCHANGED <<disk, process, up>> /\ op' = op /\ answer' \in [Clients -> Answers]
  BY Parts DEF router
<1> QED BY <1>1, RouterStays

\* A new request.
LEMMA AskKeeps ==
  ASSUME Base, NEW c \in Clients, NEW s \in Requests, shape(s), asks(c, s),
         UNCHANGED <<router, managed, native, store, late, node>>
  PROVE  Base' /\ Turned(c) /\ req'[c] = s /\ requests' = requests + 1 /\ req[c].pc = "idle"
<1>1. req' = [req EXCEPT ![c] = s] /\ asked /\ req[c].pc = "idle"
  BY DEF asks, at
<1>2. Turned(c) /\ req'[c] = s
  BY <1>1 DEF Base, Panel, Turned
<1>3. Router'
  BY RouterSame DEF Base
<1>4. Counters' /\ requests' = requests + 1
  BY <1>1, CountersAsk DEF Base
<1>5. Panel'
  BY <1>2, NodeStays, PanelStays DEF Base
<1>6. Shaped'
  BY <1>2 DEF Base, Shaped, Turned
<1> QED BY <1>1, <1>2, <1>3, <1>4, <1>5, <1>6 DEF Base

---------------------------------------------------------------------------
(* The requests are well formed *)

\* The policies of the panel.
LEMMA PolicyOf ==
  ASSUME Panel, NEW l \in Lanes
  PROVE  policy[l] \in Policies /\ policy[l].row \in Nat /\ policy[l].rev \in Nat /\ policy[l].body \in 0..MaxBody
BY DEF Panel, Policies

\* apply is asked.
LEMMA AskApplyKeeps ==
  ASSUME Base, NEW c \in Clients, NEW l \in Lanes, AskApply(c, l)
  PROVE  /\ Base' /\ Turned(c) /\ requests' = requests + 1 /\ req[c].pc = "idle"
         /\ req'[c].kind = "apply" /\ req'[c].pc = "native" /\ req'[c].id \in Lanes \X Nat \X Nat
         /\ req'[c].lane = l /\ req'[c].policy = policy[l] /\ req'[c].id[1] = l /\ req'[c].doc = Direct
<1> DEFINE id == <<l, policy[l].row, policy[l].rev>>
           s == [NoRequest EXCEPT !.kind = "apply", !.pc = "native", !.lane = l, !.policy = policy[l], !.id = id]
<1>1. id \in OperationIds /\ id \in Lanes \X Nat \X Nat /\ id[1] = l
  BY PolicyOf DEF OperationIds, Base
<1> HIDE DEF id
<1>2. s \in Requests
  BY <1>1, None, PolicyOf DEF Requests, Base, Kinds
<1>3. s.kind = "apply" /\ s.pc = "native" /\ s.id = id /\ s.lane = l /\ s.policy = policy[l] /\ s.doc = Direct
  BY None DEF Requests
<1> HIDE DEF s
<1>4. shape(s)
  BY <1>3 DEF shape, Laning
<1>5. asks(c, s) /\ UNCHANGED <<router, managed, native, store, late, node>>
  BY DEF AskApply, s, id
<1> QED BY <1>1, <1>2, <1>3, <1>4, <1>5, AskKeeps

\* rollback is asked.
LEMMA AskRollbackKeeps ==
  ASSUME Base, NEW c \in Clients, NEW l \in Lanes, AskRollback(c, l)
  PROVE  /\ Base' /\ Turned(c) /\ requests' = requests + 1 /\ req[c].pc = "idle"
         /\ req'[c].kind = "rollback" /\ req'[c].pc = "native" /\ req'[c].id = <<>>
         /\ req'[c].lane = l /\ req'[c].policy = policy[l] /\ req'[c].doc = Direct
<1> DEFINE s == [NoRequest EXCEPT !.kind = "rollback", !.pc = "native", !.lane = l, !.policy = policy[l]]
<1>2. s \in Requests
  BY None, PolicyOf DEF Requests, Base, Kinds
<1>3. s.kind = "rollback" /\ s.pc = "native" /\ s.id = <<>> /\ s.lane = l /\ s.policy = policy[l] /\ s.doc = Direct
  BY None DEF Requests
<1> HIDE DEF s
<1>4. shape(s)
  BY <1>3 DEF shape, Laning
<1>5. asks(c, s) /\ UNCHANGED <<router, managed, native, store, late, node>>
  BY DEF AskRollback, s
<1> QED BY <1>2, <1>3, <1>4, <1>5, AskKeeps

\* attach or detach is asked.
LEMMA AskMoveKeeps ==
  ASSUME Base, NEW c \in Clients, NEW kind \in Moving, AskMove(c, kind)
  PROVE  /\ Base' /\ Turned(c) /\ requests' = requests + 1 /\ req[c].pc = "idle"
         /\ req'[c].kind = kind /\ req'[c].pc = "native" /\ req'[c].id = <<"stamp", requests>>
         /\ req'[c].lane = "svc" /\ req'[c].policy = policy["svc"] /\ req'[c].doc = Direct
<1> DEFINE id == <<"stamp", requests>>
           s == [NoRequest EXCEPT !.kind = kind, !.pc = "native", !.policy = policy["svc"], !.id = id]
<1>1. id \in OperationIds
  BY DEF OperationIds, Base, Counters
<1> HIDE DEF id
<1>2. s \in Requests
  <2>1. "svc" \in Lanes
    BY DEF Lanes
  <2> QED BY <1>1, <2>1, None, PolicyOf DEF Requests, Base, Kinds, Moving
<1>3. s.kind = kind /\ s.pc = "native" /\ s.id = id /\ s.lane = "svc" /\ s.policy = policy["svc"] /\ s.doc = Direct
  BY None DEF Requests
<1> HIDE DEF s
<1>4. shape(s)
  BY <1>3 DEF shape, Moving, Laning
<1>5. asks(c, s) /\ UNCHANGED <<router, managed, native, store, late, node>>
  BY DEF AskMove, s, id
<1> QED BY <1>2, <1>3, <1>4, <1>5, AskKeeps DEF id

\* enable or disable is asked.
LEMMA AskLaneKeeps ==
  ASSUME Base, NEW c \in Clients, NEW l \in GrantLanes, AskLane(c, l) \/ AskNoLane(c, l)
  PROVE  /\ Base' /\ Turned(c) /\ requests' = requests + 1 /\ req[c].pc = "idle"
         /\ req'[c].kind \in {"on", "off"} /\ req'[c].pc \in {"send", "mark"} /\ req'[c].id = <<>>
         /\ req'[c].lane = l /\ req'[c].policy = NoPolicy /\ req'[c].doc = Direct
<1> DEFINE a == [NoRequest EXCEPT !.kind = "on", !.pc = "send", !.lane = l, !.turn = l]
           b == [NoRequest EXCEPT !.kind = "off", !.pc = "mark", !.lane = l]
<1>1. l \in Lanes
  BY DEF Lanes
<1>2. /\ a \in Requests /\ a.kind = "on" /\ a.pc = "send" /\ a.id = <<>> /\ a.lane = l /\ a.turn = l
      /\ a.policy = NoPolicy /\ a.doc = Direct
  BY <1>1, None DEF Requests, Kinds
<1>3. b \in Requests /\ b.kind = "off" /\ b.pc = "mark" /\ b.id = <<>> /\ b.lane = l /\ b.policy = NoPolicy /\ b.doc = Direct
  BY <1>1, None DEF Requests, Kinds
<1>5. UNCHANGED <<router, managed, native, store, late, node>> /\ (asks(c, a) \/ asks(c, b))
  BY DEF AskLane, AskNoLane
<1> HIDE DEF a, b
<1>4. shape(a) /\ shape(b)
  BY <1>2, <1>3 DEF shape, Laning
<1>6. CASE asks(c, a)
  BY <1>2, <1>4, <1>5, <1>6, AskKeeps
<1>7. CASE asks(c, b)
  BY <1>3, <1>4, <1>5, <1>7, AskKeeps
<1> QED BY <1>5, <1>6, <1>7

\* A pass over the section.
LEMMA AskSectionKeeps ==
  ASSUME Base, NEW c \in Clients, AskSection(c)
  PROVE  /\ Base' /\ Turned(c) /\ requests' = requests + 1 /\ req[c].pc = "idle"
         /\ req'[c].kind = "section" /\ req'[c].pc = (IF section.backend = "router" THEN "router" ELSE "handover")
         /\ req'[c].id = <<"node", section.gen>> /\ req'[c].doc = section.doc /\ req'[c].policy.backend = section.backend
         /\ req'[c].ok = TRUE
<1> DEFINE id == <<"node", section.gen>>
           pc == IF section.backend = "router" THEN "router" ELSE "handover"
           s == [NoRequest EXCEPT !.kind = "section", !.pc = pc, !.policy.backend = section.backend, !.doc = section.doc, !.id = id]
<1>1. id \in OperationIds /\ id \in {"node"} \X Nat /\ section.backend \in Backends /\ section.doc \in Docs
  BY DEF OperationIds, Base, Panel
<1>2. pc \in {"router", "handover"}
  OBVIOUS
<1> HIDE DEF id, pc
<1>3. [NoPolicy EXCEPT !.backend = section.backend] \in Policies /\ [NoPolicy EXCEPT !.backend = section.backend].backend = section.backend
  BY <1>1, None DEF Policies
<1>4. s = [NoRequest EXCEPT !.kind = "section", !.pc = pc, !.policy = [NoPolicy EXCEPT !.backend = section.backend],
                            !.doc = section.doc, !.id = id]
  BY DEF NoRequest
<1>5. s \in Requests
  BY <1>1, <1>2, <1>3, <1>4, None DEF Requests, Kinds
<1>6. s.kind = "section" /\ s.pc = pc /\ s.id = id /\ s.doc = section.doc /\ s.policy.backend = section.backend /\ s.ok = TRUE
  BY <1>3, <1>4 DEF NoRequest
<1>7. asks(c, s) /\ UNCHANGED <<router, managed, native, store, late, node>>
  BY DEF AskSection, pc, id
<1> HIDE DEF s
<1>8. shape(s)
  BY <1>1, <1>2, <1>6 DEF shape, Laning
<1> QED BY <1>5, <1>6, <1>7, <1>8, AskKeeps DEF id, pc

---------------------------------------------------------------------------
(* Their steps keep the types, the shape and the router *)

\* A step of a request that touches nothing else but what misled it.
LEMMA StepReads ==
  ASSUME Base, NEW c \in Clients, Turned(c), shape(req'[c]), UNCHANGED <<router, managed, native, store, late, section, egress>>,
         misled' \in {{}, {"report"}, {"report", "pass"}}, fine \/ fault, quiet
  PROVE  Base'
<1>1. Router'
  BY RouterSame DEF Base
<1>2. Counters'
  BY CountersStay DEF Base, quiet
<1>3. Panel'
  BY PanelStays DEF Base
<1>4. Shaped'
  BY DEF Base, Shaped, Turned
<1> QED BY <1>1, <1>2, <1>3, <1>4 DEF Base

\* A step of a request that touches nothing else.
LEMMA StepKeeps ==
  ASSUME Base, NEW c \in Clients, Turned(c), shape(req'[c]), UNCHANGED <<router, managed, native, store, late, node>>,
         fine \/ fault, quiet
  PROVE  Base'
BY StepReads, NodeStays DEF Base

\* The shape of a request that ends, notes a failure or takes back what it told.
LEMMA EndShape ==
  ASSUME Shaped, NEW c \in Clients, Ended(c) \/ (Noted(c) /\ req[c].kind \in {"section", "apply"}) \/ Backs(c)
  PROVE  shape(req'[c])
<1>1. CASE Ended(c)
  BY <1>1, None DEF Ended
<1>2. CASE Noted(c) /\ req[c].kind \in {"section", "apply"}
  BY <1>2 DEF Shaped, shape, Noted, Held, Same, Laning
<1>3. CASE Backs(c)
  BY <1>3 DEF Shaped, shape, Backs, Held, Same, Laning
<1> QED BY <1>1, <1>2, <1>3

\* The service's manager is read, or does not answer.
LEMMA ReadNativeKeeps ==
  ASSUME Base, NEW c \in Clients, ReadNative(c)
  PROVE  /\ Base' /\ Turned(c) /\ req[c].pc = "native"
         /\ \/ /\ Same(c) /\ req'[c].pc = "router" /\ req'[c].attached = native.attached /\ req'[c].native = native.rev
               /\ req'[c].seen = req[c].seen /\ req'[c].doc = req[c].doc /\ req'[c].ok = req[c].ok
            \/ Ended(c)
<1>1. req[c].pc = "native" /\ quiet /\ (fine \/ fault) /\ UNCHANGED <<router, managed, native, store, late, node>>
  BY DEF ReadNative, at
<1>2. req[c].kind \in {"apply", "rollback", "attach", "detach"} /\ req[c] \in Requests /\ native.attached \in BOOLEAN /\ native.rev \in Nat
  BY <1>1 DEF Base, Shaped, shape, Panel
<1>3. CASE req' = [req EXCEPT ![c].pc = "router", ![c].attached = native.attached, ![c].native = native.rev]
  <2> DEFINE s == [req[c] EXCEPT !.pc = "router", !.attached = native.attached, !.native = native.rev]
  <2>1. s \in Requests
    BY <1>2 DEF Requests
  <2>2. req' = [req EXCEPT ![c] = s]
    BY <1>3
  <2>3. Turned(c) /\ req'[c] = s
    BY <2>1, <2>2 DEF Base, Panel, Turned
  <2>4. /\ Same(c) /\ req'[c].pc = "router" /\ req'[c].attached = native.attached /\ req'[c].native = native.rev
        /\ req'[c].seen = req[c].seen /\ req'[c].doc = req[c].doc /\ req'[c].ok = req[c].ok
    BY <1>2, <2>3 DEF Same, Requests
  <2>5. shape(req'[c])
    BY <1>2, <2>4 DEF shape, Same, Laning
  <2> QED BY <1>1, <2>3, <2>4, <2>5, StepKeeps
<1>4. CASE refused(c)
  <2>1. Turned(c) /\ Ended(c)
    BY <1>2, <1>4, Refusal DEF Base
  <2> QED BY <1>1, <2>1, EndShape, StepKeeps DEF Base
<1> QED BY <1>3, <1>4 DEF ReadNative

\* Where the reads lead.
LEMMA Decides ==
  ASSUME NEW r, NEW seen, r.kind \in {"apply", "rollback", "attach", "detach", "section"}
  PROVE  /\ decided(r, seen) \in {"compile", "send", "handover", "record"}
         /\ decided(r, seen) = "compile" <=> r.kind = "apply"
         /\ r.kind = "rollback" => decided(r, seen) = "send"
         /\ r.kind = "section" => decided(r, seen) = IF seen.doc # r.doc THEN "send" ELSE IF wants_router(r) THEN "handover" ELSE "record"
         /\ r.kind = "attach" => decided(r, seen) = IF r.attached THEN "record" ELSE IF seen.doc # Direct THEN "send" ELSE "handover"
         /\ r.kind = "detach" => decided(r, seen) = IF r.attached THEN "handover" ELSE IF seen.doc # Direct THEN "send" ELSE "record"
BY DEF decided

\* The router is read, or does not answer.
LEMMA ReadRouterKeeps ==
  ASSUME Base, NEW c \in Clients, ReadRouter(c)
  PROVE  /\ Base' /\ Turned(c) /\ req[c].pc = "router"
         /\ UNCHANGED <<router, managed, native, store, late, section, egress, requests>>
         /\ \/ /\ lock_free /\ Same(c) /\ req'[c].pc = decided(req[c], revision) /\ req'[c].seen = revision
               /\ misled' = IF req[c].kind = "section" THEN misled \ {"pass"} ELSE misled
               /\ req'[c].attached = req[c].attached /\ req'[c].native = req[c].native
               /\ req'[c].doc = req[c].doc /\ req'[c].ok = req[c].ok
            \/ misled' = misled /\ Ended(c) /\ req[c].kind # "section"
            \/ misled' = misled /\ Noted(c) /\ req[c].kind = "section"
<1>1. req[c].pc = "router" /\ quiet /\ (fine \/ fault) /\ UNCHANGED <<router, managed, native, store, late, section, egress, requests>>
  BY DEF ReadRouter, at, quiet, idly
<1>0. misled \in {{}, {"report"}, {"report", "pass"}} /\ misled \ {"pass"} \in {{}, {"report"}}
  BY DEF Base, Panel
<1>2. req[c].kind \in {"apply", "rollback", "attach", "detach", "section"} /\ req[c] \in Requests
  BY <1>1 DEF Base, Shaped, shape, Panel
<1>3. CASE /\ lock_free /\ req' = [req EXCEPT ![c].pc = decided(req[c], revision), ![c].seen = revision]
           /\ misled' = IF req[c].kind = "section" THEN misled \ {"pass"} ELSE misled
  <2> DEFINE pc == decided(req[c], revision)
             s == [req[c] EXCEPT !.pc = pc, !.seen = revision]
  <2>1. revision \in Revisions
    BY Parts DEF Base, revision, Revisions
  <2>2. pc \in {"compile", "send", "handover", "record"} /\ (pc = "compile" => req[c].kind = "apply") /\ (pc = "handover" => req[c].kind \notin {"apply", "rollback"})
    BY <1>2, Decides
  <2>3. req' = [req EXCEPT ![c] = s]
    BY <1>3
  <2> HIDE DEF pc
  <2>4. s \in Requests
    BY <1>2, <2>1, <2>2 DEF Requests
  <2>5. Turned(c) /\ req'[c] = s
    BY <2>3, <2>4 DEF Base, Panel, Turned
  <2>6. /\ Same(c) /\ req'[c].pc = pc /\ req'[c].seen = revision
        /\ req'[c].attached = req[c].attached /\ req'[c].native = req[c].native
        /\ req'[c].doc = req[c].doc /\ req'[c].ok = req[c].ok
    BY <1>2, <2>5 DEF Same, Requests
  <2>7. shape(req'[c])
    <3>1. shape(req[c])
      BY DEF Base, Shaped
    <3> QED BY <1>2, <2>2, <2>6, <3>1 DEF shape, Same, Laning
  <2>8. misled' \in {{}, {"report"}, {"report", "pass"}}
    BY <1>0, <1>3
  <2>9. Base'
    BY <1>1, <2>5, <2>7, <2>8, StepReads
  <2> QED BY <1>1, <1>3, <2>5, <2>6, <2>9 DEF pc
<1>4. CASE refused(c) /\ misled' = misled
  <2>1. Turned(c) /\ ((Ended(c) /\ req[c].kind # "section") \/ (Noted(c) /\ req[c].kind = "section"))
    BY <1>4, Refusal DEF Base
  <2>2. shape(req'[c])
    BY <2>1, EndShape DEF Base
  <2>3. Base'
    BY <1>0, <1>1, <1>4, <2>1, <2>2, StepReads
  <2> QED BY <1>1, <1>4, <2>1, <2>3
<1> QED BY <1>3, <1>4 DEF ReadRouter

\* The policies are compiled.
LEMMA CompileKeeps ==
  ASSUME Base, NEW c \in Clients, Compile(c)
  PROVE  /\ Base' /\ Turned(c) /\ req[c].pc = "compile" /\ req[c].kind = "apply"
         /\ (Same(c) /\ req'[c].pc = "plan" /\ req'[c].doc = compiled(req[c]) /\ req'[c].seen = req[c].seen) \/ Ended(c)
         /\ UNCHANGED <<router, managed, native, store, late, node, requests>>
<1>1. req[c].pc = "compile" /\ quiet /\ (fine \/ fault) /\ UNCHANGED <<router, managed, native, store, late, node, requests>>
  BY DEF Compile, at, quiet, idly
<1>2. req[c].kind = "apply" /\ req[c] \in Requests
  BY <1>1 DEF Base, Shaped, shape, Panel
<1>3. CASE req' = [req EXCEPT ![c].pc = "plan", ![c].doc = compiled(req[c])]
  <2> DEFINE doc == compiled(req[c])
             s == [req[c] EXCEPT !.pc = "plan", !.doc = doc]
  <2>1. doc \in Docs
    <3>1. req[c].policy.body \in 0..MaxBody
      BY <1>2 DEF Requests, Policies
    <3>2. \A l \in Lanes : policy[l].body \in 0..MaxBody
      BY PolicyOf DEF Base
    <3> QED BY <3>1, <3>2, BoundsAssumption DEF compiled, Docs
  <2> HIDE DEF doc
  <2>2. s \in Requests
    BY <1>2, <2>1 DEF Requests
  <2>3. req' = [req EXCEPT ![c] = s]
    BY <1>3 DEF doc
  <2>4. Turned(c) /\ req'[c] = s
    BY <2>2, <2>3 DEF Base, Panel, Turned
  <2>5. Same(c) /\ req'[c].pc = "plan" /\ req'[c].doc = doc /\ req'[c].seen = req[c].seen
    BY <1>2, <2>4 DEF Same, Requests
  <2>6. shape(req'[c])
    BY <1>2, <2>5 DEF shape, Same, Laning
  <2> QED BY <1>1, <1>2, <2>4, <2>5, <2>6, StepKeeps DEF doc
<1>4. CASE refused(c)
  <2>1. Turned(c) /\ Ended(c)
    BY <1>2, <1>4, Refusal DEF Base
  <2> QED BY <1>1, <1>2, <2>1, EndShape, StepKeeps DEF Base
<1> QED BY <1>3, <1>4 DEF Compile

\* egress_plan.
LEMMA PlanKeeps ==
  ASSUME Base, NEW c \in Clients, Plan(c)
  PROVE  /\ Base' /\ Turned(c) /\ req[c].pc = "plan" /\ req[c].kind = "apply" /\ Held(c)
         /\ UNCHANGED <<router, managed, native, store, late, node, requests>>
         /\ req'[c].pc \in {"send", "record"}
<1>1. req[c].pc = "plan" /\ quiet /\ (fine \/ fault) /\ UNCHANGED <<router, managed, native, store, late, node, requests>>
  BY DEF Plan, at, quiet, idly
<1>2. req[c].kind = "apply" /\ req[c] \in Requests
  BY <1>1 DEF Base, Shaped, shape, Panel
<1>3. CASE goes(c, "send")
  <2>1. Turned(c) /\ Held(c) /\ req'[c].pc = "send"
    BY <1>3, Goes DEF Base, Pcs
  <2>2. shape(req'[c])
    BY <1>2, <2>1 DEF shape, Held, Same, Laning
  <2> QED BY <1>1, <1>2, <2>1, <2>2, StepKeeps
<1>4. CASE failed(c)
  <2>1. Turned(c) /\ Noted(c)
    BY <1>2, <1>4, Failure DEF Base, Backs
  <2> QED BY <1>1, <1>2, <2>1, EndShape, StepKeeps DEF Base, Noted
<1> QED BY <1>3, <1>4 DEF Plan

\* The router takes a call.
LEMMA MadeKeeps ==
  ASSUME Router, NEW by \in Callers, NEW r, r.doc \in Docs, r.id \in OperationIds,
         r.kind \in {"issue", "forget"} => r.lane \in GrantLanes, made(by, r)
  PROVE  Router' /\ fine /\ crashes' = crashes /\ lock_free /\ still
<1>1. CASE r.kind = "rollback" /\ EgressRollback(by, r.seen)
  BY <1>1, RollbackKeeps DEF EgressRollback, taken, still
<1>2. CASE r.kind = "issue" /\ LaneIssue(by, r.lane)
  BY <1>2, IssueKeeps DEF LaneIssue, taken, still
<1>3. CASE r.kind = "forget" /\ LaneForget(by, r.lane)
  BY <1>3, ForgetKeeps DEF LaneForget, taken, still
<1>4. CASE EgressApply(by, r.seen, r.doc, r.id)
  BY <1>4, ApplyKeeps DEF EgressApply, taken, still
<1> QED BY <1>1, <1>2, <1>3, <1>4 DEF made

\* The call of a request.
LEMMA CallOf ==
  ASSUME NEW r \in Requests, shape(r)
  PROVE  /\ call_of(r).seen = r.seen /\ call_of(r).doc = r.doc /\ call_of(r).id = r.id
         /\ r.kind \in {"on", "off"} => call_of(r).kind = "issue"
         /\ r.kind \in {"forget", "rollback"} => call_of(r).kind = r.kind
         /\ r.kind \notin {"on", "off", "forget", "rollback"} => call_of(r).kind = "apply"
         /\ call_of(r) \in Calls
         /\ r.pc = "send" /\ call_of(r).kind \in {"issue", "forget"} => call_of(r).lane \in GrantLanes
<1> DEFINE kind == CASE r.kind \in {"on", "off"} -> "issue" [] r.kind \in {"forget", "rollback"} -> r.kind [] OTHER -> "apply"
           lane == IF r.kind \in {"on", "off"} THEN r.turn ELSE r.lane
<1>1. /\ r.kind \in {"on", "off"} => kind = "issue"
      /\ r.kind \in {"forget", "rollback"} => kind = r.kind
      /\ r.kind \notin {"on", "off", "forget", "rollback"} => kind = "apply"
  OBVIOUS
<1>2. lane \in Lanes /\ (r.pc = "send" /\ r.kind \in {"on", "off", "forget"} => lane \in GrantLanes)
  BY DEF Requests, shape
<1>3. call_of(r) = [kind |-> kind, lane |-> lane, seen |-> r.seen, doc |-> r.doc, id |-> r.id]
  BY DEF call_of
<1> HIDE DEF kind, lane
<1>4. kind \in {"apply", "rollback", "issue", "forget"}
  BY <1>1
<1>5. r.seen \in Revisions /\ r.doc \in Docs /\ r.id \in OperationIds
  BY DEF Requests
<1>6. call_of(r).kind = kind /\ call_of(r).lane = lane
  BY <1>3
<1>7. call_of(r) \in Calls
  BY <1>2, <1>3, <1>4, <1>5 DEF Calls
<1> QED BY <1>1, <1>2, <1>3, <1>6, <1>7

\* A call is sent.
LEMMA SendKeeps ==
  ASSUME Base, NEW c \in Clients, Send(c)
  PROVE  /\ Base' /\ Turned(c) /\ req[c].pc = "send" /\ UNCHANGED <<managed, native, store, late, node, requests>>
         /\ \/ made(c, call_of(req[c])) /\ Held(c) /\ req'[c].pc = "wait" /\ req'[c].ok = req[c].ok
            \/ UNCHANGED router /\ Ended(c) /\ req[c].kind \notin {"section", "apply"}
            \/ UNCHANGED router /\ Noted(c) /\ req[c].kind \in {"section", "apply"}
            \/ UNCHANGED router /\ Backs(c)
<1>1. req[c].pc = "send" /\ idly /\ UNCHANGED <<managed, native, store, late, node, requests>>
  BY DEF Send, at, idly
<1>2. req[c] \in Requests /\ shape(req[c]) /\ c \in Callers
  BY <1>1 DEF Base, Shaped, Panel, Callers
<1>3. /\ call_of(req[c]).doc \in Docs /\ call_of(req[c]).id \in OperationIds
      /\ call_of(req[c]).kind \in {"issue", "forget"} => call_of(req[c]).lane \in GrantLanes
  BY <1>1, <1>2, CallOf DEF Requests
<1>4. CASE made(c, call_of(req[c])) /\ goes(c, "wait")
  <2>1. Turned(c) /\ Held(c) /\ req'[c].pc = "wait" /\ req'[c].ok = req[c].ok
    BY <1>4, Goes DEF Base, Pcs
  <2>2. Router' /\ fine /\ crashes' = crashes
    BY <1>2, <1>3, <1>4, MadeKeeps DEF Base
  <2>3. shape(req'[c])
    BY <1>1, <1>2, <2>1 DEF shape, Held, Same, Laning
  <2>4. Counters'
    BY <1>1, <2>2, CountersStay DEF Base
  <2>5. Panel'
    BY <1>1, <2>1, NodeStays, PanelStays DEF Base
  <2>6. Shaped'
    BY <1>1, <2>1, <2>3 DEF Base, Shaped, Turned
  <2> QED BY <1>1, <1>4, <2>1, <2>2, <2>4, <2>5, <2>6 DEF Base
<1>5. CASE fine /\ failed(c) /\ UNCHANGED <<router, crashes>>
  <2>1. /\ Turned(c)
        /\ \/ Ended(c) /\ req[c].kind \notin {"section", "apply"}
           \/ Noted(c) /\ req[c].kind \in {"section", "apply"}
           \/ Backs(c)
    BY <1>5, Failure DEF Base
  <2>2. quiet
    BY <1>1, <1>5 DEF quiet
  <2>4. shape(req'[c])
    BY <2>1, EndShape DEF Base
  <2>3. Base'
    BY <1>1, <1>5, <2>1, <2>2, <2>4, StepKeeps
  <2> QED BY <1>1, <1>5, <2>1, <2>3
<1> QED BY <1>4, <1>5 DEF Send

\* A call given up is made.
LEMMA LateCallKeeps ==
  ASSUME Base, LateCall
  PROVE  /\ Base' /\ late' \subseteq late
         /\ \E call \in late : call \in Calls /\ made("nobody", call) /\ late' = late \ {call}
         /\ UNCHANGED <<managed, native, store, req, section, egress, requests, edits>>
         /\ misled' = IF managed /\ op' # op THEN {"report", "pass"} ELSE misled
<1>1. PICK call \in late : made("nobody", call) /\ late' = late \ {call}
  BY DEF LateCall
<1>2. /\ UNCHANGED <<managed, native, store, req, section, egress, requests, edits>>
      /\ misled' = IF managed /\ op' # op THEN {"report", "pass"} ELSE misled
  BY DEF LateCall
<1>3. call \in Calls /\ (call.kind \in {"issue", "forget"} => call.lane \in GrantLanes)
  BY <1>1 DEF Base, Panel, Shaped
<1>4. call.doc \in Docs /\ call.id \in OperationIds /\ "nobody" \in Callers
  BY <1>3 DEF Calls, Callers
<1>5. Router' /\ fine /\ crashes' = crashes
  BY <1>1, <1>3, <1>4, MadeKeeps DEF Base
<1>6. Counters'
  BY <1>2, <1>5, CountersStay DEF Base, idly
<1>7. Panel'
  <2>1. misled' \in {{}, {"report"}, {"report", "pass"}}
    BY <1>2 DEF Base, Panel
  <2> QED BY <1>1, <1>2, <2>1 DEF Base, Panel, store
<1>8. Shaped'
  BY <1>1, <1>2 DEF Base, Shaped
<1> QED BY <1>1, <1>2, <1>3, <1>5, <1>6, <1>7, <1>8 DEF Base

\* Where the router's part leads.
LEMMA AfterRouter ==
  ASSUME NEW r, shape(r)
  PROVE  /\ wants_router(r) => after_router(r) = "handover"
         /\ r.kind = "forget" => after_router(r) = "idle"
         /\ r.kind \in {"on", "off"} => after_router(r) \in {"reissue", "mark"}
         /\ ~wants_router(r) /\ r.kind \notin {"forget", "on", "off"} => after_router(r) = "record"
BY DEF after_router, wants_router, pushing

\* The router answers.
LEMMA AnsweredKeeps ==
  ASSUME Base, NEW c \in Clients, Answered(c)
  PROVE  /\ Base' /\ Turned(c) /\ req[c].pc = "wait" /\ answer[c] # Pending
         /\ answer' = [answer EXCEPT ![c] = Pending] /\ UNCHANGED <<disk, process, op, up, managed, native, store, late, node, requests>>
         /\ \/ answer[c].tag = "ok" /\ Ended(c) /\ req[c].kind = "forget"
            \/ /\ answer[c].tag = "ok" /\ Same(c) /\ req'[c].pc = after_router(req[c])
               /\ req'[c].doc = answer[c].doc /\ req[c].kind # "forget"
               /\ req'[c].attached = req[c].attached /\ req'[c].native = req[c].native /\ req'[c].seen = req[c].seen
               /\ req'[c].ok = req[c].ok
            \/ answer[c].tag = "failed" /\ Ended(c) /\ req[c].kind \notin {"section", "apply"}
            \/ answer[c].tag = "failed" /\ Noted(c) /\ req[c].kind \in {"section", "apply"}
            \/ answer[c].tag = "failed" /\ Backs(c)
<1>1. /\ req[c].pc = "wait" /\ answer[c] # Pending /\ fine /\ quiet /\ answer' = [answer EXCEPT ![c] = Pending]
      /\ UNCHANGED <<disk, process, op, up, managed, native, store, late, node>>
  BY DEF Answered, at
<1>2. req[c] \in Requests /\ shape(req[c]) /\ answer[c] \in Answers /\ answer[c].doc \in Docs
  BY Parts DEF Base, Shaped, Panel, Answers
<1>3. Router'
  <2>1. answer' \in [Clients -> Answers]
    BY <1>1, Parts, Values DEF Base
  <2> QED BY <1>1, <2>1, RouterStays DEF Base
<1>4. Counters' /\ requests' = requests
  BY <1>1, CountersStay DEF Base, quiet, idly
<1>5. /\ after_router(req[c]) = "idle" => req[c].kind = "forget"
      /\ req[c].kind = "forget" => after_router(req[c]) = "idle"
      /\ after_router(req[c]) \in {"handover", "record", "reissue", "mark", "idle"}
      /\ after_router(req[c]) = "handover" => wants_router(req[c])
      /\ after_router(req[c]) \in {"reissue", "mark"} <=> req[c].kind \in {"on", "off"}
  BY <1>2, AfterRouter DEF wants_router
<1>6. ASSUME Turned(c), shape(req'[c]) PROVE Base'
  <2>1. Panel'
    BY <1>1, <1>6, NodeStays, PanelStays DEF Base
  <2>2. Shaped'
    BY <1>1, <1>6 DEF Base, Shaped, Turned
  <2> QED BY <1>3, <1>4, <2>1, <2>2 DEF Base
<1>7. CASE answer[c].tag = "ok" /\ done(c) /\ after_router(req[c]) = "idle"
  <2>1. Turned(c) /\ Ended(c)
    BY <1>7, Ends DEF Base
  <2>2. Base'
    BY <1>6, <2>1, EndShape DEF Base
  <2> QED BY <1>1, <1>4, <1>5, <1>7, <2>1, <2>2
<1>8. CASE /\ answer[c].tag = "ok" /\ after_router(req[c]) # "idle"
           /\ req' = [req EXCEPT ![c].pc = after_router(req[c]), ![c].doc = answer[c].doc]
  <2> DEFINE pc == after_router(req[c])
             s == [req[c] EXCEPT !.pc = pc, !.doc = answer[c].doc]
  <2>2. /\ pc \in {"handover", "record", "reissue", "mark"} /\ (pc = "handover" => req[c].kind \in {"attach", "section"})
        /\ pc \in {"reissue", "mark"} <=> req[c].kind \in {"on", "off"}
    BY <1>5, <1>8 DEF wants_router
  <2>3. req[c].kind # "forget"
    BY <1>5, <1>8
  <2>4. req' = [req EXCEPT ![c] = s]
    BY <1>8
  <2> HIDE DEF pc
  <2>5. s \in Requests
    BY <1>2, <2>2 DEF Requests
  <2>6. Turned(c) /\ req'[c] = s
    BY <2>4, <2>5 DEF Base, Panel, Turned
  <2>7. /\ Same(c) /\ req'[c].pc = pc /\ req'[c].doc = answer[c].doc
        /\ req'[c].attached = req[c].attached /\ req'[c].native = req[c].native /\ req'[c].seen = req[c].seen
        /\ req'[c].ok = req[c].ok
    BY <1>2, <2>6 DEF Same, Requests
  <2>8. shape(req'[c])
    BY <1>1, <1>2, <2>2, <2>3, <2>7 DEF shape, Same, Laning
  <2> QED BY <1>1, <1>4, <1>6, <1>8, <2>3, <2>6, <2>7, <2>8 DEF pc
<1>9. CASE answer[c].tag = "failed" /\ failed(c)
  <2>1. /\ Turned(c)
        /\ \/ Ended(c) /\ req[c].kind \notin {"section", "apply"}
           \/ Noted(c) /\ req[c].kind \in {"section", "apply"}
           \/ Backs(c)
    BY <1>9, Failure DEF Base
  <2>2. Base'
    BY <1>6, <2>1, EndShape DEF Base
  <2> QED BY <1>1, <1>4, <1>9, <2>1, <2>2
<1> QED BY <1>7, <1>8, <1>9 DEF Answered

\* A request given up, or all of them: the router goes on for nobody, calls may still be made.
LEMMA OrphanedKeeps ==
  ASSUME Base, NEW cs \in SUBSET Clients, orphaned(cs), UNCHANGED <<disk, process, up>>
  PROVE  Router'
<1>1. answer' \in [Clients -> Answers]
  BY Values, Parts DEF orphaned, Base
<1> QED BY <1>1, RouterStays DEF orphaned, Base

\* The calls that are left.
LEMMA LeftCalls ==
  ASSUME Base, NEW cs \in SUBSET Clients, late' = left(cs)
  PROVE  /\ late' \subseteq Calls /\ \A call \in late' : call.kind \in {"issue", "forget"} => call.lane \in GrantLanes
         /\ \A call \in late' : call \in late \/ \E c \in cs : req[c].pc = "send" /\ call = call_of(req[c])
<1>1. \A c \in Clients : req[c] \in Requests /\ shape(req[c])
  BY DEF Base, Panel, Shaped
<1>2. \A c \in Clients : /\ call_of(req[c]) \in Calls
                         /\ req[c].pc = "send" /\ call_of(req[c]).kind \in {"issue", "forget"} => call_of(req[c]).lane \in GrantLanes
  BY <1>1, CallOf
<1>3. \A call \in late' : call \in late \/ \E c \in cs : req[c].pc = "send" /\ call = call_of(req[c])
  BY DEF left, at
<1> QED BY <1>2, <1>3 DEF Base, Panel, Shaped

\* The caller waits no longer.
LEMMA GiveUpKeeps ==
  ASSUME Base, NEW c \in Clients, GiveUp(c)
  PROVE  /\ Base' /\ Turned(c) /\ req[c].pc \in {"send", "wait"} /\ orphaned({c}) /\ late' = left({c})
         /\ UNCHANGED <<disk, process, up, managed, native, store, node, requests>>
         /\ \/ Ended(c) /\ req[c].kind \notin {"section", "apply"}
            \/ Noted(c) /\ req[c].kind \in {"section", "apply"}
            \/ Backs(c)
<1>1. /\ req[c].pc \in {"send", "wait"} /\ fault /\ quiet /\ late' = left({c}) /\ orphaned({c}) /\ failed(c)
      /\ UNCHANGED <<disk, process, up, managed, native, store, node>>
  BY DEF GiveUp
<1>2. /\ Turned(c)
      /\ \/ Ended(c) /\ req[c].kind \notin {"section", "apply"}
         \/ Noted(c) /\ req[c].kind \in {"section", "apply"}
         \/ Backs(c)
  BY <1>1, Failure DEF Base
<1>3. Router'
  BY <1>1, OrphanedKeeps
<1>4. Counters' /\ requests' = requests
  BY <1>1, CountersStay DEF Base, quiet, idly
<1>5. late' \subseteq Calls /\ \A call \in late' : call.kind \in {"issue", "forget"} => call.lane \in GrantLanes
  BY <1>1, LeftCalls
<1>6. Panel'
  BY <1>1, <1>2, <1>5 DEF Base, Panel, Turned, store, node
<1>7. shape(req'[c])
  BY <1>2, EndShape DEF Base
<1>8. Shaped'
  BY <1>2, <1>5, <1>7 DEF Base, Shaped, Turned
<1> QED BY <1>1, <1>2, <1>3, <1>4, <1>6, <1>8 DEF Base

\* The panel dies.
LEMMA PanelDiesKeeps ==
  ASSUME Base, PanelDies
  PROVE  /\ Base' /\ orphaned(Clients) /\ late' = left(Clients) /\ \A c \in Clients : req'[c] = NoRequest
         /\ UNCHANGED <<disk, process, up, managed, native, store, node, requests>>
<1>1. /\ crashes < MaxCrashes /\ crashes' = crashes + 1 /\ fault /\ idly
      /\ req' = [c \in Clients |-> NoRequest] /\ late' = left(Clients) /\ orphaned(Clients)
      /\ UNCHANGED <<disk, process, up, managed, native, store, node>>
  BY DEF PanelDies
<1>2. Router'
  BY <1>1, OrphanedKeeps
<1>3. Counters' /\ requests' = requests
  BY <1>1, BoundsAssumption DEF Base, Counters, fault, idly
<1>4. late' \subseteq Calls /\ \A call \in late' : call.kind \in {"issue", "forget"} => call.lane \in GrantLanes
  BY <1>1, LeftCalls
<1>5. req' \in [Clients -> Requests] /\ \A c \in Clients : req'[c] = NoRequest
  BY <1>1, None
<1>6. Panel'
  BY <1>1, <1>4, <1>5 DEF Base, Panel, store, node
<1>7. Shaped'
  BY <1>4, <1>5, None DEF Shaped
<1> QED BY <1>1, <1>2, <1>3, <1>5, <1>6, <1>7 DEF Base

\* Where the service's part leads.
LEMMA AfterNative ==
  ASSUME NEW r, r.kind \in {"attach", "detach", "section"}
  PROVE  /\ after_native(r) \in {"record", "router", "send"}
         /\ (r.kind = "attach" \/ wants_router(r)) => after_native(r) = "record"
         /\ r.kind = "section" /\ ~wants_router(r) => after_native(r) = "router"
         /\ r.kind = "detach" => after_native(r) = IF r.seen.doc # Direct THEN "send" ELSE "record"
BY DEF after_native, wants_router

\* apply_egress of the service's manager.
LEMMA HandoverKeeps ==
  ASSUME Base, NEW c \in Clients, Handover(c)
  PROVE  /\ Base' /\ Turned(c) /\ req[c].pc = "handover" /\ UNCHANGED <<router, managed, store, late, node, requests>>
         /\ native' \in {native, [rev |-> native.rev + 1, attached |-> wants_router(req[c])]}
         /\ native' # native => req[c].kind = "section" \/ req[c].native = native.rev
         /\ \/ /\ Held(c) /\ req'[c].pc = after_native(req[c]) /\ req'[c].ok = req[c].ok
               /\ native'.attached = wants_router(req[c]) \/ req[c].kind # "section"
               /\ native' # native \/ req[c].kind = "section"
            \/ Ended(c) /\ req[c].kind # "section"
            \/ Noted(c) /\ req[c].kind = "section"
<1> DEFINE r == req[c]
           moved == [rev |-> native.rev + 1, attached |-> wants_router(r)]
           same == r.kind = "section" /\ native.attached = wants_router(r)
           matches == r.kind = "section" \/ r.native = native.rev
<1>1. /\ r.pc = "handover" /\ quiet /\ (fine \/ fault) /\ UNCHANGED <<router, managed, store, late, node>>
  BY DEF Handover, at
<1>2. r \in Requests /\ shape(r) /\ r.kind \in {"attach", "detach", "section"}
  BY <1>1 DEF Base, Panel, Shaped, shape
<1>3. native.rev \in Nat /\ moved \in [rev : Nat, attached : BOOLEAN] /\ moved.attached = wants_router(r) /\ moved # native
  <2>1. native \in [rev : Nat, attached : BOOLEAN] /\ wants_router(r) \in BOOLEAN
    BY DEF Base, Panel, wants_router
  <2>2. moved.rev = native.rev + 1 /\ native.rev \in Nat
    BY <2>1
  <2> QED BY <2>1, <2>2
<1>4. \/ /\ goes(c, after_native(r)) /\ (matches \/ same) /\ native' = IF same THEN native ELSE moved
      \/ refused(c) /\ native' \in {native} \cup (IF matches /\ ~same THEN {moved} ELSE {})
  BY DEF Handover
<1>5. native' \in {native, moved} /\ (native' # native => matches)
  BY <1>4
<1>6. \/ /\ Turned(c) /\ Held(c) /\ r'.pc = after_native(r) /\ r'.ok = r.ok
         /\ native'.attached = wants_router(r) \/ r.kind # "section"
         /\ native' # native \/ r.kind = "section"
      \/ Turned(c) /\ Ended(c) /\ r.kind # "section"
      \/ Turned(c) /\ Noted(c) /\ r.kind = "section"
  <2>1. CASE goes(c, after_native(r)) /\ (matches \/ same) /\ native' = IF same THEN native ELSE moved
    <3>1. Turned(c) /\ Held(c) /\ r'.pc = after_native(r) /\ r'.ok = r.ok
      BY <1>2, <2>1, Goes, AfterNative DEF Base, Pcs
    <3> QED BY <1>3, <2>1, <3>1
  <2>2. CASE refused(c)
    BY <2>2, Refusal DEF Base
  <2> QED BY <1>4, <2>1, <2>2
<1>7. shape(r')
  <2>1. CASE Held(c) /\ r'.pc = after_native(r)
    BY <1>2, <2>1, AfterNative DEF shape, Held, Same, Laning
  <2> QED BY <1>6, <2>1, EndShape DEF Base
<1>8. Router' /\ Counters' /\ requests' = requests
  BY <1>1, RouterSame, CountersStay DEF Base, quiet, idly
<1>9. Panel'
  BY <1>1, <1>3, <1>5, <1>6 DEF Base, Panel, Turned, store, node
<1>10. Shaped'
  BY <1>1, <1>6, <1>7 DEF Base, Shaped, Turned
<1> QED BY <1>1, <1>3, <1>5, <1>6, <1>8, <1>9, <1>10 DEF Base

\* The bodies of the policies are counted on.
grown == \A l \in Lanes : policy'[l].body >= policy[l].body

\* What the panel writes down is a policy for every lane.
LEMMA Recorded ==
  ASSUME Panel, NEW c \in Clients, Record(c)
  PROVE  policy' \in [Lanes -> Policies] /\ grown
<1> DEFINE r == req[c]
<1>1. policy \in [Lanes -> Policies] /\ \A l \in Lanes : policy[l] \in Policies /\ policy[l].body \in Nat
  BY DEF Panel, Policies
<1>2. "svc" \in Lanes
  BY DEF Lanes
<1>3. \A l \in Lanes, st \in {"draft", "applied", "failed", "rolled_back"} :
        [policy[l] EXCEPT !.state = st] \in Policies /\ [policy[l] EXCEPT !.state = st].body = policy[l].body
  BY <1>1 DEF Policies
<1>4. \A lanes : \A st \in {"applied", "failed", "rolled_back"} :
        marked(lanes, st) \in [Lanes -> Policies] /\ \A l \in Lanes : marked(lanes, st)[l].body = policy[l].body
  BY <1>1, <1>3 DEF marked
<1>6. \A b \in Backends : retargeted(r, b) \in [Lanes -> Policies] /\ \A l \in Lanes : retargeted(r, b)[l].body = policy[l].body
  <2>1. SUFFICES ASSUME NEW b \in Backends, r.policy.backend # b
                 PROVE  retargeted(r, b) \in [Lanes -> Policies] /\ \A l \in Lanes : retargeted(r, b)[l].body = policy[l].body
    BY <1>1 DEF retargeted
  <2> DEFINE s == [policy["svc"] EXCEPT !.rev = policy["svc"].rev + 1, !.backend = b, !.state = "draft"]
  <2>2. policy["svc"].rev + 1 \in Nat
    BY <1>1, <1>2 DEF Policies
  <2>3. s \in Policies /\ s.body = policy["svc"].body
    BY <1>1, <1>2, <2>2 DEF Policies
  <2>4. retargeted(r, b) = [policy EXCEPT !["svc"] = s]
    BY <1>1, <1>2, <2>1 DEF Policies, retargeted
  <2> HIDE DEF s
  <2> QED BY <1>1, <1>2, <2>3, <2>4
<1>8. \/ policy' = policy \/ policy' = marked(lane_policies \cup {r.lane}, "applied")
      \/ policy' = marked({r.lane}, "failed") \/ policy' = marked({r.lane}, "rolled_back")
      \/ policy' = retargeted(r, "router") \/ policy' = retargeted(r, "native")
  BY DEF Record
<1> HIDE DEF r
<1>9. "router" \in Backends /\ "native" \in Backends
  BY DEF Backends
<1>10. policy' \in [Lanes -> Policies] /\ \A l \in Lanes : policy'[l].body = policy[l].body
  BY <1>1, <1>4, <1>6, <1>8, <1>9
<1> QED BY <1>1, <1>10 DEF grown

\* The request ends with its record.
LEMMA RecordKeeps ==
  ASSUME Base, NEW c \in Clients, Record(c)
  PROVE  /\ Base' /\ Turned(c) /\ Ended(c) /\ req[c].pc = "record" /\ UNCHANGED <<router, managed, native, own, late, section, requests>> /\ grown
         /\ misled' = (IF req[c].kind = "section" /\ "pass" \notin misled THEN {} ELSE misled)
         /\ egress' = IF req[c].kind = "section" THEN [gen |-> req[c].id[2], state |-> IF req[c].ok THEN "converged" ELSE "failed"] ELSE egress
<1>1. /\ req[c].pc = "record" /\ fine /\ quiet /\ done(c) /\ UNCHANGED <<router, managed, native, own, late, section>>
      /\ egress' = IF req[c].kind = "section" THEN [gen |-> req[c].id[2], state |-> IF req[c].ok THEN "converged" ELSE "failed"] ELSE egress
      /\ misled' = (IF req[c].kind = "section" /\ "pass" \notin misled THEN {} ELSE misled)
  BY DEF Record, at
<1>2. Turned(c) /\ Ended(c)
  BY <1>1, Ends DEF Base
<1>3. Router' /\ Counters' /\ requests' = requests
  BY <1>1, RouterSame, CountersStay DEF Base, quiet, idly
<1>4. shape(req[c]) /\ req[c] \in Requests
  BY DEF Base, Shaped, Panel
<1>5. own' \subseteq GrantLanes /\ misled' \in {{}, {"report"}, {"report", "pass"}}
  BY <1>1 DEF Base, Panel
<1>9. grown
  BY Recorded DEF Base
<1>6. egress' \in [gen : Nat, state : {"none", "converged", "failed"}]
  <2>1. CASE req[c].kind = "section"
    <3>1. req[c].id \in {"node"} \X Nat
      BY <1>4, <2>1 DEF shape
    <3>2. req[c].id[2] \in Nat
      BY <3>1
    <3> QED BY <1>1, <2>1, <3>2
  <2>2. CASE req[c].kind # "section"
    BY <1>1, <2>2 DEF Base, Panel
  <2> QED BY <2>1, <2>2
<1>7. Panel'
  BY <1>1, <1>2, <1>5, <1>6, Recorded DEF Base, Panel, Turned
<1>8. Shaped'
  BY <1>1, <1>2, EndShape DEF Base, Shaped, Turned
<1> QED BY <1>1, <1>2, <1>3, <1>7, <1>8, <1>9 DEF Base

\* A draft.
LEMMA Drafted ==
  ASSUME Panel, NEW l \in Lanes, NEW backend \in Backends
  PROVE  drafted(l, backend) \in Policies /\ drafted(l, backend).body >= policy[l].body
<1>1. policy[l].body \in Nat /\ policy[l].body <= MaxBody /\ MaxBody \in Nat /\ policy[l].row + 1 \in Nat
  BY PolicyOf, BoundsAssumption
<1>2. next_body(l) \in 0..MaxBody /\ next_body(l) >= policy[l].body
  BY <1>1 DEF next_body
<1> QED BY <1>1, <1>2 DEF drafted, Policies

\* A policy in the place of another.
LEMMA Replaced ==
  ASSUME Panel, NEW l \in Lanes, NEW s \in Policies, s.body >= policy[l].body, policy' = [policy EXCEPT ![l] = s]
  PROVE  policy' \in [Lanes -> Policies] /\ grown
BY DEF Panel, Policies, grown

\* save.
LEMMA SaveKeeps ==
  ASSUME Base, NEW l \in Lanes, Save(l)
  PROVE  Base' /\ UNCHANGED <<router, managed, native, own, req, late, node, requests>> /\ grown
<1>1. /\ policy[l].body < MaxBody /\ edited(MaxSaves) /\ fault /\ UNCHANGED <<router, managed, native, own, req, late, node>>
      /\ \/ policy' = [policy EXCEPT ![l].rev = @ + 1, ![l].body = @ + 1]
         \/ \E backend \in Backends : policy' = [policy EXCEPT ![l] = drafted(l, backend)]
  BY DEF Save
<1>2. Router' /\ Counters' /\ requests' = requests
  <2>1. Counters' /\ requests' = requests
    BY <1>1, BoundsAssumption DEF Base, Counters, edited, fault
  <2> QED BY <1>1, <2>1, RouterSame DEF Base
<1>3. policy' \in [Lanes -> Policies] /\ grown
  <2> DEFINE s == [policy[l] EXCEPT !.rev = policy[l].rev + 1, !.body = policy[l].body + 1]
  <2>1. policy[l].rev + 1 \in Nat /\ policy[l].body + 1 \in 0..MaxBody /\ policy[l] \in Policies /\ policy[l].body + 1 >= policy[l].body
    BY <1>1, PolicyOf, BoundsAssumption DEF Base
  <2>2. s \in Policies /\ s.body >= policy[l].body
    BY <2>1 DEF Policies
  <2>3. CASE policy' = [policy EXCEPT ![l].rev = @ + 1, ![l].body = @ + 1]
    <3>1. policy' = [policy EXCEPT ![l] = s]
      BY <2>1, <2>3 DEF Base, Panel, Policies
    <3> HIDE DEF s
    <3> QED BY <2>2, <3>1, Replaced DEF Base
  <2>4. CASE \E backend \in Backends : policy' = [policy EXCEPT ![l] = drafted(l, backend)]
    BY <2>4, Drafted, Replaced DEF Base
  <2> QED BY <1>1, <2>3, <2>4
<1>4. Panel'
  BY <1>1, <1>3 DEF Base, Panel, node
<1>5. Shaped'
  BY <1>1 DEF Base, Shaped
<1> QED BY <1>1, <1>2, <1>3, <1>4, <1>5 DEF Base

\* A step of enable or disable: the request, the grant and at last the policy.
LEMMA LaneStepKeeps ==
  ASSUME Base, NEW c \in Clients, Turned(c), shape(req'[c]), quiet, fine \/ fault,
         UNCHANGED <<router, managed, native, late, node>>, own' \subseteq GrantLanes, policy' \in [Lanes -> Policies]
  PROVE  Base'
<1>1. Router' /\ Counters'
  BY RouterSame, CountersStay DEF Base, quiet
<1>2. Panel'
  BY DEF Base, Panel, Turned, node
<1>3. Shaped'
  BY DEF Base, Shaped, Turned
<1> QED BY <1>1, <1>2, <1>3 DEF Base

\* Where such a step leads.
Lanely(c) ==
  \/ Ended(c) \/ Forgets(c)
  \/ /\ Same(c) /\ req'[c].pc \in Laning \cup {"send"} /\ req'[c].doc = req[c].doc

\* The grant is told.
LEMMA MarkKeeps ==
  ASSUME Base, NEW c \in Clients, Mark(c)
  PROVE  /\ Base' /\ Turned(c) /\ req[c].pc \in Laning /\ Lanely(c) /\ grown
         /\ UNCHANGED <<router, managed, native, late, node, requests>>
<1>1. /\ req[c].pc = "mark" /\ fine /\ quiet /\ goes(c, "push") /\ UNCHANGED <<router, managed, native, policy, late, node>>
      /\ own' \subseteq own \cup {req[c].lane}
  BY DEF Mark, at
<1>2. req[c].kind \in {"on", "off"} /\ req[c].lane \in GrantLanes /\ shape(req[c])
  BY <1>1 DEF Base, Shaped, shape, Laning
<1>3. Turned(c) /\ Held(c) /\ req'[c].pc = "push"
  BY <1>1, Goes DEF Base, Pcs, Laning
<1>4. shape(req'[c])
  BY <1>2, <1>3 DEF shape, Laning, Held, Same
<1>5. policy' \in [Lanes -> Policies] /\ own' \subseteq GrantLanes /\ grown
  BY <1>1, <1>2 DEF Base, Panel, grown, Policies
<1>6. Base'
  BY <1>1, <1>3, <1>4, <1>5, LaneStepKeeps
<1> QED BY <1>1, <1>3, <1>5, <1>6 DEF Lanely, Held, Laning, quiet, idly

\* The lanes whose accounts are issued again.
LEMMA PushKeeps ==
  ASSUME Base, NEW c \in Clients, Push(c)
  PROVE  /\ Base' /\ Turned(c) /\ req[c].pc \in Laning /\ Lanely(c) /\ grown
         /\ UNCHANGED <<router, managed, native, late, node, requests>>
<1> DEFINE todo == own \ (IF req[c].kind = "on" THEN {req[c].lane} ELSE {})
           s == [req[c] EXCEPT !.pc = "reissue", !.turn = "svc", !.todo = todo]
<1>1. /\ req[c].pc = "push" /\ fine /\ quiet /\ UNCHANGED <<router, managed, native, store, late, node>>
      /\ req' = [req EXCEPT ![c].pc = "reissue", ![c].turn = "svc", ![c].todo = todo]
  BY DEF Push, at
<1>2. req[c].kind \in {"on", "off"} /\ req[c].lane \in GrantLanes /\ shape(req[c]) /\ req[c] \in Requests
  BY <1>1 DEF Base, Shaped, shape, Laning, Panel
<1>3. todo \in SUBSET GrantLanes /\ "svc" \in Lanes
  BY DEF Base, Panel, Lanes
<1>4. req' = [req EXCEPT ![c] = s]
  BY <1>1
<1> HIDE DEF todo
<1>5. s \in Requests /\ s.pc = "reissue" /\ s.kind = req[c].kind /\ s.lane = req[c].lane /\ s.policy = req[c].policy /\ s.id = req[c].id /\ s.doc = req[c].doc
  BY <1>2, <1>3 DEF Requests
<1> HIDE DEF s
<1>6. Turned(c) /\ req'[c] = s
  BY <1>4, <1>5 DEF Base, Panel, Turned
<1>7. shape(req'[c])
  BY <1>2, <1>5, <1>6 DEF shape, Laning
<1>8. policy' \in [Lanes -> Policies] /\ own' \subseteq GrantLanes /\ grown
  BY <1>1 DEF Base, Panel, grown, Policies, store
<1>9. Base'
  BY <1>1, <1>6, <1>7, <1>8, LaneStepKeeps
<1> QED BY <1>1, <1>5, <1>6, <1>8, <1>9 DEF Lanely, Same, Laning, quiet, idly

\* One of them, or the service's manager.
LEMMA ReissueKeeps ==
  ASSUME Base, NEW c \in Clients, Reissue(c)
  PROVE  /\ Base' /\ Turned(c) /\ req[c].pc \in Laning /\ Lanely(c) /\ grown
         /\ UNCHANGED <<router, managed, native, late, node, requests>>
<1>1. req[c].pc = "reissue" /\ (fine \/ fault) /\ quiet /\ UNCHANGED <<router, managed, native, store, late, node>>
  BY DEF Reissue, at
<1>2. req[c].kind \in {"on", "off"} /\ req[c].lane \in GrantLanes /\ shape(req[c]) /\ req[c] \in Requests
  BY <1>1 DEF Base, Shaped, shape, Laning, Panel
<1>3. Turned(c) /\ shape(req'[c]) /\ Lanely(c)
  <2>1. ASSUME NEW l \in req[c].todo, req' = [req EXCEPT ![c].pc = "send", ![c].turn = l, ![c].todo = @ \ {l}]
        PROVE  Turned(c) /\ shape(req'[c]) /\ Lanely(c)
    <3> DEFINE s == [req[c] EXCEPT !.pc = "send", !.turn = l, !.todo = req[c].todo \ {l}]
    <3>1. l \in GrantLanes /\ l \in Lanes /\ req[c].todo \ {l} \in SUBSET GrantLanes
      BY <1>2 DEF Requests, Lanes
    <3>2. req' = [req EXCEPT ![c] = s]
      BY <1>2, <2>1 DEF Base, Panel
    <3>3. /\ s \in Requests /\ s.pc = "send" /\ s.turn = l /\ s.kind = req[c].kind /\ s.lane = req[c].lane
          /\ s.policy = req[c].policy /\ s.id = req[c].id /\ s.doc = req[c].doc
      BY <1>2, <3>1 DEF Requests
    <3> HIDE DEF s
    <3>4. Turned(c) /\ req'[c] = s
      BY <3>2, <3>3 DEF Base, Panel, Turned
    <3>5. shape(req'[c])
      BY <1>2, <3>1, <3>3, <3>4 DEF shape, Laning
    <3> QED BY <3>3, <3>4, <3>5 DEF Lanely, Same
  <2>2. CASE goes(c, "draft")
    <3>1. Turned(c) /\ Held(c) /\ req'[c].pc = "draft"
      BY <2>2, Goes DEF Base, Pcs, Laning
    <3>2. shape(req'[c])
      BY <1>2, <3>1 DEF shape, Laning, Held, Same
    <3> QED BY <3>1, <3>2 DEF Lanely, Held, Laning
  <2>3. CASE unpushed(c)
    <3>1. Turned(c) /\ (Ended(c) \/ Backs(c))
      BY <1>2, <2>3, Unpushing DEF Base
    <3>2. shape(req'[c])
      BY <3>1, EndShape DEF Base
    <3> QED BY <3>1, <3>2 DEF Lanely, Backs, Held, Laning
  <2> QED BY <2>1, <2>2, <2>3 DEF Reissue
<1>8. policy' \in [Lanes -> Policies] /\ own' \subseteq GrantLanes /\ grown
  BY <1>1 DEF Base, Panel, grown, Policies, store
<1>9. Base'
  BY <1>1, <1>3, <1>8, LaneStepKeeps
<1> QED BY <1>1, <1>3, <1>8, <1>9 DEF Laning, quiet, idly

\* The router is told to forget the lane.
LEMMA Forgetting ==
  ASSUME Base, NEW c \in Clients, forgets(c), req[c].kind \in {"on", "off"}, req[c].pc \in Laning
  PROVE  Turned(c) /\ shape(req'[c]) /\ Forgets(c)
<1> DEFINE s == [req[c] EXCEPT !.kind = "forget", !.pc = "send"]
<1>1. req[c] \in Requests /\ req[c].lane \in GrantLanes /\ req' = [req EXCEPT ![c] = s]
  BY DEF Base, Panel, Shaped, shape, forgets
<1>2. /\ s \in Requests /\ s.pc = "send" /\ s.kind = "forget" /\ s.lane = req[c].lane
      /\ s.policy = req[c].policy /\ s.id = req[c].id /\ s.doc = req[c].doc
  BY <1>1 DEF Requests, Kinds
<1> HIDE DEF s
<1>3. Turned(c) /\ req'[c] = s
  BY <1>1, <1>2 DEF Base, Panel, Turned
<1>4. shape(req'[c])
  BY <1>1, <1>2, <1>3 DEF shape, Laning
<1> QED BY <1>2, <1>3, <1>4 DEF Forgets

\* What was told is taken back.
LEMMA UnmarkKeeps ==
  ASSUME Base, NEW c \in Clients, Unmark(c)
  PROVE  /\ Base' /\ Turned(c) /\ req[c].pc \in Laning /\ Lanely(c) /\ grown
         /\ UNCHANGED <<router, managed, native, late, node, requests>>
<1>1. /\ req[c].pc = "unmark" /\ fine /\ quiet /\ UNCHANGED <<router, managed, native, policy, late, node>>
      /\ own' \subseteq own \cup {req[c].lane} /\ (forgets(c) \/ done(c))
  BY DEF Unmark, at
<1>2. req[c].kind \in {"on", "off"} /\ req[c].lane \in GrantLanes /\ req[c].pc \in Laning
  BY <1>1 DEF Base, Shaped, shape, Laning
<1>3. Turned(c) /\ shape(req'[c]) /\ (Ended(c) \/ Forgets(c))
  BY <1>1, <1>2, Forgetting, Ends, EndShape DEF Base
<1>5. policy' \in [Lanes -> Policies] /\ own' \subseteq GrantLanes /\ grown
  BY <1>1, <1>2 DEF Base, Panel, grown, Policies
<1>6. Base'
  BY <1>1, <1>3, <1>5, LaneStepKeeps
<1> QED BY <1>1, <1>2, <1>3, <1>5, <1>6 DEF Lanely, quiet, idly

\* The policy of the lane.
LEMMA DraftKeeps ==
  ASSUME Base, NEW c \in Clients, Draft(c)
  PROVE  /\ Base' /\ Turned(c) /\ req[c].pc \in Laning /\ Lanely(c) /\ grown
         /\ UNCHANGED <<router, managed, native, late, node, requests>>
<1> DEFINE l == req[c].lane
<1>1. /\ req[c].pc = "draft" /\ fine /\ quiet /\ UNCHANGED <<router, managed, native, own, late, node>>
      /\ forgets(c) \/ done(c)
      /\ policy' = policy \/ policy' = [policy EXCEPT ![l] = drafted(l, "router")] \/ policy' = [policy EXCEPT ![l].state = "none"]
  BY DEF Draft, at
<1>2. req[c].kind \in {"on", "off"} /\ req[c].lane \in GrantLanes /\ req[c].pc \in Laning
  BY <1>1 DEF Base, Shaped, shape, Laning
<1>3. Turned(c) /\ shape(req'[c]) /\ (Ended(c) \/ Forgets(c))
  BY <1>1, <1>2, Forgetting, Ends, EndShape DEF Base
<1>5. policy' \in [Lanes -> Policies] /\ grown
  <2>0. l \in Lanes /\ "router" \in Backends
    BY <1>2 DEF Lanes, Backends
  <2>1. CASE policy' = policy
    BY <2>1 DEF Base, Panel, grown, Policies
  <2>2. CASE policy' = [policy EXCEPT ![l] = drafted(l, "router")]
    BY <2>0, <2>2, Drafted, Replaced DEF Base
  <2>3. CASE policy' = [policy EXCEPT ![l].state = "none"]
    <3> DEFINE s == [policy[l] EXCEPT !.state = "none"]
    <3>1. policy' = [policy EXCEPT ![l] = s]
      BY <2>3
    <3>2. s \in Policies /\ s.body >= policy[l].body
      BY <2>0, PolicyOf DEF Base, Policies
    <3> HIDE DEF s
    <3> QED BY <2>0, <3>1, <3>2, Replaced DEF Base
  <2> QED BY <1>1, <2>1, <2>2, <2>3
<1>6. Base'
  BY <1>1, <1>3, <1>5, LaneStepKeeps DEF Base, Panel
<1> QED BY <1>1, <1>2, <1>3, <1>5, <1>6 DEF Lanely, quiet, idly

\* The steps of enable and disable.
laning(c) == Mark(c) \/ Push(c) \/ Reissue(c) \/ Unmark(c) \/ Draft(c)
\* They are the panel's own.
LEMMA LaningKeeps ==
  ASSUME Base, NEW c \in Clients, laning(c)
  PROVE  /\ Base' /\ Turned(c) /\ req[c].pc \in Laning /\ Lanely(c) /\ grown
         /\ UNCHANGED <<router, managed, native, late, node, requests>>
BY MarkKeeps, PushKeeps, ReissueKeeps, UnmarkKeeps, DraftKeeps DEF laning

\* A new section.
LEMMA NewSectionKeeps ==
  ASSUME Base, NEW backend \in Backends, NEW doc \in Docs, NewSection(backend, doc)
  PROVE  Base' /\ UNCHANGED <<router, managed, native, store, req, late, egress, misled, requests>>
<1>1. /\ edited(MaxSections) /\ fine /\ section' = [gen |-> section.gen + 1, backend |-> backend, doc |-> doc]
      /\ UNCHANGED <<router, managed, native, store, req, late, egress, misled>>
  BY DEF NewSection
<1>2. Router' /\ Counters' /\ requests' = requests
  <2>1. Counters' /\ requests' = requests
    BY <1>1, BoundsAssumption DEF Base, Counters, edited, fine
  <2> QED BY <1>1, <2>1, RouterSame DEF Base
<1>3. Panel'
  BY <1>1 DEF Base, Panel, store
<1>4. Shaped'
  BY <1>1 DEF Base, Shaped
<1> QED BY <1>1, <1>2, <1>3, <1>4 DEF Base

\* The sections' documents.
LEMMA SectionDocs == \A doc \in Sections : doc \in Docs /\ plain(doc)
<1>1. \A b \in 0..MaxBody : [Direct EXCEPT !["svc"] = b] \in Docs
  BY Values DEF Docs
<1>2. \A b \in 0..MaxBody : plain([Direct EXCEPT !["svc"] = b])
  BY LanesAssumption DEF plain, Direct, Lanes
<1> QED BY <1>1, <1>2 DEF Sections

\* Another service.
LEMMA AskOtherKeeps ==
  ASSUME Base, AskOther
  PROVE  Base' /\ Rerender /\ requests' = requests + 1 /\ UNCHANGED <<managed, native, store, req, late, node>>
<1>1. asked /\ Rerender /\ UNCHANGED <<managed, native, store, req, late, node>>
  BY DEF AskOther
<1>2. Panel' /\ Shaped'
  BY <1>1 DEF Base, Panel, Shaped, store, node
<1> QED BY <1>1, <1>2, RerenderKeeps, CountersAsk DEF Base

\* The manager's own steps.
LEMMA RouterStepKeeps ==
  ASSUME Base, RouterStep
  PROVE  Base' /\ RouterOwn /\ UNCHANGED <<managed, native, store, req, late, node, requests>>
<1>1. RouterOwn /\ UNCHANGED <<managed, native, store, req, late, node, requests, edits>>
  BY DEF RouterStep
<1>2. Panel' /\ Shaped'
  BY <1>1 DEF Base, Panel, Shaped, store, node
<1>3. (fine \/ fault) /\ crashes' = crashes
  BY <1>1 DEF RouterOwn, Commit, Render, Stop, Start, Back, WriteCurrent, WriteJournal, Watchdog, Boot, BootStart, step
<1>4. Counters'
  BY <1>1, <1>3, CountersStay DEF Base, idly
<1> QED BY <1>1, <1>2, <1>4, OwnKeeps DEF Base

\* Xray or the manager dies.
LEMMA MishapKeeps ==
  ASSUME Base, RouterMishaps
  PROVE  /\ Base' /\ UNCHANGED <<managed, native, store, req, node, requests>>
         /\ (XrayDies /\ late' = late) \/ (ManagerDies /\ late' = {})
<1>1. /\ UNCHANGED <<managed, native, store, req, node, requests, edits>>
      /\ (XrayDies /\ late' = late) \/ (ManagerDies /\ late' = {})
  BY DEF RouterMishaps
<1>2. Panel' /\ Shaped'
  BY <1>1 DEF Base, Panel, Shaped, store, node
<1>3. Counters'
  BY <1>1, BoundsAssumption DEF Base, Counters, XrayDies, ManagerDies, fault
<1>4. Router'
  BY <1>1, XrayKeeps, Downs DEF Base, ManagerDies
<1> QED BY <1>1, <1>2, <1>3, <1>4 DEF Base

---------------------------------------------------------------------------
(* What the router runs *)

\* The first state.
LEMMA InitBase == Init => Base
<1> SUFFICES ASSUME Init PROVE Base
  OBVIOUS
<1> DEFINE none == [l \in GrantLanes |-> 0]
           ones == [l \in Lanes |-> 1]
           twos == [l \in GrantLanes |-> 2]
<1>1. Direct \in Docs /\ ones \in Docs /\ none \in Accounts /\ twos \in Accounts
  BY Values, BoundsAssumption DEF Docs, Accounts
<1> HIDE DEF none, ones, twos
<1>2. Fresh = [gen |-> 1, doc |-> Direct, accounts |-> none] /\ Laid = [gen |-> 3, doc |-> ones, accounts |-> twos]
  BY DEF Fresh, Laid, none, ones, twos
<1>3. Fresh \in Generations /\ Laid \in Generations /\ Fresh # Laid
  BY <1>1, <1>2 DEF Generations
<1>4. backed(Fresh.doc, Fresh.accounts) /\ backed(Laid.doc, Laid.accounts)
  BY <1>2 DEF backed, Direct, none, ones, twos, Lanes
<1> DEFINE first == IF managed THEN Fresh ELSE Laid
           id == <<"svc", 1, 2>>
<1>5. managed \in BOOLEAN /\ RouterInit(first, id) /\ first \in Generations
  BY <1>3 DEF Init
<1>6. id \in OperationIds /\ <<>> \in OperationIds
  BY DEF OperationIds, Lanes
<1>7. history \in Seq(Entries) /\ Len(history) \in 1..HistoryLimit
  <2>1. [doc |-> Direct, gen |-> 1, id |-> <<>>] \in Entries /\ [doc |-> Direct, gen |-> 2, id |-> <<>>] \in Entries
    BY <1>1, <1>6 DEF Entries
  <2>2. [doc |-> first.doc, gen |-> 3, id |-> id] \in Entries
    BY <1>5, <1>6 DEF Entries, Generations
  <2> HIDE DEF first, id
  <2>3. \/ history = <<[doc |-> Direct, gen |-> 1, id |-> <<>>]>>
        \/ history = <<[doc |-> Direct, gen |-> 2, id |-> <<>>], [doc |-> first.doc, gen |-> 3, id |-> id]>>
    BY <1>5 DEF RouterInit
  <2>4. \A x, y \in Entries : /\ <<x>> \in Seq(Entries) /\ Len(<<x>>) = 1
                              /\ <<x, y>> \in Seq(Entries) /\ Len(<<x, y>>) = 2
    OBVIOUS
  <2>5. 1 \in 1..HistoryLimit /\ 2 \in 1..HistoryLimit
    BY BoundsAssumption
  <2> QED BY <2>1, <2>2, <2>3, <2>4, <2>5
<1>8. backed(current.doc, accounts)
  BY <1>4, <1>5 DEF RouterInit
<1>9. /\ current = first /\ files = {first} /\ process = first /\ accounts = first.accounts /\ state = idle
      /\ op = NoOp /\ answer = [c \in Clients |-> Pending]
      /\ up = TRUE /\ requests = 0 /\ edits = 0 /\ crashes = 0 /\ faults = 0
  BY <1>5 DEF RouterInit, idle
<1> HIDE DEF first, id
<1>10. Machine
  BY <1>5, <1>7, <1>9, Values DEF Machine, Disk, Generations
<1>11. Swapping
  BY <1>9, Idle DEF Swapping, Busy, Rendered, idle
<1>12. Backed
  BY <1>8, <1>9, Idle DEF Backed, Rendered
<1>13. Counters
  BY <1>9, BoundsAssumption DEF Counters
<1>14. policy \in [Lanes -> Policies]
  <2>1. [NoPolicy EXCEPT !.backend = "native"] \in Policies
    BY None DEF Policies, Backends
  <2>2. \A v \in {1, 2} : [NoPolicy EXCEPT !.row = 1, !.rev = v, !.body = 1, !.state = "applied"] \in Policies
    <3>1. 1 \in 0..MaxBody
      BY BoundsAssumption
    <3>2. SUFFICES ASSUME NEW v \in Nat, NEW b \in 0..MaxBody
                   PROVE  [NoPolicy EXCEPT !.row = 1, !.rev = v, !.body = b, !.state = "applied"] \in Policies
      BY <3>1
    <3>3. [NoPolicy EXCEPT !.row = 1, !.rev = v, !.body = b] \in Policies
      BY None DEF Policies
    <3>4. \A x \in Policies : [x EXCEPT !.state = "applied"] \in Policies
      BY DEF Policies
    <3>5. [NoPolicy EXCEPT !.row = 1, !.rev = v, !.body = b, !.state = "applied"]
            = [[NoPolicy EXCEPT !.row = 1, !.rev = v, !.body = b] EXCEPT !.state = "applied"]
      BY DEF NoPolicy
    <3> QED BY <3>3, <3>4, <3>5
  <2> QED BY <1>5, <2>1, <2>2 DEF Init
<1>15. Panel
  BY <1>1, <1>5, <1>14, None DEF Init, Panel, Backends
<1>16. Shaped
  BY None DEF Init, Shaped
<1> QED BY <1>10, <1>11, <1>12, <1>13, <1>15, <1>16 DEF Base, Router

\* Every step.
LEMMA NextBase == Base /\ [Next]_vars => Base'
<1> SUFFICES ASSUME Base, [Next]_vars PROVE Base'
  OBVIOUS
<1>1. ASSUME NEW c \in Clients, Ask(c) PROVE Base'
  <2>1. CASE \E l \in Lanes : AskApply(c, l) \/ AskRollback(c, l)
    BY <2>1, AskApplyKeeps, AskRollbackKeeps
  <2>2. CASE \E l \in GrantLanes : AskLane(c, l) \/ AskNoLane(c, l)
    BY <2>2, AskLaneKeeps
  <2>3. CASE AskMove(c, "attach") \/ AskMove(c, "detach")
    BY <2>3, AskMoveKeeps DEF Moving
  <2>4. CASE AskSection(c)
    BY <2>4, AskSectionKeeps
  <2> QED BY <1>1, <2>1, <2>2, <2>3, <2>4 DEF Ask
<1>2. ASSUME NEW c \in Clients, Continue(c) PROVE Base'
  BY <1>2, ReadNativeKeeps, ReadRouterKeeps, CompileKeeps, PlanKeeps, SendKeeps, AnsweredKeeps, HandoverKeeps, RecordKeeps,
     LaningKeeps DEF Continue, laning
<1>3. ASSUME NEW c \in Clients, GiveUp(c) PROVE Base'
  BY <1>3, GiveUpKeeps
<1>4. ASSUME NEW l \in Lanes, Save(l) PROVE Base'
  BY <1>4, SaveKeeps
<1>5. ASSUME NEW doc \in Sections, NewSection("router", doc) PROVE Base'
  BY <1>5, NewSectionKeeps, SectionDocs DEF Backends
<1>6. CASE NewSection("native", Direct)
  BY <1>6, NewSectionKeeps, Values DEF Backends
<1>7. CASE AskOther
  BY <1>7, AskOtherKeeps
<1>8. CASE LateCall
  BY <1>8, LateCallKeeps
<1>9. CASE PanelDies
  BY <1>9, PanelDiesKeeps
<1>10. CASE RouterStep
  BY <1>10, RouterStepKeeps
<1>11. CASE RouterMishaps
  BY <1>11, MishapKeeps
<1>12. CASE UNCHANGED vars
  <2>1. Router'
    BY <1>12, RouterSame DEF vars, Base
  <2>2. Counters' /\ Panel' /\ Shaped'
    BY <1>12 DEF vars, Base, Counters, Panel, Shaped, store, node
  <2> QED BY <2>1, <2>2 DEF Base
<1> QED BY <1>1, <1>2, <1>3, <1>4, <1>5, <1>6, <1>7, <1>8, <1>9, <1>10, <1>11, <1>12 DEF Next

\* The manager and the requests stay in order.
THEOREM Sound == Spec => []Base
BY InitBase, NextBase, PTL DEF Spec

\* Every reachable state is typed.
THEOREM TypeCorrect == Spec => []TypeOK
<1>1. Base /\ bare \subseteq Lanes => TypeOK
  BY TypeParts DEF Base, Router
<1>2. Init => bare \subseteq Lanes
  BY DEF Init
<1>3. bare \subseteq Lanes /\ [Next]_vars => (bare \subseteq Lanes)'
  BY DEF Next, noted, vars
<1>4. Spec => [](bare \subseteq Lanes)
  BY <1>2, <1>3, PTL DEF Spec
<1> QED BY <1>1, <1>4, Sound, PTL

\* Whenever the router counts itself well and nothing is under way, the process that runs was started from the
\* generation current.json names, and every lane it names has an account: for any callers, lanes, mishaps
\* and deaths (commit_generation, swap, recover, watchdog_tick, without_lanes, lane_forget, bootstrap).
THEOREM RouterRunsCurrent == Spec => []RunsCurrent
<1>1. Base => RunsCurrent
  BY RouterRuns DEF Base
<1> QED BY <1>1, Sound, PTL

---------------------------------------------------------------------------
(* The steps of the router, and what they leave alone *)

fixed == current' = current /\ history' = history
moving == /\ op'.kind = op.kind /\ op'.by = op.by /\ op'.gen = op.gen /\ op'.doc = op.doc /\ op'.id = op.id
          /\ answer' = answer /\ history' = history

Idles == fixed /\ op' = op /\ answer' = answer
Advances == moving /\ current' = current /\ op.pc \in Busy /\ op'.pc \in Busy
Commits == moving /\ current' = candidate /\ op.pc = "current" /\ op'.pc = "journal"
Breaks == /\ op' = NoOp /\ current' = current /\ reply(op.by, Failed)
          /\ history' = history \/ (op.pc = "journal" /\ history' = booked)
Completes == /\ op' = NoOp /\ current' = current /\ reply(op.by, Applied(op.doc)) /\ op.pc = "journal" /\ history' = booked
Boots == /\ fixed /\ answer' = answer /\ op.by = "nobody" /\ op'.by = "nobody" /\ op'.kind = "boot" /\ op'.id = <<>>
         /\ (op'.pc = "boot" /\ op'.doc = Direct) \/ op'.doc = current_intents
         /\ op'.pc \in {"boot", "render"} /\ op.kind \in {"none", "boot"}

\* Every step of the manager, of Xray and of their deaths is one of six.
LEMMA RouterSteps ==
  ASSUME Router, RouterOwn \/ XrayDies \/ ManagerDies
  PROVE  Idles \/ Advances \/ Commits \/ Breaks \/ Completes \/ Boots
<1>0. op \in Operations /\ "nobody" \notin Clients
  BY Parts, ClientsAssumption
<1>1. CASE Render
  <2>1. CASE to("stop") /\ UNCHANGED <<accounts, answer, process, up>>
    BY <1>0, <1>1, <2>1, Moves DEF Render, step, Busy, Advances, moving
  <2>2. CASE fail(process)
    BY <1>1, <2>2 DEF Render, fail, Breaks
  <2> QED BY <1>1, <2>1, <2>2 DEF Render
<1>2. CASE Stop
  BY <1>0, <1>2, Moves DEF Stop, step, Busy, Advances, moving
<1>3. CASE Start
  <2>1. op.pc = "start" /\ UNCHANGED <<current, history>>
    BY <1>3 DEF Start, step
  <2>2. CASE \E pc \in {"current", "back"} : to(pc) /\ answer' = answer
    <3>1. PICK pc \in {"current", "back"} : to(pc) /\ answer' = answer
      BY <2>2
    <3> QED BY <1>0, <2>1, <3>1, Moves DEF Busy, Advances, moving
  <2>3. CASE fails_to(state, NoProcess)
    BY <2>1, <2>3 DEF fails_to, fail, Breaks
  <2> QED BY <1>3, <2>2, <2>3 DEF Start
<1>4. CASE Back
  BY <1>4 DEF Back, fails_to, fail, Breaks
<1>5. CASE WriteCurrent
  <2>1. CASE current' = candidate /\ to("journal") /\ UNCHANGED <<state, accounts, answer, process, up>>
    BY <1>0, <1>5, <2>1, Moves DEF WriteCurrent, step, Commits, moving
  <2>2. CASE fails_to(state, process) /\ UNCHANGED <<current, files>>
    BY <1>5, <2>2 DEF WriteCurrent, fails_to, fail, Breaks
  <2> QED BY <1>5, <2>1, <2>2 DEF WriteCurrent
<1>6. CASE WriteJournal
  BY <1>6 DEF WriteJournal, step, fails_to, fail, Breaks, Completes
<1>7. CASE Watchdog \/ XrayDies
  BY <1>7 DEF Watchdog, XrayDies, Idles, fixed, disk
<1>8. CASE ManagerDies
  BY <1>8 DEF ManagerDies, down, disk, Breaks
<1>9. CASE Boot
  <2>1. op = NoOp
    BY <1>9 DEF Boot, Router, Swapping
  <2>2. [NoOp EXCEPT !.pc = "boot", !.kind = "boot"].pc = "boot" /\ [NoOp EXCEPT !.pc = "boot", !.kind = "boot"].kind = "boot"
        /\ [NoOp EXCEPT !.pc = "boot", !.kind = "boot"].by = "nobody" /\ [NoOp EXCEPT !.pc = "boot", !.kind = "boot"].id = <<>>
        /\ [NoOp EXCEPT !.pc = "boot", !.kind = "boot"].doc = Direct
    BY DEF NoOp
  <2> QED BY <1>9, <2>1, <2>2, Idle DEF Boot, Boots, fixed
<1>10. CASE BootStart
  <2>1. op.pc = "boot" /\ op.kind = "boot" /\ op.by = "nobody" /\ fixed
    BY <1>10 DEF BootStart, Router, Swapping, disk, fixed
  <2>2. CASE op' = NoOp /\ answer' = answer
    BY <1>0, <2>1, <2>2 DEF Breaks, reply, fixed
  <2>3. CASE down
    BY <2>1, <2>3 DEF down, Breaks, fixed
  <2>4. CASE begin("boot", "nobody", current_intents, <<>>, accounts) /\ answer' = answer
    BY <2>1, <2>4 DEF begin, Boots
  <2> QED BY <1>10, <2>2, <2>3, <2>4 DEF BootStart
<1> QED BY <1>1, <1>2, <1>3, <1>4, <1>5, <1>6, <1>7, <1>8, <1>9, <1>10 DEF RouterOwn, Commit

\* A call that the router takes: answered at once, or an operation of the caller's begins.
Says(by, a) == op' = op /\ reply(by, a)
Starts(by) == answer' = answer /\ op'.by = by /\ op'.pc = "render"
\* What the router makes of its own documents.
Remade(doc) ==
  \E lanes : \/ doc = without_lanes(current.doc, lanes)
             \/ Len(history) > 1 /\ doc = without_lanes(previous_entry.doc, lanes)
\* Every call.
LEMMA Takes ==
  ASSUME NEW by, NEW r, made(by, r)
  PROVE  /\ op.pc = "idle" /\ fixed
         /\ \/ /\ r.kind = "apply"
               /\ \/ Says(by, Failed)
                  \/ Says(by, Applied(r.doc)) /\ r.id # <<>> /\ current_entry.id = r.id /\ current_entry.doc = r.doc
                  \/ /\ Starts(by) /\ op'.kind = "apply" /\ op'.id = r.id /\ op'.doc = r.doc /\ revision = r.seen
                     /\ r.id = <<>> \/ current_entry.id # r.id
            \/ /\ r.kind \in {"rollback", "issue", "forget"}
               /\ \/ Says(by, Failed)
                  \/ Starts(by) /\ op'.kind \in {"rollback", "issue", "forget"} /\ op'.id = <<>> /\ Remade(op'.doc)
<1>1. CASE r.kind = "rollback" /\ EgressRollback(by, r.seen)
  BY <1>1 DEF EgressRollback, taken, lock_free, fixed, Says, Starts, begin, Remade
<1>2. CASE r.kind = "issue" /\ LaneIssue(by, r.lane)
  BY <1>2 DEF LaneIssue, taken, lock_free, fixed, Says, Starts, begin, Remade
<1>3. CASE r.kind = "forget" /\ LaneForget(by, r.lane)
  BY <1>3 DEF LaneForget, taken, lock_free, fixed, Says, Starts, begin, Remade
<1>4. CASE r.kind = "apply" /\ EgressApply(by, r.seen, r.doc, r.id)
  BY <1>4 DEF EgressApply, taken, lock_free, fixed, Says, Starts, begin, unmoved
<1> QED BY <1>1, <1>2, <1>3, <1>4 DEF made

---------------------------------------------------------------------------
(* Attach and detach *)

Handing == Owned /\ Stamped /\ Sent /\ Seen /\ Overtaken

\* An id is a stamp only if an attach or a detach made it.
LEMMA NoStamps ==
  /\ <<>> \notin Stamps /\ \A id \in {"node"} \X Nat : id \notin Stamps
  /\ \A id \in Lanes \X Nat \X Nat : id \notin Stamps
<1>1. <<>> \notin Stamps
  BY DEF Stamps
<1>2. \A id \in {"node"} \X Nat : id \notin Stamps
  BY DEF Stamps
<1>3. \A id \in Lanes \X Nat \X Nat : id \notin Stamps
  <2>1. SUFFICES ASSUME NEW id \in Lanes \X Nat \X Nat, id \in Stamps PROVE FALSE
    OBVIOUS
  <2>2. id[1] \in Lanes
    OBVIOUS
  <2>3. id[1] = "stamp"
    BY <2>1 DEF Stamps
  <2> QED BY <2>2, <2>3, LanesAssumption DEF Lanes
<1> QED BY <1>1, <1>2, <1>3

\* No detach begins to pull and no attach to push.
LEMMA OvertakenStays ==
  ASSUME Overtaken, native' = native, current' = current,
         \A d \in Clients : pulls(d)' => pulls(d) /\ req'[d].seen = req[d].seen /\ req'[d].native = req[d].native,
         \A c \in Clients : pushes(c)' => pushes(c)
  PROVE  Overtaken'
BY DEF Overtaken

\* The stamps when the requests' kinds and ids stay, or a request is none of these any more.
LEMMA StampedStays ==
  ASSUME Stamped, requests \in Nat, requests' \in Nat, requests' >= requests, history' = history, op'.id = op.id, op'.by = op.by,
         late' \subseteq late, NEW c \in Clients, Turned(c),
         \/ req'[c].kind = req[c].kind /\ req'[c].id = req[c].id
         \/ req'[c].kind \notin Moving /\ req'[c].id \notin Stamps
  PROVE  Stamped'
<1>1. \A id : young(id, requests) => young(id, requests')
  BY DEF young, Stamps
<1>2. current_entry' = current_entry
  BY DEF current_entry
<1>3. \A d \in Clients : \/ req'[d].kind = req[d].kind /\ req'[d].id = req[d].id
                         \/ req'[d].kind \notin Moving /\ req'[d].id \notin Stamps
  BY DEF Turned
<1>4. \A d \in Clients : young(req[d].id, requests) /\ (req[d].kind \in Moving <=> req[d].id \in Stamps)
  BY DEF Stamped
<1>5. \A d \in Clients : young(req'[d].id, requests') /\ (req'[d].kind \in Moving <=> req'[d].id \in Stamps)
  BY <1>1, <1>3, <1>4 DEF young
<1>6. \A d, e \in Clients : req'[d].kind \in Moving /\ req'[e].id = req'[d].id => d = e
  BY <1>3, <1>4, <1>5 DEF Stamped
<1>7. \A call \in late' : young(call.id, requests') /\ \A d \in Clients : req'[d].kind \in Moving => call.id # req'[d].id
  BY <1>1, <1>3 DEF Stamped
<1>8. young(op'.id, requests') /\ \A d \in Clients : req'[d].kind \in Moving /\ op'.id = req'[d].id => op'.by = d
  BY <1>1, <1>3 DEF Stamped
<1>9. young(current_entry'.id, requests')
  BY <1>1, <1>2 DEF Stamped
<1> QED BY <1>5, <1>6, <1>7, <1>8, <1>9 DEF Stamped

\* Nothing of a caller that is not waiting is at the router.
LEMMA OwnedStays ==
  ASSUME Owned, NEW c \in Clients, Turned(c), req[c].pc # "wait", op' = op, answer' = answer, current' = current
  PROVE  Owned'
<1>1. op.by # c /\ answer[c] = Pending
  BY DEF Owned
<1>2. revision' = revision
  BY DEF revision
<1> QED BY <1>1, <1>2 DEF Owned, Turned

\* A step of a request that is no attach and no detach, nor becomes one.
LEMMA OtherSteps ==
  ASSUME Base, Handing, NEW c \in Clients, Turned(c), req[c].pc # "wait",
         UNCHANGED <<router, managed, late>>, native' = native, requests' \in Nat, requests' >= requests,
         req'[c].kind \notin Moving, req'[c].id \notin Stamps, req'[c].kind = "section" => managed
  PROVE  Handing'
<1>1. op' = op /\ answer' = answer /\ current' = current /\ history' = history /\ late' = late
  BY DEF router, disk
<1>2. Owned'
  BY <1>1, OwnedStays DEF Handing
<1>3. Stamped'
  BY <1>1, StampedStays DEF Handing, Base, Counters
<1>4. Sent'
  <2>1. req'[c].kind # "attach"
    BY DEF Moving
  <2> QED BY <1>1, <2>1 DEF Handing, Sent, Turned, current_entry
<1>5. Seen'
  BY <1>1 DEF Handing, Seen, Turned
<1>6. Overtaken'
  <2>1. \A d \in Clients : pulls(d)' => pulls(d) /\ req'[d].seen = req[d].seen /\ req'[d].native = req[d].native
    BY DEF pulls, Turned, Moving
  <2>2. \A d \in Clients : pushes(d)' => pushes(d)
    BY <1>1 DEF pushes, Turned, Moving
  <2> QED BY <1>1, <2>1, <2>2, OvertakenStays DEF Handing
<1> QED BY <1>2, <1>3, <1>4, <1>5, <1>6 DEF Handing

\* A step of an attach or a detach on its way: where it stands, what it has seen and what it pushes.
LEMMA MovingSteps ==
  ASSUME Base, Handing, NEW c \in Clients, Turned(c), req[c].pc \notin {"wait", "idle"}, Same(c), req[c].kind \in Moving,
         UNCHANGED <<router, managed, late>>, native' = native, requests' = requests,
         req'[c].pc \in {"router", "handover", "send", "wait"} => req'[c].native <= native.rev,
         req'[c].pc \in {"handover", "send", "wait"} =>
            req'[c].seen.gen <= current.gen /\ (req'[c].seen.gen = current.gen => req'[c].seen.doc = current.doc),
         req[c].kind = "attach" /\ current_entry.id = req[c].id => req'[c].pc \in {"wait", "handover", "record"},
         ~pulls(c)',
         pushes(c)' => pushes(c) \/ (req'[c].seen = revision /\ current.doc = Direct)
  PROVE  Handing'
<1>1. op' = op /\ answer' = answer /\ current' = current /\ history' = history /\ late' = late
  BY DEF router, disk
<1>2. Owned'
  BY <1>1, OwnedStays DEF Handing
<1>3. Stamped'
  BY <1>1, StampedStays DEF Handing, Base, Counters, Same
<1>4. Sent'
  BY <1>1 DEF Handing, Sent, Turned, current_entry, Same
<1>5. Seen'
  BY <1>1 DEF Handing, Seen, Turned, Same
<1>6. Overtaken'
  <2>1. \A d \in Clients : pulls(d)' => d # c /\ pulls(d) /\ req'[d] = req[d]
    BY DEF pulls, Turned
  <2>2. \A d \in Clients : d # c /\ pushes(d)' => pushes(d)
    BY <1>1 DEF pushes, Turned
  <2>3. ASSUME NEW d \in Clients, pulls(d), current.doc = Direct PROVE current.gen > req[d].seen.gen
    <3>1. req[d].seen.doc # Direct
      BY <2>3 DEF Handing, Overtaken
    <3>2. req[d].seen.gen <= current.gen /\ (req[d].seen.gen = current.gen => req[d].seen.doc = current.doc)
      BY <2>3 DEF Handing, Seen, pulls, Moving
    <3>3. req[d].seen.gen \in Nat /\ current.gen \in Nat
      BY Parts DEF Base, Panel, Requests, Revisions
    <3> QED BY <2>3, <3>1, <3>2, <3>3
  <2> QED BY <1>1, <2>1, <2>2, <2>3 DEF Handing, Overtaken
<1> QED BY <1>2, <1>3, <1>4, <1>5, <1>6 DEF Handing

\* The end of a request that has no answer to come, and the note of a failure.
LEMMA EndSteps ==
  ASSUME Base, Handing, NEW c \in Clients, Turned(c), req[c].pc # "wait",
         UNCHANGED <<router, managed, late>>, native' = native, requests' = requests,
         Ended(c) \/ (Noted(c) /\ req[c].kind \in {"section", "apply"}) \/ Backs(c)
  PROVE  Handing'
<1>1. req'[c].kind \notin Moving /\ req'[c].id \notin Stamps /\ (req'[c].kind = "section" => managed)
  BY None, NoStamps DEF Ended, Noted, Backs, Held, Same, Handing, Stamped, Seen, Moving
<1> QED BY <1>1, OtherSteps DEF Base, Counters

\* A new request.
LEMMA AskHanding ==
  ASSUME Base, Handing, NEW c \in Clients, Ask(c)
  PROVE  Handing'
<1>0. requests \in Nat
  BY DEF Base, Counters
<1>1. CASE \E l \in Lanes : AskApply(c, l) \/ AskRollback(c, l)
  <2>1. /\ Turned(c) /\ requests' = requests + 1 /\ req[c].pc = "idle" /\ req'[c].kind \in {"apply", "rollback"}
        /\ req'[c].id = <<>> \/ req'[c].id \in Lanes \X Nat \X Nat
    BY <1>1, AskApplyKeeps, AskRollbackKeeps
  <2>2. UNCHANGED <<router, managed, late>> /\ native' = native
    BY <1>1 DEF AskApply, AskRollback
  <2> QED BY <1>0, <2>1, <2>2, OtherSteps, NoStamps DEF Moving
<1>2. CASE \E l \in GrantLanes : AskLane(c, l) \/ AskNoLane(c, l)
  <2>1. Turned(c) /\ requests' = requests + 1 /\ req[c].pc = "idle" /\ req'[c].kind \in {"on", "off"} /\ req'[c].id = <<>>
    BY <1>2, AskLaneKeeps
  <2>2. UNCHANGED <<router, managed, late>> /\ native' = native
    BY <1>2 DEF AskLane, AskNoLane
  <2> QED BY <1>0, <2>1, <2>2, OtherSteps, NoStamps DEF Moving
<1>3. CASE AskSection(c)
  <2>1. /\ Turned(c) /\ requests' = requests + 1 /\ req[c].pc = "idle" /\ req'[c].kind = "section"
        /\ req'[c].id = <<"node", section.gen>>
    BY <1>3, AskSectionKeeps
  <2>2. UNCHANGED <<router, managed, late>> /\ native' = native /\ managed
    BY <1>3 DEF AskSection
  <2>3. <<"node", section.gen>> \in {"node"} \X Nat
    BY DEF Base, Panel
  <2> QED BY <1>0, <2>1, <2>2, <2>3, OtherSteps, NoStamps DEF Moving
<1>4. CASE \E kind \in Moving : AskMove(c, kind)
  <2>0. PICK kind \in Moving : AskMove(c, kind)
    BY <1>4
  <2>1. /\ Turned(c) /\ requests' = requests + 1 /\ req[c].pc = "idle" /\ req'[c].kind = kind /\ req'[c].pc = "native"
        /\ req'[c].id = <<"stamp", requests>>
    BY <2>0, AskMoveKeeps
  <2>2. /\ ~managed /\ op' = op /\ answer' = answer /\ current' = current /\ history' = history /\ late' = late /\ native' = native
        /\ managed' = managed
    BY <2>0 DEF AskMove, router, disk
  <2>3. Owned'
    BY <2>1, <2>2, OwnedStays DEF Handing
  <2>4. Stamped'
    <3> DEFINE id == <<"stamp", requests>>
    <3>1. id \in Stamps /\ young(id, requests') /\ ~young(id, requests)
      BY <1>0, <2>1 DEF Stamps, young
    <3>2. \A x : young(x, requests) => young(x, requests')
      BY <1>0, <2>1 DEF Stamps, young
    <3> HIDE DEF id
    <3>3. \A x : young(x, requests) => x # id
      BY <3>1
    <3>4. current_entry' = current_entry
      BY <2>2 DEF current_entry
    <3>5. req'[c].kind \in Moving /\ req'[c].id = id
      BY <2>1 DEF id
    <3>6. \A d \in Clients : young(req'[d].id, requests') /\ (req'[d].kind \in Moving <=> req'[d].id \in Stamps)
      BY <2>1, <3>1, <3>2, <3>5 DEF Turned, Handing, Stamped
    <3>7. \A d, e \in Clients : req'[d].kind \in Moving /\ req'[e].id = req'[d].id => d = e
      BY <2>1, <3>3, <3>5 DEF Turned, Handing, Stamped
    <3>8. \A call \in late' : young(call.id, requests') /\ \A d \in Clients : req'[d].kind \in Moving => call.id # req'[d].id
      BY <2>1, <2>2, <3>2, <3>3, <3>5 DEF Turned, Handing, Stamped
    <3>9. young(op'.id, requests') /\ \A d \in Clients : req'[d].kind \in Moving /\ op'.id = req'[d].id => op'.by = d
      BY <2>1, <2>2, <3>2, <3>3, <3>5 DEF Turned, Handing, Stamped
    <3>10. young(current_entry'.id, requests')
      BY <3>2, <3>4 DEF Handing, Stamped
    <3> QED BY <3>6, <3>7, <3>8, <3>9, <3>10 DEF Stamped
  <2>5. Sent'
    <3>1. young(current_entry.id, requests) /\ current_entry' = current_entry
      BY <2>2 DEF Handing, Stamped, current_entry
    <3>2. current_entry.id # <<"stamp", requests>>
      BY <1>0, <3>1 DEF young, Stamps
    <3> QED BY <2>1, <3>1, <3>2 DEF Handing, Sent, Turned
  <2>6. Seen'
    BY <2>1, <2>2 DEF Handing, Seen, Turned, Moving
  <2>7. Overtaken'
    <3>1. \A d \in Clients : pulls(d)' => pulls(d) /\ req'[d].seen = req[d].seen /\ req'[d].native = req[d].native
      BY <2>1 DEF pulls, Turned
    <3>2. \A d \in Clients : pushes(d)' => pushes(d)
      BY <2>1, <2>2 DEF pushes, Turned
    <3> QED BY <2>2, <3>1, <3>2, OvertakenStays DEF Handing
  <2> QED BY <2>3, <2>4, <2>5, <2>6, <2>7 DEF Handing
<1> QED BY <1>1, <1>2, <1>3, <1>4 DEF Ask, Moving

\* The requests read.
LEMMA ReadNativeHanding ==
  ASSUME Base, Handing, NEW c \in Clients, ReadNative(c)
  PROVE  Handing'
<1>1. UNCHANGED <<router, managed, late>> /\ native' = native /\ requests' = requests
  BY DEF ReadNative, quiet, idly
<1>2. /\ Turned(c) /\ req[c].pc = "native"
      /\ \/ Same(c) /\ req'[c].pc = "router" /\ req'[c].native = native.rev
         \/ Ended(c)
  BY ReadNativeKeeps
<1>3. CASE Ended(c)
  BY <1>1, <1>2, <1>3, EndSteps
<1>4. CASE Same(c) /\ req'[c].pc = "router" /\ req'[c].native = native.rev /\ req[c].kind \in Moving
  <2>1. ~pulls(c)' /\ ~pushes(c)'
    BY <1>4 DEF pulls, pushes
  <2>2. req[c].kind = "attach" => current_entry.id # req[c].id
    BY <1>2 DEF Handing, Sent
  <2>3. native.rev \in Nat
    BY DEF Base, Panel
  <2> QED BY <1>1, <1>2, <1>4, <2>1, <2>2, <2>3, MovingSteps
<1>5. CASE Same(c) /\ req'[c].pc = "router" /\ req[c].kind \notin Moving
  BY <1>1, <1>2, <1>5, OtherSteps DEF Same, Handing, Stamped, Seen, Base, Counters
<1> QED BY <1>2, <1>3, <1>4, <1>5

\* The router's revision.
LEMMA ReadRouterHanding ==
  ASSUME Base, Handing, NEW c \in Clients, ReadRouter(c)
  PROVE  Handing'
<1>1. UNCHANGED <<router, managed, late>> /\ native' = native /\ requests' = requests
  BY DEF ReadRouter, quiet, idly
<1>2. /\ Turned(c) /\ req[c].pc = "router"
      /\ \/ /\ Same(c) /\ req'[c].pc = decided(req[c], revision) /\ req'[c].seen = revision
            /\ req'[c].attached = req[c].attached /\ req'[c].native = req[c].native
         \/ Ended(c)
         \/ Noted(c) /\ req[c].kind = "section"
  BY ReadRouterKeeps
<1>3. CASE Ended(c) \/ (Noted(c) /\ req[c].kind = "section")
  BY <1>1, <1>2, <1>3, EndSteps
<1>4. CASE /\ Same(c) /\ req'[c].pc = decided(req[c], revision) /\ req'[c].seen = revision
           /\ req'[c].attached = req[c].attached /\ req'[c].native = req[c].native
  <2>1. CASE req[c].kind \notin Moving
    BY <1>1, <1>2, <1>4, <2>1, OtherSteps DEF Same, Handing, Stamped, Seen, Base, Counters
  <2>2. CASE req[c].kind \in Moving
    <3>1. req[c].native <= native.rev /\ current.gen \in Nat
      BY <1>2, <2>2, Parts DEF Handing, Seen, Base
    <3>2. revision.gen = current.gen /\ revision.doc = current.doc
      BY DEF revision
    <3>3. ~pulls(c)'
      <4>1. req[c].kind = "detach" /\ req[c].attached => req'[c].pc = "handover"
        BY <1>4, Decides
      <4> QED BY <1>4, <4>1 DEF pulls, Same
    <3>4. pushes(c)' => current.doc = Direct
      <4>1. req[c].kind = "attach" => req'[c].pc = IF req[c].attached THEN "record" ELSE IF revision.doc # Direct THEN "send" ELSE "handover"
        BY <1>4, Decides
      <4> QED BY <1>4, <3>2, <4>1 DEF pushes, Same
    <3>5. req[c].kind = "attach" => current_entry.id # req[c].id
      BY <1>2 DEF Handing, Sent
    <3> QED BY <1>1, <1>2, <1>4, <2>2, <3>1, <3>2, <3>3, <3>4, <3>5, MovingSteps
  <2> QED BY <2>1, <2>2
<1> QED BY <1>2, <1>3, <1>4

\* compile and plan are an apply's.
LEMMA PlanHanding ==
  ASSUME Base, Handing, NEW c \in Clients, Compile(c) \/ Plan(c)
  PROVE  Handing'
<1>1. UNCHANGED <<router, managed, late>> /\ native' = native /\ requests' = requests
  BY DEF Compile, Plan, quiet, idly
<1>2. Turned(c) /\ req[c].pc \in {"compile", "plan"} /\ req[c].kind = "apply" /\ (Same(c) \/ Ended(c))
  BY CompileKeeps, PlanKeeps DEF Held
<1>3. CASE Ended(c)
  BY <1>1, <1>2, <1>3, EndSteps
<1>4. CASE Same(c)
  BY <1>1, <1>2, <1>4, OtherSteps DEF Same, Handing, Stamped, Moving, Base, Counters
<1> QED BY <1>2, <1>3, <1>4

\* Nobody pushes or pulls more after the router took a call; what it began is the caller's.
LEMMA SendHanding ==
  ASSUME Base, Handing, NEW c \in Clients, Send(c)
  PROVE  Handing'
<1>1. /\ Turned(c) /\ req[c].pc = "send"
      /\ \/ made(c, call_of(req[c])) /\ Held(c) /\ req'[c].pc = "wait"
         \/ UNCHANGED router /\ (Ended(c) \/ (Noted(c) /\ req[c].kind \in {"section", "apply"}) \/ Backs(c))
  BY SendKeeps
<1>2. UNCHANGED <<managed, late>> /\ native' = native /\ requests' = requests
  BY DEF Send, idly
<1>3. CASE UNCHANGED router /\ (Ended(c) \/ (Noted(c) /\ req[c].kind \in {"section", "apply"}) \/ Backs(c))
  BY <1>1, <1>2, <1>3, EndSteps
<1>4. CASE made(c, call_of(req[c])) /\ Held(c) /\ req'[c].pc = "wait"
  <2>0. call_of(req[c]).seen = req[c].seen /\ call_of(req[c]).doc = req[c].doc /\ call_of(req[c]).id = req[c].id
    BY CallOf DEF Base, Panel, Shaped
  <2>1. op.by # c /\ answer[c] = Pending /\ op.pc = "idle" /\ current' = current /\ history' = history /\ answer \in [Clients -> Answers]
    BY <1>1, <1>4, Takes, Parts DEF Handing, Owned, fixed, Base
  <2>2. \/ op' = op /\ answer' = [answer EXCEPT ![c] = Failed]
        \/ /\ op' = op /\ answer' = [answer EXCEPT ![c] = Applied(req[c].doc)] /\ current_entry.id = req[c].id
        \/ answer' = answer /\ op'.by = c /\ op'.pc = "render" /\ op'.kind = "apply" /\ op'.id = req[c].id /\ op'.doc = req[c].doc /\ revision = req[c].seen
        \/ answer' = answer /\ op'.by = c /\ op'.pc = "render" /\ op'.kind # "apply" /\ op'.id = <<>>
    BY <1>4, <2>0, Takes DEF Says, Starts, reply
  <2>3. Owned'
    <3>1. revision' = revision
      BY <2>1 DEF revision
    <3>2. \A d \in Clients : d # c => answer'[d] = answer[d]
      BY <2>1, <2>2
    <3>3. op' = op \/ op'.by = c
      BY <2>2
    <3>4. CASE op' = op
      BY <1>1, <1>4, <2>1, <3>1, <3>2, <3>4 DEF Handing, Owned, Turned, Held, Same
    <3>5. CASE op'.by = c /\ answer' = answer
      BY <1>1, <1>4, <2>1, <2>2, <3>1, <3>5 DEF Handing, Owned, Turned, Held, Same
    <3> QED BY <2>2, <3>4, <3>5
  <2>4. Stamped'
    <3>1. \A d \in Clients : req'[d].kind = req[d].kind /\ req'[d].id = req[d].id
      BY <1>1, <1>4 DEF Turned, Held, Same
    <3>2. current_entry' = current_entry
      BY <2>1 DEF current_entry
    <3>3. CASE op' = op
      BY <1>2, <3>1, <3>2, <3>3 DEF Handing, Stamped
    <3>4. CASE op'.by = c /\ op'.id \in {req[c].id, <<>>}
      <4>1. young(op'.id, requests')
        BY <1>2, <3>4, NoStamps DEF Handing, Stamped, young
      <4>2. \A d \in Clients : req'[d].kind \in Moving /\ op'.id = req'[d].id => op'.by = d
        BY <3>1, <3>4, NoStamps DEF Handing, Stamped
      <4> QED BY <1>2, <3>1, <3>2, <4>1, <4>2 DEF Handing, Stamped
    <3> QED BY <2>2, <3>3, <3>4
  <2>5. Sent'
    BY <1>1, <1>4, <2>1 DEF Handing, Sent, Turned, Held, Same, current_entry
  <2>6. Seen'
    BY <1>1, <1>2, <1>4, <2>1 DEF Handing, Seen, Turned, Held, Same
  <2>7. Overtaken'
    <3>1. \A d \in Clients : pulls(d)' => pulls(d) /\ req'[d].seen = req[d].seen /\ req'[d].native = req[d].native
      BY <1>1, <1>4 DEF pulls, Turned, Held, Same
    <3>2. \A d \in Clients : pushes(d)' => pushes(d)
      <4>1. SUFFICES ASSUME NEW d \in Clients, pushes(d)' PROVE pushes(d)
        OBVIOUS
      <4>2. CASE d = c
        <5>1. req[c].kind = "attach" => current_entry.id # req[c].id
          BY <1>1 DEF Handing, Sent
        <5>2. req[c].kind = "attach"
          BY <1>4, <4>1, <4>2 DEF pushes, Held, Same
        <5>3. answer'[c].tag = "ok" \/ op'.pc = "journal"
          BY <1>4, <4>1, <4>2 DEF pushes
        <5>4. Failed.tag = "failed" /\ Pending.tag = "none"
          BY DEF Failed, Pending
        <5> QED BY <2>1, <2>2, <5>1, <5>2, <5>3, <5>4
      <4>3. CASE d # c
        <5>1. req'[d] = req[d] /\ answer'[d] = answer[d]
          BY <1>1, <2>1, <2>2, <4>3 DEF Turned
        <5>2. op'.by = d => op'.pc # "journal"
          BY <2>1, <2>2, <4>3
        <5> QED BY <1>2, <4>1, <5>1, <5>2 DEF pushes
      <4> QED BY <4>2, <4>3
    <3> QED BY <1>2, <2>1, <3>1, <3>2, OvertakenStays DEF Handing
  <2> QED BY <2>3, <2>4, <2>5, <2>6, <2>7 DEF Handing
<1> QED BY <1>1, <1>3, <1>4

\* A call made late is nobody's.
LEMMA LateCallHanding ==
  ASSUME Base, Handing, LateCall
  PROVE  Handing'
<1>1. UNCHANGED <<managed, native, req, requests>>
  BY DEF LateCall
<1>2. PICK call \in late : made("nobody", call) /\ late' = late \ {call}
  BY DEF LateCall
<1>3. op.pc = "idle" /\ current' = current /\ history' = history /\ answer' = answer
  BY <1>2, Takes, ClientsAssumption DEF fixed, Says, Starts, reply
<1>4. \/ op' = op
      \/ op'.by = "nobody" /\ op'.pc = "render" /\ op'.id \in {call.id, <<>>}
  BY <1>2, Takes DEF Says, Starts
<1>5. Owned'
  BY <1>1, <1>3, <1>4, ClientsAssumption DEF Handing, Owned, revision
<1>6. Stamped'
  <2>1. young(op'.id, requests') /\ \A d \in Clients : req'[d].kind \in Moving /\ op'.id = req'[d].id => op'.by = d
    BY <1>1, <1>2, <1>4, NoStamps DEF Handing, Stamped, young
  <2>2. current_entry' = current_entry /\ late' \subseteq late
    BY <1>2, <1>3 DEF current_entry
  <2> QED BY <1>1, <2>1, <2>2 DEF Handing, Stamped
<1>7. Sent' /\ Seen'
  BY <1>1, <1>3 DEF Handing, Sent, Seen, current_entry
<1>8. Overtaken'
  <2>1. \A d \in Clients : pulls(d)' => pulls(d) /\ req'[d].seen = req[d].seen /\ req'[d].native = req[d].native
    BY <1>1 DEF pulls
  <2>2. \A d \in Clients : pushes(d)' => pushes(d)
    BY <1>1, <1>3, <1>4 DEF pushes
  <2> QED BY <1>1, <1>3, <2>1, <2>2, OvertakenStays DEF Handing
<1> QED BY <1>5, <1>6, <1>7, <1>8 DEF Handing

\* The answer is taken.
LEMMA AnsweredHanding ==
  ASSUME Base, Handing, NEW c \in Clients, Answered(c)
  PROVE  Handing'
<1>1. /\ Turned(c) /\ req[c].pc = "wait" /\ answer[c] # Pending /\ answer' = [answer EXCEPT ![c] = Pending]
      /\ UNCHANGED <<disk, process, op, up, managed, native, store, late, node, requests>>
      /\ \/ Ended(c)
         \/ /\ answer[c].tag = "ok" /\ Same(c) /\ req'[c].pc = after_router(req[c]) /\ req[c].kind # "forget"
            /\ req'[c].native = req[c].native /\ req'[c].seen = req[c].seen
         \/ Noted(c) /\ req[c].kind \in {"section", "apply"}
         \/ Backs(c)
  BY AnsweredKeeps
<1>0. /\ req[c].kind # "forget" => after_router(req[c]) \notin {"idle", "wait", "send"}
      /\ req[c].kind \in Moving => after_router(req[c]) \in {"handover", "record"}
  BY AfterRouter DEF Base, Shaped, Moving
<1>2. current' = current /\ history' = history /\ op' = op /\ native' = native /\ late' = late /\ requests' = requests /\ managed' = managed
  BY <1>1 DEF disk
<1>3. answer \in [Clients -> Answers] /\ op.by # c
  BY <1>1, Parts DEF Base, Handing, Owned
<1>4. answer'[c] = Pending /\ \A d \in Clients : d # c => answer'[d] = answer[d]
  BY <1>1, <1>3
<1>5. req'[c].pc # "wait" /\ req'[c].pc # "send"
  BY <1>0, <1>1, None DEF Ended, Noted, Backs
<1>6. Owned'
  <2>1. revision' = revision
    BY <1>2 DEF revision
  <2> QED BY <1>1, <1>2, <1>3, <1>4, <2>1 DEF Handing, Owned, Turned
<1>7. Stamped'
  <2>1. \/ req'[c].kind = req[c].kind /\ req'[c].id = req[c].id
        \/ req'[c].kind \notin Moving /\ req'[c].id \notin Stamps
    BY <1>1, None, NoStamps DEF Ended, Noted, Backs, Held, Same, Moving
  <2> QED BY <1>1, <1>2, <2>1, StampedStays DEF Handing, Base, Counters
<1>8. Sent'
  BY <1>0, <1>1, <1>2, None DEF Handing, Sent, Turned, Ended, Noted, Backs, Held, Same, current_entry, Moving
<1>9. Seen'
  BY <1>1, <1>2, None DEF Handing, Seen, Turned, Ended, Noted, Backs, Held, Same, Moving
<1>10. Overtaken'
  <2>1. \A d \in Clients : pulls(d)' => pulls(d) /\ req'[d].seen = req[d].seen /\ req'[d].native = req[d].native
    BY <1>1, <1>5 DEF pulls, Turned
  <2>2. \A d \in Clients : pushes(d)' => pushes(d)
    <3>1. \A d \in Clients : d # c /\ pushes(d)' => pushes(d)
      BY <1>1, <1>2, <1>4 DEF pushes, Turned
    <3>2. pushes(c)' => pushes(c)
      BY <1>1, <1>2, <1>5, None DEF pushes, Ended, Noted, Backs, Held, Same
    <3> QED BY <3>1, <3>2
  <2> QED BY <1>2, <2>1, <2>2, OvertakenStays DEF Handing
<1> QED BY <1>6, <1>7, <1>8, <1>9, <1>10 DEF Handing

\* Requests given up: their calls keep their ids.
LEMMA LeavesHanding ==
  ASSUME Base, Handing, NEW cs \in SUBSET Clients, orphaned(cs), late' = left(cs), req' \in [Clients -> Requests],
         UNCHANGED <<disk, managed, native, requests>>,
         \A c \in cs : Ended(c) \/ (Noted(c) /\ req[c].kind \in {"section", "apply"}) \/ Backs(c),
         \A c \in Clients \ cs : req'[c] = req[c]
  PROVE  Handing'
<1>1. current' = current /\ history' = history /\ native' = native /\ requests' = requests /\ managed' = managed
  BY DEF disk
<1>2. /\ op' = IF op.by \in cs THEN [op EXCEPT !.by = "nobody"] ELSE op
      /\ answer' = [c \in Clients |-> IF c \in cs THEN Pending ELSE answer[c]]
  BY DEF orphaned
<1>3. op \in Operations
  BY Parts DEF Base
<1>4. /\ op'.kind = op.kind /\ op'.id = op.id /\ op'.doc = op.doc /\ op'.pc = op.pc
      /\ op'.by = IF op.by \in cs THEN "nobody" ELSE op.by
  BY <1>2, <1>3 DEF Operations
<1>5. \A c \in cs : req'[c].kind \notin Moving /\ req'[c].id \notin Stamps /\ (req'[c].kind = "section" => managed) /\ req'[c].pc # "wait"
  BY None, NoStamps DEF Ended, Noted, Backs, Held, Same, Handing, Stamped, Seen, Moving
<1>6. Owned'
  <2>1. revision' = revision
    BY <1>1 DEF revision
  <2> QED BY <1>2, <1>4, <2>1, ClientsAssumption DEF Handing, Owned
<1>7. Stamped'
  <2>1. \A c \in Clients : req'[c].kind \in Moving => c \notin cs /\ req'[c] = req[c]
    BY <1>5
  <2>2. \A c \in Clients : young(req'[c].id, requests') /\ (req'[c].kind \in Moving <=> req'[c].id \in Stamps)
    BY <1>1, <1>5, <2>1 DEF Handing, Stamped, young
  <2>3. \A c, d \in Clients : req'[c].kind \in Moving /\ req'[d].id = req'[c].id => c = d
    BY <2>1, <2>2, <1>5 DEF Handing, Stamped
  <2>4. \A call \in late' : young(call.id, requests') /\ \A c \in Clients : req'[c].kind \in Moving => call.id # req'[c].id
    <3>1. SUFFICES ASSUME NEW call \in late' PROVE young(call.id, requests') /\ \A c \in Clients : req'[c].kind \in Moving => call.id # req'[c].id
      OBVIOUS
    <3>2. CASE call \in late
      BY <1>1, <2>1, <3>2 DEF Handing, Stamped
    <3>3. CASE \E c \in cs : call = call_of(req[c])
      <4>1. PICK e \in cs : call = call_of(req[e])
        BY <3>3
      <4>2. call.id = req[e].id
        BY <4>1 DEF call_of
      <4> QED BY <1>1, <2>1, <4>1, <4>2 DEF Handing, Stamped
    <3> QED BY <3>2, <3>3, LeftCalls
  <2>5. young(op'.id, requests') /\ \A c \in Clients : req'[c].kind \in Moving /\ op'.id = req'[c].id => op'.by = c
    BY <1>1, <1>4, <2>1 DEF Handing, Stamped
  <2>6. young(current_entry'.id, requests')
    BY <1>1 DEF Handing, Stamped, current_entry
  <2> QED BY <2>2, <2>3, <2>4, <2>5, <2>6 DEF Stamped
<1>8. Sent'
  BY <1>1, <1>5 DEF Handing, Sent, Moving, current_entry
<1>9. Seen'
  BY <1>1, <1>5 DEF Handing, Seen
<1>10. Overtaken'
  <2>1. \A d \in Clients : pulls(d)' => pulls(d) /\ req'[d].seen = req[d].seen /\ req'[d].native = req[d].native
    BY <1>5 DEF pulls, Moving
  <2>2. \A d \in Clients : pushes(d)' => pushes(d)
    BY <1>1, <1>2, <1>4, <1>5, ClientsAssumption DEF pushes, Moving
  <2> QED BY <1>1, <2>1, <2>2, OvertakenStays DEF Handing
<1> QED BY <1>6, <1>7, <1>8, <1>9, <1>10 DEF Handing

\* The caller waits no longer, or the panel dies.
LEMMA GiveUpHanding ==
  ASSUME Base, Handing, (\E c \in Clients : GiveUp(c)) \/ PanelDies
  PROVE  Handing'
<1>1. CASE \E c \in Clients : GiveUp(c)
  <2>1. PICK c \in Clients : GiveUp(c)
    BY <1>1
  <2>2. /\ Turned(c) /\ orphaned({c}) /\ late' = left({c}) /\ UNCHANGED <<disk, managed, native, requests>>
        /\ Ended(c) \/ (Noted(c) /\ req[c].kind \in {"section", "apply"}) \/ Backs(c)
    BY <2>1, GiveUpKeeps
  <2> QED BY <2>2, LeavesHanding DEF Turned
<1>2. CASE PanelDies
  <2>1. /\ orphaned(Clients) /\ late' = left(Clients) /\ UNCHANGED <<disk, managed, native, requests>>
        /\ \A c \in Clients : req'[c] = NoRequest
    BY <1>2, PanelDiesKeeps
  <2>2. req' \in [Clients -> Requests]
    BY <1>2, None DEF PanelDies
  <2> QED BY <2>1, <2>2, LeavesHanding DEF Ended
<1> QED BY <1>1, <1>2

\* The service moves: a detach begins to pull, an attach has been overtaken by nobody.
LEMMA HandoverHanding ==
  ASSUME Base, Handing, NEW c \in Clients, Handover(c)
  PROVE  Handing'
<1>1. /\ Turned(c) /\ req[c].pc = "handover" /\ UNCHANGED <<router, managed, store, late, node, requests>>
      /\ native' \in {native, [rev |-> native.rev + 1, attached |-> wants_router(req[c])]}
      /\ native' # native => req[c].kind = "section" \/ req[c].native = native.rev
      /\ \/ Held(c) /\ req'[c].pc = after_native(req[c]) /\ (native' # native \/ req[c].kind = "section")
         \/ Ended(c)
         \/ Noted(c) /\ req[c].kind = "section"
  BY HandoverKeeps
<1>2. op' = op /\ answer' = answer /\ current' = current /\ history' = history /\ late' = late /\ requests' = requests /\ managed' = managed
  BY <1>1 DEF router, disk
<1>3. native.rev \in Nat /\ req[c].kind \in {"attach", "detach", "section"}
  BY <1>1 DEF Base, Panel, Shaped, shape
<1>4. native'.rev \in {native.rev, native.rev + 1} /\ (native' # native => native'.rev = native.rev + 1 /\ native'.attached = wants_router(req[c]))
  BY <1>1, <1>3
<1>5. \A d \in Clients : req[d].native \in Nat /\ req[d].seen.gen \in Nat
  BY DEF Base, Panel, Requests, Revisions
<1>6. Owned'
  BY <1>1, <1>2, OwnedStays DEF Handing
<1>7. Stamped'
  <2>1. \/ req'[c].kind = req[c].kind /\ req'[c].id = req[c].id
        \/ req'[c].kind \notin Moving /\ req'[c].id \notin Stamps
    BY <1>1, None, NoStamps DEF Ended, Noted, Held, Same, Moving
  <2> QED BY <1>1, <1>2, <2>1, StampedStays DEF Handing, Base, Counters
<1>8. Sent'
  <2>1. req[c].kind = "attach" => after_native(req[c]) = "record"
    BY AfterNative
  <2> QED BY <1>1, <1>2, <2>1, None DEF Handing, Sent, Turned, Ended, Noted, Held, Same, current_entry
<1>9. Seen'
  <2>1. \A d \in Clients : d # c => req'[d] = req[d]
    BY <1>1 DEF Turned
  <2>2. req[c].kind \in Moving /\ Held(c) => req[c].native <= native'.rev
    BY <1>1, <1>3, <1>4, <1>5 DEF Handing, Seen
  <2>3. \A d \in Clients : req[d].native <= native.rev => req[d].native <= native'.rev
    BY <1>3, <1>4, <1>5
  <2>4. req'[c].kind = "section" => managed
    BY <1>1, None DEF Handing, Seen, Ended, Noted, Held, Same
  <2>5. CASE req'[c].kind \notin Moving
    BY <1>2, <2>1, <2>3, <2>4, <2>5 DEF Handing, Seen
  <2>6. CASE req'[c].kind \in Moving
    <3>1. Held(c) /\ req[c].kind \in Moving
      BY <1>1, <2>6, None DEF Ended, Noted, Held, Same, Moving
    <3> QED BY <1>1, <1>2, <2>1, <2>2, <2>3, <2>4, <3>1 DEF Handing, Seen, Held, Same
  <2> QED BY <2>5, <2>6
<1>10. Overtaken'
  <2>1. req'[c].pc # "wait" /\ req'[c].pc # "handover"
    BY <1>1, <1>3, None, AfterNative DEF Ended, Noted
  <2>2. ~pushes(c)'
    BY <2>1 DEF pushes
  <2>3. CASE native' = native
    <3>1. \A d \in Clients : pulls(d)' => pulls(d) /\ req'[d].seen = req[d].seen /\ req'[d].native = req[d].native
      <4>1. ~pulls(c)'
        BY <1>1, <1>3, <2>3, None DEF pulls, Ended, Noted, Held, Same
      <4> QED BY <1>1, <4>1 DEF pulls, Turned
    <3>2. \A d \in Clients : pushes(d)' => pushes(d)
      BY <1>1, <1>2, <2>2, <2>3 DEF pushes, Turned
    <3> QED BY <1>2, <2>3, <3>1, <3>2, OvertakenStays DEF Handing
  <2>4. CASE native' # native
    <3>1. \A d \in Clients : ~pushes(d)'
      <4>1. SUFFICES ASSUME NEW d \in Clients, d # c, pushes(d)' PROVE FALSE
        BY <2>2
      <4>2. req'[d] = req[d]
        BY <1>1, <4>1 DEF Turned
      <4>3. req[d].kind = "attach" /\ req[d].native = native.rev + 1 /\ req[d].pc \in {"handover", "wait"}
        BY <1>4, <2>4, <4>1, <4>2 DEF pushes
      <4>4. req[d].native <= native.rev
        BY <4>3 DEF Handing, Seen, Moving
      <4> QED BY <1>3, <4>3, <4>4
    <3>2. ASSUME NEW d \in Clients, pulls(d)', native'.attached PROVE current.gen > req[d].seen.gen /\ d # c
      <4>1. wants_router(req[c])
        BY <1>4, <2>4, <3>2
      <4>2. d # c /\ req'[d] = req[d]
        BY <1>1, <3>2, <4>1, None DEF pulls, wants_router, Turned, Ended, Noted, Held, Same
      <4>3. pulls(d) /\ ~managed
        BY <3>2, <4>2 DEF pulls, Handing, Seen, Moving
      <4>4. req[c].kind = "attach" /\ req[c].native = native.rev
        BY <1>1, <2>4, <4>1, <4>3 DEF wants_router, Handing, Seen
      <4>5. pushes(c)
        BY <1>1, <4>4 DEF pushes
      <4> QED BY <4>2, <4>3, <4>5 DEF Handing, Overtaken
    <3>3. ASSUME NEW d \in Clients, pulls(d)' PROVE req'[d].seen.doc # Direct /\ req'[d].native < native'.rev
      <4>1. CASE d # c
        <5>1. req'[d] = req[d] /\ pulls(d)
          BY <1>1, <3>3, <4>1 DEF Turned, pulls
        <5>2. req[d].seen.doc # Direct /\ req[d].native < native.rev
          BY <5>1 DEF Handing, Overtaken
        <5> QED BY <1>3, <1>4, <1>5, <5>1, <5>2
      <4>2. CASE d = c
        <5>1. Held(c) /\ req[c].kind = "detach" /\ req'[c].pc = after_native(req[c]) /\ req'[c].pc = "send"
          BY <1>1, <2>1, <3>3, <4>2, None DEF pulls, Ended, Noted, Held, Same
        <5>2. req[c].seen.doc # Direct
          <6>1. after_native(req[c]) = IF req[c].seen.doc # Direct THEN "send" ELSE "record"
            BY <5>1 DEF after_native, wants_router
          <6> QED BY <5>1, <6>1
        <5>3. req[c].native = native.rev
          BY <1>1, <2>4, <5>1
        <5> QED BY <1>3, <1>4, <2>4, <4>2, <5>1, <5>2, <5>3 DEF Held
      <4> QED BY <4>1, <4>2
    <3>4. ASSUME NEW d \in Clients, pulls(d)', native'.attached PROVE current'.gen > req'[d].seen.gen
      <4>1. d # c /\ current.gen > req[d].seen.gen
        BY <3>2, <3>4
      <4> QED BY <1>1, <1>2, <4>1 DEF Turned
    <3> QED BY <3>1, <3>3, <3>4 DEF Overtaken
  <2> QED BY <2>3, <2>4
<1> QED BY <1>6, <1>7, <1>8, <1>9, <1>10 DEF Handing

\* The manager's steps: an attach that pushes goes on, and a commit overtakes every detach that pulls.
LEMMA RouterHanding ==
  ASSUME Base, Handing, RouterOwn \/ XrayDies \/ ManagerDies, UNCHANGED <<managed, native, req, requests>>, late' \subseteq late
  PROVE  Handing'
<1>0. Idles \/ Advances \/ Commits \/ Breaks \/ Completes \/ Boots
  BY RouterSteps DEF Base
<1>1. Router
  BY DEF Base
<1>2. \A d \in Clients : req'[d] = req[d] /\ req[d].seen.gen \in Nat
  BY DEF Base, Panel, Requests, Revisions
<1>3. current.gen \in Nat /\ answer \in [Clients -> Answers] /\ op.by \in Callers
  BY <1>1, Parts
<1>4. \A d \in Clients : pulls(d)' => pulls(d)
  BY <1>2 DEF pulls
<1>5. CASE current' = current /\ history' = history
  <2>1. current_entry' = current_entry /\ revision' = revision
    BY <1>5 DEF current_entry, revision
  <2>2. Sent' /\ Seen'
    BY <1>5, <2>1 DEF Handing, Sent, Seen
  <2>3. op'.id = <<>> \/ (op'.id = op.id /\ op'.by = op.by)
    BY <1>0, <1>5, Idle DEF Idles, Advances, Breaks, Completes, Boots, Commits, moving
  <2>4. Stamped'
    <3>1. young(op'.id, requests') /\ \A d \in Clients : req'[d].kind \in Moving /\ op'.id = req'[d].id => op'.by = d
      BY <1>2, <2>3, NoStamps DEF Handing, Stamped, young
    <3> QED BY <1>2, <2>1, <3>1 DEF Handing, Stamped
  <2>5. \/ op' = op /\ answer' = answer
        \/ moving /\ op.pc \in Busy /\ op'.pc \in Busy
        \/ moving /\ op'.pc = "journal"  /\ op.pc = "current" /\ current' = candidate
        \/ op' = NoOp /\ reply(op.by, Failed)
        \/ op' = NoOp /\ op.pc = "journal" /\ reply(op.by, Applied(op.doc))
        \/ answer' = answer /\ op'.by = "nobody" /\ op'.pc \in {"boot", "render"}
    BY <1>0 DEF Idles, Advances, Breaks, Completes, Boots, Commits
  <2>6. CASE op' = op /\ answer' = answer
    <3>1. Owned'
      BY <1>2, <2>1, <2>6 DEF Handing, Owned
    <3>2. Overtaken'
      BY <1>2, <1>4, <1>5, <2>6, OvertakenStays DEF Handing, pushes
    <3> QED BY <2>2, <2>4, <3>1, <3>2 DEF Handing
  <2>7. CASE moving /\ op.pc \in Busy /\ op'.pc \in Busy
    <3>1. Owned'
      BY <1>2, <2>1, <2>7 DEF Handing, Owned, moving
    <3>2. \A d \in Clients : pushes(d)' => pushes(d)
      BY <1>2, <2>7 DEF pushes, moving, Busy
    <3>3. Overtaken'
      BY <1>2, <1>4, <1>5, <3>2, OvertakenStays DEF Handing
    <3> QED BY <2>2, <2>4, <3>1, <3>3 DEF Handing
  <2>8. CASE moving /\ op'.pc = "journal" /\ op.pc = "current" /\ current' = candidate
    BY <1>1, <1>3, <1>5, <2>8, Candidate DEF Busy
  <2>9. CASE op' = NoOp /\ (reply(op.by, Failed) \/ (op.pc = "journal" /\ reply(op.by, Applied(op.doc))))
    <3>1. op'.by \notin Clients
      BY <2>9, Idle, ClientsAssumption
    <3>2. \A d \in Clients : d # op.by => answer'[d] = answer[d]
      BY <1>3, <2>9 DEF reply
    <3>3. Owned'
      BY <1>2, <3>1, <3>2 DEF Handing, Owned
    <3>4. \A d \in Clients : pushes(d)' => pushes(d)
      <4>1. SUFFICES ASSUME NEW d \in Clients, pushes(d)' PROVE pushes(d)
        OBVIOUS
      <4>2. CASE d # op.by
        BY <1>2, <3>1, <3>2, <4>1, <4>2 DEF pushes
      <4>3. CASE d = op.by /\ reply(op.by, Failed)
        <5>1. answer'[d].tag = "failed"
          BY <1>3, <4>3 DEF reply, Failed
        <5> QED BY <1>2, <3>1, <4>1, <5>1 DEF pushes
      <4>4. CASE d = op.by /\ op.pc = "journal"
        BY <1>2, <4>1, <4>4 DEF pushes
      <4> QED BY <2>9, <4>2, <4>3, <4>4
    <3>5. Overtaken'
      BY <1>2, <1>4, <1>5, <3>4, OvertakenStays DEF Handing
    <3> QED BY <2>2, <2>4, <3>3, <3>5 DEF Handing
  <2>10. CASE answer' = answer /\ op'.by = "nobody" /\ op'.pc \in {"boot", "render"}
    <3>1. Owned'
      BY <1>2, <2>10, ClientsAssumption DEF Handing, Owned
    <3>2. \A d \in Clients : pushes(d)' => pushes(d)
      BY <1>2, <2>10 DEF pushes
    <3>3. Overtaken'
      BY <1>2, <1>4, <1>5, <3>2, OvertakenStays DEF Handing
    <3> QED BY <2>2, <2>4, <3>1, <3>3 DEF Handing
  <2> QED BY <2>5, <2>6, <2>7, <2>8, <2>9, <2>10
<1>6. CASE Commits
  <2>1. current'.gen = current.gen + 1 /\ op' .pc = "journal" /\ moving
    BY <1>1, <1>6, Candidate DEF Commits, Busy
  <2>2. Owned'
    BY <1>2, <2>1 DEF Handing, Owned, moving, Busy
  <2>3. Stamped' /\ Sent'
    BY <1>2, <2>1 DEF Handing, Stamped, Sent, moving, current_entry
  <2>4. \A d \in Clients : req[d].kind \in Moving /\ req[d].pc \in {"handover", "send", "wait"} => req[d].seen.gen < current'.gen
    BY <1>2, <1>3, <2>1 DEF Handing, Seen
  <2>5. Seen'
    BY <1>2, <1>3, <2>1, <2>4 DEF Handing, Seen
  <2>6. \A d \in Clients : pulls(d) => req[d].seen.gen < current'.gen
    BY <2>4 DEF pulls, Moving
  <2>7. Overtaken'
    BY <1>2, <1>3, <1>4, <2>1, <2>6 DEF Handing, Overtaken
  <2> QED BY <2>2, <2>3, <2>5, <2>7 DEF Handing
<1>7. CASE op' = NoOp /\ current' = current /\ history' = booked /\ op.pc = "journal" /\ (reply(op.by, Failed) \/ reply(op.by, Applied(op.doc)))
  <2>1. op'.by \notin Clients /\ op'.id = <<>>
    BY <1>7, Idle, ClientsAssumption
  <2>2. \A d \in Clients : d # op.by => answer'[d] = answer[d]
    BY <1>3, <1>7 DEF reply
  <2>3. Owned'
    BY <1>2, <2>1, <2>2 DEF Handing, Owned
  <2>4. current_entry'.id \in {current_entry.id, op.id}
    <3>1. current_entry' = booked[Len(booked)]
      BY <1>7 DEF current_entry
    <3>2. op.kind = "rollback" => Len(history) > 1
      BY <1>1 DEF Router, Swapping
    <3> QED BY <1>1, <3>1, <3>2, Books DEF Router, entry
  <2>5. Stamped'
    <3>1. young(op'.id, requests') /\ \A d \in Clients : req'[d].kind \in Moving /\ op'.id = req'[d].id => op'.by = d
      BY <1>2, <2>1, NoStamps DEF Handing, Stamped, young
    <3>2. young(current_entry'.id, requests')
      BY <2>4 DEF Handing, Stamped
    <3> QED BY <1>2, <3>1, <3>2 DEF Handing, Stamped
  <2>6. Sent'
    <3>1. ASSUME NEW d \in Clients, req[d].kind = "attach", op.id = req[d].id PROVE req[d].pc = "wait"
      <4>1. op.by = d
        BY <3>1 DEF Handing, Stamped, Moving
      <4> QED BY <4>1 DEF Handing, Owned
    <3> QED BY <1>2, <2>4, <3>1 DEF Handing, Sent
  <2>7. Seen'
    BY <1>2, <1>7 DEF Handing, Seen
  <2>8. \A d \in Clients : pushes(d)' => pushes(d)
    <3>1. SUFFICES ASSUME NEW d \in Clients, pushes(d)' PROVE pushes(d)
      OBVIOUS
    <3>2. CASE d # op.by
      BY <1>2, <2>1, <2>2, <3>1, <3>2 DEF pushes
    <3>3. CASE d = op.by
      BY <1>2, <1>7, <3>1, <3>3 DEF pushes
    <3> QED BY <3>2, <3>3
  <2>9. Overtaken'
    BY <1>2, <1>4, <1>7, <2>8, OvertakenStays DEF Handing
  <2> QED BY <2>3, <2>5, <2>6, <2>7, <2>9 DEF Handing
<1> QED BY <1>0, <1>5, <1>6, <1>7 DEF Idles, Advances, Breaks, Completes, Boots, fixed, moving

\* The first state.
LEMMA InitHanding == Init => Handing
<1> SUFFICES ASSUME Init PROVE Handing
  OBVIOUS
<1>1. /\ \A c \in Clients : req[c] = NoRequest /\ answer[c] = Pending
      /\ late = {} /\ op = NoOp /\ requests = 0
  BY DEF Init, RouterInit
<1>2. Owned
  BY <1>1, Idle, ClientsAssumption DEF Owned
<1>3. current_entry.id = <<>> \/ current_entry.id = <<"svc", 1, 2>>
  <2>1. \/ history = <<[doc |-> Direct, gen |-> 1, id |-> <<>>]>>
        \/ \E first : history = <<[doc |-> Direct, gen |-> 2, id |-> <<>>], [doc |-> first.doc, gen |-> 3, id |-> <<"svc", 1, 2>>]>>
    BY DEF Init, RouterInit
  <2>2. CASE history = <<[doc |-> Direct, gen |-> 1, id |-> <<>>]>>
    <3>1. Len(history) = 1 /\ history[1] = [doc |-> Direct, gen |-> 1, id |-> <<>>]
      BY <2>2
    <3> QED BY <3>1 DEF current_entry
  <2>3. CASE \E first : history = <<[doc |-> Direct, gen |-> 2, id |-> <<>>], [doc |-> first.doc, gen |-> 3, id |-> <<"svc", 1, 2>>]>>
    <3>1. PICK first : history = <<[doc |-> Direct, gen |-> 2, id |-> <<>>], [doc |-> first.doc, gen |-> 3, id |-> <<"svc", 1, 2>>]>>
      BY <2>3
    <3>2. Len(history) = 2 /\ history[2] = [doc |-> first.doc, gen |-> 3, id |-> <<"svc", 1, 2>>]
      BY <3>1
    <3> QED BY <3>2 DEF current_entry
  <2> QED BY <2>1, <2>2, <2>3
<1>4. <<"svc", 1, 2>> \in Lanes \X Nat \X Nat
  BY DEF Lanes
<1>5. current_entry.id \notin Stamps
  BY <1>3, <1>4, NoStamps
<1>6. Stamped
  BY <1>1, <1>5, None, Idle, NoStamps DEF Stamped, young, Moving
<1>7. Sent /\ Seen /\ Overtaken
  BY <1>1, None DEF Sent, Seen, Overtaken, pulls, Moving
<1> QED BY <1>2, <1>6, <1>7 DEF Handing

\* Every step.
LEMMA NextHanding == Base /\ Handing /\ [Next]_vars => Handing'
<1> SUFFICES ASSUME Base, Handing, [Next]_vars PROVE Handing'
  OBVIOUS
<1>0. requests \in Nat
  BY DEF Base, Counters
<1>1. ASSUME NEW c \in Clients, Ask(c) PROVE Handing'
  BY <1>1, AskHanding
<1>2. ASSUME NEW c \in Clients, Record(c) PROVE Handing'
  <2>1. Turned(c) /\ Ended(c) /\ req[c].pc = "record" /\ UNCHANGED <<router, managed, native, late, requests>>
    BY <1>2, RecordKeeps
  <2> QED BY <2>1, EndSteps
<1>13. ASSUME NEW c \in Clients, laning(c) PROVE Handing'
  <2>1. Turned(c) /\ req[c].pc \in Laning /\ Lanely(c) /\ UNCHANGED <<router, managed, native, late, requests>>
    BY <1>13, LaningKeeps
  <2>2. req[c].kind \in {"on", "off"} /\ req[c].id \notin Stamps
    BY <2>1 DEF Base, Shaped, shape, Handing, Stamped, Moving
  <2>3. req'[c].kind \notin Moving /\ req'[c].id \notin Stamps /\ req'[c].kind # "section"
    BY <2>1, <2>2, None, NoStamps DEF Lanely, Ended, Forgets, Same, Moving
  <2> QED BY <1>0, <2>1, <2>3, OtherSteps DEF Laning
<1>3. ASSUME NEW c \in Clients, Continue(c) PROVE Handing'
  BY <1>2, <1>3, <1>13, ReadNativeHanding, ReadRouterHanding, PlanHanding, SendHanding, AnsweredHanding, HandoverHanding DEF Continue, laning
<1>4. ASSUME UNCHANGED <<router, managed, native, req, late, requests>> PROVE Handing'
  <2>1. op' = op /\ answer' = answer /\ current' = current /\ history' = history
    BY <1>4 DEF router, disk
  <2>2. Owned' /\ Stamped' /\ Sent' /\ Seen'
    BY <1>4, <2>1 DEF Handing, Owned, Stamped, Sent, Seen, revision, current_entry
  <2>3. Overtaken'
    BY <1>4, <2>1 DEF Handing, Overtaken, pulls, pushes
  <2> QED BY <2>2, <2>3 DEF Handing
<1>5. ASSUME NEW l \in Lanes, Save(l) PROVE Handing'
  <2>1. UNCHANGED <<router, managed, native, req, late, requests>>
    BY <1>5 DEF Save, edited
  <2> QED BY <1>4, <2>1
<1>6. ASSUME NEW backend, NEW doc, NewSection(backend, doc) PROVE Handing'
  <2>1. UNCHANGED <<router, managed, native, req, late, requests>>
    BY <1>6 DEF NewSection, edited
  <2> QED BY <1>4, <2>1
<1>7. CASE AskOther
  <2>1. UNCHANGED <<managed, native, req, late>> /\ requests' = requests + 1 /\ Rerender
    BY <1>7, AskOtherKeeps
  <2>2. current' = current /\ history' = history /\ answer' = answer /\ op'.by = "nobody" /\ op'.id = <<>> /\ op'.pc = "render"
    BY <2>1 DEF Rerender, taken, begin
  <2>3. Owned'
    BY <2>1, <2>2, ClientsAssumption DEF Handing, Owned
  <2>4. Stamped'
    <3>1. \A id : young(id, requests) => young(id, requests')
      BY <1>0, <2>1 DEF young, Stamps
    <3>2. young(op'.id, requests') /\ \A d \in Clients : req'[d].kind \in Moving /\ op'.id = req'[d].id => op'.by = d
      BY <2>1, <2>2, NoStamps DEF Handing, Stamped, young
    <3>3. current_entry' = current_entry
      BY <2>2 DEF current_entry
    <3> QED BY <2>1, <3>1, <3>2, <3>3 DEF Handing, Stamped
  <2>5. Sent' /\ Seen'
    BY <2>1, <2>2 DEF Handing, Sent, Seen, current_entry
  <2>6. \A d \in Clients : pushes(d)' => pushes(d)
    BY <2>1, <2>2, ClientsAssumption DEF pushes
  <2>7. Overtaken'
    BY <2>1, <2>2, <2>6, OvertakenStays DEF Handing, pulls
  <2> QED BY <2>3, <2>4, <2>5, <2>7 DEF Handing
<1>8. CASE LateCall
  BY <1>8, LateCallHanding
<1>9. CASE PanelDies \/ \E c \in Clients : GiveUp(c)
  BY <1>9, GiveUpHanding
<1>10. CASE RouterStep
  BY <1>10, RouterHanding DEF RouterStep
<1>11. CASE RouterMishaps
  BY <1>11, RouterHanding DEF RouterMishaps
<1>12. CASE UNCHANGED vars
  BY <1>4, <1>12 DEF vars
<1> QED BY <1>1, <1>3, <1>5, <1>6, <1>7, <1>8, <1>9, <1>10, <1>11, <1>12 DEF Next

\* The requests and the router agree.
THEOREM Agreed == Spec => [](Base /\ Handing)
<1>1. Init => Base /\ Handing
  BY InitBase, InitHanding
<1>2. (Base /\ Handing) /\ [Next]_vars => (Base /\ Handing)'
  BY NextBase, NextHanding
<1> QED BY <1>1, <1>2, PTL DEF Spec

\* The router takes a new current generation only in WriteCurrent.
LEMMA OnlyCommits ==
  ASSUME Base, Next, current' # current
  PROVE  Commits
<1>1. ASSUME NEW c \in Clients, Ask(c) \/ Continue(c) \/ GiveUp(c) PROVE current' = current
  <2>1. ASSUME Send(c) PROVE current' = current
    BY <2>1, Takes DEF Send, fixed, router, disk
  <2>2. ASSUME Ask(c) PROVE current' = current
    BY <2>2 DEF Ask, AskApply, AskRollback, AskLane, AskNoLane, AskMove, AskSection, router, disk
  <2>3. ASSUME laning(c) PROVE current' = current
    BY <2>3 DEF laning, Mark, Push, Reissue, Unmark, Draft, router, disk
  <2>4. ASSUME ReadNative(c) \/ ReadRouter(c) \/ Compile(c) \/ Plan(c) PROVE current' = current
    BY <2>4 DEF ReadNative, ReadRouter, Compile, Plan, router, disk
  <2>5. ASSUME Answered(c) \/ Handover(c) \/ Record(c) \/ GiveUp(c) PROVE current' = current
    BY <2>5 DEF Answered, Handover, Record, GiveUp, router, disk
  <2> QED BY <1>1, <2>1, <2>2, <2>3, <2>4, <2>5 DEF Continue, laning
<1>2. ASSUME NEW l \in Lanes, Save(l) PROVE current' = current
  BY <1>2 DEF Save, router, disk
<1>3. ASSUME NEW backend, NEW doc, NewSection(backend, doc) PROVE current' = current
  BY <1>3 DEF NewSection, router, disk
<1>4. ASSUME AskOther PROVE current' = current
  BY <1>4 DEF AskOther, Rerender, taken
<1>5. ASSUME LateCall PROVE current' = current
  BY <1>5, Takes DEF LateCall, fixed
<1>6. ASSUME PanelDies PROVE current' = current
  BY <1>6 DEF PanelDies, disk
<1>7. CASE RouterStep \/ RouterMishaps
  BY <1>7, RouterSteps DEF RouterStep, RouterMishaps, Base, Idles, Advances, Breaks, Completes, Boots, fixed
<1> QED BY <1>1, <1>2, <1>3, <1>4, <1>5, <1>6, <1>7 DEF Next

\* A detach withdraws the policy only from a router that the service does not use, whoever attached in between and
\* whatever was given up or came late, for any number of callers (attach, detach, egress_apply).
THEOREM WithdrawnAfterDetach == Spec => DetachedBeforeWithdrawn
<1> DEFINE P == (current' # current /\ op.kind = "apply" /\ \E c \in Clients : withdraws(req[c])) => ~native.attached
<1>1. Base /\ Handing /\ [Next]_vars => P \/ UNCHANGED vars
  <2>1. SUFFICES ASSUME Base, Handing, Next, current' # current, op.kind = "apply", NEW c \in Clients, withdraws(req[c])
                 PROVE  ~native.attached
    OBVIOUS
  <2>2. op.pc = "current"
    BY <2>1, OnlyCommits DEF Commits
  <2>3. req[c].kind = "detach" /\ req[c].attached /\ req[c].id = op.id
    BY <2>1 DEF withdraws
  <2>4. op.by = c
    BY <2>1, <2>3 DEF Handing, Stamped, Moving
  <2>5. req[c].pc = "wait" /\ revision = req[c].seen
    BY <2>1, <2>2, <2>4 DEF Handing, Owned, Busy
  <2>6. current.gen = req[c].seen.gen /\ current.gen \in Nat
    BY <2>1, <2>5, Parts DEF revision, Base
  <2>7. pulls(c)
    BY <2>3, <2>5 DEF pulls
  <2> QED BY <2>1, <2>6, <2>7 DEF Handing, Overtaken
<1>2. DetachedBeforeWithdrawn <=> [][P]_vars
  BY DEF DetachedBeforeWithdrawn
<1> HIDE DEF P
<1> QED BY <1>1, <1>2, Agreed, PTL DEF Spec

---------------------------------------------------------------------------
(* Sections *)

\* Without lanes an intent has nothing to lose.
LEMMA PlainStays ==
  ASSUME Router, plain(current.doc)
  PROVE  current_intents = current.doc
BY Parts DEF current_intents, without_lanes, plain, Docs, Lanes

\* What was asked of the router and what it booked stay as they are.
LEMMA AgedStays ==
  ASSUME NEW c \in Clients, Aged(c), Same(c), req'[c].doc = req[c].doc,
         UNCHANGED <<section, egress, current, history>>, op'.kind = "apply" => op'.id[2] <= age(c)
  PROVE  Aged(c)'
BY DEF Aged, Same, Booked, age, current_entry

\* The journal and the operation when neither moves.
LEMMA LatestStays ==
  ASSUME Sectioned, Latest, UNCHANGED <<section, current, history, op>>, egress'.gen <= section.gen
  PROVE  Latest'
BY DEF Latest, Booked, current_entry

\* A step of the pass.
LEMMA PassSteps ==
  ASSUME Base, Central, NEW c \in Clients, Turned(c), passing(c),
         UNCHANGED <<section, egress, current, history>>,
         op'.kind = op.kind /\ op'.pc = op.pc /\ op'.id = op.id /\ op'.doc = op.doc /\ op'.by \in {op.by, "nobody"},
         Ended(c) \/ (Same(c) /\ req'[c].doc = req[c].doc /\ Delivered(c)'),
         Converged'
  PROVE  Central'
<1>1. \A d \in Clients : passing(d)' => d = c /\ ~Ended(c)
  <2>1. \A d \in Clients : d # c => ~passing(d)
    BY DEF Central, Sectioned
  <2> QED BY <2>1, None DEF Turned, passing, Ended
<1>2. Sectioned'
  <2>1. \A d \in Clients : req'[d].kind \in {"none", "section"}
    BY None DEF Central, Sectioned, Turned, Ended, Same
  <2> QED BY <1>1, <2>1 DEF Central, Sectioned, plain
<1>3. Latest'
  BY DEF Central, Latest, Booked, current_entry
<1>4. Same(c) /\ req'[c].doc = req[c].doc => Aged(c)'
  <2>1. Aged(c)
    BY DEF Central
  <2> QED BY <2>1, AgedStays DEF Aged
<1> QED BY <1>1, <1>2, <1>3, <1>4 DEF Central

\* A caller that does not wait has no answer.
LEMMA Unanswered ==
  ASSUME Handing, NEW c \in Clients, req[c].pc # "wait"
  PROVE  answer[c] = Pending /\ answer[c].tag = "none" /\ op.by # c
BY DEF Handing, Owned, Pending

\* What a pass wants of the service.
LEMMA Wants ==
  ASSUME NEW c \in Clients, passing(c)
  PROVE  wants_router(req[c]) = (req[c].policy.backend = "router")
BY DEF passing, wants_router

\* The pass reads the router.
LEMMA ReadRouterCentral ==
  ASSUME Base, Handing, Central, NEW c \in Clients, ReadRouter(c)
  PROVE  Central'
<1>1. UNCHANGED <<section, egress, current, history, native, op, answer>> /\ misled' \subseteq misled
  BY ReadRouterKeeps DEF router, disk
<1>2. Turned(c) /\ req[c].pc = "router" /\ passing(c)
  BY ReadRouterKeeps DEF Base, Shaped, shape, Central, Sectioned, passing
<1>3. \/ /\ lock_free /\ Same(c) /\ req'[c].pc = decided(req[c], revision) /\ req'[c].doc = req[c].doc /\ req'[c].ok = req[c].ok
      \/ Noted(c)
  BY <1>2, ReadRouterKeeps DEF passing
<1>4. answer[c].tag = "none"
  BY <1>2, Unanswered
<1>5. Aged(c) /\ Delivered(c)
  BY <1>2 DEF Central
<1>8. "report" \in misled => "report" \in misled'
  BY ReadRouterKeeps
<1>6. CASE Noted(c)
  <2>1. Delivered(c)'
    BY <1>1, <1>4, <1>6 DEF Delivered, delivered, Noted
  <2>2. Converged'
    BY <1>1, <1>2, <1>6, <1>8 DEF Central, Converged, converged, Turned, Noted
  <2> QED BY <1>1, <1>2, <1>6, <2>1, <2>2, PassSteps DEF Noted, Held
<1>7. CASE lock_free /\ Same(c) /\ req'[c].pc = decided(req[c], revision) /\ req'[c].doc = req[c].doc /\ req'[c].ok = req[c].ok
  <2>1. op.kind = "none" /\ revision.doc = current.doc
    BY <1>7, Parts DEF lock_free, Base, revision
  <2>2. req'[c].pc = IF current.doc # req[c].doc THEN "send" ELSE IF wants_router(req[c]) THEN "handover" ELSE "record"
    BY <1>2, <1>7, <2>1, Decides DEF passing
  <2>3. wants_router(req[c])' = wants_router(req[c])
    BY <1>7 DEF wants_router, Same
  <2>4. Delivered(c)'
    <3>1. (delivered(c)' => current.doc = req[c].doc) /\ op'.kind = "none" /\ answer'[c].tag = "none" /\ req'[c].doc = req[c].doc
      BY <1>1, <1>4, <1>7, <2>1, <2>2 DEF delivered
    <3>2. ~wants_router(req[c]) => ~native.attached
      BY <1>2, <1>5 DEF Delivered
    <3>3. req'[c].pc = "record" => ~wants_router(req[c])
      BY <2>2
    <3>4. native' = native /\ current' = current /\ wants_router(req[c]) \in BOOLEAN /\ native.attached \in BOOLEAN
      BY <1>1 DEF wants_router, Base, Panel
    <3> QED BY <2>3, <3>1, <3>2, <3>3, <3>4 DEF Delivered
  <2>5. converged => current.doc = req[c].doc
    <3>1. ASSUME converged PROVE current.doc = req[c].doc
      <4>1. age(c) <= section.gen /\ section.gen <= age(c) /\ req[c].id \in nodeIds
        BY <1>5, <3>1 DEF Aged, converged
      <4>2. age(c) \in Nat /\ section.gen \in Nat
        BY <4>1 DEF age, nodeIds, Base, Panel
      <4>3. age(c) = section.gen
        BY <4>1, <4>2
      <4> QED BY <1>5, <3>1, <4>3 DEF Aged, Central, Converged
    <3> QED BY <3>1
  <2>6. Converged'
    <3>1. converged' => converged
      BY <1>1, <1>8 DEF converged
    <3> QED BY <1>1, <1>2, <2>2, <2>5, <3>1 DEF Central, Converged, Turned
  <2> QED BY <1>1, <1>2, <1>7, <2>4, <2>6, PassSteps
<1> QED BY <1>3, <1>6, <1>7

\* A section that converged is the one a pass is for.
LEMMA SameSection ==
  ASSUME Base, Central, NEW c \in Clients, passing(c), egress.gen = section.gen
  PROVE  req[c].doc = section.doc /\ req[c].policy.backend = section.backend
<1>1. Aged(c)
  BY DEF Central
<1>2. age(c) <= section.gen /\ section.gen <= age(c) /\ req[c].id \in nodeIds
  BY <1>1 DEF Aged
<1>3. age(c) \in Nat /\ section.gen \in Nat
  BY <1>2 DEF age, nodeIds, Base, Panel
<1>4. age(c) = section.gen
  BY <1>2, <1>3
<1> QED BY <1>1, <1>4 DEF Aged

\* The pass hands the service over, or takes it back.
LEMMA HandoverCentral ==
  ASSUME Base, Handing, Central, NEW c \in Clients, Handover(c)
  PROVE  Central'
<1>1. UNCHANGED <<section, egress, misled, current, history, op, answer>>
  BY DEF Handover, router, disk, node
<1>2. Turned(c) /\ req[c].pc = "handover" /\ passing(c)
  BY HandoverKeeps DEF Base, Shaped, shape, Central, Sectioned, passing
<1>3. /\ native' \in {native, [rev |-> native.rev + 1, attached |-> wants_router(req[c])]}
      /\ \/ /\ Held(c) /\ req'[c].pc = after_native(req[c]) /\ req'[c].ok = req[c].ok
            /\ native'.attached = wants_router(req[c])
         \/ Noted(c)
  BY <1>2, HandoverKeeps DEF passing
<1>4. answer[c].tag = "none"
  BY <1>2, Unanswered
<1>5. Aged(c) /\ Delivered(c)
  BY <1>2 DEF Central
<1>6. after_native(req[c]) = IF wants_router(req[c]) THEN "record" ELSE "router"
  BY <1>2 DEF after_native, passing, wants_router
<1>7. wants_router(req[c])' = wants_router(req[c])
  BY <1>3 DEF wants_router, Held, Noted, Same
<1>8. Delivered(c)'
  BY <1>1, <1>2, <1>3, <1>4, <1>5, <1>6, <1>7 DEF Delivered, delivered, Held, Noted, Same
<1>9. Converged'
  <2>1. ASSUME converged
        PROVE native'.attached = (section.backend = "router")
    <3>1. wants_router(req[c]) = (section.backend = "router")
      BY <1>2, <2>1, SameSection, Wants DEF converged
    <3>2. native.attached = (section.backend = "router")
      BY <2>1 DEF Central, Converged
    <3> QED BY <1>3, <3>1, <3>2
  <2>2. req'[c].pc \notin {"send", "wait"}
    BY <1>3, <1>6 DEF Noted
  <2> QED BY <1>1, <1>2, <2>1, <2>2 DEF Central, Converged, converged, Turned
<1> QED BY <1>1, <1>2, <1>3, <1>8, <1>9, PassSteps DEF Held, Noted

\* The pass writes down how it went.
LEMMA RecordCentral ==
  ASSUME Base, Handing, Central, NEW c \in Clients, Record(c)
  PROVE  Central'
<1>1. UNCHANGED <<section, current, history, op, answer, native>>
  BY DEF Record, router, disk
<1>2. Turned(c) /\ Ended(c) /\ req[c].pc = "record" /\ passing(c)
  BY RecordKeeps DEF Base, Shaped, shape, Central, Sectioned, passing
<1>3. egress' = [gen |-> age(c), state |-> IF req[c].ok THEN "converged" ELSE "failed"]
  BY <1>2, RecordKeeps DEF passing, age
<1>4. Aged(c) /\ Delivered(c)
  BY <1>2 DEF Central
<1>5. \A d \in Clients : ~passing(d)' /\ req'[d].pc = "idle"
  <2>1. \A d \in Clients : d # c => req[d].kind = "none" /\ req'[d] = req[d]
    BY <1>2 DEF Central, Sectioned, Turned, passing
  <2>2. \A d \in Clients : d # c => req[d].pc = "idle"
    BY <2>1 DEF Base, Shaped, shape
  <2> QED BY <1>2, <2>1, <2>2, None DEF passing, Ended
<1>6. Sectioned'
  <2>1. \A d \in Clients : req'[d].kind \in {"none", "section"}
    BY <1>2, None DEF Central, Sectioned, Turned, Ended
  <2> QED BY <1>1, <1>5, <2>1 DEF Central, Sectioned, plain
<1>7. Latest'
  BY <1>1, <1>3, <1>4, LatestStays DEF Central, Aged
<1>8. Converged'
  <2>1. SUFFICES ASSUME egress' = [gen |-> section.gen, state |-> "converged"], "report" \notin misled'
                 PROVE  op.kind # "apply" /\ current.doc = section.doc /\ native.attached = (section.backend = "router")
    BY <1>1, <1>5 DEF Converged, converged
  <2>4. "pass" \notin misled
    <3>1. "pass" \in misled => misled' = misled /\ "report" \in misled
      BY RecordKeeps DEF Base, Panel
    <3> QED BY <2>1, <3>1
  <2>2. age(c) = section.gen /\ req[c].ok
    BY <1>3, <2>1
  <2>3. delivered(c) /\ req[c].doc = section.doc /\ req[c].policy.backend = section.backend
    BY <1>2, <1>4, <2>2 DEF delivered, Aged
  <2> QED BY <1>2, <1>4, <2>2, <2>3, <2>4, Wants DEF Delivered
<1> QED BY <1>5, <1>6, <1>7, <1>8 DEF Central

\* The pass begins.
LEMMA AskSectionCentral ==
  ASSUME Base, Handing, Central, NEW c \in Clients, AskSection(c)
  PROVE  Central'
<1>1. UNCHANGED <<section, egress, misled, current, history, op, answer>>
  BY DEF AskSection, router, disk, node
<1>2. /\ Turned(c) /\ req[c].pc = "idle" /\ req'[c].kind = "section" /\ req'[c].doc = section.doc
      /\ req'[c].pc = (IF section.backend = "router" THEN "router" ELSE "handover")
      /\ req'[c].id = <<"node", section.gen>> /\ req'[c].policy.backend = section.backend
  BY AskSectionKeeps
<1>3. \A d \in Clients : req[d].pc = "idle" /\ req[d].kind = "none"
  BY DEF AskSection, at, Base, Shaped, shape
<1>4. answer[c].tag = "none"
  BY <1>2, Unanswered
<1>5. section.gen \in Nat /\ age(c)' = section.gen /\ req'[c].id \in nodeIds
  BY <1>2 DEF Base, Panel, age, nodeIds
<1>6. Sectioned'
  BY <1>1, <1>2, <1>3 DEF Central, Sectioned, Turned, passing, plain
<1>7. Latest'
  BY <1>1, LatestStays DEF Central, Latest
<1>8. Aged(c)'
  <2>1. current_entry' = current_entry /\ Booked(section.gen)
    BY <1>1 DEF current_entry, Central, Latest
  <2>2. Booked(age(c))'
    BY <1>1, <1>5, <2>1 DEF Booked
  <2> QED BY <1>1, <1>2, <1>5, <2>1, <2>2 DEF Aged, Central, Sectioned, Latest, plain
<1>9. Delivered(c)'
  <2>1. wants_router(req[c])' = (section.backend = "router")
    BY <1>2 DEF wants_router
  <2> QED BY <1>1, <1>2, <1>4, <2>1 DEF Delivered, delivered
<1>10. Converged'
  BY <1>1, <1>2, <1>3 DEF Central, Converged, converged, Turned, AskSection
<1> QED BY <1>2, <1>3, <1>6, <1>7, <1>8, <1>9, <1>10 DEF Central, Turned, passing

\* A new generation: what the last one did is older.
LEMMA NewSectionCentral ==
  ASSUME Base, Central, NEW backend \in Backends, NEW doc \in Docs, plain(doc), NewSection(backend, doc)
  PROVE  Central'
<1>1. UNCHANGED <<current, history, op, answer, native, req, egress, misled>> /\ section' = [gen |-> section.gen + 1, backend |-> backend, doc |-> doc]
  BY DEF NewSection, router, disk
<1>2. /\ section.gen \in Nat /\ section'.gen = section.gen + 1 /\ section'.doc = doc /\ current_entry' = current_entry
      /\ egress.gen \in Nat /\ egress.gen <= section.gen
  BY <1>1 DEF Base, Panel, current_entry, Central, Latest
<1>3. Sectioned'
  BY <1>1, <1>2 DEF Central, Sectioned, passing, plain
<1>4. Latest'
  <2>1. \A id \in nodeIds : id[2] <= section.gen => id[2] <= section'.gen /\ id[2] # section'.gen
    BY <1>2 DEF nodeIds
  <2>2. <<"node", section'.gen>> \in nodeIds /\ <<"node", section'.gen>>[2] = section'.gen /\ <<"node", section'.gen>> # <<>>
    BY <1>2 DEF nodeIds
  <2>3. Booked(section.gen)'
    BY <1>2, <2>1, <2>2 DEF Central, Latest, Booked
  <2>4. egress'.gen <= section'.gen
    BY <1>1, <1>2
  <2> QED BY <1>1, <1>2, <2>1, <2>3, <2>4 DEF Central, Latest, plain
<1>5. ASSUME NEW c \in Clients, passing(c)' PROVE Aged(c)' /\ Delivered(c)'
  <2>1. Aged(c) /\ Delivered(c)
    BY <1>1, <1>5 DEF Central, passing
  <2>2. age(c) \in Nat /\ age(c) <= section'.gen /\ age(c) # section'.gen
    BY <1>2, <2>1 DEF Aged, age, nodeIds
  <2>3. Aged(c)'
    BY <1>1, <1>2, <2>1, <2>2 DEF Aged, age, Booked, plain
  <2>4. Delivered(c)'
    BY <1>1, <2>1 DEF Delivered, delivered, wants_router
  <2> QED BY <2>3, <2>4
<1>6. Converged'
  <2>1. egress'.gen # section'.gen
    BY <1>1, <1>2
  <2> QED BY <2>1 DEF Converged, converged
<1> QED BY <1>3, <1>4, <1>5, <1>6 DEF Central

\* Another service's operation renders this one as it is.
LEMMA AskOtherCentral ==
  ASSUME Base, Central, AskOther
  PROVE  Central'
<1>1. UNCHANGED <<native, req, section, egress, misled, current, history, answer>> /\ lock_free
  BY AskOtherKeeps DEF Rerender, taken, node
<1>2. op'.kind = "rerender" /\ op'.by = "nobody" /\ op'.id = <<>> /\ op'.doc = current_intents /\ op'.pc = "render"
  BY AskOtherKeeps DEF Rerender, begin
<1>3. current_intents = current.doc /\ op.kind = "none"
  BY <1>1, PlainStays, Parts DEF Central, Sectioned, Base, lock_free
<1>4. Sectioned'
  BY <1>1, <1>2, <1>3 DEF Central, Sectioned, passing, plain
<1>5. Latest'
  BY <1>1, <1>2 DEF Central, Latest, Booked, current_entry
<1>6. ASSUME NEW c \in Clients, passing(c)' PROVE Aged(c)' /\ Delivered(c)'
  <2>1. Aged(c) /\ Delivered(c)
    BY <1>1, <1>6 DEF Central, passing
  <2>2. Aged(c)'
    BY <1>1, <1>2, <2>1, AgedStays DEF Same
  <2>3. Delivered(c)'
    BY <1>1, <1>2, <2>1 DEF Delivered, delivered, wants_router
  <2> QED BY <2>2, <2>3
<1>7. Converged'
  BY <1>1, <1>2 DEF Central, Converged, converged
<1> QED BY <1>4, <1>5, <1>6, <1>7 DEF Central

\* The call of a pass.
LEMMA SendCentral ==
  ASSUME Base, Handing, Central, NEW c \in Clients, Send(c)
  PROVE  Central'
<1>1. UNCHANGED <<section, egress, misled, native>>
  BY DEF Send, node
<1>2. Turned(c) /\ req[c].pc = "send" /\ passing(c)
  BY SendKeeps DEF Base, Shaped, shape, Central, Sectioned, passing
<1>3. \/ made(c, call_of(req[c])) /\ Held(c) /\ req'[c].pc = "wait" /\ req'[c].ok = req[c].ok
      \/ UNCHANGED router /\ Noted(c)
  BY <1>2, SendKeeps DEF passing, Backs
<1>4. answer[c].tag = "none" /\ Aged(c) /\ Delivered(c)
  BY <1>2, Unanswered DEF Central
<1>5. Converged'
  BY <1>1, <1>2 DEF Central, Converged, converged
<1>6. CASE UNCHANGED router /\ Noted(c)
  <2>1. UNCHANGED <<current, history, op, answer>>
    BY <1>6 DEF router, disk
  <2>2. Delivered(c)'
    BY <1>1, <1>4, <1>6, <2>1 DEF Delivered, delivered, Noted
  <2> QED BY <1>1, <1>2, <1>5, <1>6, <2>1, <2>2, PassSteps DEF Noted, Held
<1>7. CASE made(c, call_of(req[c])) /\ Held(c) /\ req'[c].pc = "wait" /\ req'[c].ok = req[c].ok
  <2>1. op.pc = "idle" /\ current' = current /\ history' = history /\ op.kind = "none"
    BY <1>7, Takes, Parts DEF fixed, Base
  <2>2. \/ Says(c, Failed)
        \/ Says(c, Applied(req[c].doc)) /\ current_entry.id = req[c].id /\ current_entry.doc = req[c].doc
        \/ /\ Starts(c) /\ op'.kind = "apply" /\ op'.id = req[c].id /\ op'.doc = req[c].doc
           /\ req[c].id = <<>> \/ current_entry.id # req[c].id
    <3>1. /\ call_of(req[c]).kind = "apply" /\ call_of(req[c]).id = req[c].id /\ call_of(req[c]).doc = req[c].doc
      BY <1>2, CallOf DEF passing, Base, Panel, Shaped
    <3> QED BY <1>7, <3>1, Takes
  <2>3. wants_router(req[c])' = wants_router(req[c]) /\ (~wants_router(req[c]) => ~native.attached)
    BY <1>2, <1>4, <1>7 DEF wants_router, Held, Same, Delivered
  <2>4. req[c].id \in nodeIds /\ req[c].id # <<>> /\ req[c].id = <<"node", age(c)>>
    BY <1>4 DEF Aged, nodeIds, age
  <2>5. ASSUME op' = op, answer'[c].tag = "ok" => answer'[c].doc = req[c].doc /\ current.doc = req[c].doc PROVE Central'
    <3>1. Delivered(c)'
      BY <1>1, <1>7, <2>1, <2>3, <2>5 DEF Delivered, delivered, Held
    <3> QED BY <1>1, <1>2, <1>5, <1>7, <2>1, <2>5, <3>1, PassSteps DEF Held
  <2>6. CASE Says(c, Failed)
    <3>1. answer'[c].tag = "failed" /\ op' = op
      BY <2>6, Parts DEF Says, reply, Failed, Base
    <3> QED BY <2>5, <3>1
  <2>7. CASE Says(c, Applied(req[c].doc)) /\ current_entry.id = req[c].id /\ current_entry.doc = req[c].doc
    <3>1. answer'[c].doc = req[c].doc /\ op' = op
      BY <2>7, Parts DEF Says, reply, Applied, Base
    <3>2. current.doc = req[c].doc
      BY <1>4, <2>4, <2>7 DEF Aged, Booked
    <3> QED BY <2>5, <3>1, <3>2
  <2>8. CASE /\ Starts(c) /\ op'.kind = "apply" /\ op'.id = req[c].id /\ op'.doc = req[c].doc
             /\ req[c].id = <<>> \/ current_entry.id # req[c].id
    <3>1. op'.by = c /\ op'.pc = "render" /\ answer' = answer /\ current_entry' = current_entry
      BY <2>1, <2>8 DEF Starts, current_entry
    <3>2. \A d \in Clients : passing(d)' => d = c
      BY <1>2 DEF Central, Sectioned, Turned, passing
    <3>3. Sectioned'
      <4>1. \A d \in Clients : req'[d].kind \in {"none", "section"}
        BY <1>2, <1>7 DEF Central, Sectioned, Turned, Held, Same
      <4> QED BY <1>1, <2>1, <2>8, <3>2, <4>1 DEF Central, Sectioned, plain
    <3>4. Latest'
      <4>1. op'.id[2] <= section.gen /\ (op'.id[2] = section.gen => op'.doc = section.doc) /\ plain(op'.doc)
            /\ (current_entry.id # <<>> => current_entry.id[2] <= op'.id[2]) /\ current_entry.id # op'.id
        BY <1>4, <2>4, <2>8 DEF Aged, age
      <4>2. op'.id \in nodeIds
        BY <2>4, <2>8
      <4> QED BY <1>1, <2>1, <3>1, <4>1, <4>2 DEF Central, Latest, Booked, plain
    <3>5. age(c) \in Nat
      BY <2>4 DEF age, nodeIds
    <3>6. Aged(c)'
      BY <1>1, <1>4, <1>7, <2>1, <2>8, <3>5, AgedStays DEF Held, age
    <3>7. Delivered(c)'
      BY <1>1, <1>4, <1>7, <2>3, <3>1 DEF Delivered, delivered
    <3> QED BY <1>5, <3>2, <3>3, <3>4, <3>6, <3>7 DEF Central
  <2> QED BY <2>2, <2>6, <2>7, <2>8
<1> QED BY <1>3, <1>6, <1>7

\* The router's answer to a pass.
LEMMA AnsweredCentral ==
  ASSUME Base, Handing, Central, NEW c \in Clients, Answered(c)
  PROVE  Central'
<1>1. UNCHANGED <<section, egress, misled, current, history, native, op>> /\ answer' = [answer EXCEPT ![c] = Pending]
  BY AnsweredKeeps DEF disk, node
<1>2. Turned(c) /\ req[c].pc = "wait" /\ passing(c) /\ answer[c] # Pending
  BY AnsweredKeeps DEF Base, Shaped, shape, Central, Sectioned, passing
<1>3. \/ /\ answer[c].tag = "ok" /\ Same(c) /\ req'[c].pc = (IF wants_router(req[c]) THEN "handover" ELSE "record")
         /\ req'[c].doc = answer[c].doc /\ req'[c].ok = req[c].ok
      \/ Noted(c)
  BY <1>2, AnsweredKeeps, AfterRouter DEF passing, Backs, Base, Shaped
<1>4. answer'[c].tag = "none"
  BY <1>1, Parts DEF Base, Pending
<1>5. Aged(c) /\ Delivered(c)
  BY <1>2 DEF Central
<1>6. Converged'
  BY <1>1, <1>2 DEF Central, Converged, converged
<1>8. CASE Noted(c)
  <2>1. Delivered(c)'
    BY <1>1, <1>4, <1>8 DEF Delivered, delivered, Noted
  <2> QED BY <1>1, <1>2, <1>6, <1>8, <2>1, PassSteps DEF Noted, Held
<1>9. CASE /\ answer[c].tag = "ok" /\ Same(c) /\ req'[c].pc = (IF wants_router(req[c]) THEN "handover" ELSE "record")
           /\ req'[c].doc = answer[c].doc /\ req'[c].ok = req[c].ok
  <2>1. ("pass" \notin misled => current.doc = req[c].doc /\ op.kind # "apply") /\ req'[c].doc = req[c].doc
    BY <1>2, <1>5, <1>9 DEF Delivered, delivered
  <2>2. wants_router(req[c])' = wants_router(req[c]) /\ (~wants_router(req[c]) => ~native.attached)
    BY <1>2, <1>5, <1>9 DEF wants_router, Same, Delivered
  <2>3. wants_router(req[c]) \in BOOLEAN /\ native.attached \in BOOLEAN
    BY DEF wants_router, Base, Panel
  <2>4. Delivered(c)'
    BY <1>1, <1>4, <1>9, <2>1, <2>2, <2>3 DEF Delivered
  <2> QED BY <1>1, <1>2, <1>6, <1>9, <2>1, <2>4, PassSteps
<1> QED BY <1>3, <1>8, <1>9

\* The operation of a caller that is gone goes on.
LEMMA Orphans ==
  ASSUME Base, NEW cs \in SUBSET Clients, orphaned(cs)
  PROVE  /\ op'.kind = op.kind /\ op'.pc = op.pc /\ op'.id = op.id /\ op'.doc = op.doc /\ op'.by \in {op.by, "nobody"}
         /\ \A c \in cs : answer'[c] = Pending
<1>1. op \in Operations
  BY Parts DEF Base
<1>2. op' = [op EXCEPT !.by = "nobody"] \/ op' = op
  BY DEF orphaned
<1>3. op'.kind = op.kind /\ op'.pc = op.pc /\ op'.id = op.id /\ op'.doc = op.doc /\ op'.by \in {op.by, "nobody"}
  BY <1>1, <1>2 DEF Operations
<1> QED BY <1>3 DEF orphaned

\* The pass waits no longer.
LEMMA GiveUpCentral ==
  ASSUME Base, Central, NEW c \in Clients, GiveUp(c)
  PROVE  Central'
<1>1. UNCHANGED <<section, egress, misled, current, history, native>> /\ orphaned({c})
  BY GiveUpKeeps DEF disk, node
<1>2. Turned(c) /\ req[c].pc \in {"send", "wait"} /\ passing(c)
  BY GiveUpKeeps DEF Base, Shaped, shape, Central, Sectioned, passing
<1>3. Noted(c)
  BY <1>2, GiveUpKeeps DEF passing, Backs
<1>4. /\ op'.kind = op.kind /\ op'.pc = op.pc /\ op'.id = op.id /\ op'.doc = op.doc /\ op'.by \in {op.by, "nobody"}
      /\ answer'[c].tag = "none"
  BY <1>1, Orphans DEF Pending
<1>5. Converged'
  BY <1>1, <1>2 DEF Central, Converged, converged
<1>6. Delivered(c)'
  BY <1>3, <1>4 DEF Delivered, delivered, Noted
<1> QED BY <1>1, <1>2, <1>3, <1>4, <1>5, <1>6, PassSteps DEF Noted, Held

\* The node dies with its pass.
LEMMA PanelDiesCentral ==
  ASSUME Base, Central, PanelDies
  PROVE  Central'
<1>1. UNCHANGED <<section, egress, misled, current, history, native>> /\ orphaned(Clients)
  BY PanelDiesKeeps DEF disk, node
<1>2. \A c \in Clients : req'[c].kind = "none" /\ req'[c].pc = "idle"
  BY PanelDiesKeeps, None
<1>3. op'.kind = op.kind /\ op'.pc = op.pc /\ op'.id = op.id /\ op'.doc = op.doc /\ op'.by \in {op.by, "nobody"}
  BY <1>1, Orphans
<1>4. Sectioned'
  BY <1>1, <1>2, <1>3 DEF Central, Sectioned, passing, plain
<1>5. Latest'
  BY <1>1, <1>3 DEF Central, Latest, Booked, current_entry
<1>6. Converged'
  BY <1>1, <1>2, <1>3 DEF Central, Converged, converged
<1> QED BY <1>2, <1>4, <1>5, <1>6 DEF Central, passing

\* A commit of a section takes the journal's last entry out of date; any other leaves the document as it is.
LEMMA CommitsCentral ==
  ASSUME Base, Handing, Central, Commits, UNCHANGED <<native, req, section, egress, misled>>
  PROVE  Central'
<1>1. /\ op'.kind = op.kind /\ op'.by = op.by /\ op'.doc = op.doc /\ op'.id = op.id /\ answer' = answer
      /\ current_entry' = current_entry /\ op.pc = "current" /\ op'.pc = "journal"
  BY DEF Commits, moving, current_entry
<1>2. current'.doc = op.doc /\ op.kind \in {"apply", "boot", "rerender"}
  BY <1>1, Candidate, Parts DEF Commits, Base, Busy, Central, Sectioned
<1>3. CASE op.kind = "apply"
  <2>1. /\ op.id \in nodeIds /\ op.id[2] <= section.gen /\ plain(op.doc) /\ current_entry.id # op.id
        /\ current_entry.id # <<>> => current_entry.id[2] <= op.id[2]
        /\ op.id[2] = section.gen => op.doc = section.doc
    BY <1>1, <1>3 DEF Central, Latest, Busy
  <2>2. ASSUME NEW g \in Nat, op.id[2] <= g PROVE current_entry.id # <<"node", g>>
    <3>1. SUFFICES ASSUME current_entry.id = <<"node", g>> PROVE FALSE
      OBVIOUS
    <3>2. g <= op.id[2]
      BY <2>1, <3>1
    <3>3. op.id \in {"node"} \X Nat
      BY <2>1 DEF nodeIds
    <3>4. op.id[2] = g
      BY <2>2, <3>2, <3>3
    <3> QED BY <2>1, <3>1, <3>3, <3>4
  <2>3. Sectioned'
    BY <1>1, <1>2, <1>3, <2>1 DEF Central, Sectioned, passing, plain
  <2>4. Latest'
    <3>1. Booked(section.gen)'
      <4>1. current_entry.id # <<"node", section.gen>>
        BY <2>1, <2>2 DEF Base, Panel
      <4> QED BY <1>1, <4>1 DEF Booked
    <3> QED BY <1>1, <1>2, <1>3, <2>1, <3>1 DEF Central, Latest, plain, Busy
  <2>5. ASSUME NEW c \in Clients, passing(c)' PROVE Aged(c)' /\ Delivered(c)'
    <3>1. Aged(c) /\ Delivered(c)
      BY <2>5 DEF Central, passing
    <3>2. age(c) \in Nat /\ op.id[2] <= age(c)
      BY <1>3, <3>1 DEF Aged, age, nodeIds
    <3>3. Booked(age(c))'
      BY <1>1, <2>2, <3>2 DEF Booked, age
    <3>4. Aged(c)'
      BY <1>1, <3>1, <3>3 DEF Aged, age, plain
    <3>5. ("pass" \notin misled => ~delivered(c)) /\ delivered(c)' = delivered(c)
      BY <1>1, <1>3, <3>1 DEF Delivered, delivered, wants_router
    <3>6. Delivered(c)'
      BY <1>1, <3>1, <3>5 DEF Delivered, wants_router
    <3> QED BY <3>4, <3>6
  <2>6. Converged'
    BY <1>3 DEF Central, Converged, converged
  <2> QED BY <2>3, <2>4, <2>5, <2>6 DEF Central
<1>4. CASE op.kind \in {"boot", "rerender"}
  <2>1. current'.doc = current.doc
    BY <1>1, <1>2, <1>4 DEF Central, Sectioned
  <2>2. Sectioned'
    BY <1>1, <1>2, <1>4, <2>1 DEF Central, Sectioned, passing, plain
  <2>3. Latest'
    BY <1>1, <1>4, <2>1 DEF Central, Latest, Booked
  <2>4. ASSUME NEW c \in Clients, passing(c)' PROVE Aged(c)' /\ Delivered(c)'
    <3>1. Aged(c) /\ Delivered(c)
      BY <2>4 DEF Central, passing
    <3>2. Aged(c)'
      BY <1>1, <2>1, <3>1 DEF Aged, age, plain, Booked
    <3>3. Delivered(c)'
      BY <1>1, <2>1, <3>1 DEF Delivered, delivered, wants_router
    <3> QED BY <3>2, <3>3
  <2>5. Converged'
    BY <1>1, <2>1 DEF Central, Converged, converged
  <2> QED BY <2>2, <2>3, <2>4, <2>5 DEF Central
<1> QED BY <1>2, <1>3, <1>4

\* What the end of an operation writes into the journal names what runs.
LEMMA EndBooks ==
  ASSUME Base, Central, history' = history \/ (op.pc = "journal" /\ history' = booked)
  PROVE  \/ current_entry'.id = current_entry.id /\ current_entry'.doc = current_entry.doc
         \/ /\ current_entry'.id = op.id /\ current_entry'.doc = current.doc
            /\ op.id = <<>> \/ op.kind = "apply"
<1>1. CASE history' = history
  BY <1>1 DEF current_entry
<1>2. CASE op.pc = "journal" /\ history' = booked
  <2>1. op.doc = current.doc /\ op.kind \in {"boot", "apply", "rerender"} /\ (op.kind \in {"boot", "rerender"} => op.id = <<>>)
    BY <1>2, Parts DEF Base, Router, Swapping, Central, Sectioned
  <2>2. /\ changed => booked[Len(booked)] = entry
        /\ ~changed => booked[Len(booked)].id = current_entry.id /\ booked[Len(booked)].doc = current_entry.doc
    BY Books DEF Base, Router, Swapping
  <2>3. entry.id = op.id /\ entry.doc = op.doc
    BY DEF entry
  <2>4. current_entry' = booked[Len(booked)]
    BY <1>2 DEF current_entry
  <2> QED BY <2>1, <2>2, <2>3, <2>4
<1> QED BY <1>1, <1>2

\* An operation ends: its caller, if it waits still, is told what runs.
LEMMA EndsCentral ==
  ASSUME Base, Handing, Central, Breaks \/ Completes, UNCHANGED <<native, req, section, egress, misled>>
  PROVE  Central'
<1>1. /\ op'.kind = "none" /\ op'.pc = "idle" /\ current' = current
      /\ \/ reply(op.by, Failed)
         \/ reply(op.by, Applied(op.doc)) /\ op.pc = "journal"
  BY Idle DEF Breaks, Completes
<1>2. \/ current_entry'.id = current_entry.id /\ current_entry'.doc = current_entry.doc
      \/ /\ current_entry'.id = op.id /\ current_entry'.doc = current.doc
         /\ op.id = <<>> \/ op.kind = "apply"
  BY EndBooks DEF Breaks, Completes
<1>3. Sectioned'
  BY <1>1 DEF Central, Sectioned, passing, plain
<1>4. Latest'
  <2>1. Booked(section.gen)'
    BY <1>1, <1>2 DEF Central, Latest, Booked
  <2>2. current_entry'.id = <<>> \/ (current_entry'.id \in nodeIds /\ current_entry'.id[2] <= section.gen)
    BY <1>2 DEF Central, Latest
  <2> QED BY <1>1, <2>1, <2>2 DEF Central, Latest
<1>5. ASSUME NEW c \in Clients, passing(c)' PROVE Aged(c)' /\ Delivered(c)'
  <2>1. Aged(c) /\ Delivered(c)
    BY <1>5 DEF Central, passing
  <2>2. Booked(age(c))' /\ (current_entry'.id # <<>> => current_entry'.id[2] <= age(c))
    BY <1>1, <1>2, <2>1 DEF Aged, Booked, age
  <2>3. Aged(c)'
    BY <1>1, <2>1, <2>2 DEF Aged, age, plain
  <2>4. CASE op.by # c
    <3>1. answer'[c] = answer[c]
      BY <1>1, <2>4, Parts DEF reply, Base
    <3> QED BY <1>1, <2>1, <2>3, <3>1 DEF Delivered, delivered, wants_router
  <2>5. CASE op.by = c
    <3>1. req[c].pc = "wait" /\ (op.kind = "apply" => op.doc = req[c].doc)
      BY <2>5 DEF Handing, Owned
    <3>2. op.kind \notin {"boot", "rerender"} /\ (op.pc = "journal" => op.kind = "apply" /\ op.doc = current.doc)
      BY <2>5, ClientsAssumption, Parts DEF Base, Router, Swapping, Central, Sectioned
    <3>3. answer'[c].tag = "failed" \/ (answer'[c].doc = req[c].doc /\ current.doc = req[c].doc)
      BY <1>1, <2>5, <3>1, <3>2, Parts DEF reply, Failed, Applied, Base
    <3>4. Delivered(c)'
      BY <1>1, <2>1, <3>1, <3>3 DEF Delivered, delivered, wants_router
    <3> QED BY <2>3, <3>4
  <2> QED BY <2>4, <2>5
<1>6. Converged'
  BY <1>1 DEF Central, Converged, converged
<1> QED BY <1>3, <1>4, <1>5, <1>6 DEF Central

\* The router's other steps.
LEMMA OnwardCentral ==
  ASSUME Base, Central, Idles \/ Advances \/ Boots, UNCHANGED <<native, req, section, egress, misled>>
  PROVE  Central'
<1>1. current' = current /\ answer' = answer /\ current_entry' = current_entry
  BY DEF Idles, Advances, Boots, fixed, moving, current_entry
<1>2. \/ /\ op'.kind = op.kind /\ op'.by = op.by /\ op'.doc = op.doc /\ op'.id = op.id
         /\ op'.pc = op.pc \/ (op.pc \in Busy /\ op'.pc \in Busy)
      \/ /\ op'.kind = "boot" /\ op'.by = "nobody" /\ op'.id = <<>> /\ (op'.pc = "boot" \/ op'.doc = current.doc)
         /\ op.kind # "apply"
  BY PlainStays DEF Idles, Advances, Boots, moving, Base, Central, Sectioned
<1>3. Sectioned'
  BY <1>1, <1>2 DEF Central, Sectioned, passing, plain, Busy
<1>4. Latest'
  BY <1>1, <1>2 DEF Central, Latest, Booked, plain
<1>5. ASSUME NEW c \in Clients, passing(c)' PROVE Aged(c)' /\ Delivered(c)'
  <2>1. Aged(c) /\ Delivered(c)
    BY <1>5 DEF Central, passing
  <2>2. Aged(c)'
    BY <1>1, <1>2, <2>1 DEF Aged, age, plain, Booked
  <2>3. Delivered(c)'
    BY <1>1, <1>2, <2>1 DEF Delivered, delivered, wants_router
  <2> QED BY <2>2, <2>3
<1>6. Converged'
  BY <1>1, <1>2 DEF Central, Converged, converged
<1> QED BY <1>3, <1>4, <1>5, <1>6 DEF Central

\* Every step of the router.
LEMMA RouterCentral ==
  ASSUME Base, Handing, Central, RouterStep \/ RouterMishaps
  PROVE  Central'
<1>1. UNCHANGED <<native, req, section, egress, misled>> /\ (RouterOwn \/ XrayDies \/ ManagerDies)
  BY RouterStepKeeps, MishapKeeps DEF node
<1>2. Idles \/ Advances \/ Commits \/ Breaks \/ Completes \/ Boots
  BY <1>1, RouterSteps DEF Base
<1> QED BY <1>1, <1>2, CommitsCentral, EndsCentral, OnwardCentral

\* A call made late: of a section that none has overtaken, and it misleads the pass and its report.
LEMMA LateCallCentral ==
  ASSUME Base, managed, Central, Lately, LateCall
  PROVE  Central'
<1>1. UNCHANGED <<native, req, section, egress>> /\ misled' = IF op' # op THEN {"report", "pass"} ELSE misled
  BY LateCallKeeps
<1>2. PICK call \in late : made("nobody", call)
  BY LateCallKeeps
<1>3. timely(call)
  BY <1>2 DEF Lately
<1>4. op.pc = "idle" /\ current' = current /\ history' = history /\ answer' = answer /\ current_entry' = current_entry
  BY <1>2, Takes, ClientsAssumption DEF fixed, Says, Starts, reply, current_entry
<1>5. CASE op' = op
  <2>1. Idles /\ misled' = misled
    BY <1>1, <1>4, <1>5 DEF Idles, fixed
  <2> QED BY <1>1, <2>1, OnwardCentral
<1>6. CASE op' # op
  <2>1. /\ op'.by = "nobody" /\ op'.pc = "render" /\ op'.kind = "apply" /\ op'.id = call.id /\ op'.doc = call.doc
        /\ revision = call.seen /\ (call.id = <<>> \/ current_entry.id # call.id)
    BY <1>2, <1>3, <1>6, Takes DEF timely, Says, Starts
  <2>2. call.id # <<>> /\ call.seen.gen = current.gen
    BY <1>3, <2>1 DEF timely, nodeIds, revision
  <2>3. Sectioned'
    BY <1>1, <1>4, <2>1 DEF Central, Sectioned, passing, plain
  <2>4. Latest'
    BY <1>1, <1>3, <1>4, <2>1, <2>2 DEF Central, Latest, Booked, plain, timely
  <2>5. ASSUME NEW c \in Clients, passing(c)' PROVE Aged(c)' /\ Delivered(c)'
    <3>1. Aged(c) /\ Delivered(c) /\ call.id[2] <= age(c)
      BY <1>1, <1>3, <2>5 DEF Central, passing, timely
    <3>2. Aged(c)'
      BY <1>1, <1>4, <2>1, <3>1, AgedStays DEF Same
    <3>3. Delivered(c)'
      BY <1>1, <1>4, <1>6, <3>1 DEF Delivered, wants_router
    <3> QED BY <3>2, <3>3
  <2>6. Converged'
    BY <1>1, <1>6 DEF Converged, converged
  <2> QED BY <2>3, <2>4, <2>5, <2>6 DEF Central
<1> QED BY <1>5, <1>6

\* What was read stays read.
LEMMA ReadStays ==
  ASSUME Base, (current' = current /\ (op'.pc = "journal" => op.pc = "journal")) \/ Commits, NEW seen \in Revisions, read(seen)
  PROVE  read(seen)' /\ (seen.gen = current'.gen => current' = current)
<1>1. seen.gen \in Nat /\ current.gen \in Nat
  BY Parts DEF Revisions, Base
<1>2. CASE current' = current /\ (op'.pc = "journal" => op.pc = "journal")
  BY <1>2 DEF read
<1>3. CASE Commits
  <2>1. current'.gen = current.gen + 1
    BY <1>3, Candidate DEF Commits, Base, Busy
  <2> QED BY <1>1, <2>1 DEF read
<1> QED BY <1>2, <1>3

\* A late call stays timely: what commits or is booked puts it out of date, and a pass or a section that begins is newer.
LEMMA TimelyStays ==
  ASSUME Base, NEW call \in Calls, timely(call),
         (current' = current /\ (op'.pc = "journal" => op.pc = "journal")) \/ Commits,
         history' = history \/ (op.pc = "journal" /\ current' = current),
         section' = section \/ section'.gen = section.gen + 1,
         \A c \in Clients : passing(c)' => (passing(c) /\ req'[c].id = req[c].id) \/ age(c)' = section.gen
  PROVE  timely(call)'
<1>1. call.seen \in Revisions
  BY DEF Calls
<1>2. read(call.seen)' /\ (call.seen.gen = current'.gen => current' = current)
  BY <1>1, ReadStays DEF timely
<1>3. section.gen \in Nat /\ call.id[2] \in Nat
  BY DEF Base, Panel, timely, nodeIds
<1>4. call.id[2] <= section'.gen /\ (call.id[2] = section'.gen => call.doc = section'.doc)
  BY <1>3 DEF timely
<1>5. call.seen.gen = current'.gen /\ current_entry'.id # <<>> => current_entry'.id[2] <= call.id[2]
  BY <1>2 DEF timely, read, current_entry
<1>6. \A c \in Clients : passing(c)' => call.id[2] <= age(c)'
  BY DEF timely, age
<1> QED BY <1>2, <1>4, <1>5, <1>6 DEF timely, plain

\* All of them, when none is new.
LEMMA LatelyStays ==
  ASSUME Base, Lately, late' \subseteq late,
         (current' = current /\ (op'.pc = "journal" => op.pc = "journal")) \/ Commits,
         history' = history \/ (op.pc = "journal" /\ current' = current),
         section' = section \/ section'.gen = section.gen + 1,
         \A c \in Clients : passing(c)' => (passing(c) /\ req'[c].id = req[c].id) \/ age(c)' = section.gen,
         \A c \in Clients : passing(c)' /\ req'[c].pc = "send" =>
            (passing(c) /\ req[c].pc = "send" /\ req'[c].seen = req[c].seen) \/ (req'[c].seen = revision /\ op'.pc = "idle" /\ current' = current)
  PROVE  Lately'
<1>1. \A call \in late' : timely(call)'
  <2>1. SUFFICES ASSUME NEW call \in late' PROVE timely(call)'
    OBVIOUS
  <2>2. call \in Calls /\ timely(call)
    BY DEF Base, Panel, Lately
  <2> QED BY <2>2, TimelyStays
<1>2. ASSUME NEW c \in Clients, passing(c)', req'[c].pc = "send" PROVE read(req[c].seen)'
  <2>1. CASE passing(c) /\ req[c].pc = "send" /\ req'[c].seen = req[c].seen
    <3>1. req[c].seen \in Revisions /\ read(req[c].seen)
      BY <2>1 DEF Base, Panel, Requests, Lately
    <3> DEFINE seen == req[c].seen
    <3>2. seen.gen <= current'.gen /\ (seen.gen = current'.gen => op'.pc # "journal")
      <4> HIDE DEF seen
      <4>1. seen \in Revisions /\ read(seen)
        BY <3>1 DEF seen
      <4>2. seen.gen \in Nat /\ current.gen \in Nat
        BY <4>1, Parts DEF Revisions, Base
      <4>3. CASE current' = current /\ (op'.pc = "journal" => op.pc = "journal")
        BY <4>1, <4>3 DEF read
      <4>4. CASE Commits
        <5>1. current'.gen = current.gen + 1
          BY <4>4, Candidate DEF Commits, Base, Busy
        <5> QED BY <4>1, <4>2, <5>1 DEF read
      <4> QED BY <4>3, <4>4
    <3> QED BY <2>1, <3>2 DEF read
  <2>2. CASE req'[c].seen = revision /\ op'.pc = "idle" /\ current' = current
    <3>1. req'[c].seen.gen = current'.gen /\ current'.gen \in Nat
      BY <2>2, Parts DEF revision, Base
    <3> QED BY <2>2, <3>1 DEF read
  <2> QED BY <1>2, <2>1, <2>2
<1> QED BY <1>1, <1>2 DEF Lately

\* A step of the pass.
LEMMA PassLately ==
  ASSUME Base, Central, Lately, NEW c \in Clients, Turned(c), passing(c), late' = late, UNCHANGED <<section, current, history>>,
         op' = op \/ op'.pc = "render",
         Ended(c) \/ (Same(c) /\ (req'[c].pc # "send" \/ (req'[c].seen = revision /\ op'.pc = "idle")))
  PROVE  Lately'
<1>1. \A d \in Clients : passing(d)' => d = c /\ Same(c)
  <2>1. \A d \in Clients : d # c => ~passing(d)
    BY DEF Central, Sectioned
  <2> QED BY <2>1, None DEF Turned, passing, Ended
<1>2. \A d \in Clients : passing(d)' => passing(d) /\ req'[d].id = req[d].id
  BY <1>1 DEF Same
<1>3. \A d \in Clients : passing(d)' /\ req'[d].pc = "send" => req'[d].seen = revision /\ op'.pc = "idle"
  BY <1>1, None DEF Ended, passing
<1> QED BY <1>2, <1>3, LatelyStays

\* The calls of a pass that is given up, and of one that dies, are late ones.
LEMMA LeavesLately ==
  ASSUME Base, Central, Lately, NEW cs \in SUBSET Clients, orphaned(cs), late' = left(cs), UNCHANGED <<section, disk>>,
         \A c \in Clients : passing(c)' => passing(c) /\ req'[c].id = req[c].id /\ (c \in cs => req'[c].pc # "send") /\ (c \notin cs => req'[c] = req[c])
  PROVE  Lately'
<1>1. current' = current /\ history' = history /\ op'.pc = op.pc
  BY Orphans DEF disk
<1>2. \A call \in late' : timely(call)
  <2>1. SUFFICES ASSUME NEW call \in late' PROVE timely(call)
    OBVIOUS
  <2>2. CASE call \in late
    BY <2>2 DEF Lately
  <2>3. CASE \E c \in cs : req[c].pc = "send" /\ call = call_of(req[c])
    <3>1. PICK c \in cs : req[c].pc = "send" /\ call = call_of(req[c])
      BY <2>3
    <3>2. passing(c)
      BY <3>1 DEF Base, Shaped, shape, Central, Sectioned, passing
    <3>3. call.kind = "apply" /\ call.id = req[c].id /\ call.doc = req[c].doc /\ call.seen = req[c].seen
      BY <3>1, <3>2, CallOf DEF passing, Base, Panel, Shaped
    <3>4. Aged(c) /\ read(req[c].seen)
      BY <3>1, <3>2 DEF Central, Lately
    <3>5. \A d \in Clients : passing(d) => d = c
      BY <3>2 DEF Central, Sectioned
    <3>6. age(c) \in Nat /\ call.id[2] = age(c)
      BY <3>3, <3>4 DEF Aged, age, nodeIds
    <3> QED BY <3>3, <3>4, <3>5, <3>6 DEF timely, Aged
  <2> QED BY <2>2, <2>3, LeftCalls
<1>3. late' \subseteq Calls
  BY LeftCalls
<1>4. \A call \in late' : timely(call)'
  <2>1. SUFFICES ASSUME NEW call \in late' PROVE timely(call)'
    OBVIOUS
  <2> QED BY <1>1, <1>2, <1>3, TimelyStays
<1>5. \A c \in Clients : passing(c)' /\ req'[c].pc = "send" => read(req[c].seen)'
  BY <1>1 DEF Lately, read
<1> QED BY <1>4, <1>5 DEF Lately

\* Every step.
LEMMA NextLately ==
  ASSUME Base, Handing, managed, Central, Lately, Next
  PROVE  Lately'
<1>1. ASSUME NEW c \in Clients, Ask(c) PROVE Lately'
  <2>1. AskSection(c)
    BY <1>1 DEF Ask, AskApply, AskRollback, AskLane, AskNoLane, AskMove
  <2>2. UNCHANGED <<section, current, history, late, op>>
    BY <2>1 DEF AskSection, router, disk, node
  <2>3. /\ Turned(c) /\ req'[c].kind = "section" /\ req'[c].id = <<"node", section.gen>> /\ req'[c].pc # "send"
    BY <2>1, AskSectionKeeps
  <2>4. \A d \in Clients : passing(d)' => (passing(d) /\ req'[d] = req[d]) \/ (d = c /\ age(d)' = section.gen)
    BY <2>3 DEF Turned, passing, age
  <2> QED BY <2>2, <2>3, <2>4, LatelyStays
<1>2. ASSUME NEW c \in Clients, Continue(c) PROVE Lately'
  <2>1. req[c].pc \notin {"native", "compile", "plan"} \cup Laning /\ (req[c].pc # "idle" => passing(c))
    BY DEF Base, Shaped, shape, Central, Sectioned, passing
  <2>2. ~ReadNative(c) /\ ~Compile(c) /\ ~Plan(c) /\ ~laning(c)
    BY <2>1 DEF ReadNative, Compile, Plan, laning, Mark, Push, Reissue, Unmark, Draft, at, Laning
  <2>3. CASE ReadRouter(c)
    <3>1. Turned(c) /\ req[c].pc = "router" /\ UNCHANGED <<section, current, history, late, op>>
      BY <2>3, ReadRouterKeeps DEF router, disk
    <3>2. Ended(c) \/ Noted(c) \/ (lock_free /\ Same(c) /\ req'[c].seen = revision)
      BY <2>3, ReadRouterKeeps
    <3> QED BY <2>1, <3>1, <3>2, PassLately DEF Noted, Held, lock_free
  <2>4. CASE Send(c)
    <3>1. Turned(c) /\ req[c].pc = "send" /\ UNCHANGED <<section, late>>
      BY <2>4, SendKeeps DEF node
    <3>2. \/ made(c, call_of(req[c])) /\ Held(c) /\ req'[c].pc = "wait"
          \/ UNCHANGED router /\ (Ended(c) \/ Noted(c) \/ Backs(c))
      BY <2>4, SendKeeps
    <3>3. CASE made(c, call_of(req[c])) /\ Held(c) /\ req'[c].pc = "wait"
      <4>1. UNCHANGED <<current, history>> /\ (op' = op \/ op'.pc = "render")
        BY <3>3, Takes DEF fixed, Says, Starts
      <4> QED BY <2>1, <3>1, <3>3, <4>1, PassLately DEF Held
    <3>4. CASE UNCHANGED router /\ (Ended(c) \/ Noted(c) \/ Backs(c))
      <4>1. UNCHANGED <<current, history, op>>
        BY <3>4 DEF router, disk
      <4> QED BY <2>1, <3>1, <3>4, <4>1, PassLately DEF Noted, Backs, Held
    <3> QED BY <3>2, <3>3, <3>4
  <2>5. CASE Answered(c)
    <3>1. Turned(c) /\ req[c].pc = "wait" /\ UNCHANGED <<section, current, history, late, op>>
      BY <2>5, AnsweredKeeps DEF node, disk
    <3>2. Ended(c) \/ (Same(c) /\ req'[c].pc = after_router(req[c])) \/ Noted(c) \/ Backs(c)
      BY <2>5, AnsweredKeeps
    <3>3. after_router(req[c]) # "send"
      BY <2>1, <3>1, AfterRouter DEF Base, Shaped, passing
    <3> QED BY <2>1, <3>1, <3>2, <3>3, PassLately DEF Noted, Backs, Held
  <2>6. CASE Handover(c)
    <3>1. Turned(c) /\ req[c].pc = "handover" /\ UNCHANGED <<section, current, history, late, op>>
      BY <2>6, HandoverKeeps DEF node, router, disk
    <3>2. Ended(c) \/ (Held(c) /\ req'[c].pc = after_native(req[c])) \/ Noted(c)
      BY <2>6, HandoverKeeps
    <3>3. after_native(req[c]) # "send"
      BY <2>1, <3>1 DEF after_native, passing, wants_router
    <3> QED BY <2>1, <3>1, <3>2, <3>3, PassLately DEF Noted, Held
  <2>7. CASE Record(c)
    <3>1. Turned(c) /\ Ended(c) /\ req[c].pc = "record" /\ UNCHANGED <<section, current, history, late, op>>
      BY <2>7, RecordKeeps DEF router, disk
    <3> QED BY <2>1, <3>1, PassLately
  <2> QED BY <1>2, <2>2, <2>3, <2>4, <2>5, <2>6, <2>7 DEF Continue, laning
<1>3. ASSUME NEW c \in Clients, GiveUp(c) PROVE Lately'
  <2>1. Turned(c) /\ orphaned({c}) /\ late' = left({c}) /\ UNCHANGED <<section, disk>>
    BY <1>3, GiveUpKeeps DEF node
  <2>2. Ended(c) \/ Noted(c) \/ Backs(c)
    BY <1>3, GiveUpKeeps
  <2>3. passing(c)' => passing(c) /\ req'[c].id = req[c].id /\ req'[c].pc # "send"
    BY <2>2, None DEF Ended, Noted, Backs, Held, Same, passing
  <2>4. \A d \in Clients : passing(d)' => passing(d) /\ req'[d].id = req[d].id /\ (d \in {c} => req'[d].pc # "send") /\ (d \notin {c} => req'[d] = req[d])
    BY <2>1, <2>3 DEF Turned, passing
  <2> QED BY <2>1, <2>4, LeavesLately
<1>4. CASE PanelDies
  <2>1. orphaned(Clients) /\ late' = left(Clients) /\ UNCHANGED <<section, disk>> /\ \A c \in Clients : req'[c] = NoRequest
    BY <1>4, PanelDiesKeeps DEF node
  <2>2. \A c \in Clients : ~passing(c)'
    BY <2>1, None DEF passing
  <2> QED BY <2>1, <2>2, LeavesLately
<1>5. ASSUME UNCHANGED <<req, current, history>>, late' \subseteq late, op' = op \/ op'.pc = "render",
             section' = section \/ section'.gen = section.gen + 1
      PROVE  Lately'
  <2>1. \A c \in Clients : passing(c)' => passing(c) /\ req'[c] = req[c]
    BY <1>5 DEF passing
  <2> QED BY <1>5, <2>1, LatelyStays
<1>6. ASSUME NEW backend, NEW doc, NewSection(backend, doc) PROVE Lately'
  <2>1. UNCHANGED <<req, current, history, late, op>> /\ section'.gen = section.gen + 1
    BY <1>6 DEF NewSection, router, disk
  <2> QED BY <1>5, <2>1
<1>7. CASE AskOther
  <2>1. UNCHANGED <<req, current, history, late, section>> /\ op'.pc = "render"
    BY <1>7, AskOtherKeeps DEF Rerender, taken, begin, node
  <2> QED BY <1>5, <2>1
<1>8. CASE LateCall
  <2>1. PICK call \in late : made("nobody", call)
    BY <1>8, LateCallKeeps
  <2>2. UNCHANGED <<req, section>> /\ late' \subseteq late
    BY <1>8, LateCallKeeps
  <2>3. UNCHANGED <<current, history>> /\ (op' = op \/ op'.pc = "render")
    BY <2>1, Takes DEF fixed, Says, Starts
  <2> QED BY <1>5, <2>2, <2>3
<1>9. CASE RouterStep \/ RouterMishaps
  <2>1. UNCHANGED <<req, section>> /\ late' \subseteq late /\ (RouterOwn \/ XrayDies \/ ManagerDies)
    BY <1>9, RouterStepKeeps, MishapKeeps DEF node
  <2>2. Idles \/ Advances \/ Commits \/ Breaks \/ Completes \/ Boots
    BY <2>1, RouterSteps DEF Base
  <2>3. (current' = current /\ (op'.pc = "journal" => op.pc = "journal")) \/ Commits
    BY <2>2, Idle DEF Idles, Advances, Breaks, Completes, Boots, fixed, Busy
  <2>4. history' = history \/ (op.pc = "journal" /\ current' = current)
    BY <2>2 DEF Idles, Advances, Commits, Breaks, Completes, Boots, fixed, moving
  <2>5. \A c \in Clients : passing(c)' => passing(c) /\ req'[c] = req[c]
    BY <2>1 DEF passing
  <2> QED BY <2>1, <2>3, <2>4, <2>5, LatelyStays
<1>10. ASSUME NEW l \in Lanes, Save(l) PROVE FALSE
  BY <1>10 DEF Save
<1> QED BY <1>1, <1>2, <1>3, <1>4, <1>6, <1>7, <1>8, <1>9, <1>10 DEF Next

\* The first state of a node under a central.
LEMMA InitCentral == Init => (managed => Central /\ Lately)
<1> SUFFICES ASSUME Init, managed PROVE Central /\ Lately
  OBVIOUS
<1>1. /\ \A c \in Clients : req[c] = NoRequest
      /\ late = {} /\ op = NoOp /\ section = [gen |-> 0, backend |-> "native", doc |-> Direct] /\ egress = [gen |-> 0, state |-> "none"]
      /\ current = Fresh /\ history = <<[doc |-> Direct, gen |-> 1, id |-> <<>>]>>
  BY DEF Init, RouterInit
<1>2. Len(history) = 1 /\ history[1] = [doc |-> Direct, gen |-> 1, id |-> <<>>]
  BY <1>1
<1>3. current_entry.id = <<>> /\ current.doc = Direct /\ plain(Direct)
  BY <1>1, <1>2 DEF current_entry, Fresh, plain, Direct, Lanes
<1>4. Sectioned
  BY <1>1, <1>3, None, Idle DEF Sectioned, passing
<1>5. Latest
  BY <1>1, <1>3, Idle DEF Latest, Booked
<1>6. Converged
  BY <1>1 DEF Converged, converged
<1>7. Lately
  BY <1>1, None DEF Lately, passing
<1> QED BY <1>1, <1>4, <1>5, <1>6, <1>7, None DEF Central, passing

\* Nobody but the central is heard on a node under one.
LEMMA NextManaged == ASSUME Next PROVE managed' = managed
<1>1. ASSUME NEW c \in Clients, Ask(c) PROVE managed' = managed
  BY <1>1 DEF Ask, AskApply, AskRollback, AskLane, AskNoLane, AskMove, AskSection
<1>2. ASSUME NEW c \in Clients, Continue(c) PROVE managed' = managed
  BY <1>2 DEF Continue, ReadNative, ReadRouter, Compile, Plan, Send, Answered, Handover, Record, Mark, Push, Reissue, Unmark, Draft
<1> QED BY <1>1, <1>2 DEF Next, GiveUp, Save, NewSection, AskOther, LateCall, PanelDies, RouterStep, RouterMishaps

\* Every step.
LEMMA NextCentral ==
  ASSUME Base, Handing, managed => Central /\ Lately, [Next]_vars
  PROVE  (managed => Central /\ Lately)'
<1>1. CASE UNCHANGED vars
  <2>1. UNCHANGED <<native, req, section, egress, misled, late, op, answer, current, history, managed>>
    BY <1>1 DEF vars, router, disk, node
  <2>2. SUFFICES ASSUME managed, Central, Lately PROVE Central' /\ Lately'
    BY <2>1
  <2>3. Idles
    BY <2>1 DEF Idles, fixed
  <2>4. \A c \in Clients : passing(c)' => passing(c) /\ req'[c] = req[c]
    BY <2>1 DEF passing
  <2>5. Lately'
    BY <2>1, <2>2, <2>4, LatelyStays
  <2> QED BY <2>1, <2>2, <2>3, <2>5, OnwardCentral
<1>2. CASE Next
  <2>1. SUFFICES ASSUME managed, Central, Lately PROVE Central'
    BY <1>2, NextManaged, NextLately
  <2>2. ASSUME NEW c \in Clients, Ask(c) PROVE Central'
    BY <2>1, <2>2, AskSectionCentral DEF Ask, AskApply, AskRollback, AskLane, AskNoLane, AskMove
  <2>3. ASSUME NEW c \in Clients, Continue(c) PROVE Central'
    <3>1. req[c].pc \notin {"native", "compile", "plan"} \cup Laning
      BY <2>1 DEF Base, Shaped, shape, Central, Sectioned
    <3>2. ~ReadNative(c) /\ ~Compile(c) /\ ~Plan(c) /\ ~laning(c)
      BY <3>1 DEF ReadNative, Compile, Plan, laning, Mark, Push, Reissue, Unmark, Draft, at, Laning
    <3> QED BY <2>1, <2>3, <3>2, ReadRouterCentral, SendCentral, AnsweredCentral, HandoverCentral, RecordCentral DEF Continue, laning
  <2>4. ASSUME NEW c \in Clients, GiveUp(c) PROVE Central'
    BY <2>1, <2>4, GiveUpCentral
  <2>5. ASSUME NEW l \in Lanes, Save(l) PROVE Central'
    BY <2>1, <2>5 DEF Save
  <2>6. ASSUME NEW doc \in Sections, NewSection("router", doc) PROVE Central'
    BY <2>1, <2>6, SectionDocs, NewSectionCentral DEF Backends
  <2>7. CASE NewSection("native", Direct)
    <3>1. plain(Direct)
      BY DEF plain, Direct, Lanes
    <3> QED BY <2>1, <2>7, <3>1, Values, NewSectionCentral DEF Backends
  <2>8. CASE AskOther
    BY <2>1, <2>8, AskOtherCentral
  <2>9. CASE LateCall
    BY <2>1, <2>9, LateCallCentral
  <2>10. CASE PanelDies
    BY <2>1, <2>10, PanelDiesCentral
  <2>11. CASE RouterStep \/ RouterMishaps
    BY <2>1, <2>11, RouterCentral
  <2> QED BY <1>2, <2>2, <2>3, <2>4, <2>5, <2>6, <2>7, <2>8, <2>9, <2>10, <2>11 DEF Next
<1> QED BY <1>1, <1>2

\* A node under a central keeps its router, its journal, its pass and its report in step; what a call of its own that
\* it had given up makes untrue is what the history says (apply_egress_section, egress_apply, commit_generation).
THEOREM CentralRules == Spec => [](Base /\ Handing /\ (managed => Central /\ Lately))
<1>1. Init => Base /\ Handing /\ (managed => Central /\ Lately)
  BY InitBase, InitHanding, InitCentral
<1>2. (Base /\ Handing /\ (managed => Central /\ Lately)) /\ [Next]_vars => (Base /\ Handing /\ (managed => Central /\ Lately))'
  BY NextBase, NextHanding, NextCentral
<1> QED BY <1>1, <1>2, PTL DEF Spec

\* A node reports a section converged only while its router and its service run it, whatever died, failed or was given
\* up on the way, for any number of sections; unless a call that it had given up was carried out since the pass that
\* reported, or since the last report of a pass that none misled, read the router (apply_egress_section).
THEOREM ConvergedSectionsRun == Spec => []ConvergedSectionRuns
<1>1. Base /\ Handing /\ (managed => Central /\ Lately) => ConvergedSectionRuns
  BY DEF Central, Converged, converged, ConvergedSectionRuns
<1> QED BY <1>1, CentralRules, PTL

\* Only a handover changes how the service sends its traffic.
LEMMA OnlyHandover ==
  ASSUME Base, Next, native' # native
  PROVE  \E c \in Clients : Handover(c)
<1>1. ASSUME NEW c \in Clients, Ask(c) \/ GiveUp(c) PROVE native' = native
  BY <1>1 DEF Ask, AskApply, AskRollback, AskLane, AskNoLane, AskMove, AskSection, GiveUp
<1>2. ASSUME NEW c \in Clients, Continue(c) PROVE native' = native \/ Handover(c)
  BY <1>2 DEF Continue, ReadNative, ReadRouter, Compile, Plan, Send, Answered, Record, Mark, Push, Reissue, Unmark, Draft
<1> QED BY <1>1, <1>2 DEF Next, Save, NewSection, AskOther, LateCall, PanelDies, RouterStep, RouterMishaps

\* A node hands its service to the router only when that runs the pass's policy, whoever else makes the router move,
\* unless a call that it had given up was carried out since the pass read the router (apply_egress_section).
THEOREM HandedOnlyToItsPolicy == Spec => HandedToItsPolicy
<1> DEFINE P == (managed /\ native'.attached /\ ~native.attached /\ "pass" \notin misled)
                  => \E c \in Clients : at(c, "handover") /\ current.doc = req[c].doc
<1>1. Base /\ Handing /\ (managed => Central /\ Lately) /\ [Next]_vars => P \/ UNCHANGED vars
  <2>1. SUFFICES ASSUME Base, Handing, managed, Central, Next, native'.attached, ~native.attached, "pass" \notin misled
                 PROVE  \E c \in Clients : at(c, "handover") /\ current.doc = req[c].doc
    OBVIOUS
  <2>2. PICK c \in Clients : Handover(c)
    BY <2>1, OnlyHandover
  <2>3. native' \in {native, [rev |-> native.rev + 1, attached |-> wants_router(req[c])]} /\ req[c].pc = "handover"
    BY <2>1, <2>2, HandoverKeeps
  <2>4. wants_router(req[c])
    BY <2>1, <2>3
  <2>5. passing(c)
    BY <2>1, <2>3 DEF Base, Shaped, shape, Central, Sectioned, passing
  <2>6. current.doc = req[c].doc
    BY <2>1, <2>3, <2>4, <2>5 DEF Central, Delivered, delivered
  <2> QED BY <2>3, <2>6 DEF at
<1>2. HandedToItsPolicy <=> [][P]_vars
  BY DEF HandedToItsPolicy
<1> HIDE DEF P
<1> QED BY <1>1, <1>2, CentralRules, PTL DEF Spec

---------------------------------------------------------------------------
(* What an apply leaves of the other lanes *)

\* No lane of a document is ahead of its policy.
covers(p, doc) == \A l \in Lanes : doc[l] <= p[l].body
\* A document takes no lane but its own back, and drops only such as were bare.
spares(lane, doc, cur, b) == \A l \in Lanes \ {lane} : doc[l] >= cur[l] \/ (doc[l] = 0 /\ l \in b)

\* Policies are only counted on, so no document anywhere is ahead of them ...
covered(r) == covers(policy, r.doc) /\ r.policy.body <= policy[r.lane].body
Covered ==
  /\ covers(policy, current.doc) /\ covers(policy, op.doc) /\ \A i \in 1..Len(history) : covers(policy, history[i].doc)
  /\ \A c \in Clients : covered(req[c]) /\ covers(policy, answer[c].doc)
  /\ \A call \in late : covers(policy, call.doc)
\* ... and an apply that compiled after it read the router takes nothing back from what it read.
ready(r) ==
  r.kind = "apply" =>
    /\ r.id[1] = r.lane
    /\ r.pc \in {"compile", "plan", "send"} => r.seen.gen <= current.gen
    /\ r.pc \in {"plan", "send"} /\ r.seen = revision => spares(r.lane, r.doc, current.doc, bare)
sparing(call) ==
  call.kind = "apply" /\ call.id[1] \in Lanes =>
    /\ call.seen.gen <= current.gen
    /\ call.seen = revision => spares(call.id[1], call.doc, current.doc, bare)
Spared ==
  /\ op.kind = "apply" /\ op.pc \in Busy /\ op.id[1] \in Lanes => spares(op.id[1], op.doc, current.doc, bare)
  /\ \A c \in Clients : ready(req[c])
  /\ \A call \in late : sparing(call)
Noticed == Lanes \ lane_policies \subseteq bare
Kept == Covered /\ Spared /\ Noticed

\* Documents that are covered.
LEMMA Covers ==
  ASSUME NEW p \in [Lanes -> Policies]
  PROVE  /\ covers(p, Direct)
         /\ \A doc \in Docs : covers(p, doc) => \A lanes : covers(p, without_lanes(doc, lanes))
<1>1. \A l \in Lanes : p[l].body \in Nat
  BY BoundsAssumption DEF Policies
<1>2. covers(p, Direct)
  BY <1>1 DEF covers, Direct
<1>3. ASSUME NEW doc \in Docs, covers(p, doc), NEW lanes PROVE covers(p, without_lanes(doc, lanes))
  BY <1>1, <1>3 DEF covers, without_lanes
<1> QED BY <1>2, <1>3

\* They stay covered.
LEMMA CoversGrows ==
  ASSUME NEW p \in [Lanes -> Policies], NEW q \in [Lanes -> Policies], \A l \in Lanes : q[l].body >= p[l].body,
         NEW doc \in Docs, covers(p, doc)
  PROVE  covers(q, doc)
<1>1. \A l \in Lanes : doc[l] \in Nat /\ p[l].body \in Nat /\ q[l].body \in Nat
  BY BoundsAssumption DEF Policies, Docs
<1> QED BY <1>1 DEF covers

\* A lane is bare as long as nothing commits.
LEMMA SparesGrows ==
  ASSUME NEW lane, NEW doc, NEW cur, NEW b, NEW d, b \subseteq d, spares(lane, doc, cur, b)
  PROVE  spares(lane, doc, cur, d)
BY DEF spares

\* What the journal holds after an operation was in it or is the operation's.
LEMMA BookedDocs ==
  ASSUME Machine, op.kind = "rollback" => Len(history) > 1, NEW p,
         covers(p, op.doc), \A i \in 1..Len(history) : covers(p, history[i].doc)
  PROVE  \A i \in 1..Len(booked) : covers(p, booked[i].doc)
<1>1. entry \in Entries /\ entry.doc = op.doc
  BY DEF Machine, Operations, entry, Entries
<1>2. history \in Seq(Entries) /\ Len(history) \in Nat /\ Len(history) >= 1 /\ Len(history) <= HistoryLimit /\ HistoryLimit \in Nat /\ HistoryLimit >= 2
  BY BoundsAssumption DEF Machine, Disk
<1>3. \A i \in 1..Len(history) : history[i] \in Entries
  BY <1>2
<1>4. CASE ~changed
  <2>1. current_entry \in Entries /\ covers(p, current_entry.doc)
    BY <1>2 DEF current_entry
  <2>2. [current_entry EXCEPT !.gen = op.gen] \in Entries /\ [current_entry EXCEPT !.gen = op.gen].doc = current_entry.doc
    BY <2>1 DEF Entries, Machine, Operations
  <2>3. booked = [history EXCEPT ![Len(history)] = [current_entry EXCEPT !.gen = op.gen]]
    BY <1>4 DEF booked, current_entry
  <2> DEFINE e == [current_entry EXCEPT !.gen = op.gen]
  <2>4. e \in Entries /\ covers(p, e.doc) /\ booked = [history EXCEPT ![Len(history)] = e]
    BY <2>1, <2>2, <2>3
  <2> HIDE DEF e
  <2>5. Len(booked) = Len(history) /\ \A i \in 1..Len(history) : booked[i] = IF i = Len(history) THEN e ELSE history[i]
    BY <1>2, <2>4
  <2> QED BY <2>4, <2>5
<1>5. CASE changed /\ op.kind = "rollback"
  <2> DEFINE n == Len(history) - 2
             s == SubSeq(history, 1, n)
  <2>1. n \in Nat /\ n <= Len(history)
    BY <1>2, <1>5
  <2>2. booked = Append(s, entry)
    BY <1>5 DEF booked
  <2>3. s \in Seq(Entries) /\ Len(s) = n /\ \A i \in 1..n : s[i] = history[i]
    <3> HIDE DEF n
    <3>1. n \in Int /\ 1 \in Int /\ \A i \in 1..n : history[i] \in Entries
      BY <1>2, <1>3, <2>1
    <3>2. s \in Seq(Entries) /\ Len(s) = (IF 1 <= n THEN n - 1 + 1 ELSE 0) /\ \A i \in 1 .. n - 1 + 1 : s[i] = history[1 + i - 1]
      BY <3>1, SubSeqProperties
    <3> QED BY <2>1, <3>2
  <2> HIDE DEF s, n
  <2>4. Len(booked) = n + 1 /\ \A i \in 1..(n + 1) : booked[i] = IF i = n + 1 THEN entry ELSE history[i]
    BY <1>1, <2>1, <2>2, <2>3, AppendProperties
  <2> QED BY <1>1, <1>2, <2>1, <2>4
<1>6. CASE changed /\ op.kind # "rollback"
  <2> DEFINE s == Append(history, entry)
  <2>1. s \in Seq(Entries) /\ Len(s) = Len(history) + 1 /\ \A i \in 1..(Len(history) + 1) : s[i] = IF i = Len(history) + 1 THEN entry ELSE history[i]
    BY <1>1, <1>2, AppendProperties
  <2>2. booked = limited(s)
    BY <1>6 DEF booked
  <2> HIDE DEF s
  <2>3. \A i \in 1..Len(s) : covers(p, s[i].doc) /\ s[i] \in Entries
    BY <1>1, <1>2, <1>3, <2>1
  <2>4. CASE Len(s) <= HistoryLimit
    BY <1>2, <2>1, <2>2, <2>3, <2>4 DEF limited
  <2>5. CASE Len(s) > HistoryLimit
    <3> DEFINE m == Len(s) - HistoryLimit + 1
    <3>1. booked = SubSeq(s, m, Len(s))
      BY <1>2, <2>1, <2>2, <2>5 DEF limited
    <3>2. m \in Nat /\ 1 <= m /\ m <= Len(s) /\ Len(s) \in Nat
      BY <1>2, <2>1, <2>5
    <3> HIDE DEF m
    <3>3. m \in Int /\ Len(s) \in Int /\ \A i \in m..Len(s) : s[i] \in Entries
      BY <2>3, <3>2
    <3>4. Len(booked) = Len(s) - m + 1 /\ \A i \in 1 .. Len(s) - m + 1 : booked[i] = s[m + i - 1]
      BY <3>1, <3>2, <3>3, SubSeqProperties
    <3>5. \A i \in 1 .. Len(s) - m + 1 : m + i - 1 \in 1..Len(s)
      BY <3>2
    <3> QED BY <2>3, <3>4, <3>5
  <2> QED BY <1>2, <2>1, <2>4, <2>5
<1> QED BY <1>4, <1>5, <1>6

\* Documents that were covered by the policies are by the next ones.
LEMMA CoveredGrows ==
  ASSUME Base, Base', grown,
         covers(policy, current'.doc), covers(policy, op'.doc), \A i \in 1..Len(history') : covers(policy, history'[i].doc),
         \A c \in Clients : covered(req'[c]) /\ covers(policy, answer'[c].doc),
         \A call \in late' : covers(policy, call.doc)
  PROVE  Covered'
<1>1. policy \in [Lanes -> Policies] /\ policy' \in [Lanes -> Policies] /\ \A l \in Lanes : policy'[l].body >= policy[l].body
  BY DEF Base, Panel, grown
<1>2. current'.doc \in Docs /\ op'.doc \in Docs
  BY DEF Base, Router, Machine, Disk, Generations, Operations
<1>3. \A i \in 1..Len(history') : history'[i].doc \in Docs
  <2>1. history' \in Seq(Entries)
    BY DEF Base, Router, Machine, Disk
  <2>2. \A i \in 1..Len(history') : history'[i] \in Entries
    BY <2>1
  <2> QED BY <2>2 DEF Entries
<1>4. \A c \in Clients : req'[c].doc \in Docs /\ answer'[c].doc \in Docs /\ req'[c].lane \in Lanes /\ req'[c].policy.body \in Nat
  <2>1. req' \in [Clients -> Requests] /\ answer' \in [Clients -> Answers]
    BY DEF Base, Router, Machine, Panel
  <2>2. \A c \in Clients : req'[c] \in Requests /\ answer'[c] \in Answers
    BY <2>1
  <2>3. \A c \in Clients : req'[c].doc \in Docs /\ answer'[c].doc \in Docs /\ req'[c].lane \in Lanes /\ req'[c].policy \in Policies
    BY <2>2 DEF Requests, Answers
  <2> QED BY <2>3, BoundsAssumption DEF Policies
<1>5. \A call \in late' : call.doc \in Docs
  BY DEF Base, Panel, Calls
<1>6. \A doc \in Docs : covers(policy, doc) => covers(policy', doc)
  BY <1>1, CoversGrows
<1>7. \A c \in Clients : req'[c].policy.body <= policy'[req'[c].lane].body
  <2>1. \A l \in Lanes : policy[l].body \in Nat /\ policy'[l].body \in Nat
    BY <1>1, BoundsAssumption DEF Policies
  <2> QED BY <1>1, <1>4, <2>1 DEF covered
<1> QED BY <1>2, <1>3, <1>4, <1>5, <1>6, <1>7 DEF Covered, covered

\* A request that goes on with what it has, or with what it was answered.
Goeson(c) ==
  \/ Ended(c)
  \/ req'[c].lane = req[c].lane /\ req'[c].policy = req[c].policy /\ req'[c].doc \in {req[c].doc, answer[c].doc}
LEMMA GoesonCovered ==
  ASSUME Base, Covered, NEW c \in Clients, Goeson(c)
  PROVE  covered(req'[c])
<1>1. covered(NoRequest)
  <2>1. NoPolicy.body <= policy["svc"].body
    BY None, BoundsAssumption DEF Base, Panel, Policies, Lanes
  <2> QED BY <2>1, None, Covers DEF covered, Base, Panel
<1> QED BY <1>1 DEF Goeson, Ended, Covered, covered

\* A step of one request that leaves the router alone.
LEMMA CoveredStep ==
  ASSUME Base, Base', Covered, grown, NEW c \in Clients, Turned(c), UNCHANGED <<current, history, op, answer>>,
         late' \subseteq late, covered(req'[c])
  PROVE  Covered'
<1>1. \A d \in Clients : covered(req'[d]) /\ covers(policy, answer'[d].doc)
  BY DEF Turned, Covered
<1> QED BY <1>1, CoveredGrows DEF Covered

\* A call that the router takes.
LEMMA CoveredTakes ==
  ASSUME Base, Covered, NEW by, NEW call, made(by, call), covers(policy, call.doc)
  PROVE  covers(policy, op'.doc) /\ \A d \in Clients : covers(policy, answer'[d].doc)
<1>1. policy \in [Lanes -> Policies] /\ answer \in [Clients -> Answers] /\ current.doc \in Docs /\ history \in Seq(Entries)
  BY Parts DEF Base, Panel
<1>2. covers(policy, Direct) /\ Failed.doc = Direct /\ Applied(call.doc).doc = call.doc
  BY <1>1, Covers DEF Failed, Applied
<1>3. covers(policy, op.doc) /\ \A d \in Clients : covers(policy, answer[d].doc)
  BY DEF Covered
<1>4. ASSUME NEW a, a \in {Failed, Applied(call.doc)}, Says(by, a)
      PROVE  covers(policy, op'.doc) /\ \A d \in Clients : covers(policy, answer'[d].doc)
  BY <1>1, <1>2, <1>3, <1>4 DEF Says, reply
<1>5. ASSUME Remade(op'.doc) PROVE covers(policy, op'.doc)
  <2>1. PICK lanes : \/ op'.doc = without_lanes(current.doc, lanes)
                     \/ Len(history) > 1 /\ op'.doc = without_lanes(previous_entry.doc, lanes)
    BY <1>5 DEF Remade
  <2>2. CASE op'.doc = without_lanes(current.doc, lanes)
    BY <1>1, <2>2, Covers DEF Covered
  <2>3. CASE Len(history) > 1 /\ op'.doc = without_lanes(previous_entry.doc, lanes)
    <3>1. Len(history) - 1 \in 1..Len(history)
      BY <1>1, <2>3
    <3>2. previous_entry \in Entries /\ covers(policy, previous_entry.doc)
      BY <1>1, <3>1 DEF previous_entry, Covered
    <3>3. previous_entry.doc \in Docs
      BY <3>2 DEF Entries
    <3> QED BY <1>1, <2>3, <3>2, <3>3, Covers
  <2> QED BY <2>1, <2>2, <2>3
<1>6. \/ \E a \in {Failed, Applied(call.doc)} : Says(by, a)
      \/ Starts(by) /\ (op'.doc = call.doc \/ Remade(op'.doc))
  BY Takes
<1> QED BY <1>3, <1>4, <1>5, <1>6 DEF Starts

\* Every step of the router.
LEMMA CoveredRouter ==
  ASSUME Base, Base', Covered, RouterStep \/ RouterMishaps
  PROVE  Covered'
<1>1. UNCHANGED <<req, policy>> /\ late' \subseteq late /\ (RouterOwn \/ XrayDies \/ ManagerDies)
  BY RouterStepKeeps, MishapKeeps DEF store
<1>2. Idles \/ Advances \/ Commits \/ Breaks \/ Completes \/ Boots
  BY <1>1, RouterSteps DEF Base
<1>3. policy \in [Lanes -> Policies] /\ answer \in [Clients -> Answers] /\ current.doc \in Docs
  BY Parts DEF Base, Panel
<1>4. covers(policy, Direct) /\ NoOp.doc = Direct /\ Failed.doc = Direct /\ Applied(op.doc).doc = op.doc
  BY <1>3, Covers, Idle DEF Failed, Applied
<1>5. covers(policy, current_intents)
  BY <1>3, Covers DEF current_intents, Covered
<1>6. covers(policy, current'.doc)
  BY <1>2, Candidate DEF Idles, Advances, Commits, Breaks, Completes, Boots, fixed, Covered, Base, Busy
<1>7. covers(policy, op'.doc)
  BY <1>2, <1>4, <1>5 DEF Idles, Advances, Commits, Breaks, Completes, Boots, moving, Covered
<1>8. \A i \in 1..Len(history') : covers(policy, history'[i].doc)
  <2>1. \A i \in 1..Len(booked) : covers(policy, booked[i].doc)
    BY BookedDocs DEF Base, Router, Swapping, Covered
  <2> QED BY <1>2, <2>1 DEF Idles, Advances, Commits, Breaks, Completes, Boots, moving, fixed, Covered
<1>9. \A c \in Clients : covers(policy, answer'[c].doc)
  <2>1. answer' = answer \/ reply(op.by, Failed) \/ reply(op.by, Applied(op.doc))
    BY <1>2 DEF Idles, Advances, Commits, Breaks, Completes, Boots, moving
  <2> QED BY <1>3, <1>4, <2>1 DEF reply, Covered
<1>10. grown
  <2>1. \A l \in Lanes : policy[l].body \in Nat
    BY <1>3, BoundsAssumption DEF Policies
  <2> QED BY <1>1, <2>1 DEF grown
<1> QED BY <1>1, <1>6, <1>7, <1>8, <1>9, <1>10, CoveredGrows DEF Covered

\* Nothing counts a policy back.
LEMMA Grows == ASSUME Base, policy' = policy PROVE grown
<1>1. \A l \in Lanes : policy[l].body \in Nat
  BY BoundsAssumption DEF Base, Panel, Policies
<1> QED BY <1>1 DEF grown

\* An apply is compiled from policies.
LEMMA CompiledCovered ==
  ASSUME Base, Covered, NEW c \in Clients
  PROVE  /\ covers(policy, compiled(req[c]))
         /\ Noticed => spares(req[c].lane, compiled(req[c]), current.doc, bare)
<1>1. \A l \in Lanes : policy[l].body \in Nat /\ current.doc[l] \in Nat /\ current.doc[l] <= policy[l].body
  BY Parts, BoundsAssumption DEF Base, Panel, Policies, Covered, covers, Docs
<1>2. req[c].lane \in Lanes /\ req[c].policy.body <= policy[req[c].lane].body
  BY DEF Base, Panel, Requests, Covered, covered
<1>3. covers(policy, compiled(req[c]))
  BY <1>1, <1>2 DEF covers, compiled
<1>4. ASSUME Noticed PROVE spares(req[c].lane, compiled(req[c]), current.doc, bare)
  BY <1>1, <1>4 DEF spares, compiled, Noticed
<1> QED BY <1>3, <1>4

\* Every step of a request.
LEMMA CoveredContinue ==
  ASSUME Base, Base', Covered, NEW c \in Clients, Continue(c)
  PROVE  Covered'
<1>1. CASE ReadNative(c) \/ ReadRouter(c) \/ Plan(c) \/ Handover(c)
  <2>1. Turned(c) /\ Goeson(c)
    BY <1>1, ReadNativeKeeps, ReadRouterKeeps, PlanKeeps, HandoverKeeps DEF Goeson, Same, Held, Noted
  <2>2. UNCHANGED <<current, history, op, answer, late, policy>>
    BY <1>1 DEF ReadNative, ReadRouter, Plan, Handover, router, disk, store
  <2> QED BY <2>1, <2>2, GoesonCovered, CoveredStep, Grows
<1>2. CASE Compile(c)
  <2>1. Turned(c) /\ UNCHANGED <<current, history, op, answer, late, policy>>
    BY <1>2, CompileKeeps DEF router, disk, store
  <2>2. Ended(c) \/ (Same(c) /\ req'[c].doc = compiled(req[c]))
    BY <1>2, CompileKeeps
  <2>3. covered(req'[c])
    BY <2>2, GoesonCovered, CompiledCovered DEF Goeson, Same, covered, Covered
  <2> QED BY <2>1, <2>3, CoveredStep, Grows
<1>3. CASE Send(c)
  <2>1. Turned(c) /\ UNCHANGED <<late, policy>> /\ Goeson(c) /\ (made(c, call_of(req[c])) \/ UNCHANGED router)
    BY <1>3, SendKeeps DEF store, Goeson, Held, Noted, Backs, Same
  <2>2. covered(req'[c])
    BY <2>1, GoesonCovered
  <2>3. CASE made(c, call_of(req[c]))
    <3>1. covers(policy, call_of(req[c]).doc)
      BY CallOf DEF Base, Panel, Shaped, Covered, covered
    <3>2. covers(policy, op'.doc) /\ \A d \in Clients : covers(policy, answer'[d].doc)
      BY <2>3, <3>1, CoveredTakes
    <3>3. UNCHANGED <<current, history>>
      BY <2>3, Takes DEF fixed
    <3>4. \A d \in Clients : covered(req'[d])
      BY <2>1, <2>2 DEF Turned, Covered
    <3> QED BY <2>1, <3>2, <3>3, <3>4, CoveredGrows, Grows DEF Covered
  <2>4. CASE UNCHANGED router
    BY <2>1, <2>2, <2>4, CoveredStep, Grows DEF router, disk
  <2> QED BY <2>1, <2>3, <2>4
<1>4. CASE Answered(c)
  <2>1. Turned(c) /\ UNCHANGED <<current, history, op, late, policy>> /\ answer' = [answer EXCEPT ![c] = Pending]
    BY <1>4, AnsweredKeeps DEF disk, store
  <2>2. Goeson(c)
    BY <1>4, AnsweredKeeps DEF Goeson, Same, Held, Noted, Backs
  <2>3. \A d \in Clients : covers(policy, answer'[d].doc)
    <3>1. covers(policy, Pending.doc) /\ answer \in [Clients -> Answers]
      BY Covers, Parts DEF Pending, Base, Panel
    <3> QED BY <2>1, <3>1 DEF Covered
  <2>4. \A d \in Clients : covered(req'[d])
    BY <2>1, <2>2, GoesonCovered DEF Turned, Covered
  <2> QED BY <2>1, <2>3, <2>4, CoveredGrows, Grows DEF Covered
<1>5. CASE Record(c)
  <2>1. Turned(c) /\ Ended(c) /\ grown /\ UNCHANGED <<current, history, op, answer, late>>
    BY <1>5, RecordKeeps DEF router, disk
  <2> QED BY <2>1, GoesonCovered, CoveredStep DEF Goeson
<1>6. CASE laning(c)
  <2>1. Turned(c) /\ Lanely(c) /\ grown /\ UNCHANGED <<current, history, op, answer, late>>
    BY <1>6, LaningKeeps DEF router, disk
  <2>2. Goeson(c)
    BY <2>1 DEF Lanely, Goeson, Forgets, Same
  <2> QED BY <2>1, <2>2, GoesonCovered, CoveredStep
<1> QED BY <1>1, <1>2, <1>3, <1>4, <1>5, <1>6 DEF Continue, laning

\* Every step of a panel of its own.
LEMMA NextCovered ==
  ASSUME Base, Base', ~managed, Covered, Next
  PROVE  Covered'
<1>0. policy \in [Lanes -> Policies] /\ covers(policy, Direct)
  BY Covers DEF Base, Panel
<1>1. ASSUME NEW c \in Clients, Ask(c) PROVE Covered'
  <2>1. UNCHANGED <<current, history, op, answer, late, policy>>
    BY <1>1 DEF Ask, AskApply, AskRollback, AskLane, AskNoLane, AskMove, AskSection, router, disk, store
  <2>2. \A l \in Lanes : policy[l].body \in Nat
    BY <1>0, BoundsAssumption DEF Policies
  <2>3. /\ Turned(c) /\ req'[c].doc = Direct
        /\ req'[c].lane \in Lanes /\ (req'[c].policy = NoPolicy \/ req'[c].policy = policy[req'[c].lane])
    <3>1. CASE \E l \in Lanes : AskApply(c, l) \/ AskRollback(c, l)
      BY <3>1, AskApplyKeeps, AskRollbackKeeps
    <3>2. CASE \E l \in GrantLanes : AskLane(c, l) \/ AskNoLane(c, l)
      BY <3>2, AskLaneKeeps DEF Lanes
    <3>3. CASE AskMove(c, "attach") \/ AskMove(c, "detach")
      BY <3>3, AskMoveKeeps DEF Moving, Lanes
    <3> QED BY <1>1, <3>1, <3>2, <3>3 DEF Ask, AskSection
  <2>4. covered(req'[c])
    BY <1>0, <2>2, <2>3, None DEF covered
  <2> QED BY <2>1, <2>3, <2>4, CoveredStep, Grows
<1>2. ASSUME NEW c \in Clients, Continue(c) PROVE Covered'
  BY <1>2, CoveredContinue
<1>3. ASSUME NEW cs \in SUBSET Clients, orphaned(cs), late' = left(cs), UNCHANGED <<disk, store>>,
             \A c \in Clients : covered(req'[c])
      PROVE  Covered'
  <2>1. UNCHANGED <<current, history, policy>> /\ op'.doc = op.doc
    BY <1>3, Orphans DEF disk, store
  <2>2. \A c \in Clients : covers(policy, answer'[c].doc)
    <3>1. Pending.doc = Direct
      BY DEF Pending
    <3> QED BY <1>0, <1>3, <3>1 DEF orphaned, Covered
  <2>3. \A call \in late' : covers(policy, call.doc)
    <3>1. \A c \in Clients : covers(policy, call_of(req[c]).doc)
      BY CallOf DEF Base, Panel, Shaped, Covered, covered
    <3> QED BY <1>3, <3>1, LeftCalls DEF Covered
  <2> QED BY <1>3, <2>1, <2>2, <2>3, CoveredGrows, Grows DEF Covered
<1>4. ASSUME NEW c \in Clients, GiveUp(c) PROVE Covered'
  <2>1. Turned(c) /\ orphaned({c}) /\ late' = left({c}) /\ UNCHANGED <<disk, store>>
    BY <1>4, GiveUpKeeps
  <2>2. Goeson(c)
    BY <1>4, GiveUpKeeps DEF Goeson, Noted, Backs, Held, Same
  <2>3. \A d \in Clients : covered(req'[d])
    BY <2>1, <2>2, GoesonCovered DEF Turned, Covered
  <2> QED BY <1>3, <2>1, <2>3
<1>5. CASE PanelDies
  <2>1. orphaned(Clients) /\ late' = left(Clients) /\ UNCHANGED <<disk, store>> /\ \A c \in Clients : Ended(c)
    BY <1>5, PanelDiesKeeps DEF Ended
  <2>2. \A d \in Clients : covered(req'[d])
    BY <2>1, GoesonCovered DEF Goeson
  <2> QED BY <1>3, <2>1, <2>2
<1>6. ASSUME NEW l \in Lanes, Save(l) PROVE Covered'
  <2>1. UNCHANGED <<router, req, late>> /\ grown
    BY <1>6, SaveKeeps
  <2> QED BY <2>1, CoveredGrows DEF Covered, router, disk
<1>7. CASE AskOther
  <2>1. UNCHANGED <<policy, req, late, current, history, answer>> /\ op'.doc = current_intents
    BY <1>7, AskOtherKeeps DEF Rerender, taken, begin, store
  <2>2. covers(policy, current_intents)
    BY <1>0, Covers, Parts DEF current_intents, Covered, Base
  <2> QED BY <2>1, <2>2, CoveredGrows, Grows DEF Covered
<1>8. CASE LateCall
  <2>1. PICK call \in late : made("nobody", call)
    BY <1>8, LateCallKeeps
  <2>2. UNCHANGED <<policy, req>> /\ late' \subseteq late
    BY <1>8, LateCallKeeps DEF store
  <2>3. covers(policy, op'.doc) /\ \A d \in Clients : covers(policy, answer'[d].doc)
    BY <2>1, CoveredTakes DEF Covered
  <2>4. UNCHANGED <<current, history>>
    BY <2>1, Takes DEF fixed
  <2> QED BY <2>2, <2>3, <2>4, CoveredGrows, Grows DEF Covered
<1>9. CASE RouterStep \/ RouterMishaps
  BY <1>9, CoveredRouter
<1>10. ASSUME NEW backend, NEW doc, NewSection(backend, doc) PROVE FALSE
  BY <1>10 DEF NewSection
<1> QED BY <1>1, <1>2, <1>4, <1>5, <1>6, <1>7, <1>8, <1>9, <1>10 DEF Next

\* What is under way takes nothing back as long as nothing commits, and is out of date when something does.
LEMMA SparedStays ==
  ASSUME Base, Base', (current' = current /\ bare \subseteq bare') \/ Commits,
         op'.kind = "apply" /\ op'.pc \in Busy /\ op'.id[1] \in Lanes => current' = current /\ spares(op'.id[1], op'.doc, current.doc, bare),
         \A c \in Clients : ready(req'[c]), \A call \in late' : sparing(call)
  PROVE  Spared'
<1>1. current.gen \in Nat /\ (\A c \in Clients : req'[c].seen.gen \in Nat) /\ \A call \in late' : call.seen.gen \in Nat
  BY Parts DEF Base, Panel, Requests, Calls, Revisions
<1>2. CASE current' = current /\ bare \subseteq bare'
  <2>1. revision' = revision
    BY <1>2 DEF revision
  <2>2. \A lane, doc : spares(lane, doc, current.doc, bare) => spares(lane, doc, current.doc, bare')
    BY <1>2, SparesGrows
  <2>3. op'.kind = "apply" /\ op'.pc \in Busy /\ op'.id[1] \in Lanes => spares(op'.id[1], op'.doc, current'.doc, bare')
    BY <1>2, <2>2
  <2>4. \A c \in Clients : ready(req[c])'
    BY <1>2, <2>1, <2>2 DEF ready
  <2>5. \A call \in late' : sparing(call)'
    BY <1>2, <2>1, <2>2 DEF sparing
  <2> QED BY <2>3, <2>4, <2>5 DEF Spared
<1>3. CASE Commits
  <2>1. current'.gen = current.gen + 1 /\ op'.pc \notin Busy
    BY <1>3, Candidate DEF Commits, Base, Busy
  <2>2. revision'.gen = current.gen + 1
    BY <2>1 DEF revision
  <2>3. \A c \in Clients : ready(req[c])'
    <3>1. SUFFICES ASSUME NEW c \in Clients PROVE ready(req[c])'
      OBVIOUS
    <3>2. ready(req'[c])
      OBVIOUS
    <3>3. req'[c].seen.gen <= current.gen => req'[c].seen.gen <= current'.gen /\ req'[c].seen # revision'
      BY <1>1, <2>1, <2>2
    <3> QED BY <3>2, <3>3 DEF ready
  <2>4. \A call \in late' : sparing(call)'
    <3>1. SUFFICES ASSUME NEW call \in late' PROVE sparing(call)'
      OBVIOUS
    <3>2. sparing(call)
      OBVIOUS
    <3>3. call.seen.gen <= current.gen => call.seen.gen <= current'.gen /\ call.seen # revision'
      BY <1>1, <2>1, <2>2
    <3> QED BY <3>2, <3>3 DEF sparing
  <2> QED BY <2>1, <2>3, <2>4 DEF Spared
<1> QED BY <1>2, <1>3

\* The call of a request takes back as little as the request.
LEMMA CallSparing ==
  ASSUME Base, Handing, ~managed, Spared, NEW c \in Clients, req[c].pc = "send"
  PROVE  sparing(call_of(req[c]))
<1>1. SUFFICES ASSUME call_of(req[c]).kind = "apply", call_of(req[c]).id[1] \in Lanes PROVE sparing(call_of(req[c]))
  BY DEF sparing
<1>2. /\ call_of(req[c]).id = req[c].id /\ call_of(req[c]).doc = req[c].doc /\ call_of(req[c]).seen = req[c].seen
      /\ req[c].kind \notin {"on", "off", "forget", "rollback"}
  BY <1>1, CallOf DEF Base, Panel, Shaped
<1>3. req[c].kind \notin Moving
  <2>1. SUFFICES ASSUME req[c].kind \in Moving PROVE FALSE
    OBVIOUS
  <2>2. req[c].id \in Stamps
    BY <2>1 DEF Handing, Stamped
  <2>3. req[c].id[1] = "stamp"
    BY <2>2 DEF Stamps
  <2> QED BY <1>1, <1>2, <2>3, LanesAssumption DEF Lanes
<1>4. req[c].kind = "apply"
  <2>1. req[c].kind \in Kinds /\ req[c].kind # "none" /\ req[c].kind # "section"
    BY DEF Base, Panel, Requests, Shaped, shape, Handing, Seen
  <2> QED BY <1>2, <1>3, <2>1 DEF Kinds, Moving
<1>5. ready(req[c])
  BY DEF Spared
<1> QED BY <1>2, <1>4, <1>5 DEF ready, sparing

\* A call that the router takes.
LEMMA SparedTakes ==
  ASSUME Base, NEW by, NEW call, made(by, call), sparing(call)
  PROVE  /\ current' = current
         /\ op'.kind = "apply" /\ op'.pc \in Busy /\ op'.id[1] \in Lanes => spares(op'.id[1], op'.doc, current.doc, bare)
<1>1. current' = current /\ op.pc = "idle"
  BY Takes DEF fixed
<1>2. \/ op' = op
      \/ op'.kind # "apply"
      \/ call.kind = "apply" /\ op'.id = call.id /\ op'.doc = call.doc /\ revision = call.seen
  BY Takes DEF Says, Starts
<1> QED BY <1>1, <1>2 DEF Busy, sparing

\* A request that compiled nothing new.
Readily(c) == req'[c].kind # "apply" \/ (Held(c) /\ (req'[c].pc \in {"compile", "plan", "send"} => req[c].pc = req'[c].pc \/ (req[c].pc = "plan" /\ req'[c].pc = "send")))
LEMMA ReadilyReady ==
  ASSUME Spared, NEW c \in Clients, Readily(c)
  PROVE  ready(req'[c])
<1>1. ready(req[c])
  BY DEF Spared
<1> QED BY <1>1 DEF Readily, ready, Held, Same

\* Every step of a request.
LEMMA SparedContinue ==
  ASSUME Base, Base', Handing, ~managed, Kept, NEW c \in Clients, Continue(c), noted
  PROVE  Spared'
<1>0. current' = current => bare \subseteq bare'
  BY DEF noted
<1>1. ASSUME Turned(c), UNCHANGED <<current, op, late>>, ready(req'[c]) PROVE Spared'
  <2>1. \A d \in Clients : ready(req'[d])
    BY <1>1 DEF Turned, Kept, Spared
  <2>2. \A call \in late' : sparing(call)
    BY <1>1 DEF Kept, Spared
  <2> QED BY <1>0, <1>1, <2>1, <2>2, SparedStays DEF Kept, Spared
<1>2. CASE ReadNative(c) \/ Plan(c) \/ Handover(c)
  <2>1. UNCHANGED <<current, op, late>>
    BY <1>2 DEF ReadNative, Plan, Handover, router, disk
  <2>2. Turned(c) /\ (req'[c].kind = "apply" => req'[c].pc \notin {"compile", "plan", "send"} \/ Readily(c))
    <3>1. CASE ReadNative(c)
      BY <3>1, ReadNativeKeeps, None DEF Ended
    <3>2. CASE Plan(c)
      BY <3>2, PlanKeeps DEF Readily
    <3>3. CASE Handover(c)
      <4>1. Turned(c) /\ req[c].pc = "handover" /\ (Held(c) \/ Ended(c) \/ Noted(c))
        BY <3>3, HandoverKeeps
      <4>2. req[c].kind # "apply"
        BY <4>1 DEF Base, Shaped, shape
      <4> QED BY <4>1, <4>2, None DEF Ended, Noted, Held, Same
    <3> QED BY <1>2, <3>1, <3>2, <3>3
  <2>3. req'[c].kind = "apply" => req'[c].id = req[c].id /\ req'[c].lane = req[c].lane /\ req[c].kind = "apply"
    BY <1>2, ReadNativeKeeps, PlanKeeps, HandoverKeeps, None DEF Ended, Noted, Held, Same
  <2>4. ready(req'[c])
    <3>1. ready(req[c])
      BY DEF Kept, Spared
    <3> QED BY <2>2, <2>3, <3>1, ReadilyReady DEF ready, Kept
  <2> QED BY <1>1, <2>1, <2>2, <2>4
<1>3. CASE ReadRouter(c)
  <2>1. Turned(c) /\ UNCHANGED <<current, op, late>> /\ req[c].pc = "router"
    BY <1>3, ReadRouterKeeps DEF router, disk
  <2>2. CASE Same(c) /\ req'[c].pc = decided(req[c], revision) /\ req'[c].seen = revision
    <3>1. req[c].kind = "apply" => req'[c].pc = "compile"
      BY <2>2 DEF decided
    <3>2. revision.gen = current.gen /\ current.gen \in Nat
      BY Parts DEF revision, Base
    <3>3. ready(req[c])
      BY DEF Kept, Spared
    <3>4. ready(req'[c])
      BY <2>2, <3>1, <3>2, <3>3 DEF ready, Same
    <3> QED BY <1>1, <2>1, <3>4
  <2>3. CASE Ended(c) \/ (Noted(c) /\ req[c].kind = "section")
    <3>1. req'[c].kind # "apply"
      BY <2>3, None DEF Ended, Noted, Held, Same
    <3> QED BY <1>1, <2>1, <3>1 DEF ready
  <2> QED BY <1>3, <2>2, <2>3, ReadRouterKeeps
<1>4. CASE Compile(c)
  <2>1. Turned(c) /\ UNCHANGED <<current, op, late>> /\ req[c].pc = "compile" /\ req[c].kind = "apply"
    BY <1>4, CompileKeeps DEF router, disk
  <2>2. CASE Ended(c)
    BY <1>1, <2>1, <2>2, None DEF Ended, ready
  <2>3. CASE Same(c) /\ req'[c].pc = "plan" /\ req'[c].doc = compiled(req[c]) /\ req'[c].seen = req[c].seen
    <3>1. spares(req[c].lane, compiled(req[c]), current.doc, bare)
      BY CompiledCovered DEF Kept
    <3>2. ready(req[c])
      BY DEF Kept, Spared
    <3>3. ready(req'[c])
      BY <2>1, <2>3, <3>1, <3>2 DEF ready, Same
    <3> QED BY <1>1, <2>1, <3>3
  <2> QED BY <1>4, <2>2, <2>3, CompileKeeps
<1>5. CASE Send(c)
  <2>1. Turned(c) /\ UNCHANGED late /\ req[c].pc = "send"
    BY <1>5, SendKeeps
  <2>2. Readily(c)
    BY <1>5, SendKeeps, None DEF Readily, Ended, Noted, Backs, Held, Same
  <2>3. ready(req'[c])
    BY <2>2, ReadilyReady DEF Kept
  <2>4. CASE UNCHANGED router
    BY <1>1, <2>1, <2>3, <2>4 DEF router, disk
  <2>5. CASE made(c, call_of(req[c]))
    <3>1. sparing(call_of(req[c]))
      BY <2>1, CallSparing DEF Kept
    <3>2. /\ current' = current
          /\ op'.kind = "apply" /\ op'.pc \in Busy /\ op'.id[1] \in Lanes => spares(op'.id[1], op'.doc, current.doc, bare)
      BY <2>5, <3>1, SparedTakes
    <3>3. (\A d \in Clients : ready(req'[d])) /\ \A call \in late' : sparing(call)
      BY <2>1, <2>3 DEF Turned, Kept, Spared
    <3> QED BY <1>0, <3>2, <3>3, SparedStays
  <2> QED BY <1>5, <2>4, <2>5, SendKeeps
<1>6. CASE Answered(c)
  <2>1. Turned(c) /\ UNCHANGED <<current, op, late>> /\ req[c].pc = "wait"
    BY <1>6, AnsweredKeeps DEF disk
  <2>2. Ended(c) \/ (Same(c) /\ req'[c].pc = after_router(req[c])) \/ Noted(c) \/ Backs(c)
    BY <1>6, AnsweredKeeps
  <2>3. req[c].kind = "apply" => after_router(req[c]) = "record"
    BY AfterRouter DEF wants_router, Base, Shaped
  <2>4. ready(req[c])
    BY DEF Kept, Spared
  <2>5. ready(req'[c])
    BY <2>2, <2>3, <2>4, None DEF ready, Ended, Noted, Backs, Held, Same
  <2> QED BY <1>1, <2>1, <2>5
<1>7. CASE Record(c)
  <2>1. Turned(c) /\ UNCHANGED <<current, op, late>> /\ Ended(c)
    BY <1>7, RecordKeeps DEF router, disk
  <2> QED BY <1>1, <2>1, None DEF Ended, ready
<1>8. CASE laning(c)
  <2>1. Turned(c) /\ UNCHANGED <<current, op, late>> /\ Lanely(c) /\ req[c].pc \in Laning
    BY <1>8, LaningKeeps DEF router, disk
  <2>2. req[c].kind # "apply"
    BY <2>1 DEF Base, Shaped, shape
  <2>3. req'[c].kind # "apply"
    BY <2>1, <2>2, None DEF Lanely, Ended, Forgets, Same
  <2> QED BY <1>1, <2>1, <2>3 DEF ready
<1> QED BY <1>2, <1>3, <1>4, <1>5, <1>6, <1>7, <1>8 DEF Continue, laning

\* Every step of a panel of its own.
LEMMA NextSpared ==
  ASSUME Base, Base', Handing, ~managed, Kept, Next
  PROVE  Spared'
<1>0. noted /\ (current' = current => bare \subseteq bare')
  BY DEF Next, noted
<1>00. \A c \in Clients : ready(req[c])
  BY DEF Kept, Spared
<1>1. ASSUME NEW c \in Clients, Ask(c) PROVE Spared'
  <2>1. UNCHANGED <<current, op, late>>
    BY <1>1 DEF Ask, AskApply, AskRollback, AskLane, AskNoLane, AskMove, AskSection, router, disk
  <2>2. Turned(c) /\ ready(req'[c])
    <3>1. CASE \E l \in Lanes : AskApply(c, l)
      BY <3>1, AskApplyKeeps DEF ready
    <3>2. CASE \E l \in Lanes : AskRollback(c, l)
      BY <3>2, AskRollbackKeeps DEF ready
    <3>3. CASE \E l \in GrantLanes : AskLane(c, l) \/ AskNoLane(c, l)
      BY <3>3, AskLaneKeeps DEF ready
    <3>4. CASE AskMove(c, "attach") \/ AskMove(c, "detach")
      BY <3>4, AskMoveKeeps DEF Moving, ready
    <3> QED BY <1>1, <3>1, <3>2, <3>3, <3>4 DEF Ask, AskSection
  <2>3. (\A d \in Clients : ready(req'[d])) /\ \A call \in late' : sparing(call)
    BY <2>1, <2>2 DEF Turned, Kept, Spared
  <2> QED BY <1>0, <2>1, <2>3, SparedStays DEF Kept, Spared
<1>2. ASSUME NEW c \in Clients, Continue(c) PROVE Spared'
  BY <1>0, <1>2, SparedContinue
<1>3. ASSUME NEW cs \in SUBSET Clients, orphaned(cs), late' = left(cs), UNCHANGED disk, \A c \in Clients : ready(req'[c])
      PROVE  Spared'
  <2>1. current' = current /\ op'.kind = op.kind /\ op'.pc = op.pc /\ op'.id = op.id /\ op'.doc = op.doc
    BY <1>3, Orphans DEF disk
  <2>2. \A call \in late' : sparing(call)
    <3>1. \A c \in Clients : req[c].pc = "send" => sparing(call_of(req[c]))
      BY CallSparing DEF Kept
    <3> QED BY <1>3, <3>1, LeftCalls DEF Kept, Spared
  <2> QED BY <1>0, <1>3, <2>1, <2>2, SparedStays DEF Kept, Spared
<1>4. ASSUME NEW c \in Clients, GiveUp(c) PROVE Spared'
  <2>1. Turned(c) /\ orphaned({c}) /\ late' = left({c}) /\ UNCHANGED disk
    BY <1>4, GiveUpKeeps
  <2>2. Readily(c)
    BY <1>4, GiveUpKeeps, None DEF Readily, Ended, Noted, Backs, Held, Same
  <2>3. \A d \in Clients : ready(req'[d])
    BY <1>00, <2>1, <2>2, ReadilyReady DEF Turned, Kept
  <2> QED BY <1>3, <2>1, <2>3
<1>5. CASE PanelDies
  <2>1. orphaned(Clients) /\ late' = left(Clients) /\ UNCHANGED disk /\ \A c \in Clients : req'[c] = NoRequest
    BY <1>5, PanelDiesKeeps
  <2>2. \A d \in Clients : ready(req'[d])
    BY <2>1, None DEF ready
  <2> QED BY <1>3, <2>1, <2>2
<1>6. ASSUME UNCHANGED req, late' \subseteq late, (current' = current /\ bare \subseteq bare') \/ Commits,
             op'.kind = "apply" /\ op'.pc \in Busy /\ op'.id[1] \in Lanes => current' = current /\ spares(op'.id[1], op'.doc, current.doc, bare)
      PROVE  Spared'
  <2>1. (\A c \in Clients : ready(req'[c])) /\ \A call \in late' : sparing(call)
    BY <1>6 DEF Kept, Spared
  <2> QED BY <1>6, <2>1, SparedStays
<1>7. ASSUME NEW l \in Lanes, Save(l) PROVE Spared'
  <2>1. UNCHANGED <<current, op, req, late>>
    BY <1>7, SaveKeeps DEF router, disk
  <2> QED BY <1>0, <1>6, <2>1 DEF Kept, Spared
<1>8. CASE AskOther
  <2>1. UNCHANGED <<req, late, current>> /\ op'.kind = "rerender"
    BY <1>8, AskOtherKeeps DEF Rerender, taken, begin
  <2> QED BY <1>0, <1>6, <2>1
<1>9. CASE LateCall
  <2>1. PICK call \in late : made("nobody", call)
    BY <1>9, LateCallKeeps
  <2>2. UNCHANGED req /\ late' \subseteq late
    BY <1>9, LateCallKeeps
  <2>3. /\ current' = current
        /\ op'.kind = "apply" /\ op'.pc \in Busy /\ op'.id[1] \in Lanes => spares(op'.id[1], op'.doc, current.doc, bare)
    BY <2>1, SparedTakes DEF Kept, Spared
  <2> QED BY <1>0, <1>6, <2>2, <2>3
<1>10. CASE RouterStep \/ RouterMishaps
  <2>1. UNCHANGED req /\ late' \subseteq late /\ (RouterOwn \/ XrayDies \/ ManagerDies)
    BY <1>10, RouterStepKeeps, MishapKeeps
  <2>2. Idles \/ Advances \/ Commits \/ Breaks \/ Completes \/ Boots
    BY <2>1, RouterSteps DEF Base
  <2>3. current' = current \/ Commits
    BY <2>2 DEF Idles, Advances, Breaks, Completes, Boots, fixed
  <2>4. op'.kind = "apply" /\ op'.pc \in Busy => current' = current /\ op.kind = "apply" /\ op.pc \in Busy /\ op'.id = op.id /\ op'.doc = op.doc
    BY <2>2, Idle DEF Idles, Advances, Commits, Breaks, Completes, Boots, fixed, moving, Busy
  <2> QED BY <1>0, <1>6, <2>1, <2>3, <2>4 DEF Kept, Spared
<1>11. ASSUME NEW backend, NEW doc, NewSection(backend, doc) PROVE FALSE
  BY <1>11 DEF NewSection
<1> QED BY <1>1, <1>2, <1>4, <1>5, <1>7, <1>8, <1>9, <1>10, <1>11 DEF Next

\* The first state of a panel of its own: every lane runs its policy.
LEMMA InitKept == Init => (~managed => Kept)
<1> SUFFICES ASSUME Init, ~managed PROVE Kept
  OBVIOUS
<1> DEFINE ones == [l \in Lanes |-> 1]
<1>1. Laid.doc = ones /\ ones # Direct /\ ones \in Docs
  <2>1. "svc" \in Lanes /\ 1 \in 0..MaxBody
    BY BoundsAssumption DEF Lanes
  <2>2. ones["svc"] = 1 /\ Direct["svc"] = 0
    BY <2>1 DEF Direct
  <2> QED BY <2>1, <2>2 DEF Laid, Docs
<1> HIDE DEF ones
<1>2. Laid # Fresh
  BY <1>1 DEF Fresh
<1>3. /\ \A c \in Clients : req[c] = NoRequest /\ answer[c] = Pending
      /\ late = {} /\ op = NoOp /\ current = Laid /\ own = GrantLanes /\ bare = {}
      /\ history = <<[doc |-> Direct, gen |-> 2, id |-> <<>>], [doc |-> ones, gen |-> 3, id |-> <<"svc", 1, 2>>]>>
  BY <1>1, <1>2 DEF Init, RouterInit
<1>4. \A l \in Lanes : policy[l].body = 1 /\ policy[l].state = "applied"
  BY DEF Init, NoPolicy
<1>5. policy \in [Lanes -> Policies]
  BY InitBase DEF Base, Panel
<1>6. covers(policy, ones) /\ covers(policy, Direct)
  BY <1>4, <1>5, Covers DEF covers, ones
<1>7. \A i \in 1..Len(history) : covers(policy, history[i].doc)
  <2>1. Len(history) = 2 /\ history[1].doc = Direct /\ history[2].doc = ones
    BY <1>3
  <2>2. \A i \in 1..2 : i = 1 \/ i = 2
    OBVIOUS
  <2> QED BY <1>6, <2>1, <2>2
<1>8. covered(NoRequest)
  <2>1. "svc" \in Lanes
    BY DEF Lanes
  <2> QED BY <1>4, <1>6, <2>1, None DEF covered
<1>9. Covered
  BY <1>1, <1>3, <1>6, <1>7, <1>8, Idle DEF Covered, Pending
<1>10. Spared
  BY <1>3, None, Idle DEF Spared, ready, Busy
<1>11. Noticed
  BY <1>3, <1>4 DEF Noticed, lane_policies, Lanes
<1> QED BY <1>9, <1>10, <1>11 DEF Kept

\* Every step of a panel of its own.
LEMMA NextKept ==
  ASSUME Base, Handing, ~managed => Kept, [Next]_vars
  PROVE  (~managed => Kept)'
<1>1. CASE Next
  <2>1. SUFFICES ASSUME ~managed, Kept PROVE Kept'
    BY <1>1, NextManaged
  <2>2. Base'
    BY <1>1, NextBase
  <2>3. Noticed'
    BY <1>1 DEF Next, noted, Noticed
  <2> QED BY <1>1, <2>1, <2>2, <2>3, NextCovered, NextSpared DEF Kept
<1>2. CASE UNCHANGED vars
  <2>1. UNCHANGED <<current, history, op, answer, req, late, policy, own, bare, managed>>
    BY <1>2 DEF vars, router, disk, store
  <2>2. Covered' = Covered
    BY <2>1 DEF Covered, covered
  <2>3. Spared' = Spared
    BY <2>1 DEF Spared, ready, sparing, revision
  <2>4. Noticed' = Noticed
    BY <2>1 DEF Noticed, lane_policies
  <2> QED BY <2>1, <2>2, <2>3, <2>4 DEF Kept
<1> QED BY <1>1, <1>2

\* On a panel of its own nothing under way takes another lane back.
THEOREM LanesKept == Spec => [](Base /\ Handing /\ (managed => Central /\ Lately) /\ (~managed => Kept))
<1>1. Init => (~managed => Kept)
  BY InitKept
<1>2. Base /\ Handing /\ (~managed => Kept) /\ [Next]_vars => (~managed => Kept)'
  BY NextKept
<1> QED BY <1>1, <1>2, CentralRules, PTL DEF Spec

\* The apply of a lane takes no other lane back to an older body, and drops one only that had no policy or no lane at
\* some moment since the router's last generation: for any number of callers and lanes, and whatever fails, dies or
\* comes late (compile of all lanes, egress_apply's revision).
THEOREM OthersKept == Spec => OthersNeverTakenBack
<1> DEFINE P == (current' # current /\ op.kind = "apply" /\ op.id[1] \in Lanes)
                  => \A l \in Lanes \ {op.id[1]} : current'.doc[l] >= current.doc[l] \/ (current'.doc[l] = 0 /\ l \in bare)
<1>1. Base /\ Handing /\ (managed => Central /\ Lately) /\ (~managed => Kept) /\ [Next]_vars => P \/ UNCHANGED vars
  <2>1. SUFFICES ASSUME Base, managed => Central, ~managed => Kept, Next, current' # current, op.kind = "apply", op.id[1] \in Lanes,
                        NEW l \in Lanes \ {op.id[1]}
                 PROVE  current'.doc[l] >= current.doc[l] \/ (current'.doc[l] = 0 /\ l \in bare)
    OBVIOUS
  <2>2. Commits
    BY <2>1, OnlyCommits
  <2>3. op.pc = "current" /\ current'.doc = op.doc
    BY <2>1, <2>2, Candidate DEF Commits, Base, Busy
  <2>4. ~managed
    <3>1. managed => op.id \in nodeIds
      BY <2>1 DEF Central, Latest
    <3>2. op.id \in nodeIds => op.id[1] = "node"
      BY DEF nodeIds
    <3> QED BY <2>1, <3>1, <3>2, LanesAssumption DEF Lanes
  <2>5. spares(op.id[1], op.doc, current.doc, bare)
    BY <2>1, <2>3, <2>4 DEF Kept, Spared, Busy
  <2> QED BY <2>3, <2>5 DEF spares
<1>2. OthersNeverTakenBack <=> [][P]_vars
  BY DEF OthersNeverTakenBack
<1> HIDE DEF P
<1> QED BY <1>1, <1>2, LanesKept, PTL DEF Spec

=============================================================================
