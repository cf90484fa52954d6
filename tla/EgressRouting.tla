--------------------------- MODULE EgressRouting ---------------------------
(***************************************************************************)
(* Who changes what the router runs: the panel's routing service           *)
(* (routing/src/service.rs, store.rs, lanes.rs), whose requests run side   *)
(* by side and hold no lock, and on a node under a central the             *)
(* reconciler's egress sections (fleet/src/node/reconcile.rs). Both work   *)
(* on two managers: the router and the service's own (native), which       *)
(* either sends the service's traffic out itself or hands it to the        *)
(* router ("attached").                                                    *)
(*                                                                         *)
(* A request reads, waits, and writes under the revision it read: a        *)
(* changed revision refuses it. The caller waits 8 seconds, a swap may     *)
(* take longer: a request is given up while its call still waits for the   *)
(* router's lock (late) or while the router works on it.                   *)
(*                                                                         *)
(* One service with the lanes of its grants, its policy on the router: the *)
(* native backends' own documents are not told apart, and what the         *)
(* service's manager makes of the lanes it is told (set_lanes) is not      *)
(* kept. A node under a central has no lanes.                              *)
(***************************************************************************)
EXTENDS RouterManager

VARIABLES
  managed,  \* a central manages the node: the panel's own requests are refused
  native,   \* the service's manager: its revision and whether it hands its traffic to the router
  policy,   \* routing_policies of the service and its lanes
  own,      \* access_grants.routing_lane = 'own'
  req,      \* what each caller is at
  late,     \* calls given up that wait for the router's lock
  section,  \* the egress section of the node's generation
  egress,   \* managed_egress
  misled,   \* history: what a node's late call has made untrue, the pass's reading of the router or also the report
  bare      \* history: lanes that had no policy at some moment since the router's last generation

store == <<policy, own>>
node == <<section, egress, misled>>
vars == <<router, managed, native, store, req, late, node, bare, requests, edits, crashes, faults>>

NoPolicy == [row |-> 0, rev |-> 0, body |-> 0, backend |-> "router", state |-> "none"]
NoRequest == [pc |-> "idle", kind |-> "none", lane |-> "svc", policy |-> NoPolicy, attached |-> FALSE, native |-> 0,
              seen |-> [gen |-> 0, doc |-> Direct], doc |-> Direct, id |-> <<>>, ok |-> TRUE, turn |-> "svc", todo |-> {}]

Backends == {"native", "router"}
Revisions == [gen : Nat, doc : Docs]
Policies ==
  [row : Nat, rev : Nat, body : 0..MaxBody, backend : Backends,
   state : {"none", "draft", "applied", "failed", "rolled_back"}]
Kinds == {"none", "apply", "rollback", "attach", "detach", "on", "off", "forget", "section"}
Requests ==
  [pc : {"idle", "native", "router", "compile", "plan", "send", "wait", "handover", "record",
         "mark", "push", "reissue", "unmark", "draft"},
   kind : Kinds, lane : Lanes, policy : Policies, attached : BOOLEAN, native : Nat, seen : Revisions, doc : Docs,
   id : OperationIds, ok : BOOLEAN, turn : Lanes, todo : SUBSET GrantLanes]
Calls == [kind : {"apply", "rollback", "issue", "forget"}, lane : Lanes, seen : Revisions, doc : Docs, id : OperationIds]
TypeOK ==
  /\ RouterTypeOK
  /\ managed \in BOOLEAN /\ native \in [rev : Nat, attached : BOOLEAN]
  /\ policy \in [Lanes -> Policies] /\ own \subseteq GrantLanes
  /\ req \in [Clients -> Requests] /\ late \subseteq Calls
  /\ section \in [gen : Nat, backend : Backends, doc : Docs]
  /\ egress \in [gen : Nat, state : {"none", "converged", "failed"}]
  /\ misled \in {{}, {"report"}, {"report", "pass"}} /\ bare \subseteq Lanes

\* A panel of its own, whose service runs its policy and its lanes' on the router; or a node that a
\* central took over, with a policy that was never applied.
Init ==
  /\ managed \in BOOLEAN
  /\ RouterInit(IF managed THEN Fresh ELSE Laid, <<"svc", 1, 2>>)
  /\ own = (IF managed THEN {} ELSE GrantLanes) /\ native = [rev |-> 1, attached |-> ~managed]
  /\ policy = [l \in Lanes |->
       IF managed THEN [NoPolicy EXCEPT !.backend = "native"]
       ELSE [NoPolicy EXCEPT !.row = 1, !.rev = IF l = "svc" THEN 2 ELSE 1, !.body = 1, !.state = "applied"]]
  /\ req = [c \in Clients |-> NoRequest] /\ late = {}
  /\ section = [gen |-> 0, backend |-> "native", doc |-> Direct]
  /\ egress = [gen |-> 0, state |-> "none"]
  /\ misled = {} /\ bare = IF managed THEN Lanes ELSE {}

---------------------------------------------------------------------------
(* How a request goes on *)

at(c, pc) == req[c].pc = pc
done(c) == req' = [req EXCEPT ![c] = NoRequest]
goes(c, pc) == req' = [req EXCEPT ![c].pc = pc]
\* Refused before anything was written; the reconciler takes note of it.
refused(c) == IF req[c].kind = "section" THEN req' = [req EXCEPT ![c].pc = "record", ![c].ok = FALSE] ELSE done(c)
\* enable and disable have told the grant and not yet the service's manager.
pushing(r) == r.kind = "off" \/ (r.kind = "on" /\ r.turn # r.lane)
\* Told it could not be, what was told the grant is taken back; not so after a runtime failure of a manager.
unpushed(c) == goes(c, "unmark") \/ done(c)
\* A manager failed it; an apply takes note of it too.
failed(c) ==
  IF pushing(req[c]) THEN unpushed(c)
  ELSE IF req[c].kind = "apply" THEN req' = [req EXCEPT ![c].pc = "record", ![c].ok = FALSE] ELSE refused(c)

asked == requests < (IF managed THEN MaxPasses ELSE MaxRequests) /\ requests' = requests + 1 /\ fine /\ UNCHANGED <<edits, crashes>>
edited(max) == edits < max /\ edits' = edits + 1 /\ UNCHANGED <<requests, crashes>>
asks(c, r) == at(c, "idle") /\ asked /\ req' = [req EXCEPT ![c] = r]
idly == UNCHANGED <<requests, edits>>
quiet == idly /\ UNCHANGED crashes

\* The policies that the router runs for the service: its own and those of the grants that have a lane.
lane_policies == {l \in {"svc"} \cup own : policy[l].state # "none"}
wants_router(r) == r.kind = "attach" \/ (r.kind = "section" /\ r.policy.backend = "router")

\* Mutant: the policy leaves the router before the service does.
WithdrawnFirst(r, seen) ==
  CASE r.kind = "apply" -> "compile" [] r.kind = "rollback" -> "send"
    [] r.kind = "section" -> IF seen.doc # r.doc THEN "send" ELSE IF wants_router(r) THEN "handover" ELSE "record"
    [] OTHER -> IF seen.doc # Direct THEN "send" ELSE "handover"
\* Mutant: a section hands the service over before the router has its policy.
HandedFirst(r, seen) ==
  CASE r.kind = "apply" -> "compile" [] r.kind = "rollback" -> "send" [] r.kind = "section" -> "handover" [] OTHER -> "record"
\* What follows the reads: attach gives the router the pass-through before the service, detach takes
\* the service back first.
decided(r, seen) ==
  CASE r.kind = "apply" -> "compile" [] r.kind = "rollback" -> "send"
    [] r.kind = "section" -> IF seen.doc # r.doc THEN "send" ELSE IF wants_router(r) THEN "handover" ELSE "record"
    [] r.kind = "attach" -> IF r.attached THEN "record" ELSE IF seen.doc # Direct THEN "send" ELSE "handover"
    [] r.kind = "detach" -> IF r.attached THEN "handover" ELSE IF seen.doc # Direct THEN "send" ELSE "record"

\* What follows the router's part, and the service's.
after_router(r) ==
  CASE wants_router(r) -> "handover" [] r.kind = "forget" -> "idle" [] pushing(r) -> "reissue"
    [] r.kind = "on" /\ ~pushing(r) -> "mark" [] OTHER -> "record"
\* Mutant: a native section leaves the router as it was.
NoCompanion(r) == IF r.kind = "detach" /\ r.seen.doc # Direct THEN "send" ELSE "record"
after_native(r) ==
  CASE r.kind = "attach" \/ wants_router(r) -> "record"
    [] r.kind = "section" /\ ~wants_router(r) -> "router"
    [] r.kind = "detach" -> IF r.seen.doc # Direct THEN "send" ELSE "record"

---------------------------------------------------------------------------
(* The requests *)

exists(l) == policy[l].state # "none"
\* A lane without a policy gets a draft in a row of its own; bodies are counted on.
next_body(l) == IF policy[l].body < MaxBody THEN policy[l].body + 1 ELSE MaxBody
drafted(l, backend) == [row |-> policy[l].row + 1, rev |-> 1, body |-> next_body(l), backend |-> backend, state |-> "draft"]

\* save, of the service or a grant that has a lane: a new body under a new revision; where the policy
\* stands on the node is kept.
Save(l) ==
  /\ ~managed /\ l \in {"svc"} \cup own /\ policy[l].body < MaxBody
  /\ \/ exists(l) /\ policy' = [policy EXCEPT ![l].rev = @ + 1, ![l].body = @ + 1]
     \/ ~exists(l) /\ \E backend \in Backends : policy' = [policy EXCEPT ![l] = drafted(l, backend)]
  /\ edited(MaxSaves) /\ fault /\ UNCHANGED <<router, managed, native, own, req, late, node>>

\* for_change: the policy as it is now goes along with the request; whether the grant has its lane is not asked.
AskApply(c, l) ==
  /\ ~managed /\ exists(l) /\ policy[l].backend = "router"
  /\ asks(c, [NoRequest EXCEPT !.kind = "apply", !.pc = "native", !.lane = l, !.policy = policy[l],
                               !.id = <<l, policy[l].row, policy[l].rev>>])
  /\ UNCHANGED <<router, managed, native, store, late, node>>

AskRollback(c, l) ==
  /\ ~managed /\ exists(l) /\ policy[l].backend = "router"
  /\ asks(c, [NoRequest EXCEPT !.kind = "rollback", !.pc = "native", !.lane = l, !.policy = policy[l]])
  /\ UNCHANGED <<router, managed, native, store, late, node>>

\* attach, detach: their operation ids carry the time.
AskMove(c, kind) ==
  /\ ~managed
  /\ asks(c, [NoRequest EXCEPT !.kind = kind, !.pc = "native", !.policy = policy["svc"], !.id = <<"stamp", requests>>])
  /\ UNCHANGED <<router, managed, native, store, late, node>>

\* enable: the account first.
AskLane(c, l) ==
  /\ ~managed /\ l \notin own
  /\ asks(c, [NoRequest EXCEPT !.kind = "on", !.pc = "send", !.lane = l, !.turn = l])
  /\ UNCHANGED <<router, managed, native, store, late, node>>

\* disable: the grant first.
AskNoLane(c, l) ==
  /\ ~managed /\ l \in own
  /\ asks(c, [NoRequest EXCEPT !.kind = "off", !.pc = "mark", !.lane = l])
  /\ UNCHANGED <<router, managed, native, store, late, node>>

\* A new generation of the central brings the service's section.
NewSection(backend, doc) ==
  /\ managed /\ edited(MaxSections) /\ fine
  /\ section' = [gen |-> section.gen + 1, backend |-> backend, doc |-> doc]
  /\ UNCHANGED <<router, managed, native, store, req, late, egress, misled>>

\* apply_egress_section, one pass at a time: a router section begins at the router, a native one at the service.
AskSection(c) ==
  /\ managed /\ section.gen > 0 /\ \A d \in Clients : at(d, "idle")
  /\ asks(c, [NoRequest EXCEPT !.kind = "section", !.pc = IF section.backend = "router" THEN "router" ELSE "handover",
                               !.policy.backend = section.backend, !.doc = section.doc, !.id = <<"node", section.gen>>])
  /\ UNCHANGED <<router, managed, native, store, late, node>>

\* Another service, the relay, new geodata.
AskOther ==
  /\ asked /\ Rerender
  /\ UNCHANGED <<managed, native, store, req, late, node>>

---------------------------------------------------------------------------
(* Their steps *)

\* The service's manager: its revision and its mode; it may not answer.
ReadNative(c) ==
  /\ at(c, "native") /\ quiet
  /\ \/ fine /\ req' = [req EXCEPT ![c].pc = "router", ![c].attached = native.attached, ![c].native = native.rev]
     \/ fault /\ refused(c)
  /\ UNCHANGED <<router, managed, native, store, late, node>>

\* The router's revision and document, behind its lock.
ReadRouter(c) ==
  /\ at(c, "router") /\ quiet
  /\ \/ /\ lock_free /\ fine /\ req' = [req EXCEPT ![c].pc = decided(req[c], revision), ![c].seen = revision]
        /\ misled' = IF req[c].kind = "section" THEN misled \ {"pass"} ELSE misled
     \/ ((~up /\ fine) \/ fault) /\ refused(c) /\ misled' = misled
  /\ UNCHANGED <<router, managed, native, store, late, section, egress>>

\* Mutant: only the request's own lane.
OnlyItself(r) == [l \in Lanes |-> IF l = r.lane THEN r.policy.body ELSE 0]
\* The request's policy as it was when it began, the service's other lanes as they are now.
compiled(r) ==
  [l \in Lanes |-> IF l = r.lane THEN r.policy.body ELSE IF l \in lane_policies THEN policy[l].body ELSE 0]

\* Relay accounts were delivered in between; a service that is not attached is refused.
Compile(c) ==
  /\ at(c, "compile") /\ fine /\ quiet
  /\ \/ req[c].attached /\ req' = [req EXCEPT ![c].pc = "plan", ![c].doc = compiled(req[c])]
     \/ ~req[c].attached /\ refused(c)
  /\ UNCHANGED <<router, managed, native, store, late, node>>

\* egress_plan: what apply would check, and a test of the rendered generation.
Plan(c) ==
  LET plans == state.phase = "idle" /\ unmoved(req[c].seen) /\ renders(req[c].doc)
  IN /\ at(c, "plan") /\ quiet
     /\ \/ lock_free /\ plans /\ fine /\ goes(c, "send")
        \/ ((lock_free /\ ~plans /\ fine) \/ (~up /\ fine) \/ fault) /\ failed(c)
     /\ UNCHANGED <<router, managed, native, store, late, node>>

\* What the router is asked: to issue a lane's account, to forget it, to roll back, or to run a document.
call_of(r) ==
  [kind |-> CASE r.kind \in {"on", "off"} -> "issue" [] r.kind \in {"forget", "rollback"} -> r.kind [] OTHER -> "apply",
   lane |-> IF r.kind \in {"on", "off"} THEN r.turn ELSE r.lane, seen |-> r.seen, doc |-> r.doc, id |-> r.id]

\* The manager takes the lock for a call.
made(by, call) ==
  \/ call.kind = "rollback" /\ EgressRollback(by, call.seen)
  \/ call.kind = "issue" /\ LaneIssue(by, call.lane)
  \/ call.kind = "forget" /\ LaneForget(by, call.lane)
  \/ call.kind = "apply" /\ EgressApply(by, call.seen, call.doc, call.id)

Send(c) ==
  /\ at(c, "send") /\ idly
  /\ \/ made(c, call_of(req[c])) /\ goes(c, "wait")
     \/ ~up /\ fine /\ failed(c) /\ UNCHANGED <<router, crashes>>
  /\ UNCHANGED <<managed, native, store, late, node>>

\* A call that was given up gets the lock. One that a node's central has long replaced is carried out all the same.
LateCall ==
  /\ \E call \in late : made("nobody", call) /\ late' = late \ {call}
  /\ misled' = IF managed /\ op' # op THEN {"report", "pass"} ELSE misled
  /\ UNCHANGED <<managed, native, store, req, section, egress, requests, edits>>

\* The router's answer. Nobody asks how a lane_forget went.
Answered(c) ==
  /\ at(c, "wait") /\ answer[c] # Pending /\ fine /\ quiet
  /\ answer' = [answer EXCEPT ![c] = Pending]
  /\ \/ /\ answer[c].tag = "ok"
        /\ IF after_router(req[c]) = "idle" THEN done(c)
           ELSE req' = [req EXCEPT ![c].pc = after_router(req[c]), ![c].doc = answer[c].doc]
     \/ answer[c].tag = "failed" /\ failed(c)
  /\ UNCHANGED <<disk, process, op, up, managed, native, store, late, node>>

\* The caller waits no longer: the call may still wait for the lock, the operation goes on.
left(cs) == late \cup {call_of(req[c]) : c \in {d \in cs : at(d, "send")}}
orphaned(cs) ==
  /\ op' = IF op.by \in cs THEN [op EXCEPT !.by = "nobody"] ELSE op
  /\ answer' = [c \in Clients |-> IF c \in cs THEN Pending ELSE answer[c]]
GiveUp(c) ==
  /\ req[c].pc \in {"send", "wait"} /\ fault /\ quiet
  /\ late' = left({c}) /\ orphaned({c}) /\ failed(c)
  /\ UNCHANGED <<disk, process, up, managed, native, store, node>>

\* apply_egress of the service's manager, under the revision that was read. A failure may come after the write.
Handover(c) ==
  LET r == req[c]
      moved == [rev |-> native.rev + 1, attached |-> wants_router(r)]
      same == r.kind = "section" /\ native.attached = wants_router(r)
      matches == r.kind = "section" \/ r.native = native.rev
  IN /\ at(c, "handover") /\ quiet
     /\ \/ /\ (matches \/ same) /\ fine /\ native' = IF same THEN native ELSE moved
           /\ goes(c, after_native(r))
        \/ ~matches /\ fine /\ refused(c) /\ native' = native
        \/ fault /\ refused(c) /\ native' \in {native} \cup (IF matches /\ ~same THEN {moved} ELSE {})
     /\ UNCHANGED <<router, managed, store, late, node>>

\* What the panel writes down. A policy that is gone takes the record with it.
alive(r) == exists(r.lane) /\ policy[r.lane].row = r.policy.row
marked(lanes, state_) == [l \in Lanes |-> IF l \in lanes THEN [policy[l] EXCEPT !.state = state_] ELSE policy[l]]
retargeted(r, backend) ==
  IF r.policy.backend = backend THEN policy
  ELSE [policy EXCEPT !["svc"].rev = @ + 1, !["svc"].backend = backend, !["svc"].state = "draft"]
Record(c) ==
  LET r == req[c]
  IN /\ at(c, "record") /\ fine /\ quiet /\ done(c)
     /\ policy' = CASE r.kind = "apply" /\ alive(r) /\ r.ok -> marked(lane_policies \cup {r.lane}, "applied")
                    [] r.kind = "apply" /\ alive(r) /\ ~r.ok -> marked({r.lane}, "failed")
                    [] r.kind = "rollback" /\ alive(r) -> marked({r.lane}, "rolled_back")
                    [] r.kind = "attach" -> retargeted(r, "router")
                    [] r.kind = "detach" -> retargeted(r, "native")
                    [] OTHER -> policy
     /\ egress' = IF r.kind = "section" THEN [gen |-> r.id[2], state |-> IF r.ok THEN "converged" ELSE "failed"] ELSE egress
     /\ misled' = IF r.kind = "section" /\ "pass" \notin misled THEN {} ELSE misled
     /\ UNCHANGED <<router, managed, native, own, late, section>>

\* enable and disable write the grant before the service's manager is told ...
Mark(c) ==
  /\ at(c, "mark") /\ fine /\ quiet /\ goes(c, "push")
  /\ own' = IF req[c].kind = "on" THEN own \cup {req[c].lane} ELSE own \ {req[c].lane}
  /\ UNCHANGED <<router, managed, native, policy, late, node>>

\* ... which takes the accounts of all lanes: the router issues the others' again, one after the other
\* (push_existing) ...
Push(c) ==
  /\ at(c, "push") /\ fine /\ quiet
  /\ req' = [req EXCEPT ![c].pc = "reissue", ![c].turn = "svc",
                        ![c].todo = own \ (IF req[c].kind = "on" THEN {req[c].lane} ELSE {})]
  /\ UNCHANGED <<router, managed, native, store, late, node>>
Reissue(c) ==
  /\ at(c, "reissue") /\ quiet
  /\ \/ /\ fine
        /\ \E l \in req[c].todo : req' = [req EXCEPT ![c].pc = "send", ![c].turn = l, ![c].todo = @ \ {l}]
     \/ req[c].todo = {} /\ fine /\ goes(c, "draft")
     \/ req[c].todo = {} /\ fault /\ unpushed(c)
  /\ UNCHANGED <<router, managed, native, store, late, node>>

\* ... and take it back when that fails: enable has the router forget the account too.
forgets(c) == req' = [req EXCEPT ![c].kind = "forget", ![c].pc = "send"]
Unmark(c) ==
  LET l == req[c].lane
  IN /\ at(c, "unmark") /\ fine /\ quiet
     /\ \/ req[c].kind = "on" /\ own' = own \ {l} /\ forgets(c)
        \/ req[c].kind = "off" /\ own' = own \cup {l} /\ done(c)
     /\ UNCHANGED <<router, managed, native, policy, late, node>>

\* The policy comes last, unless there is one already; it goes before the router is told to forget.
Draft(c) ==
  LET l == req[c].lane
  IN /\ at(c, "draft") /\ fine /\ quiet
     /\ \/ /\ req[c].kind = "on" /\ done(c)
           /\ policy' = IF exists(l) THEN policy ELSE [policy EXCEPT ![l] = drafted(l, "router")]
        \/ req[c].kind = "off" /\ forgets(c) /\ policy' = [policy EXCEPT ![l].state = "none"]
     /\ UNCHANGED <<router, managed, native, own, late, node>>

\* The panel dies with its requests.
PanelDies ==
  /\ \E c \in Clients : ~at(c, "idle")
  /\ crashes < MaxCrashes /\ crashes' = crashes + 1 /\ fault /\ idly
  /\ req' = [c \in Clients |-> NoRequest] /\ late' = left(Clients) /\ orphaned(Clients)
  /\ UNCHANGED <<disk, process, up, managed, native, store, node>>

\* The manager's own steps; with it die the calls that wait for its lock.
RouterStep == RouterOwn /\ UNCHANGED <<managed, native, store, req, late, node, requests, edits>>
RouterMishaps ==
  \/ XrayDies /\ UNCHANGED <<managed, native, store, req, late, node, requests, edits>>
  \/ ManagerDies /\ late' = {} /\ UNCHANGED <<managed, native, store, req, node, requests, edits>>

Ask(c) ==
  \/ \E l \in Lanes : AskApply(c, l) \/ AskRollback(c, l)
  \/ \E l \in GrantLanes : AskLane(c, l) \/ AskNoLane(c, l)
  \/ AskMove(c, "attach") \/ AskMove(c, "detach") \/ AskSection(c)
Continue(c) ==
  \/ ReadNative(c) \/ ReadRouter(c) \/ Compile(c) \/ Plan(c) \/ Send(c) \/ Answered(c) \/ Handover(c) \/ Record(c)
  \/ Mark(c) \/ Push(c) \/ Reissue(c) \/ Unmark(c) \/ Draft(c)
Sections == {[Direct EXCEPT !["svc"] = b] : b \in 0..MaxBody}

noted == bare' = (IF current' = current THEN bare ELSE {}) \cup (Lanes \ lane_policies')
Next ==
  /\ \/ \E c \in Clients : Ask(c) \/ Continue(c) \/ GiveUp(c)
     \/ \E l \in Lanes : Save(l)
     \/ \E doc \in Sections : NewSection("router", doc)
     \/ NewSection("native", Direct)
     \/ AskOther \/ LateCall \/ PanelDies \/ RouterStep \/ RouterMishaps
  /\ noted

Spec == Init /\ [][Next]_vars

\* Threads are scheduled, the service manager restarts the router's manager, answers come or are given up.
FairSpec ==
  /\ Spec /\ WF_vars(RouterStep /\ noted) /\ WF_vars(LateCall /\ noted)
  /\ \A c \in Clients : WF_vars(Continue(c) /\ noted)

---------------------------------------------------------------------------
(* Properties *)

\* When nothing is under way and the router counts itself well, the process that runs was started from
\* the generation current.json names, and each lane that names has an account: whatever failed, died or
\* was given up before, a forget that failed and a rollback to an intent with a forgotten lane included
\* (commit_generation, swap, recover, watchdog_tick, without_lanes, lane_forget, bootstrap).
RunsCurrent ==
  (up /\ op = NoOp /\ state.phase = "idle") =>
    /\ process # NoProcess => process = current
    /\ \A l \in GrantLanes : current.doc[l] # 0 => accounts[l] # 0

\* The apply of one lane compiles all of them: it does not take another lane back to a body older than
\* the one that runs, and drops one only when that lane had no policy, or its grant no lane, at some
\* moment since the router's last generation; however many callers enable, disable, save, apply and roll
\* back, and whatever comes late. The router's revision is read before the other lanes are, and the apply
\* is refused when it changed since. (A lane that is given back in between is dropped all the same, and
\* RoutingService::record marks it applied.)
OthersNeverTakenBack ==
  [][(current' # current /\ op.kind = "apply" /\ op.id[1] \in Lanes)
      => \A l \in Lanes \ {op.id[1]} : current'.doc[l] >= current.doc[l] \/ (current'.doc[l] = 0 /\ l \in bare)]_vars

\* A detach that took the service back withdraws the policy only while the service does not hand its
\* traffic to the router: attaches that came in between and calls made late included.
withdraws(r) == r.kind = "detach" /\ r.attached /\ r.id = op.id
DetachedBeforeWithdrawn ==
  [][(current' # current /\ op.kind = "apply" /\ \E c \in Clients : withdraws(req[c])) => ~native.attached]_vars

\* A service is handed to a router that runs its policy (apply_egress_section), unless a call that the node
\* had given up was carried out since the pass read the router (the comment there says never).
HandedToItsPolicy ==
  [][(managed /\ native'.attached /\ ~native.attached /\ "pass" \notin misled)
      => \E c \in Clients : at(c, "handover") /\ current.doc = req[c].doc]_vars

\* A section reported converged is what the router and the service run, with the same exception until a
\* later pass that was not misled reports.
ConvergedSectionRuns ==
  (managed /\ egress = [gen |-> section.gen, state |-> "converged"] /\ "report" \notin misled)
    => current.doc = section.doc /\ native.attached = (section.backend = "router")

\* Every request comes to an end, and then the router is up: it runs Xray, unless it has said that a
\* person must look at it.
Settled == (\A c \in Clients : at(c, "idle")) /\ lock_free /\ (state.phase = "idle" => process # NoProcess)
RouterSettles == <>[]Settled
=============================================================================
