--------------------------- MODULE RouterManager ---------------------------
(***************************************************************************)
(* The Xray-router manager (xray_router_manager/src/service.rs): one Xray  *)
(* process for all services of a node, run from numbered generation files. *)
(* Every change renders a new generation, swaps the process and then       *)
(* writes current.json and journal.json; state.json tells a restart where  *)
(* it was. One lock holds an operation to its end, so there is one         *)
(* operation at a time, of as many steps as it has durable effects, and    *)
(* the manager may die between any two.                                    *)
(*                                                                         *)
(* One service is modelled; an operation on another service or on the      *)
(* relay re-renders this one (Rerender). A document gives every lane of    *)
(* the service the number of the policy body it runs, 0 being none. An     *)
(* account is known by the generation its password was minted for, 0 being *)
(* no account.                                                             *)
(***************************************************************************)
EXTENDS Naturals, Sequences

CONSTANTS
  Clients,          \* callers of the manager's socket
  GrantLanes,       \* lanes of single grants beside the service's own
  MaxBody,          \* policy bodies of a lane are 1..MaxBody
  HistoryLimit,     \* HISTORY_LIMIT
  MaxStartFailures, \* MAX_START_FAILURES
  MaxRequests,      \* bound: requests of a panel's users
  MaxPasses,        \* bound: passes of a node's sections
  MaxSaves,         \* bound: saved policies
  MaxSections,      \* bound: new sections
  MaxCrashes,       \* bound: deaths of the manager or the panel
  MaxFaults         \* bound: mishaps (these deaths and failing tests, starts, writes and answers) and saves together

ASSUME LanesAssumption == GrantLanes \cap {"svc", "node", "stamp"} = {}
ASSUME ClientsAssumption == "nobody" \notin Clients
ASSUME BoundsAssumption ==
  /\ MaxBody \in Nat \ {0} /\ HistoryLimit \in Nat \ {0, 1} /\ MaxStartFailures \in Nat \ {0}
  /\ MaxRequests \in Nat /\ MaxPasses \in Nat /\ MaxSaves \in Nat /\ MaxSections \in Nat /\ MaxCrashes \in Nat /\ MaxFaults \in Nat

Lanes == {"svc"} \cup GrantLanes
Docs == [Lanes -> 0..MaxBody]
Direct == [l \in Lanes |-> 0]
Accounts == [GrantLanes -> Nat]

VARIABLES
  current,   \* current.json: the generation, its document and the accounts it was rendered with
  files,     \* the generation files from the current one on
  history,   \* journal.json of the service: the last entry is its "current", the one before its "previous"
  state,     \* state.json
  accounts,  \* lanes.json
  process,   \* the generation file the running Xray was started from
  op,        \* the operation that holds the lock
  answer,    \* what a caller was answered
  up,        \* the manager runs
  requests, edits, crashes, faults

disk == <<current, files, history, state, accounts>>
router == <<disk, process, op, answer, up>>

fault == faults < MaxFaults /\ faults' = faults + 1
fine == faults' = faults

Generations == [gen : Nat \ {0}, doc : Docs, accounts : Accounts]
NoProcess == [gen |-> 0]
NoOp == [pc |-> "idle", kind |-> "none", by |-> "nobody", gen |-> 0, doc |-> Direct, id |-> <<>>, undo |-> [l \in GrantLanes |-> 0]]
Pending == [tag |-> "none", doc |-> Direct]
Failed == [tag |-> "failed", doc |-> Direct]
Applied(doc) == [tag |-> "ok", doc |-> doc]
Callers == Clients \cup {"nobody"}
OperationIds == {<<>>} \cup ({"node", "stamp"} \X Nat) \cup (Lanes \X Nat \X Nat)

Entries == [doc : Docs, gen : Nat, id : OperationIds]
RouterStates == [phase : {"idle", "swapping", "broken"}, candidate : Nat, failures : Nat]
Operations ==
  [pc : {"idle", "boot", "render", "stop", "start", "back", "current", "journal"},
   kind : {"none", "boot", "apply", "rollback", "issue", "forget", "rerender"},
   by : Callers, gen : Nat, doc : Docs, id : OperationIds, undo : Accounts]
Answers == [tag : {"none", "ok", "failed"}, doc : Docs]
RouterTypeOK ==
  /\ current \in Generations /\ files \subseteq Generations /\ accounts \in Accounts /\ state \in RouterStates
  /\ history \in Seq(Entries) /\ Len(history) \in 1..HistoryLimit
  /\ process \in Generations \cup {NoProcess}
  /\ op \in Operations /\ answer \in [Clients -> Answers]
  /\ up \in BOOLEAN /\ requests \in Nat /\ edits \in Nat /\ crashes \in 0..MaxCrashes /\ faults \in 0..MaxFaults

\* After the first bootstrap generation 1 passes every service through.
Fresh == [gen |-> 1, doc |-> Direct, accounts |-> [l \in GrantLanes |-> 0]]
\* Every lane got its account and then its policy.
Laid == [gen |-> 3, doc |-> [l \in Lanes |-> 1], accounts |-> [l \in GrantLanes |-> 2]]

RouterInit(first, id) ==
  /\ current = first /\ files = {first} /\ process = first
  /\ history = IF first = Fresh THEN <<[doc |-> Direct, gen |-> 1, id |-> <<>>]>>
               ELSE <<[doc |-> Direct, gen |-> 2, id |-> <<>>], [doc |-> first.doc, gen |-> 3, id |-> id]>>
  /\ state = [phase |-> "idle", candidate |-> 0, failures |-> 0]
  /\ accounts = first.accounts
  /\ op = NoOp /\ answer = [c \in Clients |-> Pending]
  /\ up = TRUE /\ requests = 0 /\ edits = 0 /\ crashes = 0 /\ faults = 0

---------------------------------------------------------------------------
(* What the operations compute *)

lock_free == up /\ op.pc = "idle"
idle == [phase |-> "idle", candidate |-> 0, failures |-> 0]
revision == [gen |-> current.gen, doc |-> current.doc]
known == {l \in GrantLanes : accounts[l] # 0}
\* Mutant: an intent keeps its lanes when their accounts are gone.
KeptLanes(doc, lanes) == doc
without_lanes(doc, lanes) == [l \in Lanes |-> IF l = "svc" \/ l \in lanes THEN doc[l] ELSE 0]
current_intents == without_lanes(current.doc, known)

\* render refuses a document that names a lane without an account.
renders(doc) == \A l \in GrantLanes : doc[l] # 0 => accounts[l] # 0
candidate == [gen |-> op.gen, doc |-> op.doc, accounts |-> accounts]
current_entry == history[Len(history)]
previous_entry == history[Len(history) - 1]

begin(kind, c, doc, id, undo) ==
  op' = [pc |-> "render", kind |-> kind, by |-> c, gen |-> current.gen + 1, doc |-> doc, id |-> id, undo |-> undo]
reply(c, a) == answer' = IF c \in Clients THEN [answer EXCEPT ![c] = a] ELSE answer

\* What commit_generation makes of the service's book.
changed == current_entry.doc # op.doc \/ op.kind \in {"apply", "rollback"}
entry == [doc |-> op.doc, gen |-> op.gen, id |-> op.id]
limited(s) == IF Len(s) > HistoryLimit THEN SubSeq(s, Len(s) - HistoryLimit + 1, Len(s)) ELSE s
booked ==
  IF ~changed THEN [history EXCEPT ![Len(history)].gen = op.gen]
  ELSE IF op.kind = "rollback" THEN Append(SubSeq(history, 1, Len(history) - 2), entry)
  ELSE limited(Append(history, entry))

---------------------------------------------------------------------------
(* The operations, up to the generation they commit *)

taken == lock_free /\ fine /\ UNCHANGED <<current, files, history, state, process, up, crashes>>

unmoved(expected) == expected = revision

\* egress_apply: a replay of the entry that runs is answered from the journal, the id with another
\* document is refused, and so is a revision that is not the current one.
EgressApply(c, expected, doc, id) ==
  LET replay == id # <<>> /\ current_entry.id = id
      admitted == state.phase = "idle" /\ unmoved(expected)
  IN /\ taken /\ accounts' = accounts
     /\ \/ replay /\ reply(c, IF current_entry.doc = doc THEN Applied(doc) ELSE Failed) /\ op' = op
        \/ ~replay /\ ~admitted /\ reply(c, Failed) /\ op' = op
        \/ ~replay /\ admitted /\ begin("apply", c, doc, id, accounts) /\ answer' = answer

\* egress_rollback does not ask for an idle router.
EgressRollback(c, expected) ==
  LET possible == unmoved(expected) /\ Len(history) > 1
  IN /\ taken /\ accounts' = accounts
     /\ \/ ~possible /\ reply(c, Failed) /\ op' = op
        \/ possible /\ begin("rollback", c, without_lanes(previous_entry.doc, known), <<>>, accounts) /\ answer' = answer

\* lane_issue: lanes.json is written first, whatever comes of the new generation.
LaneIssue(c, l) ==
  /\ taken /\ accounts' = [accounts EXCEPT ![l] = current.gen + 1]
  /\ \/ state.phase # "idle" /\ reply(c, Failed) /\ op' = op
     \/ /\ state.phase = "idle" /\ answer' = answer
        /\ begin("issue", c, without_lanes(current.doc, known \cup {l}), <<>>, accounts')

\* lane_forget: the running intent loses the lane with the account; a failed swap brings both back.
LaneForget(c, l) ==
  LET possible == l \in known /\ state.phase = "idle"
  IN /\ taken
     /\ \/ ~possible /\ reply(c, Failed) /\ op' = op /\ accounts' = accounts
        \/ /\ possible /\ accounts' = [accounts EXCEPT ![l] = 0]
           /\ begin("forget", c, without_lanes(current.doc, known \ {l}), <<>>, accounts) /\ answer' = answer

\* An apply of another service, the relay, new geodata: this service's document as it is.
Rerender ==
  /\ taken /\ state.phase = "idle" /\ accounts' = accounts /\ answer' = answer
  /\ begin("rerender", "nobody", current_intents, <<>>, accounts)

---------------------------------------------------------------------------
(* commit_generation and swap *)

step(pc) == op.pc = pc /\ crashes' = crashes
to(pc) == op' = [op EXCEPT !.pc = pc]
undone == IF op.kind = "forget" THEN op.undo ELSE accounts
\* The operation ends with an error, and bootstrap's with the process.
fail(running) ==
  /\ accounts' = undone /\ op' = NoOp /\ reply(op.by, Failed)
  /\ up' = (op.kind # "boot") /\ process' = IF op.kind = "boot" THEN NoProcess ELSE running
fails_to(phase, running) == fail(running) /\ state' = phase

others(g) == {f \in files : f.gen # g}

\* Render, write the file, test it: a test that fails takes the file with it, another error need not.
Render ==
  /\ step("render")
  /\ \/ /\ renders(op.doc) /\ fine /\ files' = others(op.gen) \cup {candidate}
        /\ to("stop") /\ UNCHANGED <<accounts, answer, process, up>>
     \/ /\ (~renders(op.doc) /\ fine) \/ fault
        /\ fail(process)
        /\ files' \in {others(op.gen)} \cup (IF renders(op.doc) THEN {others(op.gen) \cup {candidate}} ELSE {})
  /\ UNCHANGED <<current, history, state>>

\* Mutant: a swap that leaves no trace of having begun.
Unmarked == idle
swapping == [phase |-> "swapping", candidate |-> op.gen, failures |-> 0]
\* swap: "swapping", then the running process stops.
Stop ==
  /\ step("stop") /\ fine /\ to("start")
  /\ state' = swapping /\ process' = NoProcess
  /\ UNCHANGED <<current, files, history, accounts, answer, up>>

file(g) == CHOOSE f \in files : f.gen = g
has_file(g) == \E f \in files : f.gen = g

\* Xray fails: back to the last generation; any other error leaves the router "swapping".
Start ==
  /\ step("start")
  /\ \/ fine /\ process' = file(op.gen) /\ files' = files /\ to("current") /\ UNCHANGED <<state, accounts, answer, up>>
     \/ fault /\ process' = NoProcess /\ files' = others(op.gen) /\ to("back") /\ UNCHANGED <<state, accounts, answer, up>>
     \/ fault /\ fails_to(state, NoProcess) /\ files' = files
  /\ UNCHANGED <<current, history>>

\* The last known good generation, or broken; without its file the router stays "swapping".
Back ==
  /\ step("back")
  /\ \/ fine /\ has_file(current.gen) /\ fails_to(idle, file(current.gen))
     \/ fine /\ ~has_file(current.gen) /\ fails_to(state, NoProcess)
     \/ fault /\ fails_to([phase |-> "broken", candidate |-> 0, failures |-> MaxStartFailures], NoProcess)
  /\ UNCHANGED <<current, files, history>>

\* current.json; a write that fails leaves the router "swapping", with the new process.
WriteCurrent ==
  /\ step("current")
  /\ \/ /\ fine /\ current' = candidate /\ files' = {f \in files : f.gen >= op.gen}
        /\ to("journal") /\ UNCHANGED <<state, accounts, answer, process, up>>
     \/ fault /\ fails_to(state, process) /\ UNCHANGED <<current, files>>
  /\ history' = history

\* journal.json, then state.json; either write may fail. A death between them leaves what recover makes
\* of both written.
WriteJournal ==
  /\ step("journal")
  /\ \/ /\ fine /\ history' = booked /\ state' = idle /\ op' = NoOp
        /\ reply(op.by, Applied(op.doc)) /\ UNCHANGED <<accounts, process, up>>
     \/ fault /\ fails_to(state, process) /\ history' \in {history, booked}
  /\ UNCHANGED <<current, files>>

---------------------------------------------------------------------------
(* The processes: Xray, its watchdog, the manager *)

\* Xray dies by itself.
XrayDies ==
  /\ process # NoProcess /\ fault /\ process' = NoProcess
  /\ UNCHANGED <<disk, op, answer, up, crashes>>

\* watchdog_tick: starts the current generation again, at most MAX_START_FAILURES times in a row.
Watchdog ==
  /\ lock_free /\ state.phase = "idle" /\ process = NoProcess
  /\ \/ fine /\ has_file(current.gen) /\ process' = file(current.gen) /\ state' = idle
     \/ /\ (~has_file(current.gen) /\ fine) \/ fault
        /\ process' = process
        /\ state' = [phase |-> IF state.failures + 1 >= MaxStartFailures THEN "broken" ELSE "idle", candidate |-> 0,
                     failures |-> state.failures + 1]
  /\ UNCHANGED <<current, files, history, accounts, op, answer, up, crashes>>

\* The manager dies, and Xray with it; the caller of the operation gets an error.
down == up' = FALSE /\ process' = NoProcess /\ op' = NoOp /\ reply(op.by, Failed)
ManagerDies ==
  /\ up /\ crashes < MaxCrashes /\ crashes' = crashes + 1 /\ fault /\ down
  /\ UNCHANGED disk

committed == current.gen = state.candidate
\* bootstrap, after recover: an unfinished swap is forgotten, with its file unless it was committed.
Boot ==
  /\ ~up /\ fine /\ up' = TRUE
  /\ files' = IF state.phase = "swapping" /\ ~committed THEN others(state.candidate) ELSE files
  /\ state' = [idle EXCEPT !.failures = IF state.phase = "idle" THEN state.failures ELSE 0]
  /\ op' = [NoOp EXCEPT !.pc = "boot", !.kind = "boot"]
  /\ UNCHANGED <<current, history, accounts, process, answer, crashes>>

\* The current generation as it is; or, when its file is gone or would be rendered differently now,
\* the same intents as a new one. A failure ends the process, which is started again.
unchanged_since == current = [gen |-> current.gen, doc |-> current_intents, accounts |-> accounts] /\ has_file(current.gen)
BootStart ==
  /\ op.pc = "boot"
  /\ \/ /\ unchanged_since /\ fine /\ process' = file(current.gen) /\ op' = NoOp /\ UNCHANGED <<up, answer>>
     \/ unchanged_since /\ fault /\ down
     \/ /\ ~unchanged_since /\ fine /\ begin("boot", "nobody", current_intents, <<>>, accounts)
        /\ UNCHANGED <<process, up, answer>>
  /\ UNCHANGED <<disk, crashes>>

Commit == Render \/ Stop \/ Start \/ Back \/ WriteCurrent \/ WriteJournal
RouterOwn == Commit \/ Watchdog \/ Boot \/ BootStart
RouterMishap == XrayDies \/ ManagerDies
=============================================================================
