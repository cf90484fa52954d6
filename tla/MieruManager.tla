---------------------------- MODULE MieruManager ----------------------------
(***************************************************************************)
(* The Mieru manager (mieru_manager/src/service.rs): every change of the   *)
(* mita daemon is a transaction of its whole configuration, with a backup  *)
(* and a journal that a restarted manager recovers from, and the lane      *)
(* slots, daemons of their own, mirror the users of the main one.          *)
(*                                                                         *)
(* mita keeps the configuration it was given and runs the one it last      *)
(* loaded: a reload loads the users, a start everything. Any call of it    *)
(* may fail, or do its work and lose the answer. One request at a time     *)
(* holds the writer lock; the manager may die between any two steps.       *)
(*                                                                         *)
(* Hashes are the values they are taken of. Requests name the current      *)
(* revision: with another one they change nothing. Left out: the protected *)
(* bootstrap user, quotas beyond one alternative, ports, SSRF flags, a new *)
(* password of a lane's upstream, links, file permissions, the egress      *)
(* history's limit of ten entries.                                         *)
(***************************************************************************)
EXTENDS Integers, Sequences, FiniteSets, SequencesExt

CONSTANTS
  Names,       \* user names
  Ids,         \* operation ids; an operation brings the credential of its id
  Lanes,       \* lane ids
  NSlots,      \* slot daemons, in order
  MaxCred,     \* bound: versions of the router's credential file
  MaxRequests, \* bound: requests that change something
  MaxFaults,   \* bound: calls that fail or lose their answer
  MaxStops     \* bound: deaths of the manager, restarts of mita

ASSUME NamesAssumption == IsFiniteSet(Names) /\ IsFiniteSet(Lanes) /\ Ids \subseteq Nat \ {0} /\ Ids # {}
ASSUME BoundsAssumption == {NSlots, MaxCred, MaxRequests, MaxFaults, MaxStops} \subseteq Nat /\ MaxCred >= 1

VARIABLES
  disk,     \* state.json
  journal,  \* journal.json, with the backup it names
  mita,     \* the daemon: what it was given, what it runs, whether it runs
  slots,    \* the slot daemons, likewise
  cred,     \* the router's credential file
  m,        \* the manager: where it is, in which operation, starting or serving
  memory,   \* the state its request works with
  at,       \* the slot it is at, and what that slot was
  strayed,  \* history: slots left running an old configuration; 0: a lanes request that ended before its record
  spent     \* requests, faults and stops so far

daemons == <<mita, slots>>
files == <<disk, journal>>
vars == <<disk, journal, mita, slots, cred, m, memory, at, strayed, spent>>

Slots == 1..NSlots
NoUser == [key |-> 0, quota |-> 0]
Nobody == [n \in Names |-> NoUser]
NoJournal == [phase |-> "none"]
NoEntry == [slot |-> 0, users |-> {}]
Empty == [lane |-> "none", users |-> Nobody]
EmptySlot == [config |-> Empty, runs |-> Empty, on |-> FALSE]
Serving == [pc |-> "serving", op |-> "none", boot |-> FALSE]
Down == [pc |-> "down", op |-> "none", boot |-> TRUE]
NoState == [generation |-> -1]
Nowhere == [slot |-> 0, was |-> EmptySlot]

\* What next_revision is the hash of.
revision(d) == [config |-> d.config, disabled |-> d.disabled, tombstones |-> d.tombstones, generation |-> d.generation]

Rows == [key : Ids \cup {0}, quota : 0..1]
Users == [Names -> Rows]
Configs == [users : Users, egress : 0..MaxCred]
Daemons == [config : Configs, runs : Configs, on : BOOLEAN]
SlotConfigs == [lane : Lanes \cup {"none"}, users : Users]
SlotDaemons == [config : SlotConfigs, runs : SlotConfigs, on : BOOLEAN]
States ==
  [generation : Nat, config : Configs, disabled : Users, tombstones : SUBSET Names, ops : SUBSET Ids,
   history : Seq([doc : {"none", "direct", "router"}, raw : 0..MaxCred]),
   lanes : [Lanes -> [slot : 0..NSlots, users : SUBSET Names]], stale : BOOLEAN]
Revisions == [config : Configs, disabled : Users, tombstones : SUBSET Names, generation : Nat]
Operations == {"create", "disable", "enable", "rotate", "delete", "quotas", "egress", "refresh"}
Journals ==
  [phase : {"prepared", "applied", "rollback_applied"}, op : Operations, from : Revisions, next : Revisions]
Places ==
  {"serving", "apply", "note", "reload", "stop", "start", "commit", "clear",
   "undo", "note_undo", "undo_stop", "undo_start", "undo_clear",
   "slot", "slot_apply", "slot_stop", "slot_start", "slot_undo", "slot_undo_stop", "slot_undo_start", "record", "stale",
   "down", "back", "back_stop", "back_start", "back_clear", "check", "refused", "mirror",
   "life_stop", "life_start", "life_off"}
Managers == [pc : Places, op : Operations \cup {"none", "lanes", "mirror"}, boot : BOOLEAN]
\* Every file, daemon and process has its type.
TypeOK ==
  /\ disk \in States /\ (journal = NoJournal \/ journal \in Journals)
  /\ mita \in Daemons /\ slots \in [Slots -> SlotDaemons] /\ cred \in 1..MaxCred
  /\ m \in Managers
  /\ (memory = NoState \/ memory \in States)
  /\ at \in [slot : 0..NSlots + 1, was : SlotDaemons] /\ strayed \subseteq 0..NSlots
  /\ spent \in [request : 0..MaxRequests, fault : 0..MaxFaults, stop : 0..MaxStops]

\* A user or none, the installer's egress through the router, and slots as the installer leaves them.
Init ==
  /\ \E users \in {Nobody, [n \in Names |-> [key |-> CHOOSE i \in Ids : TRUE, quota |-> 0]]} :
     LET config == [users |-> users, egress |-> 1] IN
       /\ disk = [generation |-> 0, config |-> config, disabled |-> Nobody, tombstones |-> {}, ops |-> {},
                  history |-> <<>>, lanes |-> [l \in Lanes |-> NoEntry], stale |-> FALSE]
       /\ mita = [config |-> config, runs |-> config, on |-> TRUE]
  /\ journal = NoJournal /\ cred = 1 /\ strayed = {}
  /\ m = Serving /\ memory = NoState /\ at = Nowhere
  /\ slots = [k \in Slots |-> EmptySlot]
  /\ spent = [request |-> 0, fault |-> 0, stop |-> 0]

---------------------------------------------------------------------------
(* A transaction begins *)

Budget == [request |-> MaxRequests, fault |-> MaxFaults, stop |-> MaxStops]
spend(what) == spent[what] < Budget[what] /\ spent' = [spent EXCEPT ![what] = @ + 1]
serving == m.pc = "serving"
goes(pc) == m' = [m EXCEPT !.pc = pc]
\* What mita reports is what the state says it was given.
consistent == mita.config = disk.config

\* The new state in memory, the backup and the journal on disk.
begins(op, next, boot) ==
  LET desired == [next EXCEPT !.generation = disk.generation + 1] IN
  /\ memory' = desired
  /\ journal' = [phase |-> "prepared", op |-> op, from |-> revision(disk), next |-> revision(desired)]
  /\ m' = [pc |-> "apply", op |-> op, boot |-> boot]
transacts(op, next) ==
  /\ serving /\ consistent /\ spend("request") /\ begins(op, next, FALSE)
  /\ UNCHANGED <<disk, daemons, cred, at, strayed>>

active(n) == disk.config.users[n] # NoUser
disabled(n) == disk.disabled[n] # NoUser

\* An id on record is answered from the record.
CreateUser(n, id) ==
  /\ id \notin disk.ops /\ n \notin disk.tombstones /\ ~active(n) /\ ~disabled(n)
  /\ transacts("create", [disk EXCEPT !.config.users[n] = [key |-> id, quota |-> 0], !.ops = @ \cup {id}])
DisableUser(n) ==
  active(n) /\ transacts("disable", [disk EXCEPT !.config.users[n] = NoUser, !.disabled[n] = disk.config.users[n]])
EnableUser(n) ==
  disabled(n) /\ transacts("enable", [disk EXCEPT !.config.users[n] = disk.disabled[n], !.disabled[n] = NoUser])
RotateUser(n, id) ==
  /\ id \notin disk.ops /\ active(n)
  /\ transacts("rotate", [disk EXCEPT !.config.users[n].key = id, !.ops = @ \cup {id}])
DeleteUser(n) ==
  /\ active(n) \/ disabled(n)
  /\ transacts("delete", [disk EXCEPT !.config.users[n] = IF disabled(n) THEN disk.config.users[n] ELSE NoUser,
                                      !.disabled[n] = NoUser, !.tombstones = @ \cup {n},
                                      !.lanes = [l \in Lanes |-> [disk.lanes[l] EXCEPT !.users = @ \ {n}]]])
SetQuotas(n) ==
  active(n) /\ transacts("quotas", [disk EXCEPT !.config.users[n].quota = 1 - @])

\* The section of a document, and the entry of the section mita had before the first one.
section(doc) == IF doc = "router" THEN cred ELSE 0
target(entry) == IF entry.doc = "none" THEN entry.raw ELSE section(entry.doc)
floor == [doc |-> "none", raw |-> disk.config.egress]
EgressApply(doc) ==
  transacts("egress", [disk EXCEPT !.config.egress = section(doc),
                                   !.history = (IF @ = <<>> THEN <<floor>> ELSE @) \o <<[doc |-> doc, raw |-> 0]>>])
EgressRollback ==
  /\ Len(disk.history) >= 2
  /\ transacts("egress", [disk EXCEPT !.config.egress = target(Last(Front(disk.history))), !.history = Front(@)])

mode(op) == IF op \in {"create", "quotas"} THEN "reload" ELSE "restart"

---------------------------------------------------------------------------
(* The calls of mita: what each does, and where the manager goes after it *)

previous == journal.from.config
applying == {"apply", "undo", "back"}
stopping == {"stop", "undo_stop", "back_stop", "life_stop", "life_off"}
starting == {"start", "undo_start", "back_start", "life_start"}
effect(pc) ==
  CASE pc = "apply" -> [mita EXCEPT !.config = journal.next.config]
    [] pc \in {"undo", "back"} -> [mita EXCEPT !.config = previous]
    [] pc = "reload" -> IF mita.on THEN [mita EXCEPT !.runs.users = mita.config.users] ELSE mita
    [] pc \in stopping -> [mita EXCEPT !.on = FALSE]
    [] pc \in starting -> IF mita.on THEN mita ELSE [mita EXCEPT !.on = TRUE, !.runs = mita.config]
\* Mutant: a recovery that compares what it reads back with the change it undid.
ComparedWithDesired(pc) ==
  CASE pc = "apply" -> "note" [] pc \in {"reload", "start"} -> "commit" [] pc = "stop" -> "start"
    [] pc = "undo" -> "note_undo" [] pc = "undo_stop" -> "undo_start" [] pc = "undo_start" -> "undo_clear"
    [] pc = "back" -> "back_stop" [] pc = "back_stop" -> "back_start" [] pc = "back_start" -> "down"
    [] pc = "life_stop" -> "life_start" [] pc \in {"life_start", "life_off"} -> "serving"
then(pc) ==
  CASE pc = "apply" -> "note" [] pc \in {"reload", "start"} -> "commit" [] pc = "stop" -> "start"
    [] pc = "undo" -> "note_undo" [] pc = "undo_stop" -> "undo_start" [] pc = "undo_start" -> "undo_clear"
    [] pc = "back" -> "back_stop" [] pc = "back_stop" -> "back_start" [] pc = "back_start" -> "back_clear"
    [] pc = "life_stop" -> "life_start" [] pc \in {"life_start", "life_off"} -> "serving"
\* A change that fails is undone; an undoing that fails waits for the next start, with its journal.
answered == IF m.boot THEN "down" ELSE "serving"
\* Mutant: an undoing that fails is taken for done.
RollbackIgnored(pc) ==
  CASE pc \in {"apply", "reload", "stop", "start"} -> "undo"
    [] pc \in {"undo", "undo_stop", "undo_start"} -> "undo_clear"
    [] pc \in {"back", "back_stop", "back_start"} -> "down"
    [] OTHER -> answered
fails(pc) ==
  CASE pc \in {"apply", "reload", "stop", "start"} -> "undo"
    [] pc \in {"back", "back_stop", "back_start"} -> "down"
    [] OTHER -> answered
Outcomes == {"ok", "refused", "lost"}
\* A process that serves or is gone holds no request.
lands(pc) ==
  /\ m' = IF pc = "serving" THEN Serving ELSE IF pc = "down" THEN Down ELSE [m EXCEPT !.pc = pc]
  /\ memory' = IF pc \in {"serving", "down", "refused"} THEN NoState ELSE memory
MitaCall ==
  /\ m.pc \in applying \cup stopping \cup starting \cup {"reload"}
  /\ \E outcome \in Outcomes :
       /\ mita' = IF outcome = "refused" THEN mita ELSE effect(m.pc)
       /\ IF outcome = "ok" THEN UNCHANGED spent ELSE spend("fault")
       /\ lands(IF outcome = "ok" /\ (m.pc = "reload" => mita.on) THEN then(m.pc) ELSE fails(m.pc))
  /\ UNCHANGED <<files, slots, cred, at, strayed>>

\* The journal follows: applied, or rolled back.
NoteApplied ==
  /\ m.pc = "note" /\ journal' = [journal EXCEPT !.phase = "applied"]
  /\ goes(IF mode(m.op) = "reload" THEN "reload" ELSE "stop")
  /\ UNCHANGED <<disk, daemons, cred, memory, at, strayed, spent>>
NoteUndone ==
  /\ m.pc = "note_undo" /\ journal' = [journal EXCEPT !.phase = "rollback_applied"] /\ goes("undo_stop")
  /\ UNCHANGED <<disk, daemons, cred, memory, at, strayed, spent>>
Commit ==
  /\ m.pc = "commit" /\ disk' = memory /\ goes("clear")
  /\ UNCHANGED <<journal, daemons, cred, memory, at, strayed, spent>>

laned(d) == \E l \in Lanes : d.lanes[l] # NoEntry
Clear ==
  /\ m.pc \in {"clear", "undo_clear", "back_clear"} /\ journal' = NoJournal
  /\ CASE m.pc = "clear" /\ laned(disk) -> goes("slot") /\ at' = [Nowhere EXCEPT !.slot = 1] /\ UNCHANGED memory
       [] m.pc = "clear" /\ ~laned(disk) -> lands(IF m.boot THEN "mirror" ELSE "serving") /\ UNCHANGED at
       [] m.pc = "undo_clear" -> lands(answered) /\ UNCHANGED at
       [] m.pc = "back_clear" -> lands("check") /\ UNCHANGED at
  /\ UNCHANGED <<disk, daemons, cred, strayed, spent>>

---------------------------------------------------------------------------
(* The lane slots *)

\* slot_desired: the lane's enabled users with their rows, or the empty configuration.
slot_desired(k, state, config) ==
  LET in == {l \in Lanes : state.lanes[l].slot = k /\ \E n \in state.lanes[l].users : config.users[n] # NoUser} IN
  IF in = {} THEN Empty
  ELSE LET l == CHOOSE l \in in : TRUE IN
       [lane |-> l, users |-> [n \in Names |-> IF n \in state.lanes[l].users THEN config.users[n] ELSE NoUser]]
wants(k) == slot_desired(k, memory, mita.config)

\* The lanes of a request: a slot that a named lane has stays its own, the others take the free ones in order.
requested(who) == {l \in Lanes : \E n \in Names : who[n] = l}
taken(who) == {disk.lanes[l].slot : l \in requested(who)}
fresh(who) == {l \in requested(who) : disk.lanes[l] = NoEntry}
free(who) == {k \in Slots \ taken(who) : Cardinality({j \in Slots \ taken(who) : j < k}) < Cardinality(fresh(who))}
SetLanes(who, slot_of) ==
  /\ serving /\ consistent /\ spend("request")
  /\ \A n \in Names : who[n] # "none" => active(n) \/ disabled(n)
  /\ slot_of \in [fresh(who) -> free(who)] /\ \A l, o \in fresh(who) : slot_of[l] = slot_of[o] => l = o
  /\ memory' = [disk EXCEPT !.stale = FALSE,
                  !.lanes = [l \in Lanes |-> IF l \notin requested(who) THEN NoEntry
                                             ELSE [slot |-> IF l \in fresh(who) THEN slot_of[l] ELSE @[l].slot,
                                                   users |-> {n \in Names : who[n] = l}]]]
  /\ m' = [pc |-> "slot", op |-> "lanes", boot |-> FALSE] /\ at' = [Nowhere EXCEPT !.slot = 1]
  /\ UNCHANGED <<files, daemons, cred, strayed>>

torn(s) == {k \in Slots : s[k].on /\ s[k].runs # s[k].config}
\* Mutant: a transaction whose lanes did not follow leaves no mark.
NotMarked(s) ==
  /\ strayed' = strayed \cup torn(s) \cup (IF m.op = "lanes" THEN {0} ELSE {})
  /\ at' = Nowhere
  /\ lands(IF m.op # "lanes" /\ m.boot THEN "down" ELSE "serving")
\* The end of a sync that failed: a transaction marks the lanes, a request or a start fails.
gives_up(s) ==
  /\ strayed' = strayed \cup torn(s) \cup (IF m.op = "lanes" THEN {0} ELSE {})
  /\ at' = Nowhere
  /\ IF m.op = "lanes" THEN lands("serving") ELSE IF m.op = "mirror" THEN lands("down") ELSE lands("stale")
\* The next slot that is not as it should be, and its first call.
SlotTurn ==
  /\ m.pc = "slot" /\ UNCHANGED <<files, daemons, cred>>
  /\ \/ /\ at.slot \in Slots /\ slots[at.slot].config = wants(at.slot) /\ slots[at.slot].on = (wants(at.slot) # Empty)
        /\ at' = [at EXCEPT !.slot = @ + 1] /\ UNCHANGED <<m, memory, strayed, spent>>
     \/ /\ at.slot \in Slots /\ ~(slots[at.slot].config = wants(at.slot) /\ slots[at.slot].on = (wants(at.slot) # Empty))
        /\ at' = [at EXCEPT !.was = slots[at.slot]]
        /\ goes(IF slots[at.slot].config # wants(at.slot) THEN "slot_apply"
                ELSE IF slots[at.slot].on THEN "slot_stop" ELSE "slot_start")
        /\ UNCHANGED <<memory, strayed, spent>>
     \/ at.slot \in Slots /\ spend("fault") /\ gives_up(slots)
     \/ /\ at.slot > NSlots /\ at' = Nowhere /\ strayed' = strayed \ {0}
        /\ lands(IF m.op = "lanes" THEN "record" ELSE IF m.boot /\ m.op # "mirror" THEN "mirror" ELSE "serving")
        /\ UNCHANGED spent

slot_effect(pc) ==
  LET s == slots[at.slot] IN
  CASE pc = "slot_apply" -> [s EXCEPT !.config = wants(at.slot)]
    [] pc = "slot_undo" -> [s EXCEPT !.config = at.was.config]
    [] pc \in {"slot_stop", "slot_undo_stop"} -> [s EXCEPT !.on = FALSE]
    [] pc \in {"slot_start", "slot_undo_start"} -> IF s.on THEN s ELSE [s EXCEPT !.on = TRUE, !.runs = s.config]
\* Where a slot's call leads; "failed": the slot is back, and the sync failed.
slot_then(pc) ==
  CASE pc = "slot_apply" -> IF at.was.on THEN "slot_stop" ELSE IF wants(at.slot) # Empty THEN "slot_start" ELSE "slot"
    [] pc = "slot_stop" -> IF wants(at.slot) # Empty THEN "slot_start" ELSE "slot"
    [] pc = "slot_start" -> "slot"
    [] pc = "slot_undo" -> IF slots[at.slot].on THEN "slot_undo_stop" ELSE IF at.was.on THEN "slot_undo_start" ELSE "failed"
    [] pc = "slot_undo_stop" -> IF at.was.on THEN "slot_undo_start" ELSE "failed"
    [] pc = "slot_undo_start" -> "failed"
SlotCall ==
  /\ m.pc \in {"slot_apply", "slot_stop", "slot_start", "slot_undo", "slot_undo_stop", "slot_undo_start"}
  /\ \E outcome \in Outcomes :
       LET s == IF outcome = "refused" THEN slots ELSE [slots EXCEPT ![at.slot] = slot_effect(m.pc)]
           change == m.pc \in {"slot_apply", "slot_stop", "slot_start"}
           next == IF outcome = "ok" THEN slot_then(m.pc) ELSE IF change THEN "slot_undo" ELSE "failed" IN
       /\ slots' = s
       /\ IF outcome = "ok" THEN UNCHANGED spent ELSE spend("fault")
       /\ IF next = "failed" THEN gives_up(s)
          ELSE /\ goes(next) /\ strayed' = strayed \cap (torn(s) \cup {0}) /\ UNCHANGED memory
               /\ at' = IF next = "slot" THEN [Nowhere EXCEPT !.slot = at.slot + 1] ELSE at
  /\ UNCHANGED <<files, mita, cred>>

\* write_state: the lanes of a request, or the mark of a transaction whose lanes did not follow.
Record ==
  /\ m.pc \in {"record", "stale"}
  /\ disk' = IF m.pc = "stale" THEN [memory EXCEPT !.stale = TRUE] ELSE memory
  /\ lands(IF m.boot THEN "mirror" ELSE "serving")
  /\ UNCHANGED <<journal, daemons, cred, at, strayed, spent>>

---------------------------------------------------------------------------
(* The start of the manager *)

\* recover: what the journal of an interrupted transaction comes to.
committed == revision(disk) = journal.next /\ mita.config = journal.next.config
allowed ==
  CASE journal.phase = "prepared" -> {previous, journal.next.config}
    [] journal.phase = "applied" -> {journal.next.config}
    [] journal.phase = "rollback_applied" -> {previous}
canonical_next == [revision(disk) EXCEPT !.config = mita.config, !.generation = @ + 1]
recoverable ==
  /\ revision(disk) = journal.from /\ mita.config \in allowed
  /\ mita.config = journal.next.config => journal.next = canonical_next
Bootstrap ==
  /\ m.pc = "down" /\ m' = [pc |-> IF journal = NoJournal \/ committed THEN "check"
                                   ELSE IF ~recoverable THEN "refused"
                                   ELSE IF mita.config # previous THEN "back" ELSE "back_stop",
                            op |-> "none", boot |-> TRUE]
  /\ journal' = IF journal # NoJournal /\ committed THEN NoJournal ELSE journal
  /\ UNCHANGED <<disk, daemons, cred, memory, at, strayed, spent>>

\* refresh_router_credential: the seed's section, or the one the history names.
credential_due ==
  /\ mita.config.egress \notin {0, cred}
  /\ disk.history = <<>> \/ Last(disk.history).doc = "router"
Check ==
  /\ m.pc = "check" /\ UNCHANGED <<disk, daemons, cred, at, strayed, spent>>
  /\ IF ~consistent THEN goes("refused") /\ UNCHANGED <<journal, memory>>
     ELSE IF credential_due THEN begins("refresh", [disk EXCEPT !.config.egress = cred], TRUE)
     ELSE goes("mirror") /\ UNCHANGED <<journal, memory>>
Mirror ==
  /\ m.pc = "mirror" /\ UNCHANGED <<files, daemons, cred, strayed, spent>>
  /\ IF laned(disk)
     THEN m' = [pc |-> "slot", op |-> "mirror", boot |-> TRUE] /\ memory' = disk /\ at' = [Nowhere EXCEPT !.slot = 1]
     ELSE lands("serving") /\ UNCHANGED at

---------------------------------------------------------------------------
(* The rest of the requests, and what happens to the processes *)

Lifecycle(action) ==
  /\ serving /\ consistent /\ spend("request")
  /\ goes(CASE action = "stop" -> "life_off" [] action = "start" -> "life_start" [] action = "restart" -> "life_stop")
  /\ UNCHANGED <<files, daemons, cred, memory, at, strayed>>

ManagerDies ==
  /\ m.pc \notin {"down", "refused"} /\ spend("stop")
  /\ m' = Down /\ memory' = NoState /\ at' = Nowhere
  /\ strayed' = strayed \cup torn(slots) \cup (IF m.op = "lanes" THEN {0} ELSE {})
  /\ UNCHANGED <<files, daemons, cred>>
\* mita.service starts the proxy with the daemon.
MitaRestarts ==
  /\ spend("stop") /\ mita' = [mita EXCEPT !.on = TRUE, !.runs = mita.config]
  /\ UNCHANGED <<files, slots, cred, m, memory, at, strayed>>
CredentialRotates ==
  /\ cred < MaxCred /\ cred' = cred + 1
  /\ UNCHANGED <<files, daemons, m, memory, at, strayed, spent>>

Request ==
  \/ \E n \in Names : DisableUser(n) \/ EnableUser(n) \/ DeleteUser(n) \/ SetQuotas(n)
  \/ \E n \in Names, id \in Ids : CreateUser(n, id) \/ RotateUser(n, id)
  \/ EgressRollback \/ (\E doc \in {"direct", "router"} : EgressApply(doc))
  \/ \E action \in {"start", "stop", "restart"} : Lifecycle(action)
  \/ \E who \in [Names -> Lanes \cup {"none"}] : \E slot_of \in [fresh(who) -> Slots] : SetLanes(who, slot_of)
Step ==
  \/ MitaCall \/ NoteApplied \/ NoteUndone \/ Commit \/ Clear
  \/ SlotTurn \/ SlotCall \/ Record \/ Bootstrap \/ Check \/ Mirror
Next == Request \/ Step \/ ManagerDies \/ MitaRestarts \/ CredentialRotates
Spec == Init /\ [][Next]_vars
\* A request goes on to its answer, and the container of a manager that exits is started again.
FairSpec == Spec /\ WF_vars(Step)

---------------------------------------------------------------------------
(* Safety *)

\* Whenever mita holds a configuration that state.json does not record, the journal says which
\* change that is, and its backup is the recorded configuration.
DivergenceIsJournaled ==
  ~consistent => journal # NoJournal /\ journal.from = revision(disk) /\ journal.next.config = mita.config

\* With no journal mita serves the users that state.json records: a revoked user is not served, whichever
\* call failed or lost its answer on the way. With one, the journal accounts for the difference.
RunsWhatIsCommitted ==
  /\ DivergenceIsJournaled
  /\ serving /\ journal = NoJournal /\ mita.on => mita.runs.users = disk.config.users

\* A slot serves exactly the enabled users of its lane with their current credentials, unless the lanes
\* are marked stale, a lanes request ended before its record, or the slot was left between two configurations.
SlotsFollow ==
  serving /\ ~disk.stale /\ 0 \notin strayed =>
    \A k \in Slots : LET desired == slot_desired(k, disk, disk.config) IN
      /\ slots[k].config = desired /\ slots[k].on = (desired # Empty)
      /\ slots[k].on /\ k \notin strayed => slots[k].runs = desired

---------------------------------------------------------------------------
(* Liveness *)

\* The journals that a start refuses: of a change that moves a user between the active, the disabled and
\* the deleted, and of one that stopped just after it gave mita the backup again.
known_refusal ==
  \/ journal.op \in {"disable", "enable", "delete"}
  \/ journal.phase = "applied" /\ mita.config = previous
\* A manager that went down serves again, unless the journal it found is one of those.
ServesAgain == m.pc = "down" ~> (m.pc = "serving" \/ (m.pc = "refused" /\ known_refusal))

=============================================================================
