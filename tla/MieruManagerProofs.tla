------------------------- MODULE MieruManagerProofs -------------------------
(***************************************************************************)
(* Proofs about MieruManager for any users, lanes and slots, and every     *)
(* bound on requests, failed calls and deaths.                             *)
(***************************************************************************)
EXTENDS MieruManager, TLAPS

---------------------------------------------------------------------------
(* The main daemon *)

\* mita serves the users it was given.
Served == mita.on => mita.runs.users = mita.config.users
Loaded == mita.on => mita.runs = mita.config

\* The journal of a change that state.json does not have yet, of one that it has, and none.
Open ==
  /\ journal \in Journals /\ journal.from = revision(disk) /\ journal.next.generation = disk.generation + 1
  /\ mita.config \in {disk.config, journal.next.config}
Done == journal \in Journals /\ journal.next = revision(disk) /\ mita.config = disk.config /\ Served
Quiet == journal = NoJournal /\ mita.config = disk.config /\ Served

Forward == {"note", "reload", "stop", "start", "commit"}
Undone == {"note_undo", "undo_stop", "undo_start", "undo_clear"}
Back == {"back", "back_stop", "back_start", "back_clear"}
Slotted == {"slot", "slot_apply", "slot_stop", "slot_start", "slot_undo", "slot_undo_stop", "slot_undo_start"}

\* What is known of the daemon and the files at each place of a transaction and of its recovery.
Transaction ==
  /\ m.pc \in {"apply", "undo"} \cup Forward \cup Undone \cup Back => Open
  /\ m.pc \in {"apply"} \cup Forward => memory \in States /\ journal.next = revision(memory)
  /\ m.pc = "apply" => mita.config = disk.config
  /\ m.pc \in Forward => mita.config = journal.next.config
  /\ m.pc \in Undone \cup (Back \ {"back"}) => mita.config = disk.config
  /\ m.pc \in {"start", "undo_start", "back_start", "undo_clear", "back_clear"} => Loaded
  /\ m.pc = "commit" => Served
  /\ m.pc = "clear" => Done
  /\ m.pc \in {"clear", "stale"} => memory = disk
  /\ m.pc = "stale" => m.op \notin {"lanes", "mirror"}
  /\ m.pc \in {"check", "mirror", "record", "stale"} \cup Slotted => mita.config = disk.config
  /\ m.pc \in {"serving", "refused", "life_stop", "life_start", "life_off", "record", "stale"} \cup Slotted => Quiet \/ Open
  /\ m.pc \in {"check", "mirror"} \/ (m.pc \in {"record", "stale"} \cup Slotted /\ m.boot) => Quiet
  /\ m.pc = "down" => Quiet \/ Open \/ Done

---------------------------------------------------------------------------
(* The slots *)

LanesOK(state) == \A l \in Lanes : state.lanes[l] = NoEntry \/ state.lanes[l].slot \in Slots
Follows(k, state, config) ==
  LET desired == slot_desired(k, state, config) IN
  /\ slots[k].config = desired /\ slots[k].on = (desired # Empty)
  /\ slots[k].on /\ k \notin strayed => slots[k].runs = desired
\* The lanes that state.json records, as far as it claims anything of them.
InLine == ~disk.stale /\ 0 \notin strayed => \A k \in Slots : Follows(k, disk, disk.config)

Resting == {"serving", "apply", "undo", "life_stop", "life_start", "life_off"} \cup Forward \cup Undone

Mirroring ==
  /\ LanesOK(disk) /\ (memory \in States => LanesOK(memory))
  /\ m.pc \in {"record", "stale"} \cup Slotted =>
       /\ memory \in States /\ revision(memory) = revision(disk)
       /\ m.op # "lanes" => memory = disk /\ (m.pc # "stale" => laned(disk))
  /\ m.pc \in {"apply"} \cup Forward => (laned(memory) <=> laned(disk)) /\ memory.stale = disk.stale
  /\ m.op = "lanes" => ~m.boot /\ m.pc \in {"record"} \cup Slotted
  /\ m.pc \in Slotted => at.slot \in 1..NSlots + 1 /\ \A k \in Slots : k < at.slot => Follows(k, memory, mita.config)
  /\ m.pc \in Slotted \ {"slot"} => at.slot \in Slots
  /\ m.pc = "record" => m.op = "lanes" /\ \A k \in Slots : Follows(k, memory, mita.config)
  /\ m.pc \in {"slot_stop", "slot_start"} => slots[at.slot].config = wants(at.slot)
  /\ m.pc = "slot_start" => ~slots[at.slot].on /\ wants(at.slot) # Empty
  /\ m.pc = "slot_apply" => slots[at.slot] = at.was
  /\ \A k \in Slots : k \in torn(slots) => k \in strayed \/ (m.pc \in Slotted \ {"slot"} /\ k = at.slot)
  /\ m.pc \in Resting /\ ~m.boot => InLine
  /\ m.op # "lanes" /\ ~laned(disk) => InLine
  /\ m.pc \in {"serving", "life_stop", "life_start", "life_off"} => ~m.boot

IInv == TypeOK /\ Transaction /\ Mirroring

---------------------------------------------------------------------------
(* Records *)

\* A revision is a part of the state.
LEMMA RevisionIs ==
  ASSUME NEW d \in States
  PROVE  revision(d) \in Revisions /\ revision(d).config = d.config /\ revision(d).generation = d.generation
BY DEF States, Revisions, revision

\* Nobody, no entry and no slot configuration are of their types, and a state is not NoState.
LEMMA NothingIs ==
  /\ NoUser \in Rows /\ Nobody \in Users /\ Empty \in SlotConfigs /\ EmptySlot \in SlotDaemons
  /\ Nowhere \in [slot : 0..NSlots + 1, was : SlotDaemons] /\ NoState \notin States
  /\ NoJournal \notin Journals /\ NSlots \in Nat /\ MaxCred \in Nat /\ MaxCred >= 1
<1>0. NSlots \in Nat /\ MaxCred \in Nat /\ MaxCred >= 1
  BY BoundsAssumption
<1>1. NoUser \in Rows
  BY DEF NoUser, Rows
<1>2. Nobody \in Users
  BY <1>1 DEF Nobody, Users
<1>3. Empty \in SlotConfigs
  BY <1>2 DEF Empty, SlotConfigs
<1>4. EmptySlot \in SlotDaemons
  BY <1>3 DEF EmptySlot, SlotDaemons
<1>5. Nowhere \in [slot : 0..NSlots + 1, was : SlotDaemons]
  BY <1>0, <1>4 DEF Nowhere
<1>6. NoState \notin States
  BY DEF NoState, States
<1>7. NoJournal \notin Journals
  BY DEF NoJournal, Journals
<1> QED
  BY <1>0, <1>1, <1>2, <1>3, <1>4, <1>5, <1>6, <1>7

\* The manager's own record, where a step leads.
LEMMA Goes ==
  ASSUME TypeOK, NEW p \in Places, goes(p)
  PROVE  m' \in Managers /\ m'.pc = p /\ m'.op = m.op /\ m'.boot = m.boot
BY DEF TypeOK, Managers, goes

\* The same with the request's memory, which a process that serves or is gone does not have.
LEMMA Lands ==
  ASSUME TypeOK, NEW p \in Places, lands(p)
  PROVE  /\ m' \in Managers /\ m'.pc = p
         /\ p = "serving" => m'.op = "none" /\ m'.boot = FALSE /\ memory' = NoState
         /\ p = "down" => m'.op = "none" /\ m'.boot = TRUE /\ memory' = NoState
         /\ p = "refused" => memory' = NoState
         /\ p \notin {"serving", "down"} => m'.op = m.op /\ m'.boot = m.boot
         /\ p \notin {"serving", "down", "refused"} => memory' = memory
<1>1. m \in Managers
  BY DEF TypeOK
<1>2. CASE p = "serving"
  BY <1>2 DEF lands, Serving, Managers
<1>3. CASE p = "down"
  BY <1>3 DEF lands, Down, Managers
<1>4. CASE p \notin {"serving", "down"}
  BY <1>1, <1>4 DEF lands, Managers
<1> QED
  BY <1>2, <1>3, <1>4

\* A transaction's new state, its journal and where it begins.
LEMMA Begins ==
  ASSUME TypeOK, NEW op \in Operations, NEW next \in States, NEW boot \in BOOLEAN, begins(op, next, boot)
  PROVE  /\ memory' \in States /\ memory'.lanes = next.lanes /\ memory'.stale = next.stale
         /\ journal' \in Journals /\ journal'.from = revision(disk) /\ journal'.next = revision(memory')
         /\ journal'.next.generation = disk.generation + 1 /\ journal'.phase = "prepared"
         /\ m' \in Managers /\ m'.pc = "apply" /\ m'.op = op /\ m'.boot = boot
<1> DEFINE desired == [next EXCEPT !.generation = disk.generation + 1]
<1>1. disk \in States
  BY DEF TypeOK
<1>2. disk.generation + 1 \in Nat
  BY <1>1 DEF States
<1>3. desired \in States /\ desired.generation = disk.generation + 1 /\ desired.lanes = next.lanes /\ desired.stale = next.stale
  BY <1>2 DEF States
<1>4. /\ memory' = desired
      /\ journal' = [phase |-> "prepared", op |-> op, from |-> revision(disk), next |-> revision(desired)]
      /\ m' = [pc |-> "apply", op |-> op, boot |-> boot]
  BY DEF begins
<1> HIDE DEF desired
<1>5. revision(desired) \in Revisions /\ revision(desired).generation = disk.generation + 1 /\ revision(disk) \in Revisions
  BY <1>1, <1>3, RevisionIs
<1>6. journal' \in Journals
  BY <1>4, <1>5 DEF Journals
<1>7. m' \in Managers
  BY <1>4 DEF Managers, Places
<1> QED
  BY <1>3, <1>4, <1>5, <1>6, <1>7

\* A row of a user, and a history with one entry more or less, are of their types.
LEMMA UserRows ==
  ASSUME NEW users \in Users, NEW n \in Names, NEW row \in Rows
  PROVE  users[n] \in Rows /\ [users EXCEPT ![n] = row] \in Users
BY DEF Users

\* Every transaction begins with a state that keeps the lanes' slots and mark.
LEMMA Requests ==
  ASSUME TypeOK, LanesOK(disk),
         \/ \E n \in Names : DisableUser(n) \/ EnableUser(n) \/ DeleteUser(n) \/ SetQuotas(n)
         \/ \E n \in Names, id \in Ids : CreateUser(n, id) \/ RotateUser(n, id)
         \/ EgressRollback \/ (\E doc \in {"direct", "router"} : EgressApply(doc))
  PROVE  \E op \in Operations, next \in States :
           /\ transacts(op, next) /\ LanesOK(next) /\ (laned(next) <=> laned(disk)) /\ next.stale = disk.stale
<1>0. disk \in States /\ disk.config \in Configs /\ disk.config.users \in Users /\ disk.disabled \in Users /\ cred \in 0..MaxCred
  BY DEF TypeOK, States, Configs
<1> DEFINE Begun == \E op \in Operations, next \in States :
                      /\ transacts(op, next) /\ LanesOK(next) /\ (laned(next) <=> laned(disk)) /\ next.stale = disk.stale
<1>a. ASSUME NEW op \in Operations, NEW next \in States, transacts(op, next), next.lanes = disk.lanes, next.stale = disk.stale
      PROVE  Begun
  BY <1>a DEF LanesOK, laned
<1> HIDE DEF Begun
<1>1. ASSUME NEW n \in Names, DisableUser(n)
      PROVE  Begun
  <2> DEFINE next == [disk EXCEPT !.config.users[n] = NoUser, !.disabled[n] = disk.config.users[n]]
  <2>1. transacts("disable", next)
    BY <1>1 DEF DisableUser
  <2>2. next \in States /\ next.lanes = disk.lanes /\ next.stale = disk.stale
    BY <1>0, UserRows, NothingIs DEF States, Configs
  <2> HIDE DEF next
  <2> QED
    BY <1>a, <2>1, <2>2 DEF Operations
<1>2. ASSUME NEW n \in Names, EnableUser(n)
      PROVE  Begun
  <2> DEFINE next == [disk EXCEPT !.config.users[n] = disk.disabled[n], !.disabled[n] = NoUser]
  <2>1. transacts("enable", next)
    BY <1>2 DEF EnableUser
  <2>2. next \in States /\ next.lanes = disk.lanes /\ next.stale = disk.stale
    BY <1>0, UserRows, NothingIs DEF States, Configs
  <2> HIDE DEF next
  <2> QED
    BY <1>a, <2>1, <2>2 DEF Operations
<1>3. ASSUME NEW n \in Names, SetQuotas(n)
      PROVE  Begun
  <2> DEFINE next == [disk EXCEPT !.config.users[n].quota = 1 - @]
  <2>1. transacts("quotas", next)
    BY <1>3 DEF SetQuotas
  <2>2. next \in States /\ next.lanes = disk.lanes /\ next.stale = disk.stale
    <3>1. disk.config.users[n] \in Rows
      BY <1>0 DEF Users
    <3>2. [disk.config.users[n] EXCEPT !.quota = 1 - @] \in Rows
      BY <3>1 DEF Rows
    <3> QED
      BY <1>0, <3>2, UserRows DEF States, Configs
  <2> HIDE DEF next
  <2> QED
    BY <1>a, <2>1, <2>2 DEF Operations
<1>4. ASSUME NEW n \in Names, NEW id \in Ids, CreateUser(n, id)
      PROVE  Begun
  <2> DEFINE next == [disk EXCEPT !.config.users[n] = [key |-> id, quota |-> 0], !.ops = @ \cup {id}]
  <2>1. transacts("create", next)
    BY <1>4 DEF CreateUser
  <2>2. next \in States /\ next.lanes = disk.lanes /\ next.stale = disk.stale
    <3>1. [key |-> id, quota |-> 0] \in Rows
      BY DEF Rows
    <3> QED
      BY <1>0, <3>1, UserRows DEF States, Configs
  <2> HIDE DEF next
  <2> QED
    BY <1>a, <2>1, <2>2 DEF Operations
<1>5. ASSUME NEW n \in Names, NEW id \in Ids, RotateUser(n, id)
      PROVE  Begun
  <2> DEFINE next == [disk EXCEPT !.config.users[n].key = id, !.ops = @ \cup {id}]
  <2>1. transacts("rotate", next)
    BY <1>5 DEF RotateUser
  <2>2. next \in States /\ next.lanes = disk.lanes /\ next.stale = disk.stale
    <3>1. disk.config.users[n] \in Rows
      BY <1>0 DEF Users
    <3>2. [disk.config.users[n] EXCEPT !.key = id] \in Rows
      BY <3>1 DEF Rows
    <3> QED
      BY <1>0, <3>2, UserRows DEF States, Configs
  <2> HIDE DEF next
  <2> QED
    BY <1>a, <2>1, <2>2 DEF Operations
<1>6. ASSUME NEW n \in Names, DeleteUser(n)
      PROVE  Begun
  <2> DEFINE lanes == [l \in Lanes |-> [disk.lanes[l] EXCEPT !.users = @ \ {n}]]
             row == IF disabled(n) THEN disk.config.users[n] ELSE NoUser
             next == [disk EXCEPT !.config.users[n] = row, !.disabled[n] = NoUser, !.tombstones = @ \cup {n}, !.lanes = lanes]
  <2>1. transacts("delete", next)
    BY <1>6 DEF DeleteUser
  <2>2. lanes \in [Lanes -> [slot : 0..NSlots, users : SUBSET Names]]
    BY <1>0 DEF States
  <2>3. \A l \in Lanes : lanes[l].slot = disk.lanes[l].slot
    BY <1>0 DEF States
  <2>4. next \in States /\ next.lanes = lanes /\ next.stale = disk.stale
    <3>1. row \in Rows
      BY <1>0, NothingIs DEF Users
    <3> HIDE DEF row, lanes
    <3> QED
      BY <1>0, <2>2, <3>1, UserRows, NothingIs DEF States, Configs
  <2> HIDE DEF next
  <2>5. \A l \in Lanes : lanes[l] = NoEntry <=> disk.lanes[l] = NoEntry
    <3> TAKE l \in Lanes
    <3>1. disk.lanes[l] \in [slot : 0..NSlots, users : SUBSET Names]
      BY <1>0 DEF States
    <3>2. CASE disk.lanes[l] = NoEntry
      <4>1. [NoEntry EXCEPT !.users = @ \ {n}] = NoEntry
        <5>1. {} \ {n} = {}
          OBVIOUS
        <5> QED
          BY <5>1 DEF NoEntry
      <4> QED
        BY <3>2, <4>1
    <3>3. CASE disk.lanes[l].slot \in Slots
      BY <2>3, <3>3 DEF NoEntry, Slots
    <3> QED
      BY <3>2, <3>3 DEF LanesOK
  <2> HIDE DEF lanes
  <2>6. LanesOK(next) /\ (laned(next) <=> laned(disk))
    BY <2>3, <2>4, <2>5 DEF LanesOK, laned
  <2> QED
    BY <2>1, <2>4, <2>6 DEF Operations, Begun
<1>7. \A doc \in {"direct", "router"} : section(doc) \in 0..MaxCred
  BY <1>0, NothingIs DEF section
<1>8. ASSUME NEW doc \in {"direct", "router"}, EgressApply(doc)
      PROVE  Begun
  <2> DEFINE Items == [doc : {"none", "direct", "router"}, raw : 0..MaxCred]
             history == (IF disk.history = <<>> THEN <<floor>> ELSE disk.history) \o <<[doc |-> doc, raw |-> 0]>>
             next == [disk EXCEPT !.config.egress = section(doc), !.history = history]
  <2>1. transacts("egress", next)
    BY <1>8 DEF EgressApply
  <2>2. floor \in Items
    BY <1>0 DEF floor, Configs
  <2>3. [doc |-> doc, raw |-> 0] \in Items
    BY NothingIs
  <2>4. disk.history \in Seq(Items)
    BY <1>0 DEF States
  <2> HIDE DEF Items
  <2>5. history \in Seq(Items)
    BY <2>2, <2>3, <2>4
  <2> HIDE DEF history
  <2>6. next \in States /\ next.lanes = disk.lanes /\ next.stale = disk.stale
    BY <1>0, <1>7, <2>5 DEF States, Configs, Items
  <2> HIDE DEF next
  <2> QED
    BY <1>a, <2>1, <2>6 DEF Operations
<1>9. ASSUME EgressRollback
      PROVE  Begun
  <2> DEFINE Items == [doc : {"none", "direct", "router"}, raw : 0..MaxCred]
             egress == target(Last(Front(disk.history)))
             next == [disk EXCEPT !.config.egress = target(Last(Front(disk.history))), !.history = Front(@)]
  <2>1. transacts("egress", next) /\ Len(disk.history) >= 2
    BY <1>9 DEF EgressRollback
  <2>2. disk.history \in Seq(Items)
    BY <1>0 DEF States
  <2>3. Front(disk.history) \in Seq(Items) /\ Last(Front(disk.history)) \in Items
    <3> HIDE DEF Items
    <3>1. Front(disk.history) \in Seq(Items) /\ Len(Front(disk.history)) = Len(disk.history) - 1
      BY <2>1, <2>2 DEF Front
    <3> QED
      BY <2>1, <2>2, <3>1 DEF Last
  <2>4. egress \in 0..MaxCred
    BY <1>7, <2>3 DEF target
  <2> HIDE DEF egress
  <2>5. next \in States /\ next.lanes = disk.lanes /\ next.stale = disk.stale
    BY <1>0, <2>3, <2>4 DEF States, Configs, Items, egress
  <2> HIDE DEF next
  <2> QED
    BY <1>a, <2>1, <2>5 DEF Operations
<1> QED
  BY <1>1, <1>2, <1>3, <1>4, <1>5, <1>6, <1>8, <1>9 DEF Begun

---------------------------------------------------------------------------
(* The calls of mita *)

\* What a call does to the daemon.
LEMMA Effects ==
  ASSUME TypeOK
  PROVE  /\ effect("apply") = [mita EXCEPT !.config = journal.next.config]
         /\ \A p \in {"undo", "back"} : effect(p) = [mita EXCEPT !.config = journal.from.config]
         /\ mita.on => effect("reload") = [mita EXCEPT !.runs.users = mita.config.users]
         /\ ~mita.on => effect("reload") = mita
         /\ \A p \in stopping : effect(p) = [mita EXCEPT !.on = FALSE]
         /\ \A p \in starting : mita.on => effect(p) = mita
         /\ \A p \in starting : ~mita.on => effect(p) = [mita EXCEPT !.on = TRUE, !.runs = mita.config]
BY DEF effect, stopping, starting, previous

\* Where a call leads.
LEMMA Then ==
  /\ then("apply") = "note" /\ then("reload") = "commit" /\ then("start") = "commit" /\ then("stop") = "start"
  /\ then("undo") = "note_undo" /\ then("undo_stop") = "undo_start" /\ then("undo_start") = "undo_clear"
  /\ then("back") = "back_stop" /\ then("back_stop") = "back_start" /\ then("back_start") = "back_clear"
  /\ then("life_stop") = "life_start" /\ then("life_start") = "serving" /\ then("life_off") = "serving"
  /\ \A p \in {"apply", "reload", "stop", "start"} : fails(p) = "undo"
  /\ \A p \in {"back", "back_stop", "back_start"} : fails(p) = "down"
  /\ \A p \in {"undo", "undo_stop", "undo_start", "life_stop", "life_start", "life_off"} : fails(p) \in {"down", "serving"}
BY DEF then, fails, answered

\* The daemon after a call, by field.
LEMMA DaemonFields ==
  ASSUME mita \in Daemons
  PROVE  /\ \A x \in Configs : LET n == [mita EXCEPT !.config = x] IN
              n \in Daemons /\ n.config = x /\ n.runs = mita.runs /\ n.on = mita.on
         /\ LET n == [mita EXCEPT !.runs.users = mita.config.users] IN
              n \in Daemons /\ n.config = mita.config /\ n.runs.users = mita.config.users /\ n.on = mita.on
         /\ LET n == [mita EXCEPT !.on = FALSE] IN
              n \in Daemons /\ n.config = mita.config /\ n.runs = mita.runs /\ n.on = FALSE
         /\ LET n == [mita EXCEPT !.on = TRUE, !.runs = mita.config] IN
              n \in Daemons /\ n.config = mita.config /\ n.runs = mita.config /\ n.on = TRUE
BY DEF Daemons, Configs

\* A failure, a request or a death is one of those that are left.
LEMMA Spends ==
  ASSUME TypeOK, NEW what \in {"request", "fault", "stop"}, spend(what)
  PROVE  spent' \in [request : 0..MaxRequests, fault : 0..MaxFaults, stop : 0..MaxStops]
BY BoundsAssumption DEF TypeOK, spend, Budget

\* A call of mita: the transaction goes on, turns back, or waits for the next start.
LEMMA CallStep ==
  ASSUME TypeOK, Transaction, MitaCall
  PROVE  mita' \in Daemons /\ Transaction'
<1>0. /\ mita \in Daemons /\ disk \in States /\ mita.config \in Configs /\ mita.on \in BOOLEAN
      /\ UNCHANGED <<disk, journal>>
  BY DEF TypeOK, MitaCall, files, Daemons
<1>1. ASSUME journal \in Journals
      PROVE  journal.next \in Revisions /\ journal.next.config \in Configs /\ journal.from \in Revisions /\ journal.from.config \in Configs
  BY <1>1 DEF Journals, Revisions
<1>2. revision(disk).config = disk.config
  BY <1>0, RevisionIs
<1>3. /\ Open /\ UNCHANGED mita => Open'
      /\ Quiet /\ UNCHANGED mita => Quiet'
  BY <1>0 DEF Open, Quiet, Served
<1>a. ASSUME lands("undo"), Open'
      PROVE  Transaction'
  <2>1. m'.pc = "undo"
    BY <1>a, Lands DEF Places
  <2> QED
    BY <1>a, <2>1 DEF Transaction, Forward, Undone, Back, Slotted
<1>b. ASSUME NEW p \in {"down", "serving"}, lands(p), Open' \/ Quiet'
      PROVE  Transaction'
  <2>1. m'.pc = p
    BY <1>b, Lands DEF Places
  <2> QED
    BY <1>b, <2>1 DEF Transaction, Forward, Undone, Back, Slotted
<1>c. ASSUME m.pc \in Forward
      PROVE  Open /\ memory \in States /\ journal.next = revision(memory) /\ mita.config = journal.next.config
  BY <1>c DEF Transaction
<1>d. ASSUME m.pc \in Forward, mita' \in Daemons, mita'.config = mita.config
      PROVE  Open'
  BY <1>0, <1>c, <1>d DEF Open
<1>e. ASSUME m.pc \in Forward, mita' \in Daemons, mita'.config = mita.config, lands("commit"), Served'
      PROVE  Transaction'
  <2>1. m'.pc = "commit" /\ memory' = memory
    BY <1>e, Lands DEF Places
  <2> QED
    BY <1>0, <1>c, <1>d, <1>e, <2>1 DEF Transaction, Forward, Undone, Back, Slotted
<1>4. CASE m.pc = "apply"
  <2>1. Open /\ memory \in States /\ journal.next = revision(memory) /\ mita.config = disk.config
    BY <1>4 DEF Transaction
  <2>2. /\ mita' = mita \/ mita' = [mita EXCEPT !.config = journal.next.config]
        /\ (lands("note") /\ mita' = [mita EXCEPT !.config = journal.next.config]) \/ lands("undo")
    BY <1>4, Effects, Then DEF MitaCall
  <2>3. mita' \in Daemons /\ mita'.config \in {disk.config, journal.next.config}
    BY <1>0, <1>1, <2>1, <2>2, DaemonFields DEF Open
  <2>4. Open'
    BY <1>0, <2>1, <2>3 DEF Open
  <2>5. CASE lands("note") /\ mita' = [mita EXCEPT !.config = journal.next.config]
    <3>1. m'.pc = "note" /\ memory' = memory
      BY <2>5, Lands DEF Places
    <3>2. mita'.config = journal.next.config
      BY <1>0, <1>1, <2>1, <2>5, DaemonFields DEF Open
    <3> QED
      BY <1>0, <2>1, <2>3, <2>4, <3>1, <3>2 DEF Transaction, Forward, Undone, Back, Slotted
  <2> QED
    BY <1>a, <2>2, <2>3, <2>4, <2>5
<1>5. CASE m.pc = "reload"
  <2>1. CASE ~mita.on
    <3>1. mita' = mita /\ lands("undo")
      BY <1>5, <2>1, Effects, Then DEF MitaCall
    <3> QED
      BY <1>0, <1>5, <1>a, <1>d, <3>1 DEF Forward
  <2>2. CASE mita.on
    <3>1. \/ mita' \in {mita, [mita EXCEPT !.runs.users = mita.config.users]} /\ lands("undo")
          \/ mita' = [mita EXCEPT !.runs.users = mita.config.users] /\ lands("commit")
      BY <1>5, <2>2, Effects, Then DEF MitaCall
    <3>2. mita' \in Daemons /\ mita'.config = mita.config
      BY <1>0, <3>1, DaemonFields
    <3>3. mita' = [mita EXCEPT !.runs.users = mita.config.users] => Served'
      BY <1>0, DaemonFields DEF Served
    <3> QED
      BY <1>5, <1>a, <1>d, <1>e, <3>1, <3>2, <3>3 DEF Forward
  <2> QED
    BY <1>0, <2>1, <2>2
<1>6. CASE m.pc = "stop"
  <2>1. \/ mita' \in {mita, [mita EXCEPT !.on = FALSE]} /\ lands("undo")
        \/ mita' = [mita EXCEPT !.on = FALSE] /\ lands("start")
    <3>1. effect(m.pc) = [mita EXCEPT !.on = FALSE]
      BY <1>6, Effects DEF stopping
    <3> QED
      BY <1>6, <3>1, Then DEF MitaCall
  <2>2. mita' \in Daemons /\ mita'.config = mita.config
    BY <1>0, <2>1, DaemonFields
  <2>3. CASE mita' = [mita EXCEPT !.on = FALSE] /\ lands("start")
    <3>1. m'.pc = "start" /\ memory' = memory
      BY <2>3, Lands DEF Places
    <3>2. Loaded'
      BY <1>0, <2>3, DaemonFields DEF Loaded
    <3> QED
      BY <1>0, <1>6, <1>c, <1>d, <2>2, <3>1, <3>2 DEF Transaction, Forward, Undone, Back, Slotted
  <2> QED
    BY <1>6, <1>a, <1>d, <2>1, <2>2, <2>3 DEF Forward
<1>7. CASE m.pc = "start"
  <2>1. Loaded
    BY <1>7 DEF Transaction
  <2>2. /\ mita' = mita \/ mita' = [mita EXCEPT !.on = TRUE, !.runs = mita.config]
        /\ lands("undo") \/ lands("commit")
    <3>1. CASE mita.on
      BY <1>7, <3>1, Effects, Then DEF MitaCall, starting
    <3>2. CASE ~mita.on
      BY <1>7, <3>2, Effects, Then DEF MitaCall, starting
    <3> QED
      BY <1>0, <3>1, <3>2
  <2>3. mita' \in Daemons /\ mita'.config = mita.config /\ Loaded'
    BY <1>0, <2>1, <2>2, DaemonFields DEF Loaded
  <2>4. Served'
    BY <2>3 DEF Loaded, Served
  <2> QED
    BY <1>7, <1>a, <1>d, <1>e, <2>2, <2>3, <2>4 DEF Forward
<1>8. CASE m.pc = "undo"
  <2>1. Open
    BY <1>8 DEF Transaction
  <2>2. /\ mita' = mita \/ mita' = [mita EXCEPT !.config = journal.from.config]
        /\ \/ lands("note_undo") /\ mita' = [mita EXCEPT !.config = journal.from.config]
           \/ \E p \in {"down", "serving"} : lands(p)
    BY <1>8, Effects, Then DEF MitaCall
  <2>3. journal.from.config = disk.config /\ journal.from.config \in Configs
    BY <1>1, <1>2, <2>1 DEF Open
  <2>4. mita' \in Daemons /\ (mita'.config = mita.config \/ mita'.config = disk.config)
    BY <1>0, <2>2, <2>3, DaemonFields
  <2>5. Open'
    BY <1>0, <2>1, <2>4 DEF Open
  <2>6. CASE lands("note_undo") /\ mita' = [mita EXCEPT !.config = journal.from.config]
    <3>1. m'.pc = "note_undo"
      BY <2>6, Lands DEF Places
    <3>2. mita'.config = disk.config
      BY <1>0, <2>3, <2>6, DaemonFields
    <3> QED
      BY <1>0, <2>4, <2>5, <3>1, <3>2 DEF Transaction, Forward, Undone, Back, Slotted
  <2> QED
    BY <1>b, <2>2, <2>4, <2>5, <2>6
<1>9. CASE m.pc = "back"
  <2>1. Open
    BY <1>9 DEF Transaction, Back
  <2>2. /\ mita' = mita \/ mita' = [mita EXCEPT !.config = journal.from.config]
        /\ \/ lands("back_stop") /\ mita' = [mita EXCEPT !.config = journal.from.config]
           \/ lands("down")
    BY <1>9, Effects, Then DEF MitaCall
  <2>3. journal.from.config = disk.config /\ journal.from.config \in Configs
    BY <1>1, <1>2, <2>1 DEF Open
  <2>4. mita' \in Daemons /\ (mita'.config = mita.config \/ mita'.config = disk.config)
    BY <1>0, <2>2, <2>3, DaemonFields
  <2>5. Open'
    BY <1>0, <2>1, <2>4 DEF Open
  <2>6. CASE lands("back_stop") /\ mita' = [mita EXCEPT !.config = journal.from.config]
    <3>1. m'.pc = "back_stop"
      BY <2>6, Lands DEF Places
    <3>2. mita'.config = disk.config
      BY <1>0, <2>3, <2>6, DaemonFields
    <3> QED
      BY <1>0, <2>4, <2>5, <3>1, <3>2 DEF Transaction, Forward, Undone, Back, Slotted
  <2> QED
    BY <1>b, <2>2, <2>4, <2>5, <2>6
<1>10. CASE m.pc \in {"undo_stop", "back_stop"}
  <2>1. Open /\ mita.config = disk.config
    BY <1>10 DEF Transaction, Undone, Back
  <2>2. /\ mita' = mita \/ mita' = [mita EXCEPT !.on = FALSE]
        /\ \/ (\E p \in {"undo_start", "back_start"} : lands(p)) /\ mita' = [mita EXCEPT !.on = FALSE]
           \/ \E p \in {"down", "serving"} : lands(p)
    <3>1. effect(m.pc) = [mita EXCEPT !.on = FALSE]
      BY <1>10, Effects DEF stopping
    <3> QED
      BY <1>10, <3>1, Then DEF MitaCall
  <2>3. mita' \in Daemons /\ mita'.config = disk.config
    BY <1>0, <2>1, <2>2, DaemonFields
  <2>4. Open'
    BY <1>0, <2>1, <2>3 DEF Open
  <2>5. ASSUME NEW p \in {"undo_start", "back_start"}, lands(p), mita' = [mita EXCEPT !.on = FALSE]
        PROVE  Transaction'
    <3>1. m'.pc = p
      BY <2>5, Lands DEF Places
    <3>2. Loaded'
      BY <1>0, <2>5, DaemonFields DEF Loaded
    <3> QED
      BY <1>0, <2>3, <2>4, <3>1, <3>2 DEF Transaction, Forward, Undone, Back, Slotted
  <2> QED
    BY <1>b, <2>2, <2>3, <2>4, <2>5
<1>11. CASE m.pc \in {"undo_start", "back_start"}
  <2>1. Open /\ mita.config = disk.config /\ Loaded
    BY <1>11 DEF Transaction, Undone, Back
  <2>2. mita' = mita \/ mita' = [mita EXCEPT !.on = TRUE, !.runs = mita.config]
    <3>1. CASE mita.on
      BY <1>11, <3>1, Effects DEF MitaCall, starting
    <3>2. CASE ~mita.on
      BY <1>11, <3>2, Effects DEF MitaCall, starting
    <3> QED
      BY <1>0, <3>1, <3>2
  <2>3. \E p \in {"undo_clear", "back_clear", "down", "serving"} : lands(p)
    BY <1>11, Then DEF MitaCall
  <2>4. mita' \in Daemons /\ mita'.config = disk.config /\ Loaded'
    BY <1>0, <2>1, <2>2, DaemonFields DEF Loaded
  <2>5. Open'
    BY <1>0, <2>1, <2>4 DEF Open
  <2>6. ASSUME NEW p \in {"undo_clear", "back_clear"}, lands(p)
        PROVE  Transaction'
    <3>1. m'.pc = p
      BY <2>6, Lands DEF Places
    <3> QED
      BY <1>0, <2>4, <2>5, <3>1 DEF Transaction, Forward, Undone, Back, Slotted
  <2> QED
    BY <1>b, <2>3, <2>4, <2>5, <2>6
<1>12. CASE m.pc \in {"life_stop", "life_start", "life_off"}
  <2>1. Quiet \/ Open
    BY <1>12 DEF Transaction
  <2>2. mita' = mita \/ mita' = [mita EXCEPT !.on = TRUE, !.runs = mita.config] \/ mita' = [mita EXCEPT !.on = FALSE]
    <3>1. CASE mita.on
      BY <1>12, <3>1, Effects DEF MitaCall, starting, stopping
    <3>2. CASE ~mita.on
      BY <1>12, <3>2, Effects DEF MitaCall, starting, stopping
    <3> QED
      BY <1>0, <3>1, <3>2
  <2>3. \E p \in {"life_start", "down", "serving"} : lands(p)
    BY <1>12, Then DEF MitaCall
  <2>4. mita' \in Daemons /\ mita'.config = mita.config /\ (Served => Served')
    BY <1>0, <2>2, DaemonFields DEF Served
  <2>5. Quiet' \/ Open'
    BY <1>0, <2>1, <2>4 DEF Open, Quiet
  <2>6. CASE lands("life_start")
    <3>1. m'.pc = "life_start"
      BY <2>6, Lands DEF Places
    <3> QED
      BY <2>4, <2>5, <3>1 DEF Transaction, Forward, Undone, Back, Slotted
  <2> QED
    BY <1>b, <2>3, <2>4, <2>5, <2>6
<1> QED
  BY <1>4, <1>5, <1>6, <1>7, <1>8, <1>9, <1>10, <1>11, <1>12 DEF MitaCall, applying, stopping, starting

---------------------------------------------------------------------------
(* Types *)

\* What a slot should run is a slot's configuration.
LEMMA DesiredIs ==
  ASSUME NEW state \in States, NEW config \in Configs, NEW k \in Slots
  PROVE  slot_desired(k, state, config) \in SlotConfigs
<1> DEFINE in == {l \in Lanes : state.lanes[l].slot = k /\ \E n \in state.lanes[l].users : config.users[n] # NoUser}
           l == CHOOSE l \in in : TRUE
           users == [n \in Names |-> IF n \in state.lanes[l].users THEN config.users[n] ELSE NoUser]
<1>1. in # {} => l \in in /\ l \in Lanes
  OBVIOUS
<1>2. users \in Users
  BY NothingIs DEF Users, Configs
<1>3. slot_desired(k, state, config) = IF in = {} THEN Empty ELSE [lane |-> l, users |-> users]
  BY DEF slot_desired
<1> HIDE DEF in, l, users
<1> QED
  BY <1>1, <1>2, <1>3, NothingIs DEF SlotConfigs

\* The state of a lanes request: the lanes and their mark are new, what its revision is of is not.
LEMMA LanesRequest ==
  ASSUME TypeOK, LanesOK(disk), NEW who \in [Names -> Lanes \cup {"none"}], NEW slot_of \in [fresh(who) -> Slots],
         SetLanes(who, slot_of)
  PROVE  memory' \in States /\ LanesOK(memory)' /\ revision(memory)' = revision(disk)
<1> DEFINE entry(l) == IF l \notin requested(who) THEN NoEntry
                       ELSE [slot |-> IF l \in fresh(who) THEN slot_of[l] ELSE disk.lanes[l].slot,
                             users |-> {n \in Names : who[n] = l}]
           lanes == [l \in Lanes |-> entry(l)]
<1>0. disk \in States /\ NSlots \in Nat
  BY NothingIs DEF TypeOK
<1>1. memory' = [disk EXCEPT !.stale = FALSE, !.lanes = lanes]
  BY DEF SetLanes
<1>2. \A l \in Lanes : entry(l) \in [slot : 0..NSlots, users : SUBSET Names] /\ (entry(l) = NoEntry \/ entry(l).slot \in Slots)
  <2> TAKE l \in Lanes
  <2>1. CASE l \notin requested(who)
    BY <1>0, <2>1 DEF NoEntry
  <2>2. CASE l \in requested(who)
    <3>1. (IF l \in fresh(who) THEN slot_of[l] ELSE disk.lanes[l].slot) \in Slots
      BY <2>2 DEF LanesOK, fresh
    <3>2. Slots \subseteq 0..NSlots
      BY <1>0 DEF Slots
    <3> QED
      BY <2>2, <3>1, <3>2
  <2> QED
    BY <2>1, <2>2
<1> HIDE DEF entry
<1>3. lanes \in [Lanes -> [slot : 0..NSlots, users : SUBSET Names]] /\ \A l \in Lanes : lanes[l] = entry(l)
  BY <1>2
<1> HIDE DEF lanes
<1>4. memory' \in States /\ memory'.lanes = lanes
  BY <1>0, <1>1, <1>3 DEF States
<1>5. /\ memory'.config = disk.config /\ memory'.disabled = disk.disabled /\ memory'.tombstones = disk.tombstones
      /\ memory'.generation = disk.generation
  BY <1>0, <1>1 DEF States
<1>6. revision(memory)' = revision(disk)
  BY <1>5 DEF revision
<1>7. LanesOK(memory)'
  BY <1>2, <1>3, <1>4 DEF LanesOK
<1> QED
  BY <1>4, <1>6, <1>7

\* The credential's section in the recorded configuration.
LEMMA RefreshedIs ==
  ASSUME TypeOK
  PROVE  LET next == [disk EXCEPT !.config.egress = cred] IN
         next \in States /\ next.lanes = disk.lanes /\ next.stale = disk.stale
<1>1. cred \in 0..MaxCred
  BY NothingIs DEF TypeOK
<1> QED
  BY <1>1 DEF TypeOK, States, Configs

---------------------------------------------------------------------------
(* The slots at rest *)

\* What is served in the slots stays as it is while no step changes it.
LEMMA SlotsStay ==
  ASSUME UNCHANGED <<disk, slots, strayed>>
  PROVE  /\ LanesOK(disk) => LanesOK(disk)'
         /\ InLine => InLine'
         /\ laned(disk)' <=> laned(disk)
         /\ torn(slots)' = torn(slots)
BY DEF LanesOK, InLine, Follows, laned, torn

\* A step outside of the slots' sync and of the places that hold a state for it.
LEMMA Aside ==
  ASSUME TypeOK, Mirroring, UNCHANGED <<disk, slots, strayed>>,
         m.pc \notin {"record"} \cup Slotted, m'.op # "lanes",
         m'.pc \notin {"record", "stale", "apply"} \cup Slotted \cup Forward,
         memory' = NoState \/ memory' = memory,
         m'.pc \in Resting /\ ~m'.boot => InLine,
         m'.pc \in {"serving", "life_stop", "life_start", "life_off"} => ~m'.boot
  PROVE  Mirroring'
<1>1. LanesOK(disk)' /\ (memory' \in States => LanesOK(memory)')
  BY SlotsStay, NothingIs DEF Mirroring, LanesOK
<1>2. m.op # "lanes"
  BY DEF Mirroring
<1>3. /\ m'.pc \in Resting /\ ~m'.boot => InLine'
      /\ m'.op # "lanes" /\ ~laned(disk)' => InLine'
  BY <1>2, SlotsStay DEF Mirroring
<1>4. \A k \in Slots : k \in torn(slots)' => k \in strayed'
  BY SlotsStay DEF Mirroring
<1> QED
  BY <1>1, <1>3, <1>4 DEF Mirroring, Slotted

\* A step that begins a transaction or goes on with one.
LEMMA Ahead ==
  ASSUME TypeOK, Mirroring, UNCHANGED <<disk, slots, strayed>>,
         m.pc \notin {"record"} \cup Slotted, m'.op # "lanes", m'.pc \in {"apply"} \cup Forward,
         memory' \in States, LanesOK(memory)', laned(memory)' <=> laned(disk), memory'.stale = disk.stale,
         m'.pc \in Resting /\ ~m'.boot => InLine
  PROVE  Mirroring'
<1>1. LanesOK(disk)' /\ (laned(disk)' <=> laned(disk))
  BY SlotsStay DEF Mirroring
<1>2. m.op # "lanes"
  BY DEF Mirroring
<1>3. /\ m'.pc \in Resting /\ ~m'.boot => InLine'
      /\ m'.op # "lanes" /\ ~laned(disk)' => InLine'
  BY <1>2, SlotsStay DEF Mirroring
<1>4. \A k \in Slots : k \in torn(slots)' => k \in strayed'
  BY SlotsStay DEF Mirroring
<1>5. m'.pc \notin {"record", "stale", "serving", "life_stop", "life_start", "life_off"} \cup Slotted
  BY DEF Slotted, Forward
<1> QED
  BY <1>1, <1>3, <1>4, <1>5 DEF Mirroring, Slotted

---------------------------------------------------------------------------
(* Each step keeps the invariant *)

\* A state outside of every transaction, and one that a journal covers.
LEMMA AtRest ==
  ASSUME m'.pc \in {"serving", "refused", "life_stop", "life_start", "life_off", "down"}, Quiet' \/ Open'
  PROVE  Transaction'
BY DEF Transaction, Forward, Undone, Back, Slotted

\* A request for a change of users or of the egress.
LEMMA TransactsStep ==
  ASSUME IInv, NEW op \in Operations, NEW next \in States, transacts(op, next),
         LanesOK(next), laned(next) <=> laned(disk), next.stale = disk.stale
  PROVE  IInv'
<1>0. TypeOK /\ Transaction /\ Mirroring /\ begins(op, next, FALSE)
  BY DEF IInv, transacts
<1>1. UNCHANGED <<disk, mita, slots, cred, at, strayed>> /\ m.pc = "serving" /\ mita.config = disk.config
  BY DEF transacts, daemons, serving, consistent
<1>2. /\ memory' \in States /\ memory'.lanes = next.lanes /\ memory'.stale = next.stale
      /\ journal' \in Journals /\ journal'.from = revision(disk) /\ journal'.next = revision(memory')
      /\ journal'.next.generation = disk.generation + 1
      /\ m' \in Managers /\ m'.pc = "apply" /\ m'.op = op /\ m'.boot = FALSE
  BY <1>0, Begins
<1>3. TypeOK'
  <2>1. spent' \in [request : 0..MaxRequests, fault : 0..MaxFaults, stop : 0..MaxStops]
    BY <1>0, Spends DEF transacts
  <2> QED
    BY <1>0, <1>1, <1>2, <2>1 DEF TypeOK
<1>4. Transaction'
  <2>1. Open'
    BY <1>1, <1>2 DEF Open, revision
  <2> QED
    BY <1>1, <1>2, <2>1 DEF Transaction, Forward, Undone, Back, Slotted
<1>5. Mirroring'
  <2>1. InLine
    BY <1>0, <1>1 DEF Mirroring, Resting
  <2>2. LanesOK(memory)' /\ (laned(memory)' <=> laned(disk))
    BY <1>2 DEF LanesOK, laned
  <2>3. m'.op # "lanes"
    BY <1>2 DEF Operations
  <2> QED
    BY <1>0, <1>1, <1>2, <2>1, <2>2, <2>3, Ahead DEF Slotted
<1> QED
  BY <1>3, <1>4, <1>5 DEF IInv

\* A request to start, stop or restart the daemon.
LEMMA LifecycleStep ==
  ASSUME IInv, NEW action \in {"start", "stop", "restart"}, Lifecycle(action)
  PROVE  IInv'
<1>0. TypeOK /\ Transaction /\ Mirroring
  BY DEF IInv
<1>1. UNCHANGED <<disk, journal, mita, slots, cred, memory, at, strayed>> /\ m.pc = "serving"
  BY DEF Lifecycle, files, daemons, serving
<1>2. \E p \in {"life_off", "life_start", "life_stop"} : goes(p)
  BY DEF Lifecycle
<1>3. m' \in Managers /\ m'.pc \in {"life_off", "life_start", "life_stop"} /\ m'.op = m.op /\ m'.boot = m.boot
  BY <1>0, <1>2, Goes DEF Places
<1>4. TypeOK'
  <2>1. spent' \in [request : 0..MaxRequests, fault : 0..MaxFaults, stop : 0..MaxStops]
    BY <1>0, Spends DEF Lifecycle
  <2> QED
    BY <1>0, <1>1, <1>3, <2>1 DEF TypeOK
<1>5. Transaction'
  <2>1. Quiet \/ Open
    BY <1>0, <1>1 DEF Transaction
  <2>2. Quiet' \/ Open'
    BY <1>1, <2>1 DEF Quiet, Open, Served, revision
  <2> QED
    BY <1>3, <2>2, AtRest
<1>6. Mirroring'
  <2>1. InLine /\ ~m.boot /\ m.op # "lanes"
    BY <1>0, <1>1 DEF Mirroring, Resting, Slotted
  <2> QED
    BY <1>0, <1>1, <1>3, <2>1, Aside DEF Slotted, Forward
<1> QED
  BY <1>4, <1>5, <1>6 DEF IInv

\* Where a call of mita may lead.
LEMMA CallLeads ==
  ASSUME TypeOK, MitaCall
  PROVE  \E p \in Places :
           /\ lands(p)
           /\ \/ m.pc \in {"apply"} \cup Forward /\ p \in Forward \cup {"undo"}
              \/ m.pc \in {"undo"} \cup Undone /\ p \in Undone
              \/ m.pc \in {"undo"} \cup Undone /\ p = answered
              \/ m.pc \in {"life_stop", "life_start", "life_off"} /\ p \in {"life_start", "serving"}
              \/ m.pc \in {"life_stop", "life_start", "life_off"} /\ p = answered
              \/ m.pc \in Back /\ p \in Back \cup {"down"}
<1>1. PICK p : lands(p) /\ (p = then(m.pc) \/ p = fails(m.pc))
  BY DEF MitaCall
<1>2. m.pc \in {"apply", "reload", "stop", "start", "undo", "undo_stop", "undo_start", "back", "back_stop", "back_start",
                "life_stop", "life_start", "life_off"}
  BY DEF MitaCall, applying, stopping, starting
<1>3. \A q \in {"undo", "undo_stop", "undo_start", "life_stop", "life_start", "life_off"} : fails(q) = answered
  BY DEF fails
<1>4. /\ m.pc \in {"apply", "reload", "stop", "start"} => p \in {"note", "commit", "start", "undo"}
      /\ m.pc \in {"undo", "undo_stop", "undo_start"} => p \in {"note_undo", "undo_start", "undo_clear"} \/ p = answered
      /\ m.pc \in {"back", "back_stop", "back_start"} => p \in {"back_stop", "back_start", "back_clear", "down"}
      /\ m.pc \in {"life_stop", "life_start", "life_off"} => p \in {"life_start", "serving"} \/ p = answered
  BY <1>1, <1>3, Then
<1>5. answered \in {"down", "serving"}
  BY DEF answered
<1>6. p \in Places
  BY <1>2, <1>4, <1>5 DEF Places
<1> QED
  BY <1>1, <1>2, <1>4, <1>6 DEF Forward, Undone, Back

\* A call of mita.
LEMMA MitaCallStep ==
  ASSUME IInv, MitaCall
  PROVE  IInv'
<1>0. TypeOK /\ Transaction /\ Mirroring
  BY DEF IInv
<1>1. UNCHANGED <<disk, journal, slots, cred, at, strayed>>
  BY DEF MitaCall, files
<1>2. mita' \in Daemons /\ Transaction'
  BY <1>0, CallStep
<1>3. PICK p \in Places :
           /\ lands(p)
           /\ \/ m.pc \in {"apply"} \cup Forward /\ p \in Forward \cup {"undo"}
              \/ m.pc \in {"undo"} \cup Undone /\ p \in Undone
              \/ m.pc \in {"undo"} \cup Undone /\ p = answered
              \/ m.pc \in {"life_stop", "life_start", "life_off"} /\ p \in {"life_start", "serving"}
              \/ m.pc \in {"life_stop", "life_start", "life_off"} /\ p = answered
              \/ m.pc \in Back /\ p \in Back \cup {"down"}
  BY <1>0, CallLeads
<1>4. /\ m' \in Managers /\ m'.pc = p
      /\ p = "serving" => m'.op = "none" /\ m'.boot = FALSE /\ memory' = NoState
      /\ p = "down" => m'.op = "none" /\ m'.boot = TRUE /\ memory' = NoState
      /\ p = "refused" => memory' = NoState
      /\ p \notin {"serving", "down"} => m'.op = m.op /\ m'.boot = m.boot
      /\ p \notin {"serving", "down", "refused"} => memory' = memory
  BY <1>0, <1>3, Lands
<1>5. TypeOK'
  <2>1. spent' \in [request : 0..MaxRequests, fault : 0..MaxFaults, stop : 0..MaxStops]
    BY <1>0, Spends DEF MitaCall, TypeOK
  <2>2. memory' = memory \/ memory' = NoState
    BY <1>4
  <2> QED
    BY <1>0, <1>1, <1>2, <1>4, <2>1, <2>2 DEF TypeOK
<1>6. Mirroring'
  <2>1. m.pc \notin {"record"} \cup Slotted /\ m.op # "lanes"
    BY <1>0, <1>3 DEF Mirroring, Forward, Undone, Back, Slotted
  <2>2. m'.op # "lanes" /\ (memory' = memory \/ memory' = NoState)
    BY <1>4, <2>1
  <2>3. CASE p \in Forward
    <3>1. m.pc \in {"apply"} \cup Forward /\ m'.boot = m.boot /\ memory' = memory
      BY <1>3, <1>4, <2>3 DEF Forward, Undone, Back, answered
    <3>2. memory \in States /\ LanesOK(memory) /\ (laned(memory) <=> laned(disk)) /\ memory.stale = disk.stale
      BY <1>0, <3>1 DEF Transaction, Mirroring
    <3>3. ~m.boot => InLine
      BY <1>0, <3>1 DEF Mirroring, Resting
    <3>4. LanesOK(memory)' /\ (laned(memory)' <=> laned(disk))
      BY <3>1, <3>2 DEF LanesOK, laned
    <3> QED
      BY <1>0, <1>1, <1>4, <2>1, <2>2, <2>3, <3>1, <3>2, <3>3, <3>4, Ahead
  <2>4. CASE p \notin Forward
    <3>1. p \in {"undo", "life_start", "serving", "down"} \cup Undone \cup Back
      BY <1>3, <2>4 DEF answered
    <3>2. CASE p \in {"down"} \cup Back
      BY <1>0, <1>1, <1>4, <2>1, <2>2, <3>2, Aside DEF Slotted, Forward, Resting, Undone, Back
    <3>3. CASE p \in {"undo", "life_start"} \cup Undone
      <4>1. m.pc \in Resting /\ m'.boot = m.boot
        BY <1>3, <1>4, <3>3 DEF Resting, Forward, Undone, Back, answered
      <4>2. p = "life_start" => ~m'.boot
        BY <1>0, <1>3, <4>1 DEF Mirroring, Forward, Undone, Back, answered
      <4> QED
        BY <1>0, <1>1, <1>4, <2>1, <2>2, <3>3, <4>1, <4>2, Aside DEF Slotted, Forward, Undone, Mirroring
    <3>4. CASE p = "serving"
      <4>1. m.pc \in Resting /\ ~m.boot
        BY <1>0, <1>3, <3>4 DEF Resting, Forward, Undone, Back, answered, Mirroring
      <4> QED
        BY <1>0, <1>1, <1>4, <2>1, <2>2, <3>4, <4>1, Aside DEF Slotted, Forward, Mirroring
    <3> QED
      BY <3>1, <3>2, <3>3, <3>4
  <2> QED
    BY <2>3, <2>4
<1> QED
  BY <1>2, <1>5, <1>6 DEF IInv

\* The journal's phase changes nothing else of it.
LEMMA Phases ==
  ASSUME NEW phase \in {"applied", "rollback_applied"}, journal \in Journals, journal' = [journal EXCEPT !.phase = phase]
  PROVE  journal' \in Journals /\ journal'.from = journal.from /\ journal'.next = journal.next
BY DEF Journals

\* The journal follows the configuration that mita took.
LEMMA NoteAppliedStep ==
  ASSUME IInv, NoteApplied
  PROVE  IInv'
<1>0. TypeOK /\ Transaction /\ Mirroring
  BY DEF IInv
<1>1. UNCHANGED <<disk, mita, slots, cred, memory, at, strayed, spent>> /\ m.pc = "note"
  BY DEF NoteApplied, daemons
<1>2. \E p \in {"reload", "stop"} : goes(p)
  BY DEF NoteApplied
<1>3. m' \in Managers /\ m'.pc \in {"reload", "stop"} /\ m'.op = m.op /\ m'.boot = m.boot
  BY <1>0, <1>2, Goes DEF Places
<1>4. Open /\ memory \in States /\ journal.next = revision(memory) /\ mita.config = journal.next.config
  BY <1>0, <1>1 DEF Transaction, Forward
<1>5. journal' \in Journals /\ journal'.from = journal.from /\ journal'.next = journal.next
  <2>1. journal' = [journal EXCEPT !.phase = "applied"]
    BY DEF NoteApplied
  <2> QED
    BY <1>4, <2>1, Phases DEF Open
<1>6. TypeOK'
  BY <1>0, <1>1, <1>3, <1>5 DEF TypeOK
<1>7. Transaction'
  <2>1. Open'
    BY <1>1, <1>4, <1>5 DEF Open, revision
  <2> QED
    BY <1>1, <1>3, <1>4, <1>5, <2>1 DEF Transaction, Forward, Undone, Back, Slotted, revision
<1>8. Mirroring'
  <2>1. m.op # "lanes" /\ m.pc \notin {"record"} \cup Slotted
    BY <1>0, <1>1 DEF Mirroring, Slotted
  <2>2. LanesOK(memory) /\ (laned(memory) <=> laned(disk)) /\ memory.stale = disk.stale /\ (~m.boot => InLine)
    BY <1>0, <1>1, <1>4 DEF Mirroring, Forward, Resting
  <2>3. LanesOK(memory)' /\ (laned(memory)' <=> laned(disk))
    BY <1>1, <2>2 DEF LanesOK, laned
  <2> QED
    BY <1>0, <1>1, <1>3, <1>4, <2>1, <2>2, <2>3, Ahead DEF Forward
<1> QED
  BY <1>6, <1>7, <1>8 DEF IInv

\* The journal follows the backup that mita took again.
LEMMA NoteUndoneStep ==
  ASSUME IInv, NoteUndone
  PROVE  IInv'
<1>0. TypeOK /\ Transaction /\ Mirroring
  BY DEF IInv
<1>1. UNCHANGED <<disk, mita, slots, cred, memory, at, strayed, spent>> /\ m.pc = "note_undo"
  BY DEF NoteUndone, daemons
<1>3. m' \in Managers /\ m'.pc = "undo_stop" /\ m'.op = m.op /\ m'.boot = m.boot
  BY <1>0, Goes DEF Places, NoteUndone
<1>4. Open /\ mita.config = disk.config
  BY <1>0, <1>1 DEF Transaction, Undone
<1>5. journal' \in Journals /\ journal'.from = journal.from /\ journal'.next = journal.next
  <2>1. journal' = [journal EXCEPT !.phase = "rollback_applied"]
    BY DEF NoteUndone
  <2> QED
    BY <1>4, <2>1, Phases DEF Open
<1>6. TypeOK'
  BY <1>0, <1>1, <1>3, <1>5 DEF TypeOK
<1>7. Transaction'
  <2>1. Open'
    BY <1>1, <1>4, <1>5 DEF Open, revision
  <2> QED
    BY <1>1, <1>3, <1>4, <1>5, <2>1 DEF Transaction, Forward, Undone, Back, Slotted
<1>8. Mirroring'
  <2>1. m.op # "lanes" /\ m.pc \notin {"record"} \cup Slotted /\ (~m.boot => InLine)
    BY <1>0, <1>1 DEF Mirroring, Slotted, Resting, Undone
  <2> QED
    BY <1>0, <1>1, <1>3, <2>1, Aside DEF Slotted, Forward
<1> QED
  BY <1>6, <1>7, <1>8 DEF IInv

\* Without lanes every slot is empty.
LEMMA Unlaned ==
  ASSUME NEW state, NEW config, NEW k \in Slots, ~laned(state)
  PROVE  slot_desired(k, state, config) = Empty
<1>1. \A l \in Lanes : state.lanes[l].slot # k
  BY NothingIs DEF laned, NoEntry, Slots
<1>2. {l \in Lanes : state.lanes[l].slot = k /\ \E n \in state.lanes[l].users : config.users[n] # NoUser} = {}
  BY <1>1
<1> QED
  BY <1>2 DEF slot_desired

\* The commit: state.json takes the state that mita serves.
LEMMA CommitStep ==
  ASSUME IInv, Commit
  PROVE  IInv'
<1>0. TypeOK /\ Transaction /\ Mirroring
  BY DEF IInv
<1>1. UNCHANGED <<journal, mita, slots, cred, memory, at, strayed, spent>> /\ m.pc = "commit" /\ disk' = memory
  BY DEF Commit, daemons
<1>3. m' \in Managers /\ m'.pc = "clear" /\ m'.op = m.op /\ m'.boot = m.boot
  BY <1>0, Goes DEF Places, Commit
<1>4. Open /\ memory \in States /\ journal.next = revision(memory) /\ mita.config = journal.next.config /\ Served
  BY <1>0, <1>1 DEF Transaction, Forward
<1>5. TypeOK'
  BY <1>0, <1>1, <1>3, <1>4 DEF TypeOK
<1>6. Transaction'
  <2>1. revision(memory).config = memory.config
    BY <1>4, RevisionIs
  <2>2. Done'
    BY <1>1, <1>4, <2>1 DEF Done, Served, Open, revision
  <2> QED
    BY <1>1, <1>3, <2>2 DEF Transaction, Forward, Undone, Back, Slotted
<1>7. Mirroring'
  <2>1. m.op # "lanes" /\ m.pc \notin {"record"} \cup Slotted
    BY <1>0, <1>1 DEF Mirroring, Slotted
  <2>2. LanesOK(memory) /\ (laned(memory) <=> laned(disk)) /\ memory.stale = disk.stale
    BY <1>0, <1>1, <1>4 DEF Mirroring, Forward
  <2>3. ~laned(disk)' => InLine'
    <3>1. SUFFICES ASSUME ~laned(memory), ~disk'.stale, 0 \notin strayed', NEW k \in Slots
                   PROVE  Follows(k, disk, disk.config)'
      BY <1>1 DEF InLine, laned
    <3>2. Follows(k, disk, disk.config)
      BY <1>0, <1>1, <2>1, <2>2, <3>1 DEF Mirroring, InLine
    <3>3. slot_desired(k, disk, disk.config) = Empty /\ slot_desired(k, memory, memory.config) = Empty
      BY <2>2, <3>1, Unlaned
    <3> QED
      BY <1>1, <3>2, <3>3 DEF Follows
  <2>4. \A k \in Slots : k \in torn(slots)' => k \in strayed'
    BY <1>0, <1>1, <2>1 DEF Mirroring, torn
  <2>5. LanesOK(disk)' /\ LanesOK(memory)'
    BY <1>1, <2>2 DEF LanesOK
  <2> QED
    BY <1>3, <2>1, <2>3, <2>4, <2>5 DEF Mirroring, Slotted, Forward, Resting, Undone
<1> QED
  BY <1>5, <1>6, <1>7 DEF IInv

\* The sync begins: no slot has been passed yet.
LEMMA SyncBegins ==
  ASSUME TypeOK, Mirroring, UNCHANGED <<disk, slots, strayed>>,
         m.pc \notin {"record"} \cup Slotted, m'.pc = "slot", at' = [Nowhere EXCEPT !.slot = 1],
         memory' \in States, LanesOK(memory)', revision(memory)' = revision(disk),
         m'.op # "lanes" => memory' = disk /\ laned(disk),
         m'.op = "lanes" => ~m'.boot
  PROVE  Mirroring' /\ at' \in [slot : 0..NSlots + 1, was : SlotDaemons]
<1>1. LanesOK(disk)' /\ (laned(disk)' <=> laned(disk))
  BY SlotsStay DEF Mirroring
<1>2. at' \in [slot : 0..NSlots + 1, was : SlotDaemons] /\ at'.slot = 1
  BY NothingIs DEF Nowhere
<1>3. \A k \in Slots : k \in torn(slots)' => k \in strayed'
  BY SlotsStay DEF Mirroring
<1>4. at'.slot \in 1..NSlots + 1 /\ \A k \in Slots : ~(k < at'.slot)
  BY <1>2, NothingIs DEF Slots
<1>5. revision(memory)' = revision(disk)'
  BY DEF revision
<1> QED
  BY <1>1, <1>2, <1>3, <1>4, <1>5 DEF Mirroring, Slotted, Forward, Resting, Undone

\* The journal goes: the transaction is over, or undone.
LEMMA ClearStep ==
  ASSUME IInv, Clear
  PROVE  IInv'
<1>0. TypeOK /\ Transaction /\ Mirroring
  BY DEF IInv
<1>1. UNCHANGED <<disk, mita, slots, cred, strayed, spent>> /\ journal' = NoJournal /\ m.pc \in {"clear", "undo_clear", "back_clear"}
  BY DEF Clear, daemons
<1>2. m.op # "lanes" /\ m.pc \notin {"record"} \cup Slotted
  BY <1>0, <1>1 DEF Mirroring, Slotted
<1>3. mita.config = disk.config /\ Served
  BY <1>0, <1>1 DEF Transaction, Undone, Back, Done, Loaded, Served
<1>4. Quiet'
  BY <1>1, <1>3 DEF Quiet, Served
<1>5. CASE m.pc = "clear" /\ laned(disk)
  <2>1. goes("slot") /\ at' = [Nowhere EXCEPT !.slot = 1] /\ memory' = memory
    BY <1>5 DEF Clear
  <2>2. m' \in Managers /\ m'.pc = "slot" /\ m'.op = m.op /\ m'.boot = m.boot
    BY <1>0, <2>1, Goes DEF Places
  <2>3. memory = disk /\ disk \in States /\ LanesOK(disk)
    BY <1>0, <1>5 DEF Transaction, Mirroring, TypeOK
  <2>4. LanesOK(memory)' /\ revision(memory)' = revision(disk)
    BY <2>1, <2>3 DEF LanesOK, revision
  <2>5. Mirroring' /\ at' \in [slot : 0..NSlots + 1, was : SlotDaemons]
    BY <1>0, <1>1, <1>2, <1>5, <2>1, <2>2, <2>3, <2>4, SyncBegins
  <2>6. TypeOK'
    BY <1>0, <1>1, <2>1, <2>2, <2>5 DEF TypeOK
  <2>7. Transaction'
    BY <1>1, <1>3, <1>4, <2>2 DEF Transaction, Slotted, Forward, Undone, Back
  <2> QED
    BY <2>5, <2>6, <2>7 DEF IInv
<1>6. CASE ~(m.pc = "clear" /\ laned(disk))
  <2>1. PICK p \in {"mirror", "serving", "down", "check"} :
          /\ lands(p) /\ UNCHANGED at
          /\ p = "serving" => (m.pc = "clear" /\ ~laned(disk)) \/ (m.pc = "undo_clear" /\ ~m.boot)
    BY <1>1, <1>6 DEF Clear, answered
  <2>2. /\ m' \in Managers /\ m'.pc = p
        /\ p = "serving" => m'.op = "none" /\ m'.boot = FALSE
        /\ p = "down" => m'.op = "none"
        /\ p \notin {"serving", "down"} => m'.op = m.op
        /\ memory' = memory \/ memory' = NoState
    BY <1>0, <2>1, Lands DEF Places
  <2>3. TypeOK'
    BY <1>0, <1>1, <2>1, <2>2 DEF TypeOK
  <2>4. Transaction'
    BY <1>1, <1>3, <1>4, <2>2 DEF Transaction, Slotted, Forward, Undone, Back
  <2>5. p = "serving" => InLine
    BY <1>0, <1>2, <2>1 DEF Mirroring, Resting, Undone
  <2>6. Mirroring'
    BY <1>0, <1>1, <1>2, <2>2, <2>5, Aside DEF Slotted, Forward, Resting, Undone
  <2> QED
    BY <2>3, <2>4, <2>6 DEF IInv
<1> QED
  BY <1>5, <1>6

\* A start, and what it makes of the journal it finds.
LEMMA BootstrapStep ==
  ASSUME IInv, Bootstrap
  PROVE  IInv'
<1>0. TypeOK /\ Transaction /\ Mirroring
  BY DEF IInv
<1>1. UNCHANGED <<disk, mita, slots, cred, memory, at, strayed, spent>> /\ m.pc = "down"
  BY DEF Bootstrap, daemons
<1>2. PICK p \in {"check", "refused", "back", "back_stop"} :
        /\ m' = [pc |-> p, op |-> "none", boot |-> TRUE]
        /\ p = "check" <=> journal = NoJournal \/ committed
        /\ p = "back_stop" => mita.config = previous
  BY DEF Bootstrap
<1>3. journal' = IF journal # NoJournal /\ committed THEN NoJournal ELSE journal
  BY DEF Bootstrap
<1>4. m' \in Managers /\ m'.pc = p /\ m'.op = "none" /\ m'.boot = TRUE
  BY <1>2 DEF Managers, Places
<1>5. TypeOK'
  BY <1>0, <1>1, <1>3, <1>4 DEF TypeOK
<1>6. Transaction'
  <2>0. disk \in States
    BY <1>0 DEF TypeOK
  <2>1. Quiet \/ Open \/ Done
    BY <1>0, <1>1 DEF Transaction
  <2>2. CASE Quiet
    <3>1. p = "check" /\ Quiet'
      BY <1>1, <1>2, <1>3, <2>2 DEF Quiet, Served
    <3> QED
      BY <1>4, <3>1 DEF Transaction, Slotted, Forward, Undone, Back, Quiet
  <2>3. CASE Done
    <3>1. journal # NoJournal /\ committed
      BY <2>0, <2>3, NothingIs, RevisionIs DEF Done, committed
    <3>2. p = "check" /\ journal' = NoJournal
      BY <1>2, <1>3, <3>1
    <3>3. Quiet'
      BY <1>1, <2>3, <3>2 DEF Quiet, Done, Served
    <3> QED
      BY <1>4, <3>2, <3>3 DEF Transaction, Slotted, Forward, Undone, Back, Quiet
  <2>4. CASE Open
    <3>1. journal # NoJournal
      BY <2>4, NothingIs DEF Open
    <3>2. ~committed
      <4>1. revision(disk).generation = disk.generation /\ disk.generation \in Nat
        BY <2>0, RevisionIs DEF States
      <4> QED
        BY <2>4, <4>1 DEF Open, committed
    <3>3. p # "check" /\ journal' = journal
      BY <1>2, <1>3, <3>1, <3>2
    <3>4. Open'
      BY <1>1, <2>4, <3>3 DEF Open, revision
    <3>5. p = "back_stop" => mita.config = disk.config
      BY <1>2, <2>0, <2>4, RevisionIs DEF Open, previous
    <3> QED
      BY <1>1, <1>4, <3>3, <3>4, <3>5 DEF Transaction, Slotted, Forward, Undone, Back
  <2> QED
    BY <2>1, <2>2, <2>3, <2>4
<1>7. Mirroring'
  BY <1>0, <1>1, <1>4, Aside DEF Slotted, Forward, Resting, Undone
<1> QED
  BY <1>5, <1>6, <1>7 DEF IInv

\* The checks of a start, and the transaction of a credential that changed.
LEMMA CheckStep ==
  ASSUME IInv, Check
  PROVE  IInv'
<1>0. TypeOK /\ Transaction /\ Mirroring
  BY DEF IInv
<1>1. UNCHANGED <<disk, mita, slots, cred, at, strayed, spent>> /\ m.pc = "check"
  BY DEF Check, daemons
<1>2. Quiet
  BY <1>0, <1>1 DEF Transaction
<1>3. m.op # "lanes" /\ m.pc \notin {"record"} \cup Slotted
  BY <1>0, <1>1 DEF Mirroring, Slotted
<1>4. CASE begins("refresh", [disk EXCEPT !.config.egress = cred], TRUE)
  <2> DEFINE next == [disk EXCEPT !.config.egress = cred]
  <2>1. next \in States /\ next.lanes = disk.lanes /\ next.stale = disk.stale
    BY <1>0, RefreshedIs
  <2>2. begins("refresh", next, TRUE) /\ "refresh" \in Operations
    BY <1>4 DEF Operations
  <2> HIDE DEF next
  <2>3. /\ memory' \in States /\ memory'.lanes = disk.lanes /\ memory'.stale = disk.stale
        /\ journal' \in Journals /\ journal'.from = revision(disk) /\ journal'.next = revision(memory')
        /\ journal'.next.generation = disk.generation + 1
        /\ m' \in Managers /\ m'.pc = "apply" /\ m'.op = "refresh" /\ m'.boot = TRUE
    BY <1>0, <2>1, <2>2, Begins
  <2>4. TypeOK'
    BY <1>0, <1>1, <2>3 DEF TypeOK
  <2>5. Transaction'
    <3>1. Open'
      BY <1>1, <1>2, <2>3 DEF Open, Quiet, revision
    <3> QED
      BY <1>1, <1>2, <2>3, <3>1 DEF Transaction, Quiet, Forward, Undone, Back, Slotted
  <2>6. LanesOK(memory)' /\ (laned(memory)' <=> laned(disk))
    BY <1>0, <2>3 DEF LanesOK, laned, Mirroring
  <2>7. Mirroring'
    BY <1>0, <1>1, <1>3, <2>3, <2>6, Ahead
  <2> QED
    BY <2>4, <2>5, <2>7 DEF IInv
<1>5. ASSUME NEW p \in {"refused", "mirror"}, goes(p), UNCHANGED <<journal, memory>>
      PROVE  IInv'
  <2>1. m' \in Managers /\ m'.pc = p /\ m'.op = m.op
    BY <1>0, <1>5, Goes DEF Places
  <2>2. TypeOK'
    BY <1>0, <1>1, <1>5, <2>1 DEF TypeOK
  <2>3. Quiet'
    BY <1>1, <1>2, <1>5 DEF Quiet, Served
  <2>4. Transaction'
    BY <2>1, <2>3 DEF Transaction, Quiet, Forward, Undone, Back, Slotted
  <2>5. Mirroring'
    BY <1>0, <1>1, <1>3, <1>5, <2>1, Aside DEF Slotted, Forward, Resting, Undone
  <2> QED
    BY <2>2, <2>4, <2>5 DEF IInv
<1> QED
  BY <1>4, <1>5 DEF Check

\* The start mirrors the lanes before it serves.
LEMMA MirrorStep ==
  ASSUME IInv, Mirror
  PROVE  IInv'
<1>0. TypeOK /\ Transaction /\ Mirroring
  BY DEF IInv
<1>1. UNCHANGED <<disk, journal, mita, slots, cred, strayed, spent>> /\ m.pc = "mirror"
  BY DEF Mirror, files, daemons
<1>2. Quiet /\ Quiet'
  <2>1. Quiet
    BY <1>0, <1>1 DEF Transaction
  <2> QED
    BY <1>1, <2>1 DEF Quiet, Served
<1>3. m.op # "lanes" /\ m.pc \notin {"record"} \cup Slotted
  BY <1>0, <1>1 DEF Mirroring, Slotted
<1>4. CASE laned(disk)
  <2>1. m' = [pc |-> "slot", op |-> "mirror", boot |-> TRUE] /\ memory' = disk /\ at' = [Nowhere EXCEPT !.slot = 1]
    BY <1>4 DEF Mirror
  <2>2. m' \in Managers /\ m'.pc = "slot" /\ m'.op = "mirror"
    BY <2>1 DEF Managers, Places
  <2>3. memory' \in States /\ LanesOK(memory)' /\ revision(memory)' = revision(disk)
    BY <1>0, <2>1 DEF Mirroring, TypeOK, LanesOK, revision
  <2>4. Mirroring' /\ at' \in [slot : 0..NSlots + 1, was : SlotDaemons]
    BY <1>0, <1>1, <1>3, <1>4, <2>1, <2>2, <2>3, SyncBegins
  <2>5. TypeOK'
    BY <1>0, <1>1, <2>2, <2>3, <2>4 DEF TypeOK
  <2>6. Transaction'
    BY <1>2, <2>2 DEF Transaction, Quiet, Forward, Undone, Back, Slotted
  <2> QED
    BY <2>4, <2>5, <2>6 DEF IInv
<1>5. CASE ~laned(disk)
  <2>1. lands("serving") /\ UNCHANGED at
    BY <1>5 DEF Mirror
  <2>2. m' \in Managers /\ m'.pc = "serving" /\ m'.op = "none" /\ m'.boot = FALSE /\ memory' = NoState
    BY <1>0, <2>1, Lands DEF Places
  <2>3. TypeOK'
    BY <1>0, <1>1, <2>1, <2>2 DEF TypeOK
  <2>4. Transaction'
    BY <1>2, <2>2, AtRest
  <2>5. InLine
    BY <1>0, <1>3, <1>5 DEF Mirroring
  <2>6. Mirroring'
    BY <1>0, <1>1, <1>3, <2>2, <2>5, Aside DEF Slotted, Forward
  <2> QED
    BY <2>3, <2>4, <2>6 DEF IInv
<1> QED
  BY <1>4, <1>5

\* The manager dies: its journal, if any, covers what it leaves.
LEMMA DeathStep ==
  ASSUME IInv, ManagerDies
  PROVE  IInv'
<1>0. TypeOK /\ Transaction /\ Mirroring
  BY DEF IInv
<1>1. /\ UNCHANGED <<disk, journal, mita, slots, cred>> /\ m.pc \notin {"down", "refused"}
      /\ m' = Down /\ memory' = NoState /\ at' = Nowhere
      /\ strayed' = strayed \cup torn(slots) \cup (IF m.op = "lanes" THEN {0} ELSE {})
  BY DEF ManagerDies, files, daemons
<1>2. m' \in Managers /\ m'.pc = "down" /\ m'.op = "none" /\ m'.boot = TRUE
  BY <1>1 DEF Down, Managers, Places
<1>3. TypeOK'
  <2>1. spent' \in [request : 0..MaxRequests, fault : 0..MaxFaults, stop : 0..MaxStops]
    BY <1>0, Spends DEF ManagerDies
  <2>2. torn(slots) \subseteq 0..NSlots /\ 0 \in 0..NSlots
    BY NothingIs DEF torn, Slots
  <2>3. strayed' \subseteq 0..NSlots
    BY <1>0, <1>1, <2>2 DEF TypeOK
  <2> QED
    BY <1>0, <1>1, <1>2, <2>1, <2>3, NothingIs DEF TypeOK
<1>4. Transaction'
  <2>1. m.pc \in Places
    BY <1>0 DEF TypeOK, Managers
  <2>2. Quiet \/ Open \/ Done
    BY <1>0, <1>1, <2>1 DEF Transaction, Places, Forward, Undone, Back, Slotted
  <2>3. Quiet' \/ Open' \/ Done'
    BY <1>1, <2>2 DEF Quiet, Open, Done, Served, revision
  <2> QED
    BY <1>2, <2>3 DEF Transaction, Forward, Undone, Back, Slotted
<1>5. Mirroring'
  <2>1. LanesOK(disk)' /\ (laned(disk)' <=> laned(disk)) /\ torn(slots)' = torn(slots)
    BY <1>0, <1>1 DEF Mirroring, LanesOK, laned, torn
  <2>2. ~laned(disk)' => InLine'
    <3>1. SUFFICES ASSUME ~laned(disk), ~disk.stale, 0 \notin strayed', NEW k \in Slots
                   PROVE  Follows(k, disk, disk.config)'
      BY <1>1, <2>1 DEF InLine
    <3>2. m.op # "lanes" /\ 0 \notin strayed
      BY <1>1, <3>1
    <3>3. Follows(k, disk, disk.config)
      BY <1>0, <3>1, <3>2 DEF Mirroring, InLine
    <3> QED
      BY <1>1, <3>3 DEF Follows
  <2>3. \A k \in Slots : k \in torn(slots)' => k \in strayed'
    BY <1>1, <2>1
  <2> QED
    BY <1>1, <1>2, <2>1, <2>2, <2>3, NothingIs DEF Mirroring, Slotted, Forward, Resting, Undone
<1> QED
  BY <1>3, <1>4, <1>5 DEF IInv

\* A slot that nothing touches, for the same lanes and users.
LEMMA SlotsKept ==
  ASSUME UNCHANGED <<slots, strayed, memory, at>>, mita'.config = mita.config
  PROVE  /\ \A k \in Slots : Follows(k, memory, mita.config) => Follows(k, memory, mita.config)'
         /\ wants(at.slot)' = wants(at.slot)
BY DEF Follows, wants

\* mita restarts with the configuration it was given.
LEMMA RestartStep ==
  ASSUME IInv, MitaRestarts
  PROVE  IInv'
<1>0. TypeOK /\ Transaction /\ Mirroring
  BY DEF IInv
<1>1. UNCHANGED <<disk, journal, slots, cred, m, memory, at, strayed>>
  BY DEF MitaRestarts, files
<1>2. mita' \in Daemons /\ mita'.config = mita.config /\ Loaded' /\ Served'
  BY <1>0, DaemonFields DEF MitaRestarts, TypeOK, Loaded, Served
<1>3. TypeOK'
  <2>1. spent' \in [request : 0..MaxRequests, fault : 0..MaxFaults, stop : 0..MaxStops]
    BY <1>0, Spends DEF MitaRestarts
  <2> QED
    BY <1>0, <1>1, <1>2, <2>1 DEF TypeOK
<1>4. Transaction'
  <2>1. (Open => Open') /\ (Quiet => Quiet') /\ (Done => Done')
    BY <1>1, <1>2 DEF Open, Quiet, Done, revision
  <2>2. revision(memory)' = revision(memory)
    BY <1>1 DEF revision
  <2> QED
    BY <1>0, <1>1, <1>2, <2>1, <2>2 DEF Transaction
<1>5. Mirroring'
  <2>1. /\ LanesOK(disk)' /\ (InLine => InLine') /\ (laned(disk)' <=> laned(disk)) /\ torn(slots)' = torn(slots)
        /\ \A k \in Slots : Follows(k, memory, mita.config) => Follows(k, memory, mita.config)'
        /\ wants(at.slot)' = wants(at.slot)
    BY <1>0, <1>1, <1>2, SlotsStay, SlotsKept DEF Mirroring
  <2>2. (LanesOK(memory) => LanesOK(memory)') /\ (laned(memory)' <=> laned(memory))
    BY <1>1 DEF LanesOK, laned
  <2>3. revision(memory)' = revision(memory) /\ revision(disk)' = revision(disk)
    BY <1>1 DEF revision
  <2> QED
    BY <1>0, <1>1, <2>1, <2>2, <2>3 DEF Mirroring
<1> QED
  BY <1>3, <1>4, <1>5 DEF IInv

\* Nothing but the router's credential file, or nothing at all.
LEMMA StandStill ==
  ASSUME IInv, cred' \in 1..MaxCred, UNCHANGED <<disk, journal, mita, slots, m, memory, at, strayed, spent>>
  PROVE  IInv'
<1>0. TypeOK /\ Transaction /\ Mirroring
  BY DEF IInv
<1>1. TypeOK'
  BY <1>0 DEF TypeOK
<1>2. Transaction'
  BY <1>0 DEF Transaction, Open, Quiet, Done, Served, Loaded, revision
<1>3. Mirroring'
  <2>1. /\ LanesOK(disk)' /\ (InLine => InLine') /\ (laned(disk)' <=> laned(disk)) /\ torn(slots)' = torn(slots)
        /\ \A k \in Slots : Follows(k, memory, mita.config) => Follows(k, memory, mita.config)'
        /\ wants(at.slot)' = wants(at.slot)
    BY <1>0, SlotsStay, SlotsKept DEF Mirroring
  <2>2. (LanesOK(memory) => LanesOK(memory)') /\ (laned(memory)' <=> laned(memory))
    BY DEF LanesOK, laned
  <2>3. revision(memory)' = revision(memory) /\ revision(disk)' = revision(disk)
    BY DEF revision
  <2> QED
    BY <1>0, <2>1, <2>2, <2>3 DEF Mirroring
<1> QED
  BY <1>1, <1>2, <1>3 DEF IInv

\* A lanes request.
LEMMA SetLanesStep ==
  ASSUME IInv, NEW who \in [Names -> Lanes \cup {"none"}], NEW slot_of \in [fresh(who) -> Slots], SetLanes(who, slot_of)
  PROVE  IInv'
<1>0. TypeOK /\ Transaction /\ Mirroring /\ LanesOK(disk)
  BY DEF IInv, Mirroring
<1>1. /\ UNCHANGED <<disk, journal, mita, slots, cred, strayed>> /\ m.pc = "serving" /\ mita.config = disk.config
      /\ m' = [pc |-> "slot", op |-> "lanes", boot |-> FALSE] /\ at' = [Nowhere EXCEPT !.slot = 1]
  BY DEF SetLanes, files, daemons, serving, consistent
<1>2. m' \in Managers /\ m'.pc = "slot" /\ m'.op = "lanes" /\ m'.boot = FALSE
  BY <1>1 DEF Managers, Places
<1>3. memory' \in States /\ LanesOK(memory)' /\ revision(memory)' = revision(disk)
  BY <1>0, LanesRequest
<1>4. Mirroring' /\ at' \in [slot : 0..NSlots + 1, was : SlotDaemons]
  BY <1>0, <1>1, <1>2, <1>3, SyncBegins DEF Slotted
<1>5. TypeOK'
  <2>1. spent' \in [request : 0..MaxRequests, fault : 0..MaxFaults, stop : 0..MaxStops]
    BY <1>0, Spends DEF SetLanes
  <2> QED
    BY <1>0, <1>1, <1>2, <1>3, <1>4, <2>1 DEF TypeOK
<1>6. Transaction'
  <2>1. Quiet \/ Open
    BY <1>0, <1>1 DEF Transaction
  <2>2. Quiet' \/ Open'
    BY <1>1, <2>1 DEF Quiet, Open, Served, revision
  <2> QED
    BY <1>1, <1>2, <2>2 DEF Transaction, Forward, Undone, Back, Slotted
<1> QED
  BY <1>4, <1>5, <1>6 DEF IInv

\* The record of the lanes, or of a sync that failed.
LEMMA RecordStep ==
  ASSUME IInv, Record
  PROVE  IInv'
<1>0. TypeOK /\ Transaction /\ Mirroring
  BY DEF IInv
<1>1. UNCHANGED <<journal, mita, slots, cred, at, strayed, spent>> /\ m.pc \in {"record", "stale"}
  BY DEF Record, daemons
<1>2. memory \in States /\ LanesOK(memory) /\ revision(memory) = revision(disk) /\ mita.config = disk.config
  BY <1>0, <1>1 DEF Mirroring, Transaction
<1>3. disk' \in States /\ revision(disk') = revision(memory) /\ disk'.lanes = memory.lanes
  <2>1. disk' = memory \/ disk' = [memory EXCEPT !.stale = TRUE]
    BY DEF Record
  <2> QED
    BY <1>2, <2>1 DEF States, revision
<1>4. memory.config = disk.config /\ disk'.config = disk.config /\ disk'.generation = disk.generation
  <2>1. disk \in States
    BY <1>0 DEF TypeOK
  <2> QED
    BY <1>2, <1>3, <2>1, RevisionIs
<1>5. PICK p \in {"mirror", "serving"} : lands(p) /\ (p = "mirror" <=> m.boot)
  BY DEF Record
<1>6. /\ m' \in Managers /\ m'.pc = p /\ (m'.op = m.op \/ m'.op = "none")
      /\ p = "serving" => ~m'.boot /\ m'.op = "none"
      /\ memory' = memory \/ memory' = NoState
  BY <1>0, <1>5, Lands DEF Places
<1>7. TypeOK'
  BY <1>0, <1>1, <1>3, <1>6 DEF TypeOK
<1>8. Transaction'
  <2>1. (Quiet \/ Open) /\ (m.boot => Quiet)
    BY <1>0, <1>1 DEF Transaction
  <2>2. (Quiet => Quiet') /\ (Open => Open')
    BY <1>1, <1>2, <1>3, <1>4 DEF Quiet, Open, Served
  <2> QED
    BY <1>1, <1>2, <1>4, <1>5, <1>6, <2>1, <2>2 DEF Transaction, Forward, Undone, Back, Slotted
<1>9. Mirroring'
  <2>1. LanesOK(disk)' /\ (memory' \in States => LanesOK(memory)')
    BY <1>2, <1>3, <1>6, NothingIs DEF LanesOK
  <2>2. m'.op # "lanes"
    BY <1>0, <1>5, <1>6 DEF Mirroring
  <2>3. InLine'
    <3>1. CASE m.pc = "stale"
      <4>1. disk'.stale
        BY <1>2, <3>1 DEF Record, States
      <4> QED
        BY <4>1 DEF InLine
    <3>2. CASE m.pc = "record"
      <4>1. disk' = memory /\ \A k \in Slots : Follows(k, memory, mita.config)
        BY <1>0, <3>2 DEF Record, Mirroring
      <4> QED
        BY <1>1, <1>2, <1>4, <4>1 DEF InLine, Follows
    <3> QED
      BY <1>1, <3>1, <3>2
  <2>4. \A k \in Slots : k \in torn(slots)' => k \in strayed'
    BY <1>0, <1>1 DEF Mirroring, torn, Slotted
  <2> QED
    BY <1>6, <2>1, <2>2, <2>3, <2>4 DEF Mirroring, Slotted, Forward
<1> QED
  BY <1>7, <1>8, <1>9 DEF IInv

---------------------------------------------------------------------------
(* The sync of the slots *)

\* A step of the sync leaves the transaction's part as it is.
LEMMA SyncKeeps ==
  ASSUME TypeOK, Transaction, Mirroring, UNCHANGED <<disk, journal, mita>>, m.pc \in Slotted,
         m'.boot = m.boot \/ m'.pc \in {"serving", "down"},
         m'.pc \in {"record", "mirror", "serving", "down", "stale"} \cup Slotted,
         m'.pc = "mirror" => m.boot,
         m'.pc = "stale" => memory' = memory /\ m'.op = m.op /\ m.op \notin {"lanes", "mirror"}
  PROVE  Transaction'
<1>1. mita.config = disk.config /\ (Quiet \/ Open) /\ (m.boot => Quiet)
  BY DEF Transaction
<1>2. (Quiet => Quiet') /\ (Open => Open')
  BY DEF Quiet, Open, Served, revision
<1>3. m'.pc = "stale" => memory' = disk'
  BY DEF Mirroring
<1> QED
  BY <1>1, <1>2, <1>3 DEF Transaction, Forward, Undone, Back, Slotted

\* A sync that failed: the lanes are marked, a request's or a start's failure is on record.
LEMMA GivesUp ==
  ASSUME TypeOK, Transaction, Mirroring, UNCHANGED <<disk, journal, mita, cred>>, m.pc \in Slotted,
         slots' \in [Slots -> SlotDaemons], gives_up(slots')
  PROVE  /\ m' \in Managers /\ at' \in [slot : 0..NSlots + 1, was : SlotDaemons] /\ strayed' \subseteq 0..NSlots
         /\ memory' = NoState \/ memory' \in States
         /\ Transaction' /\ Mirroring'
<1>1. at' = Nowhere /\ strayed' = strayed \cup torn(slots') \cup (IF m.op = "lanes" THEN {0} ELSE {})
  BY DEF gives_up
<1>2. PICK p \in {"serving", "down", "stale"} :
        /\ lands(p)
        /\ p = "serving" => m.op = "lanes"
        /\ p = "stale" => m.op \notin {"lanes", "mirror"}
        /\ m.op = "lanes" => p = "serving"
  BY DEF gives_up
<1>3. /\ m' \in Managers /\ m'.pc = p
      /\ p = "serving" => m'.op = "none" /\ m'.boot = FALSE /\ memory' = NoState
      /\ p = "down" => m'.op = "none" /\ m'.boot = TRUE /\ memory' = NoState
      /\ p = "stale" => m'.op = m.op /\ m'.boot = m.boot /\ memory' = memory
  BY <1>2, Lands DEF Places
<1>4. at' \in [slot : 0..NSlots + 1, was : SlotDaemons] /\ strayed' \subseteq 0..NSlots
  <2>1. torn(slots') \subseteq 0..NSlots /\ 0 \in 0..NSlots
    BY NothingIs DEF torn, Slots
  <2>2. strayed \subseteq 0..NSlots
    BY DEF TypeOK
  <2> QED
    BY <1>1, <2>1, <2>2, NothingIs
<1>5. memory \in States /\ LanesOK(memory) /\ revision(memory) = revision(disk) /\ (m.op # "lanes" => memory = disk /\ laned(disk))
  BY DEF Mirroring, Slotted
<1>6. Transaction'
  BY <1>2, <1>3, SyncKeeps
<1>7. Mirroring'
  <2>1. LanesOK(disk)' /\ (memory' \in States => LanesOK(memory)') /\ (laned(disk)' <=> laned(disk))
    BY <1>3, <1>5, NothingIs DEF Mirroring, LanesOK, laned
  <2>2. m.op = "lanes" => InLine'
    BY <1>1 DEF InLine
  <2>3. \A k \in Slots : k \in torn(slots)' => k \in strayed'
    BY <1>1 DEF torn
  <2>4. revision(memory') = revision(disk') \/ memory' = NoState
    BY <1>3, <1>5
  <2>5. m'.pc = "stale" => memory' \in States /\ memory' = disk' /\ m'.op # "lanes"
    BY <1>2, <1>3, <1>5
  <2> QED
    BY <1>2, <1>3, <1>5, <2>1, <2>2, <2>3, <2>4, <2>5, NothingIs DEF Mirroring, Slotted, Forward, Resting, Undone
<1> QED
  BY <1>3, <1>4, <1>5, <1>6, <1>7

\* The sync at a slot, or past the last one.
LEMMA SlotTurnStep ==
  ASSUME IInv, SlotTurn
  PROVE  IInv'
<1>0. TypeOK /\ Transaction /\ Mirroring
  BY DEF IInv
<1>1. UNCHANGED <<disk, journal, mita, slots, cred>> /\ m.pc = "slot" /\ m.pc \in Slotted
  BY DEF SlotTurn, files, daemons, Slotted
<1>2. /\ memory \in States /\ LanesOK(memory) /\ LanesOK(disk) /\ revision(memory) = revision(disk)
      /\ m.op # "lanes" => memory = disk /\ laned(disk)
      /\ m.op = "lanes" => ~m.boot
      /\ at.slot \in 1..NSlots + 1 /\ \A k \in Slots : k < at.slot => Follows(k, memory, mita.config)
      /\ \A k \in Slots : k \in torn(slots) => k \in strayed
      /\ mita.config = disk.config /\ memory.config = disk.config /\ NSlots \in Nat
  <2>1. disk \in States
    BY <1>0 DEF TypeOK
  <2> QED
    BY <1>0, <1>1, <2>1, RevisionIs, NothingIs DEF Mirroring, Transaction
<1>3. slots \in [Slots -> SlotDaemons] /\ at \in [slot : 0..NSlots + 1, was : SlotDaemons] /\ Slots = 1..NSlots
  BY <1>0 DEF TypeOK, Slots
<1>a. ASSUME UNCHANGED <<memory, strayed>>, m'.pc \in Slotted, m'.op = m.op, m'.boot = m.boot, m' \in Managers,
             at' \in [slot : 0..NSlots + 1, was : SlotDaemons], at'.slot \in 1..NSlots + 1, UNCHANGED spent,
             \A k \in Slots : k < at'.slot => Follows(k, memory, mita.config),
             m'.pc # "slot" => at'.slot \in Slots,
             m'.pc \in {"slot_stop", "slot_start"} => slots[at'.slot].config = slot_desired(at'.slot, memory, mita.config),
             m'.pc = "slot_start" => ~slots[at'.slot].on /\ slot_desired(at'.slot, memory, mita.config) # Empty,
             m'.pc = "slot_apply" => slots[at'.slot] = at'.was
      PROVE  IInv'
  <2>1. TypeOK'
    BY <1>0, <1>1, <1>a DEF TypeOK
  <2>2. Transaction'
    BY <1>0, <1>1, <1>a, SyncKeeps DEF Slotted
  <2>3. /\ \A k \in Slots : k < at'.slot => Follows(k, memory, mita.config)'
        /\ wants(at.slot)' = slot_desired(at'.slot, memory, mita.config)
    BY <1>1, <1>a DEF Follows, wants
  <2>4. /\ LanesOK(disk)' /\ LanesOK(memory)' /\ (laned(disk)' <=> laned(disk)) /\ torn(slots)' = torn(slots)
        /\ revision(memory)' = revision(disk)'
    BY <1>1, <1>2, <1>a DEF LanesOK, laned, torn, revision
  <2>5. m'.pc \notin {"record", "stale", "apply", "serving", "life_stop", "life_start", "life_off"} \cup Forward \cup Resting
    BY <1>a DEF Slotted, Forward, Resting, Undone
  <2>6. Mirroring'
    BY <1>1, <1>2, <1>a, <2>3, <2>4, <2>5 DEF Mirroring
  <2> QED
    BY <2>1, <2>2, <2>6 DEF IInv
<1>4. CASE /\ at.slot \in Slots /\ slots[at.slot].config = wants(at.slot) /\ slots[at.slot].on = (wants(at.slot) # Empty)
           /\ at' = [at EXCEPT !.slot = @ + 1] /\ UNCHANGED <<m, memory, strayed, spent>>
  <2>1. at' \in [slot : 0..NSlots + 1, was : SlotDaemons] /\ at'.slot = at.slot + 1 /\ at'.slot \in 1..NSlots + 1
    BY <1>2, <1>3, <1>4
  <2>2. Follows(at.slot, memory, mita.config)
    BY <1>2, <1>4 DEF Follows, wants, torn
  <2>3. \A k \in Slots : k < at'.slot => Follows(k, memory, mita.config)
    <3> TAKE k \in Slots
    <3>1. k < at'.slot => k < at.slot \/ k = at.slot
      BY <1>2, <1>3, <2>1
    <3> QED
      BY <1>2, <2>2, <3>1
  <2> QED
    BY <1>0, <1>1, <1>4, <1>a, <2>1, <2>3 DEF TypeOK
<1>5. CASE /\ at.slot \in Slots /\ ~(slots[at.slot].config = wants(at.slot) /\ slots[at.slot].on = (wants(at.slot) # Empty))
           /\ at' = [at EXCEPT !.was = slots[at.slot]]
           /\ goes(IF slots[at.slot].config # wants(at.slot) THEN "slot_apply"
                   ELSE IF slots[at.slot].on THEN "slot_stop" ELSE "slot_start")
           /\ UNCHANGED <<memory, strayed, spent>>
  <2>1. slots[at.slot] \in SlotDaemons /\ slots[at.slot].on \in BOOLEAN
    BY <1>3, <1>5 DEF SlotDaemons
  <2>2. at' \in [slot : 0..NSlots + 1, was : SlotDaemons] /\ at'.slot = at.slot /\ at'.was = slots[at.slot]
    BY <1>3, <1>5, <2>1
  <2>3. PICK p \in {"slot_apply", "slot_stop", "slot_start"} :
          /\ goes(p)
          /\ p # "slot_apply" => slots[at.slot].config = wants(at.slot)
          /\ p = "slot_start" => ~slots[at.slot].on
    BY <1>5
  <2>4. m' \in Managers /\ m'.pc = p /\ m'.op = m.op /\ m'.boot = m.boot
    BY <1>0, <2>3, Goes DEF Places
  <2>5. p = "slot_start" => wants(at.slot) # Empty
    BY <1>5, <2>1, <2>3
  <2>6. m'.pc \in Slotted
    BY <2>4 DEF Slotted
  <2> QED
    BY <1>2, <1>5, <1>a, <2>2, <2>3, <2>4, <2>5, <2>6 DEF wants
<1>6. CASE at.slot \in Slots /\ spend("fault") /\ gives_up(slots)
  <2>1. gives_up(slots') /\ slots' \in [Slots -> SlotDaemons]
    BY <1>1, <1>3, <1>6 DEF gives_up, torn
  <2>2. spent' \in [request : 0..MaxRequests, fault : 0..MaxFaults, stop : 0..MaxStops]
    BY <1>0, <1>6, Spends
  <2>3. /\ m' \in Managers /\ at' \in [slot : 0..NSlots + 1, was : SlotDaemons] /\ strayed' \subseteq 0..NSlots
        /\ memory' = NoState \/ memory' \in States
        /\ Transaction' /\ Mirroring'
    BY <1>0, <1>1, <2>1, GivesUp
  <2>4. TypeOK'
    BY <1>0, <1>1, <2>2, <2>3 DEF TypeOK
  <2> QED
    BY <2>3, <2>4 DEF IInv
<1>7. CASE /\ at.slot > NSlots /\ at' = Nowhere /\ strayed' = strayed \ {0}
           /\ lands(IF m.op = "lanes" THEN "record" ELSE IF m.boot /\ m.op # "mirror" THEN "mirror" ELSE "serving")
           /\ UNCHANGED spent
  <2>1. PICK p \in {"record", "mirror", "serving"} :
          /\ lands(p)
          /\ p = "record" <=> m.op = "lanes"
          /\ p = "mirror" => m.boot
    BY <1>7
  <2>2. /\ m' \in Managers /\ m'.pc = p
        /\ p = "serving" => m'.op = "none" /\ m'.boot = FALSE /\ memory' = NoState
        /\ p # "serving" => m'.op = m.op /\ m'.boot = m.boot /\ memory' = memory
    BY <1>0, <2>1, Lands DEF Places
  <2>3. TypeOK'
    <3>1. strayed' \subseteq 0..NSlots /\ (memory' = NoState \/ memory' \in States)
      BY <1>0, <1>2, <1>7, <2>2 DEF TypeOK
    <3> QED
      BY <1>0, <1>1, <1>7, <2>2, <3>1, NothingIs DEF TypeOK
  <2>4. Transaction'
    BY <1>0, <1>1, <2>1, <2>2, SyncKeeps
  <2>5. \A k \in Slots : Follows(k, memory, mita.config) /\ k # 0
    BY <1>2, <1>3, <1>7
  <2>6. m'.pc = "record" => \A k \in Slots : Follows(k, memory, mita.config)'
    BY <1>1, <1>7, <2>2, <2>5 DEF Follows
  <2>7. m'.pc # "record" => InLine'
    <3>1. m'.pc # "record" => memory = disk
      BY <1>2, <2>1, <2>2
    <3> QED
      BY <1>1, <1>2, <1>7, <2>5, <3>1 DEF Follows, InLine
  <2>8. \A k \in Slots : k \in torn(slots)' => k \in strayed'
    BY <1>1, <1>2, <1>7, <2>5 DEF torn
  <2>9. LanesOK(disk)' /\ (memory' \in States => LanesOK(memory)') /\ (p # "serving" => revision(memory)' = revision(disk)')
    BY <1>1, <1>2, <2>2, NothingIs DEF LanesOK, revision
  <2>10. Mirroring'
    BY <1>1, <1>2, <2>1, <2>2, <2>6, <2>7, <2>8, <2>9 DEF Mirroring, Slotted, Forward, Resting, Undone
  <2> QED
    BY <2>3, <2>4, <2>10 DEF IInv
<1> QED
  BY <1>4, <1>5, <1>6, <1>7 DEF SlotTurn

\* What a slot's call does to it, by place.
LEMMA SlotEffects ==
  ASSUME TypeOK, memory \in States, at.slot \in Slots
  PROVE  LET s == slots[at.slot] IN
         /\ s \in SlotDaemons /\ s.on \in BOOLEAN /\ at.was.on \in BOOLEAN
         /\ \A p \in {"slot_apply", "slot_stop", "slot_start", "slot_undo", "slot_undo_stop", "slot_undo_start"} :
              slot_effect(p) \in SlotDaemons
         /\ slot_effect("slot_apply").config = wants(at.slot) /\ slot_effect("slot_apply").on = s.on
         /\ slot_effect("slot_stop").config = s.config /\ slot_effect("slot_stop").on = FALSE
         /\ ~s.on => /\ slot_effect("slot_start").config = s.config /\ slot_effect("slot_start").runs = s.config
                     /\ slot_effect("slot_start").on = TRUE
<1> DEFINE s == slots[at.slot]
<1>1. s \in SlotDaemons /\ s.on \in BOOLEAN /\ s.config \in SlotConfigs
  BY DEF TypeOK, SlotDaemons
<1>2. wants(at.slot) \in SlotConfigs
  BY DesiredIs DEF TypeOK, Daemons, wants
<1>3. at.was \in SlotDaemons /\ at.was.config \in SlotConfigs /\ at.was.on \in BOOLEAN
  BY DEF TypeOK, SlotDaemons
<1>4. /\ slot_effect("slot_apply") = [s EXCEPT !.config = wants(at.slot)]
      /\ slot_effect("slot_undo") = [s EXCEPT !.config = at.was.config]
      /\ slot_effect("slot_stop") = [s EXCEPT !.on = FALSE] /\ slot_effect("slot_undo_stop") = [s EXCEPT !.on = FALSE]
      /\ s.on => slot_effect("slot_start") = s /\ slot_effect("slot_undo_start") = s
      /\ ~s.on => /\ slot_effect("slot_start") = [s EXCEPT !.on = TRUE, !.runs = s.config]
                  /\ slot_effect("slot_undo_start") = [s EXCEPT !.on = TRUE, !.runs = s.config]
  BY DEF slot_effect
<1> HIDE DEF s
<1>5. /\ [s EXCEPT !.config = wants(at.slot)] \in SlotDaemons /\ [s EXCEPT !.config = at.was.config] \in SlotDaemons
      /\ [s EXCEPT !.on = FALSE] \in SlotDaemons /\ [s EXCEPT !.on = TRUE, !.runs = s.config] \in SlotDaemons
  BY <1>1, <1>2, <1>3 DEF SlotDaemons
<1>6. \A p \in {"slot_apply", "slot_stop", "slot_start", "slot_undo", "slot_undo_stop", "slot_undo_start"} :
        slot_effect(p) \in SlotDaemons
  BY <1>1, <1>4, <1>5
<1>7. /\ [s EXCEPT !.config = wants(at.slot)].config = wants(at.slot) /\ [s EXCEPT !.config = wants(at.slot)].on = s.on
      /\ [s EXCEPT !.on = FALSE].config = s.config /\ [s EXCEPT !.on = FALSE].on = FALSE
      /\ [s EXCEPT !.on = TRUE, !.runs = s.config].config = s.config
      /\ [s EXCEPT !.on = TRUE, !.runs = s.config].runs = s.config
      /\ [s EXCEPT !.on = TRUE, !.runs = s.config].on = TRUE
  BY <1>1 DEF SlotDaemons
<1> QED
  BY <1>1, <1>3, <1>4, <1>6, <1>7 DEF s

\* A call of a slot: the sync goes on, turns back at this slot, or fails.
LEMMA SlotCallStep ==
  ASSUME IInv, SlotCall
  PROVE  IInv'
<1>0. TypeOK /\ Transaction /\ Mirroring
  BY DEF IInv
<1>1. /\ UNCHANGED <<disk, journal, mita, cred>> /\ m.pc \in Slotted /\ m.pc # "slot"
      /\ m.pc \in {"slot_apply", "slot_stop", "slot_start", "slot_undo", "slot_undo_stop", "slot_undo_start"}
  BY DEF SlotCall, files, Slotted
<1>2. /\ memory \in States /\ LanesOK(memory) /\ LanesOK(disk) /\ revision(memory) = revision(disk)
      /\ m.op # "lanes" => memory = disk /\ laned(disk)
      /\ m.op = "lanes" => ~m.boot
      /\ at.slot \in Slots /\ \A k \in Slots : k < at.slot => Follows(k, memory, mita.config)
      /\ \A k \in Slots : k \in torn(slots) => k \in strayed \/ k = at.slot
      /\ m.pc \in {"slot_stop", "slot_start"} => slots[at.slot].config = wants(at.slot)
      /\ m.pc = "slot_start" => ~slots[at.slot].on /\ wants(at.slot) # Empty
      /\ m.pc = "slot_apply" => slots[at.slot] = at.was
  BY <1>0, <1>1 DEF Mirroring, Slotted
<1>3. slots \in [Slots -> SlotDaemons] /\ at \in [slot : 0..NSlots + 1, was : SlotDaemons] /\ Slots = 1..NSlots /\ NSlots \in Nat
  BY <1>0, NothingIs DEF TypeOK, Slots
<1>4. PICK outcome, s, next :
        /\ outcome \in Outcomes
        /\ s = IF outcome = "refused" THEN slots ELSE [slots EXCEPT ![at.slot] = slot_effect(m.pc)]
        /\ next = IF outcome = "ok" THEN slot_then(m.pc)
                  ELSE IF m.pc \in {"slot_apply", "slot_stop", "slot_start"} THEN "slot_undo" ELSE "failed"
        /\ slots' = s
        /\ IF outcome = "ok" THEN UNCHANGED spent ELSE spend("fault")
        /\ IF next = "failed" THEN gives_up(s)
           ELSE /\ goes(next) /\ strayed' = strayed \cap (torn(s) \cup {0}) /\ UNCHANGED memory
                /\ at' = IF next = "slot" THEN [Nowhere EXCEPT !.slot = at.slot + 1] ELSE at
  BY DEF SlotCall
<1>5. spent' \in [request : 0..MaxRequests, fault : 0..MaxFaults, stop : 0..MaxStops]
  BY <1>0, <1>4, Spends DEF TypeOK
<1>6. /\ slot_effect(m.pc) \in SlotDaemons /\ slots[at.slot].on \in BOOLEAN /\ at.was.on \in BOOLEAN
      /\ slot_effect("slot_apply").config = wants(at.slot) /\ slot_effect("slot_apply").on = slots[at.slot].on
      /\ slot_effect("slot_stop").config = slots[at.slot].config /\ slot_effect("slot_stop").on = FALSE
      /\ ~slots[at.slot].on => /\ slot_effect("slot_start").config = slots[at.slot].config
                               /\ slot_effect("slot_start").runs = slots[at.slot].config
                               /\ slot_effect("slot_start").on = TRUE
  BY <1>0, <1>1, <1>2, SlotEffects
<1>7. slots' \in [Slots -> SlotDaemons] /\ \A k \in Slots : k # at.slot => slots'[k] = slots[k]
  BY <1>2, <1>3, <1>4, <1>6
<1>8. CASE next = "failed"
  <2>1. /\ m' \in Managers /\ at' \in [slot : 0..NSlots + 1, was : SlotDaemons] /\ strayed' \subseteq 0..NSlots
        /\ memory' = NoState \/ memory' \in States
        /\ Transaction' /\ Mirroring'
    BY <1>0, <1>1, <1>4, <1>7, <1>8, GivesUp
  <2>2. TypeOK'
    BY <1>0, <1>1, <1>5, <1>7, <2>1 DEF TypeOK
  <2> QED
    BY <2>1, <2>2 DEF IInv
<1>9. CASE next # "failed"
  <2>1. /\ goes(next) /\ strayed' = strayed \cap (torn(slots') \cup {0}) /\ memory' = memory
        /\ next = "slot" => at' = [Nowhere EXCEPT !.slot = at.slot + 1]
        /\ next # "slot" => at' = at
    BY <1>4, <1>9
  <2>2. /\ next \in Slotted \ {"slot_apply"}
        /\ outcome = "ok" => slots' = [slots EXCEPT ![at.slot] = slot_effect(m.pc)]
        /\ next # "slot_undo" => outcome = "ok"
    <3>1. outcome # "ok" => next = "slot_undo"
      BY <1>4, <1>9
    <3>2. outcome = "ok" => next \in Slotted \ {"slot_apply"} /\ next # "slot_undo"
      BY <1>1, <1>4, <1>9 DEF slot_then, Slotted
    <3> QED
      BY <1>4, <3>1, <3>2 DEF Slotted
  <2>3. m' \in Managers /\ m'.pc = next /\ m'.op = m.op /\ m'.boot = m.boot
    BY <1>0, <2>1, <2>2, Goes DEF Slotted, Places
  <2>4. /\ at' \in [slot : 0..NSlots + 1, was : SlotDaemons]
        /\ next = "slot" => at'.slot = at.slot + 1
        /\ at'.slot \in 1..NSlots + 1
    <3>1. CASE next = "slot"
      BY <1>2, <1>3, <2>1, <3>1, NothingIs DEF Nowhere
    <3>2. CASE next # "slot"
      BY <1>2, <1>3, <2>1, <3>2
    <3> QED
      BY <3>1, <3>2
  <2>5. TypeOK'
    <3>1. strayed' \subseteq 0..NSlots
      BY <1>0, <2>1 DEF TypeOK
    <3> QED
      BY <1>0, <1>1, <1>2, <1>5, <1>7, <2>1, <2>3, <2>4, <3>1 DEF TypeOK
  <2>6. Transaction'
    BY <1>0, <1>1, <2>2, <2>3, SyncKeeps DEF Slotted
  <2>7. \A k \in Slots : k < at.slot => Follows(k, memory, mita.config)'
    <3> SUFFICES ASSUME NEW k \in Slots, k < at.slot
                 PROVE  Follows(k, memory, mita.config)'
      OBVIOUS
    <3>1. Follows(k, memory, mita.config) /\ slots'[k] = slots[k]
      BY <1>2, <1>3, <1>7
    <3>2. slots'[k].on /\ k \notin strayed' => k \notin strayed \/ slots'[k].runs = slots'[k].config
      BY <2>1 DEF torn
    <3> QED
      BY <1>1, <2>1, <3>1, <3>2 DEF Follows
  <2>8. \A k \in Slots : k # at.slot /\ k \in torn(slots)' => k \in strayed'
    <3> SUFFICES ASSUME NEW k \in Slots, k # at.slot, k \in torn(slots)'
                 PROVE  k \in strayed'
      OBVIOUS
    <3>1. k \in torn(slots) /\ k \in torn(slots')
      BY <1>7 DEF torn
    <3> QED
      BY <1>2, <2>1, <3>1
  <2>9. slots'[at.slot] = slot_effect(m.pc) \/ next = "slot_undo"
    BY <1>2, <1>3, <2>2
  <2>10. \A k \in Slots : next = "slot" /\ k = at.slot => Follows(k, memory, mita.config)' /\ k \notin torn(slots)'
    <3> SUFFICES ASSUME next = "slot", NEW k \in Slots, k = at.slot
                 PROVE  Follows(k, memory, mita.config)' /\ k \notin torn(slots)'
      OBVIOUS
    <3>1. slots'[at.slot] = slot_effect(m.pc) /\ next = slot_then(m.pc)
      BY <1>4, <2>2, <2>9
    <3>2. \/ m.pc = "slot_apply" /\ ~at.was.on /\ wants(at.slot) = Empty
          \/ m.pc = "slot_stop" /\ wants(at.slot) = Empty
          \/ m.pc = "slot_start"
      BY <1>1, <3>1 DEF slot_then
    <3>3. slots'[at.slot].config = wants(at.slot) /\ slots'[at.slot].on = (wants(at.slot) # Empty)
      BY <1>2, <1>6, <3>1, <3>2
    <3>4. slots'[at.slot].on => slots'[at.slot].runs = wants(at.slot)
      BY <1>2, <1>6, <3>1, <3>2
    <3>5. slot_desired(at.slot, memory', mita'.config) = wants(at.slot)
      BY <1>1, <2>1 DEF wants
    <3> QED
      BY <3>3, <3>4, <3>5 DEF Follows, torn
  <2>11. \A k \in Slots : k < at'.slot => Follows(k, memory, mita.config)'
    <3>1. CASE next = "slot"
      <4>1. \A k \in Slots : k < at'.slot => k < at.slot \/ k = at.slot
        BY <1>2, <1>3, <2>4, <3>1
      <4> QED
        BY <2>7, <2>10, <3>1, <4>1
    <3>2. CASE next # "slot"
      BY <2>1, <2>7, <3>2
    <3> QED
      BY <3>1, <3>2
  <2>12. \A k \in Slots : k \in torn(slots)' => k \in strayed' \/ (m'.pc \in Slotted \ {"slot"} /\ k = at'.slot)
    <3>1. CASE next = "slot"
      BY <2>8, <2>10, <3>1
    <3>2. CASE next # "slot"
      BY <2>1, <2>2, <2>3, <2>8, <3>2
    <3> QED
      BY <3>1, <3>2
  <2>13. /\ m'.pc \in {"slot_stop", "slot_start"} => slots'[at'.slot].config = wants(at.slot)'
         /\ m'.pc = "slot_start" => ~slots'[at'.slot].on /\ wants(at.slot)' # Empty
    <3> SUFFICES ASSUME next \in {"slot_stop", "slot_start"}
                 PROVE  /\ slots'[at'.slot].config = wants(at.slot)'
                        /\ next = "slot_start" => ~slots'[at'.slot].on /\ wants(at.slot)' # Empty
      BY <2>3
    <3>1. slots'[at.slot] = slot_effect(m.pc) /\ next = slot_then(m.pc) /\ at' = at
      BY <1>4, <2>1, <2>2, <2>9
    <3>2. wants(at.slot)' = wants(at.slot)
      BY <1>1, <2>1, <3>1 DEF wants
    <3>3. \/ m.pc = "slot_apply" /\ next = "slot_stop"
          \/ m.pc = "slot_apply" /\ ~at.was.on /\ wants(at.slot) # Empty
          \/ m.pc = "slot_stop" /\ wants(at.slot) # Empty
      BY <1>1, <3>1 DEF slot_then
    <3>4. m.pc = "slot_stop" => next = "slot_start"
      BY <3>1, <3>3 DEF slot_then
    <3> QED
      BY <1>2, <1>6, <3>1, <3>2, <3>3, <3>4
  <2>14. /\ LanesOK(disk)' /\ LanesOK(memory)' /\ (laned(disk)' <=> laned(disk)) /\ revision(memory)' = revision(disk)'
    BY <1>1, <1>2, <2>1 DEF LanesOK, laned, revision
  <2>15. m'.pc \notin {"record", "stale", "apply", "serving", "life_stop", "life_start", "life_off", "slot_apply"} \cup Forward \cup Resting
    BY <2>2, <2>3 DEF Slotted, Forward, Resting, Undone
  <2>16. m'.pc \in Slotted \ {"slot"} => at'.slot \in Slots
    BY <1>2, <2>1, <2>3
  <2>17. Mirroring'
    BY <1>1, <1>2, <2>1, <2>2, <2>3, <2>4, <2>11, <2>12, <2>13, <2>14, <2>15, <2>16 DEF Mirroring
  <2> QED
    BY <2>5, <2>6, <2>17 DEF IInv
<1> QED
  BY <1>8, <1>9

---------------------------------------------------------------------------
(* The theorems *)

\* The installer's state: one configuration on disk and in mita, no lanes, empty slots.
LEMMA InitInv == Init => IInv
<1> SUFFICES ASSUME Init PROVE IInv
  OBVIOUS
<1>1. PICK users \in {Nobody, [n \in Names |-> [key |-> CHOOSE i \in Ids : TRUE, quota |-> 0]]} :
        LET config == [users |-> users, egress |-> 1] IN
          /\ disk = [generation |-> 0, config |-> config, disabled |-> Nobody, tombstones |-> {}, ops |-> {},
                     history |-> <<>>, lanes |-> [l \in Lanes |-> NoEntry], stale |-> FALSE]
          /\ mita = [config |-> config, runs |-> config, on |-> TRUE]
  BY DEF Init
<1> DEFINE config == [users |-> users, egress |-> 1]
<1>2. /\ journal = NoJournal /\ cred = 1 /\ strayed = {}
      /\ m = Serving /\ memory = NoState /\ at = Nowhere
      /\ slots = [k \in Slots |-> EmptySlot]
      /\ spent = [request |-> 0, fault |-> 0, stop |-> 0]
  BY DEF Init
<1>3. users \in Users
  <2>1. (CHOOSE i \in Ids : TRUE) \in Ids
    BY NamesAssumption
  <2>2. [key |-> CHOOSE i \in Ids : TRUE, quota |-> 0] \in Rows
    BY <2>1 DEF Rows
  <2> QED
    BY <1>1, <2>2, NothingIs DEF Users
<1>4. config \in Configs
  BY <1>3, NothingIs DEF Configs
<1> HIDE DEF config
<1>5. [l \in Lanes |-> NoEntry] \in [Lanes -> [slot : 0..NSlots, users : SUBSET Names]]
  BY NothingIs DEF NoEntry
<1>6. /\ disk = [generation |-> 0, config |-> config, disabled |-> Nobody, tombstones |-> {}, ops |-> {},
                 history |-> <<>>, lanes |-> [l \in Lanes |-> NoEntry], stale |-> FALSE]
      /\ mita = [config |-> config, runs |-> config, on |-> TRUE]
  BY <1>1 DEF config
<1>7. disk \in States /\ mita \in Daemons /\ mita.config = disk.config /\ mita.runs = mita.config /\ disk.lanes = [l \in Lanes |-> NoEntry]
  BY <1>4, <1>5, <1>6, NothingIs DEF States, Daemons
<1>8. TypeOK
  <2>1. slots \in [Slots -> SlotDaemons] /\ cred \in 1..MaxCred /\ strayed \subseteq 0..NSlots
    BY <1>2, NothingIs
  <2>2. m \in Managers
    BY <1>2 DEF Serving, Managers, Places
  <2>3. spent \in [request : 0..MaxRequests, fault : 0..MaxFaults, stop : 0..MaxStops]
    BY <1>2, BoundsAssumption
  <2> QED
    BY <1>2, <1>7, <2>1, <2>2, <2>3, NothingIs DEF TypeOK
<1>9. m.pc = "serving" /\ m.op = "none" /\ m.boot = FALSE
  BY <1>2 DEF Serving
<1>10. Transaction
  <2>1. Quiet
    BY <1>2, <1>7 DEF Quiet, Served
  <2> QED
    BY <1>9, <2>1 DEF Transaction, Forward, Undone, Back, Slotted
<1>11. Mirroring
  <2>1. LanesOK(disk) /\ ~laned(disk) /\ memory \notin States
    BY <1>2, <1>7, NothingIs DEF LanesOK, laned
  <2>2. \A k \in Slots : slots[k].config = Empty /\ slots[k].on = FALSE
    BY <1>2 DEF EmptySlot
  <2>3. InLine
    BY <2>1, <2>2, Unlaned DEF InLine, Follows
  <2>4. torn(slots) = {}
    BY <2>2 DEF torn
  <2> QED
    BY <1>9, <2>1, <2>3, <2>4 DEF Mirroring, Slotted, Forward
<1> QED
  BY <1>8, <1>10, <1>11 DEF IInv

\* Every step keeps the invariant.
LEMMA NextInv == IInv /\ [Next]_vars => IInv'
<1> SUFFICES ASSUME IInv, [Next]_vars PROVE IInv'
  OBVIOUS
<1>0. TypeOK /\ LanesOK(disk) /\ cred \in 1..MaxCred
  BY DEF IInv, TypeOK, Mirroring
<1>1. CASE Request
  <2>1. CASE \E action \in {"start", "stop", "restart"} : Lifecycle(action)
    BY <2>1, LifecycleStep
  <2>2. CASE \E who \in [Names -> Lanes \cup {"none"}] : \E slot_of \in [fresh(who) -> Slots] : SetLanes(who, slot_of)
    BY <2>2, SetLanesStep
  <2>3. CASE \/ \E n \in Names : DisableUser(n) \/ EnableUser(n) \/ DeleteUser(n) \/ SetQuotas(n)
             \/ \E n \in Names, id \in Ids : CreateUser(n, id) \/ RotateUser(n, id)
             \/ EgressRollback \/ (\E doc \in {"direct", "router"} : EgressApply(doc))
    <3>1. \E op \in Operations, next \in States :
            transacts(op, next) /\ LanesOK(next) /\ (laned(next) <=> laned(disk)) /\ next.stale = disk.stale
      BY <1>0, <2>3, Requests
    <3> QED
      BY <3>1, TransactsStep
  <2> QED
    BY <1>1, <2>1, <2>2, <2>3 DEF Request
<1>2. CASE Step
  BY <1>2, MitaCallStep, NoteAppliedStep, NoteUndoneStep, CommitStep, ClearStep, SlotTurnStep, SlotCallStep, RecordStep,
     BootstrapStep, CheckStep, MirrorStep DEF Step
<1>3. CASE CredentialRotates
  <2>1. cred' \in 1..MaxCred
    BY <1>0, <1>3, NothingIs DEF CredentialRotates
  <2> QED
    BY <1>3, <2>1, StandStill DEF CredentialRotates, files, daemons
<1>4. CASE UNCHANGED vars
  BY <1>0, <1>4, StandStill DEF vars
<1> QED
  BY <1>1, <1>2, <1>3, <1>4, DeathStep, RestartStep DEF Next

\* Every reachable state of the manager, its daemons and its files satisfies the inductive invariant.
THEOREM Consistent == Spec => []IInv
BY InitInv, NextInv, PTL DEF Spec

\* The files, the daemons and the manager have their types in every reachable state.
THEOREM TypeCorrect == Spec => []TypeOK
<1>1. IInv => TypeOK
  BY DEF IInv
<1> QED
  BY <1>1, Consistent, PTL

\* Whatever call of mita failed or lost its answer, and wherever the manager died: a configuration that
\* state.json does not record is in the journal, with the recorded one as its backup, and a manager that
\* serves with no journal has mita serve the recorded users.
THEOREM MitaRunsWhatIsCommitted == Spec => []RunsWhatIsCommitted
<1>1. IInv => RunsWhatIsCommitted
  <2> SUFFICES ASSUME IInv PROVE RunsWhatIsCommitted
    OBVIOUS
  <2>1. m.pc \in Places /\ disk \in States
    BY DEF IInv, TypeOK, Managers
  <2>2. (m.pc \in {"check", "mirror", "record", "stale"} \cup Slotted => mita.config = disk.config) /\ (Quiet \/ Open \/ Done)
    BY <2>1 DEF IInv, Transaction, Places, Forward, Undone, Back, Slotted
  <2>3. DivergenceIsJournaled
    <3>1. CASE Open
      BY <2>1, <3>1, NothingIs DEF Open, DivergenceIsJournaled, consistent
    <3>2. CASE Quiet \/ Done
      BY <3>2 DEF Quiet, Done, DivergenceIsJournaled, consistent
    <3> QED
      BY <2>2, <3>1, <3>2
  <2>4. journal = NoJournal => Quiet
    BY <2>2, NothingIs DEF Open, Done
  <2> QED
    BY <2>3, <2>4 DEF RunsWhatIsCommitted, Quiet, Served
<1> QED
  BY <1>1, Consistent, PTL

\* A manager that serves has every slot run exactly the enabled users of its lane, unless state.json marks
\* the lanes stale, a lanes request ended before its record, or the slot was left between two configurations.
THEOREM SlotsMirrorTheirLanes == Spec => []SlotsFollow
<1>1. IInv => SlotsFollow
  BY DEF IInv, Mirroring, Resting, InLine, Follows, SlotsFollow, serving
<1> QED
  BY <1>1, Consistent, PTL

=============================================================================
