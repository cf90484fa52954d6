---------------------------- MODULE ClientAccess ----------------------------
(***************************************************************************)
(* Who may use an account, and who brings the runtime there: the access of *)
(* a client's local grants (clients/src/{service,facade,lifecycle,         *)
(* enforcement}.rs and the protocol pages of web/src/routes).              *)
(*                                                                         *)
(* An account is on exactly while its client is active, the grant is       *)
(* enabled and its window is open. Passes of reconcile_access, one at a    *)
(* time behind a lock, bring the runtime there and take note of what they  *)
(* read back: the enforcer's tick looks only at grants whose note          *)
(* disagrees with what is wanted, a forced pass at all of them. Requests   *)
(* hold no lock, and the pages write to the manager before the database.   *)
(*                                                                         *)
(* One account name per protocol: protocols fail one by one, and within    *)
(* one the grants are treated alike. Credentials appear as the states of   *)
(* their versions. Grants on linked panels, lanes and options are left     *)
(* out; the issue of an access is Provisioning's, here with its outcome.   *)
(***************************************************************************)
EXTENDS Naturals, Sequences, FiniteSets

CONSTANTS
  Names,       \* account names, each of its own protocol
  Callers,     \* requests under way at the same time
  MaxTime,     \* bound: the clock
  MaxRequests, \* bound: requests
  MaxFaults    \* bound: manager calls that fail or lose their answer, and restarts of the panel

ASSUME NamesAssumption == IsFiniteSet(Names) /\ Names # {}
ASSUME CallersAssumption == Callers \cap {"nobody", "enforcer"} = {}
ASSUME BoundsAssumption == MaxTime \in Nat /\ MaxRequests \in Nat /\ MaxFaults \in Nat

VARIABLES
  now,      \* the clock
  protocol, \* of each name: their pages treat an account without a row differently
  client,   \* clients.state of the client the grants are issued to
  row,      \* access_grants, by the account's name
  secrets,  \* secret_versions: per grant, the states of versions 1, 2, ...
  account,  \* what the managers run: none, on, off
  req,      \* what each caller is at
  pass,     \* reconcile_access, by whoever holds the access lock
  serving,  \* the panel has started
  doubt,    \* history: names whose account the panel took for granted, whose answer it never had, or whose account
            \* an issue made when its grant was deleted or the account it had was
  requests, faults

domain == <<client, row, secrets>>
bounds == <<requests, faults>>
vars == <<now, protocol, domain, account, req, pass, serving, doubt, bounds>>

Protocols == {"mtproxy", "naive", "mieru"}
Never == MaxTime + 1
Ids == 1..(Cardinality(Names) + MaxRequests)
NoRow == [id |-> 0, client |-> "given", desired |-> "deleted", observed |-> "missing",
          from |-> 0, until |-> Never, ref |-> 0]
NoRequest == [pc |-> "idle", kind |-> "none", name |-> CHOOSE n \in Names : TRUE, own |-> 0, id |-> 0, new |-> 0, ref |-> 0,
              on |-> FALSE, effective |-> FALSE, whose |-> "given"]
NoPass == [by |-> "nobody", force |-> FALSE, todo |-> {}, pc |-> "next", name |-> CHOOSE n \in Names : TRUE, id |-> 0,
           wanted |-> FALSE, seen |-> "none"]

Rows == [id : Ids \cup {0}, client : {"given", "named"}, desired : {"enabled", "disabled", "deleted"},
         observed : {"pending", "enabled", "disabled", "missing"}, from : 0..Never, until : 0..Never, ref : Nat]
Kinds == {"none", "state", "validity", "toggle", "page", "rotate", "pagerotate", "delete", "pagedelete", "adopt", "issue", "undo"}
Points == {"idle", "lock", "held", "find", "known", "touch", "mirror", "call", "forget", "purge", "store", "escrow",
           "reserve", "create", "confirm"}
Requests == [pc : Points, kind : Kinds, name : Names, own : Ids \cup {0}, id : Ids \cup {0}, new : Ids \cup {0}, ref : Nat,
             on : BOOLEAN, effective : BOOLEAN, whose : {"given", "named"}]
Passes == [by : Callers \cup {"nobody", "enforcer"}, force : BOOLEAN, todo : SUBSET (Names \X Ids),
           pc : {"next", "discover", "switch", "confirm", "record"}, name : Names, id : Ids \cup {0},
           wanted : BOOLEAN, seen : {"none", "on", "off"}]

TypeOK ==
  /\ now \in 0..MaxTime /\ protocol \in [Names -> Protocols]
  /\ client \in {"active", "suspended", "archived"} /\ serving \in BOOLEAN /\ doubt \subseteq Names
  /\ row \in [Names -> Rows] /\ secrets \in [Ids -> Seq({"pending", "active", "revoked"})]
  /\ account \in [Names -> {"none", "on", "off"}]
  /\ req \in [Callers -> Requests] /\ pass \in Passes
  /\ requests \in 0..MaxRequests /\ faults \in 0..MaxFaults

exists(n) == row[n].id # 0
live(n) == exists(n) /\ row[n].desired # "deleted"
\* The row with this id, wherever the name went meanwhile.
holds(n, id) == id # 0 /\ row[n].id = id

state_of(g) == IF g.client = "named" THEN "active" ELSE client
effective_enabled(g) == state_of(g) = "active" /\ g.desired = "enabled" /\ g.from <= now /\ now < g.until
as_observed(on) == IF on THEN "enabled" ELSE "disabled"
as_account(on) == IF on THEN "on" ELSE "off"

\* What the panel starts with: no access, an account it does not know, one it imported, one it issued.
Granted == [NoRow EXCEPT !.desired = "enabled", !.observed = "enabled"]
Init ==
  /\ now = 0 /\ protocol \in [Names -> Protocols] /\ client = "active" /\ serving = TRUE /\ doubt = {}
  /\ \E known \in [Names -> {"nothing", "stranger", "imported", "issued"}] :
     LET id == CHOOSE f \in [Names -> 1..Cardinality(Names)] : \A m, n \in Names : m # n => f[m] # f[n] IN
       /\ row = [n \in Names |-> CASE known[n] = "imported" -> [Granted EXCEPT !.id = id[n]]
                                   [] known[n] = "issued" -> [Granted EXCEPT !.id = id[n], !.until = 1, !.ref = 1]
                                   [] OTHER -> NoRow]
       /\ account = [n \in Names |-> IF known[n] = "nothing" THEN "none" ELSE "on"]
       /\ secrets = [i \in Ids |-> IF \E n \in Names : known[n] = "issued" /\ id[n] = i THEN <<"active">> ELSE <<>>]
  /\ req = [c \in Callers |-> NoRequest] /\ pass = NoPass
  /\ requests = 0 /\ faults = 0

---------------------------------------------------------------------------
(* Steps *)

fine == UNCHANGED faults
fault == faults < MaxFaults /\ faults' = faults + 1
at(c, pc) == req[c].pc = pc
goes(c, pc) == req' = [req EXCEPT ![c].pc = pc]
done(c) == req' = [req EXCEPT ![c] = NoRequest]
quiet == UNCHANGED <<now, protocol, serving, requests>>

\* A manager's answer to a call: done, refused (the account is gone, or it fails), or done with the answer lost.
Outcomes == {"ok", "refused", "lost"}
answers(n, outcome) ==
  CASE outcome = "ok" -> account[n] # "none" /\ fine
    [] outcome = "refused" -> IF account[n] = "none" THEN fine ELSE fault
    [] outcome = "lost" -> account[n] # "none" /\ fault

---------------------------------------------------------------------------
(* reconcile_access *)

wanted_of(n) == effective_enabled(row[n])
\* Mutant: a tick leaves a pending grant to the request that made it so.
PendingIsLeft(whose, force) ==
  {n \in Names : live(n) /\ row[n].client \in whose /\ (force \/ row[n].observed \notin {"pending", as_observed(wanted_of(n))})}
candidates(whose, force) ==
  {n \in Names : live(n) /\ row[n].client \in whose /\ (force \/ row[n].observed # as_observed(wanted_of(n)))}
takes_lock(by, whose, force) ==
  /\ pass = NoPass
  /\ pass' = IF candidates(whose, force) = {} THEN NoPass
             ELSE [NoPass EXCEPT !.by = by, !.force = force, !.todo = {<<n, row[n].id>> : n \in candidates(whose, force)}]

forced(r) == r.kind \notin {"state", "validity"}
after_pass(r) == IF r.kind = "issue" THEN "confirm" ELSE "idle"
returns(c) == IF after_pass(req[c]) = "idle" THEN done(c) ELSE goes(c, after_pass(req[c]))
PassBegins(c) ==
  /\ at(c, "lock") /\ takes_lock(c, {req[c].whose}, forced(req[c]))
  /\ IF pass' = NoPass THEN returns(c) ELSE goes(c, "held")
  /\ fine /\ quiet /\ UNCHANGED <<domain, account, doubt>>

\* The tick, and the one before the panel serves.
Tick ==
  /\ serving /\ takes_lock("enforcer", {"given", "named"}, FALSE)
  /\ fine /\ quiet /\ UNCHANGED <<domain, account, req, doubt>>
FirstTick ==
  /\ ~serving /\ takes_lock("enforcer", {"given", "named"}, TRUE) /\ serving' = (pass' = NoPass)
  /\ fine /\ UNCHANGED <<now, protocol, domain, account, req, doubt, requests>>

moves(pc) == pass' = [pass EXCEPT !.pc = pc]
skips == pass' = [NoPass EXCEPT !.by = pass.by, !.force = pass.force, !.todo = pass.todo]

\* reconcile_protocol: what is wanted, with the note set to pending before the manager is called.
Plan(n, id) ==
  /\ pass.by # "nobody" /\ pass.pc = "next" /\ <<n, id>> \in pass.todo
  /\ IF holds(n, id) /\ live(n)
     THEN /\ row' = [row EXCEPT ![n].observed = "pending"]
          /\ pass' = [pass EXCEPT !.pc = "discover", !.todo = @ \ {<<n, id>>},
                                   !.name = n, !.id = id, !.wanted = wanted_of(n)]
     ELSE row' = row /\ pass' = [pass EXCEPT !.todo = @ \ {<<n, id>>}]
  /\ fine /\ quiet /\ UNCHANGED <<client, secrets, account, req, doubt>>

\* The inventory: an error leaves this protocol for the next tick.
Discover ==
  /\ pass.pc = "discover"
  /\ \/ pass' = [pass EXCEPT !.pc = IF account[pass.name] \in {"none", as_account(pass.wanted)} THEN "confirm" ELSE "switch"] /\ fine
     \/ fault /\ skips
  /\ quiet /\ UNCHANGED <<domain, account, req, doubt>>
\* enable or disable: the readback decides, even after a lost reply.
Switch ==
  /\ pass.pc = "switch" /\ moves("confirm")
  /\ \E outcome \in Outcomes :
       /\ answers(pass.name, outcome)
       /\ account' = IF outcome = "refused" THEN account ELSE [account EXCEPT ![pass.name] = as_account(pass.wanted)]
  /\ quiet /\ UNCHANGED <<domain, req, doubt>>
Confirm ==
  /\ pass.pc = "confirm"
  /\ \/ /\ pass' = [pass EXCEPT !.pc = "record", !.seen = account[pass.name]] /\ fine
        /\ doubt' = IF holds(pass.name, pass.id) /\ live(pass.name) THEN doubt \ {pass.name} ELSE doubt
     \/ fault /\ skips /\ doubt' = doubt
  /\ quiet /\ UNCHANGED <<domain, account, req>>
\* Mutant: the note says what was planned.
AsPlanned(n) == as_observed(pass.wanted)
\* Against what is wanted now.
confirmed(n) == IF pass.seen = as_account(wanted_of(n)) THEN as_observed(wanted_of(n)) ELSE row[n].observed
Record ==
  LET n == pass.name
      found == holds(n, pass.id) /\ live(n)
  IN /\ pass.pc = "record" /\ skips
     /\ row' = IF found THEN [row EXCEPT ![n].observed = confirmed(n)] ELSE row
     /\ fine /\ quiet /\ UNCHANGED <<client, secrets, account, req, doubt>>

PassEnds ==
  /\ pass.by # "nobody" /\ pass.pc = "next" /\ pass.todo = {} /\ pass' = NoPass
  /\ IF pass.by \in Callers THEN returns(pass.by) ELSE req' = req
  /\ serving' = TRUE
  /\ fine /\ UNCHANGED <<now, protocol, domain, account, doubt, requests>>

---------------------------------------------------------------------------
(* The requests, each with its first read or write *)

asks(c, r) ==
  /\ serving /\ at(c, "idle") /\ c = (CHOOSE d \in Callers : at(d, "idle"))
  /\ requests < MaxRequests /\ requests' = requests + 1
  /\ req' = [req EXCEPT ![c] = [r EXCEPT !.new = Cardinality(Names) + requests + 1]]
  /\ fine /\ UNCHANGED <<now, protocol, serving>>
idly == UNCHANGED <<account, pass, doubt>>

\* set_state: what the change reaches waits for its confirmation. An archived client has no grants.
AskState(c, state) ==
  LET changed(n) == live(n) /\ row[n].client = "given"
      differs(n) == changed(n) /\ row[n].desired = "enabled" /\ row[n].from <= now /\ now < row[n].until
                    /\ (client = "active") # (state = "active")
  IN /\ (state = "archived" => ~\E n \in Names : changed(n))
     /\ asks(c, [NoRequest EXCEPT !.kind = "state", !.pc = "lock"])
     /\ client' = state
     /\ row' = [n \in Names |-> IF differs(n) THEN [row[n] EXCEPT !.observed = "pending"] ELSE row[n]]
     /\ idly /\ UNCHANGED secrets

\* set_grant_validity.
AskValidity(c, n, until) ==
  /\ live(n) /\ (row[n].client = "given" => client # "archived")
  /\ asks(c, [NoRequest EXCEPT !.kind = "validity", !.pc = "lock", !.whose = row[n].client])
  /\ row' = [row EXCEPT ![n].until = until]
  /\ idly /\ UNCHANGED <<client, secrets>>

\* The clients page: GrantLifecycle::load, then the façade.
AskGrant(c, n, kind, on) ==
  /\ live(n) /\ (kind = "adopt" => row[n].ref = 0)
  /\ asks(c, [NoRequest EXCEPT !.kind = kind, !.name = n, !.own = row[n].id, !.on = on,
                               !.pc = IF kind \in {"toggle", "rotate"} THEN "find" ELSE "call"])
  /\ idly /\ UNCHANGED domain

\* A protocol page: effective_operation, or what delete_from_protocol_page finds.
effective_operation(n, on) == IF exists(n) THEN effective_enabled([row[n] EXCEPT !.desired = as_observed(on)]) ELSE on
AskPage(c, n, kind, on) ==
  /\ asks(c, [NoRequest EXCEPT !.kind = kind, !.name = n, !.own = row[n].id, !.on = on,
                               !.effective = effective_operation(n, on),
                               !.pc = IF kind = "rotate" THEN "find" ELSE "call"])
  /\ idly /\ UNCHANGED domain

\* Provisioning: the name is free on the runtime.
AskIssue(c, n) ==
  /\ account[n] = "none"
  /\ asks(c, [NoRequest EXCEPT !.kind = "issue", !.name = n, !.pc = "reserve"])
  /\ idly /\ UNCHANGED domain

---------------------------------------------------------------------------
(* Their steps *)

Rotations == {"rotate", "pagerotate"}
\* DomainFacade::grant, by name. A credential the Naive page receives for an account without a row is not kept.
Find(c) ==
  LET r == req[c]
      g == row[r.name]
      found == CASE r.kind \in {"toggle", "page"} -> "mirror" [] r.kind = "rotate" -> "call"
                 [] r.kind = "pagerotate" -> "store" [] OTHER -> "forget"
      absent == CASE r.kind \in {"toggle", "page", "rotate"} -> "touch" [] r.kind \notin {"toggle", "page"} \cup Rotations -> "purge"
                  [] OTHER -> IF protocol[r.name] = "mieru" THEN "touch" ELSE "idle"
  IN /\ at(c, "find")
     /\ IF exists(r.name) THEN req' = [req EXCEPT ![c].pc = found, ![c].id = g.id, ![c].ref = g.ref]
        ELSE IF absent = "idle" THEN done(c) ELSE goes(c, absent)
     /\ fine /\ quiet /\ idly /\ UNCHANGED domain

\* The Telemt page leaves an account it does not know alone.
Known(c) ==
  /\ at(c, "known") /\ IF exists(req[c].name) THEN goes(c, "find") ELSE done(c)
  /\ fine /\ quiet /\ idly /\ UNCHANGED domain

\* A pass is about to switch the account, for a grant that may be gone by now.
in_hand(n) == pass.name = n /\ pass.pc \in {"discover", "switch"}
\* touch_import: a row for an account the panel did not create, as the request says it is.
Touch(c) ==
  LET r == req[c]
      n == r.name
      rotates == r.kind \in Rotations
      on == rotates \/ r.on
      adopted == [NoRow EXCEPT !.id = r.new, !.client = "named", !.desired = as_observed(on), !.observed = as_observed(on)]
      g == IF exists(n) THEN row[n] ELSE adopted
  IN /\ at(c, "touch")
     /\ row' = [row EXCEPT ![n] = g]
     /\ req' = [req EXCEPT ![c].pc = CASE r.kind = "rotate" -> "call" [] r.kind = "pagerotate" -> "store" [] OTHER -> "mirror",
                                ![c].id = g.id, ![c].ref = g.ref]
     /\ doubt' = IF rotates /\ ~exists(n) /\ (account[n] = "off" \/ in_hand(n)) THEN doubt \cup {n} ELSE doubt
     /\ fine /\ quiet /\ UNCHANGED <<client, secrets, account, pass>>

intended(g, on) == [g EXCEPT !.desired = as_observed(on), !.observed = "pending"]
\* set_enabled: the intent, then a forced pass.
Mirror(c) ==
  LET r == req[c] IN
  /\ at(c, "mirror")
  /\ IF holds(r.name, r.id)
     THEN /\ row' = [row EXCEPT ![r.name] = intended(@, r.on)]
          /\ req' = [req EXCEPT ![c].pc = "lock", ![c].whose = row[r.name].client]
     ELSE row' = row /\ done(c)
  /\ fine /\ quiet /\ idly /\ UNCHANGED <<client, secrets>>

\* The manager's call of a request.
called(r) ==
  CASE r.kind = "page" -> as_account(r.effective)
    [] r.kind \in {"delete", "pagedelete", "undo"} -> "none" [] OTHER -> account[r.name]
after_call(r) ==
  CASE r.kind = "page" -> IF protocol[r.name] = "mtproxy" THEN "known" ELSE "find"
    [] r.kind = "delete" -> "find" [] r.kind = "pagedelete" -> IF r.own = 0 THEN "idle" ELSE "find"
    [] r.kind = "rotate" -> "store" [] r.kind = "pagerotate" -> "find"
    [] r.kind = "adopt" -> "escrow" [] r.kind = "undo" -> "purge"
goes_on(c, pc) == IF pc = "idle" THEN done(c) ELSE goes(c, pc)
Call(c) ==
  LET r == req[c]
      gone == r.kind = "delete" /\ account[r.name] = "none"
  IN /\ at(c, "call")
     /\ \E outcome \in Outcomes :
          /\ answers(r.name, outcome)
          /\ account' = IF outcome = "refused" THEN account ELSE [account EXCEPT ![r.name] = called(r)]
          /\ IF outcome = "ok" \/ gone THEN goes_on(c, after_call(r)) ELSE done(c)
          /\ doubt' = IF outcome = "lost" /\ account' # account THEN doubt \cup {r.name} ELSE doubt
     /\ quiet /\ UNCHANGED <<domain, pass>>

\* forget: the grant of that name follows its account.
Forget(c) ==
  LET r == req[c] IN
  /\ at(c, "forget")
  /\ IF holds(r.name, r.id)
     THEN row' = [row EXCEPT ![r.name].desired = "deleted", ![r.name].observed = "missing"] /\ goes(c, "purge")
     ELSE row' = row /\ done(c)
  /\ fine /\ quiet /\ idly /\ UNCHANGED <<client, secrets>>

revoked(s) == [v \in DOMAIN s |-> "revoked"]
\* purge_grant.
Purge(c) ==
  LET r == req[c] IN
  /\ at(c, "purge") /\ done(c)
  /\ IF holds(r.name, r.own)
     THEN row' = [row EXCEPT ![r.name] = NoRow] /\ secrets' = [secrets EXCEPT ![r.own] = revoked(@)]
     ELSE UNCHANGED <<row, secrets>>
  /\ fine /\ quiet /\ idly /\ UNCHANGED client

\* Mutant: the credential of a grant that is gone is kept.
StoredAnyway(r) == TRUE
stored(r) == holds(r.name, r.id)
\* store_credential: the next version, active at once; the one that was read before is revoked.
Store(c) ==
  LET r == req[c]
      old == secrets[r.id]
      next == Append([v \in DOMAIN old |-> IF v = r.ref THEN "revoked" ELSE old[v]], "active")
  IN /\ at(c, "store") /\ done(c)
     /\ secrets' = IF stored(r) THEN [secrets EXCEPT ![r.id] = next] ELSE secrets
     /\ row' = IF holds(r.name, r.id) THEN [row EXCEPT ![r.name].ref = Len(next)] ELSE row
     /\ fine /\ quiet /\ idly /\ UNCHANGED client

\* escrow of an adopted or captured credential, as version 1.
Escrow(c) ==
  LET r == req[c]
      free == holds(r.name, r.own) /\ row[r.name].ref = 0 /\ secrets[r.own] = <<>>
  IN /\ at(c, "escrow") /\ done(c)
     /\ secrets' = IF free THEN [secrets EXCEPT ![r.own] = <<"active">>] ELSE secrets
     /\ row' = IF free THEN [row EXCEPT ![r.name].ref = 1] ELSE row
     /\ fine /\ quiet /\ idly /\ UNCHANGED client

\* An access is issued: the row with its pending credential, the account, a forced pass, the activation.
Reserve(c) ==
  LET n == req[c].name
      id == req[c].new IN
  /\ at(c, "reserve")
  /\ IF exists(n) THEN done(c) /\ UNCHANGED <<row, secrets>>
     ELSE /\ \E from \in 0..1 :
               row' = [row EXCEPT ![n] = [NoRow EXCEPT !.id = id, !.desired = "enabled", !.observed = "pending", !.from = from]]
          /\ secrets' = [secrets EXCEPT ![id] = <<"pending">>]
          /\ req' = [req EXCEPT ![c].pc = "create", ![c].own = id]
  /\ fine /\ quiet /\ idly /\ UNCHANGED client
\* The grant of an issue waits for its account, which no pass has seen before.
awaited(n, id) == holds(n, id) /\ row[n].observed = "pending" /\ ~(pass.name = n /\ pass.pc = "record" /\ pass.seen # "none")
Create(c) ==
  LET n == req[c].name IN
  /\ at(c, "create")
  /\ \/ /\ account[n] = "none" /\ account' = [account EXCEPT ![n] = "on"] /\ fine /\ goes(c, "lock")
        /\ doubt' = IF awaited(n, req[c].own) THEN doubt ELSE doubt \cup {n}
     \/ /\ account' = account /\ goes(c, "purge") /\ doubt' = doubt
        /\ IF account[n] = "none" THEN fault ELSE fine
  /\ quiet /\ UNCHANGED <<domain, pass>>
Activate(c) ==
  LET r == req[c]
      n == r.name
      found == holds(n, r.own)
      unsure == found /\ row[n].observed = "pending"
  IN /\ at(c, "confirm")
     /\ IF unsure THEN req' = [req EXCEPT ![c].pc = "call", ![c].kind = "undo"] ELSE done(c)
     /\ row' = IF found /\ ~unsure THEN [row EXCEPT ![n].ref = 1] ELSE row
     /\ secrets' = IF found /\ ~unsure THEN [secrets EXCEPT ![r.own][1] = "active"] ELSE secrets
     /\ fine /\ quiet /\ idly /\ UNCHANGED client

---------------------------------------------------------------------------

Clock ==
  /\ now < MaxTime /\ now' = now + 1
  /\ UNCHANGED <<protocol, domain, account, req, pass, serving, doubt, bounds>>
Restart ==
  /\ fault
  /\ req' = [c \in Callers |-> NoRequest] /\ pass' = NoPass /\ serving' = FALSE
  /\ UNCHANGED <<now, protocol, domain, account, doubt, requests>>

Ask(c) ==
  \/ \E state \in {"active", "suspended", "archived"} : AskState(c, state)
  \/ \E n \in Names, until \in {1, Never} : AskValidity(c, n, until)
  \/ \E n \in Names, on \in BOOLEAN : AskGrant(c, n, "toggle", on) \/ AskPage(c, n, "page", on)
  \/ \E n \in Names : \E kind \in {"rotate", "delete", "adopt"} : AskGrant(c, n, kind, FALSE)
  \/ \E n \in Names : \E kind \in {IF protocol[n] = "mtproxy" THEN "rotate" ELSE "pagerotate", "pagedelete"} :
       AskPage(c, n, kind, FALSE)
  \/ \E n \in Names : AskIssue(c, n)
Continue(c) ==
  \/ Find(c) \/ Known(c) \/ Touch(c) \/ Mirror(c) \/ Call(c) \/ Forget(c) \/ Purge(c) \/ Store(c) \/ Escrow(c)
  \/ Reserve(c) \/ Create(c) \/ Activate(c)
PassStep == (\E n \in Names, id \in Ids : Plan(n, id)) \/ Discover \/ Switch \/ Confirm \/ Record \/ PassEnds

Next ==
  \/ \E c \in Callers : Ask(c) \/ PassBegins(c) \/ Continue(c)
  \/ Tick \/ FirstTick \/ PassStep \/ Clock \/ Restart
Spec == Init /\ [][Next]_vars

\* The tick comes every 15 seconds, and the access lock is first in, first out: who waits for it gets it.
FairSpec ==
  /\ Spec /\ WF_vars(PassStep) /\ WF_vars(Tick \/ FirstTick)
  /\ \A c \in Callers : WF_vars(Continue(c) \/ PassBegins(c))

---------------------------------------------------------------------------
(* Properties *)

\* A page between the manager and the end of its forced pass.
under_way(n) ==
  \E c \in Callers : req[c].name = n /\ req[c].kind \in {"page", "toggle"}
                     /\ req[c].pc \in {"known", "find", "touch", "mirror", "lock", "held"}

\* The note on a grant is what its account is: with passes and pages interleaved, calls refused and
\* answers of passes lost. The tick believes the note, so a wrong one would never be looked at again.
ObservedIsReal ==
  \A n \in Names : (live(n) /\ account[n] # "none" /\ n \notin doubt /\ ~under_way(n) /\ serving)
    => (row[n].observed \in {"enabled", "disabled"} => account[n] = as_account(row[n].observed = "enabled"))

\* A grant never names a revoked credential, and a grant that is gone leaves none that is not revoked:
\* rotations, adoptions, deletions and issues of the same name interleaved (store_credential, purge_grant).
LiveNamesLive ==
  /\ \A n \in Names : (exists(n) /\ row[n].ref # 0) => secrets[row[n].id][row[n].ref] # "revoked"
  /\ \A i \in Ids : (\A n \in Names : row[n].id # i) => \A v \in DOMAIN secrets[i] : secrets[i][v] = "revoked"

\* In the end every account is on exactly while its client, its grant and its window say so, whatever
\* failed, died or was changed by a page meanwhile.
Enforced == \A n \in Names \ doubt : (live(n) /\ account[n] # "none") => account[n] = as_account(wanted_of(n))
EnforcedInTheEnd == <>[]Enforced
=============================================================================
