-------------------------- MODULE FleetNodeProofs ---------------------------
(***************************************************************************)
(* Proofs about FleetNode for any number of names, any references and      *)
(* every bound, with local writers in the middle of an apply or not.       *)
(***************************************************************************)
EXTENDS FleetNode, WellFoundedInduction, TLAPS

---------------------------------------------------------------------------
(* The order of the names *)

\* A set of numbers that is not empty has a least element.
LEMMA LeastNumber ==
  ASSUME NEW S \in SUBSET Nat, S # {}
  PROVE  \E m \in S : \A k \in S : m <= k
<1> DEFINE Less == {p \in Nat \X Nat : p[1] < p[2]}
<1>1. OpToRel(<, Nat) = Less
  BY Zenon DEF OpToRel
<1>2. IsWellFoundedOn(Less, Nat)
  BY <1>1, NatLessThanWellFounded, Zenon
<1> HIDE DEF Less
<1>3. PICK m \in S : \A k \in S : ~(<<k, m>> \in Less)
  BY <1>2, WFMin, Zenon
<1> USE DEF Less
<1>4. ASSUME NEW k \in S PROVE m <= k
  <2>1. <<k, m>> \in Nat \X Nat /\ <<k, m>>[1] = k /\ <<k, m>>[2] = m
    OBVIOUS
  <2> QED
    BY <1>3, <2>1
<1> QED
  BY <1>4

\* The names are numbered from one.
LEMMA NamesAreNumbers == Names \subseteq Nat /\ N \in Nat /\ N + 1 \notin Names /\ 0 \notin Names
BY ReferencesAssumption DEF Names

\* A loop over names goes to one of them or to its end.
LEMMA AfterIsNext ==
  ASSUME NEW n \in Nat, NEW chosen \in SUBSET Names
  PROVE  after(n, chosen) \in chosen \cup {N + 1}
<1> DEFINE left == {m \in chosen : m > n}
<1>1. CASE left = {}
  BY <1>1 DEF after
<1>2. CASE left # {}
  <2>1. left \in SUBSET Nat
    <3>1. Names \subseteq Nat
      BY NamesAreNumbers
    <3> QED
      BY <3>1
  <2>2. \E m \in left : \A k \in left : m <= k
    BY <1>2, <2>1, LeastNumber
  <2> QED
    BY <1>2, <2>2 DEF after
<1> QED
  BY <1>1, <1>2

---------------------------------------------------------------------------
(* Types *)

AnyResource == Resources \cup {NoResource}
AnyRow == Rows \cup {NoRow}
AnyAccount == Accounts \cup {NoAccount}
Seen == [owner : {"none", "local", "central"}, cred : Credentials \cup {Null}, enabled : BOOLEAN]
JobSet ==
  [pc : Pcs, generation : 0..MaxGenerations, doc : Docs, known : [Names -> AnyRow], seen : [Names -> Seen],
   at : 0..N + 1, applied : SUBSET Names, failed : BOOLEAN]
LatestSet == [generation : 0..MaxGenerations, state : {"none", "received", "applying", "converged", "failed"}, doc : Docs]
WriterSet == [pc : {"idle", "create", "delete"}, name : 0..N]
HistoryOK == overtaken \in BOOLEAN /\ crossed \subseteq Names
SpentOK == spent \in [DOMAIN Budgets -> Nat] /\ \A b \in DOMAIN Budgets : spent[b] <= Budgets[b]

\* What keeps Typed: the loop over resources is at a name of the document, the loop over orphans at a
\* name with a row, and nothing has been written before the inventory is read.
Calls == {"create", "rotate", "delete", "switch", "record", "fail"}
Shape ==
  /\ in("resource") /\ here \in Names => here \in Named
  /\ job.pc \in Calls => here \in Named
  /\ in("orphan") /\ here \in Names => here \in Orphans
  /\ in("forget") => here \in Orphans
  /\ in("discover") => rows = job.known
  /\ job.pc \in {"create", "rotate", "switch"} => resource_here.want # "deleted"
  /\ job.applied \subseteq Named
\* The type invariant without the history.
Typed ==
  /\ latest \in LatestSet /\ rows \in [Names -> AnyRow] /\ account \in [Names -> AnyAccount] /\ job \in JobSet
  /\ local \in WriterSet /\ elapsed \in BOOLEAN /\ SpentOK
TypeInv == Typed /\ Shape

\* What a document, a row and an account are made of.
LEMMA ValueFacts ==
  /\ NoResource \in AnyResource /\ NoRow \in AnyRow /\ NoAccount \in AnyAccount
  /\ \A d \in AnyResource : d.want # "none" => d \in Resources /\ d.ref \in Refs /\ credential(d) \in Credentials
  /\ \A r \in AnyRow : r.cred \in Credentials \cup {Null} /\ (r.state # "none" => r \in Rows /\ r.ref \in Refs)
  /\ AnyAccount \subseteq Seen
  /\ \A a \in AnyAccount : a # NoAccount => a \in Accounts
<1>1. NoResource \in AnyResource /\ NoRow \in AnyRow /\ NoAccount \in AnyAccount
  BY DEF AnyResource, AnyRow, AnyAccount
<1>2. ASSUME NEW d \in AnyResource, d.want # "none"
      PROVE  d \in Resources /\ d.ref \in Refs /\ credential(d) \in Credentials
  BY <1>2 DEF AnyResource, Resources, NoResource, credential, Credentials
<1>3. ASSUME NEW r \in AnyRow
      PROVE  r.cred \in Credentials \cup {Null} /\ (r.state # "none" => r \in Rows /\ r.ref \in Refs)
  BY DEF AnyRow, Rows, NoRow
<1>4. AnyAccount \subseteq Seen
  <2>1. Accounts \subseteq Seen
    BY DEF Accounts, Seen
  <2>2. NoAccount \in Seen
    BY DEF NoAccount, Seen
  <2> QED
    BY <2>1, <2>2 DEF AnyAccount
<1>5. \A a \in AnyAccount : a # NoAccount => a \in Accounts
  BY DEF AnyAccount
<1> QED
  BY <1>1, <1>2, <1>3, <1>4, <1>5

\* Typed in terms of the sets above.
LEMMA TypeParts ==
  Typed <=>
    /\ latest \in LatestSet
    /\ rows \in [Names -> AnyRow] /\ account \in [Names -> AnyAccount]
    /\ job \in JobSet
    /\ local \in WriterSet
    /\ elapsed \in BOOLEAN /\ SpentOK
BY DEF Typed, JobSet, AnyRow, AnyAccount, Seen, SpentOK, LatestSet, WriterSet

\* The job that is no job has its type.
LEMMA IdleType == Idle \in JobSet /\ Idle.pc = "idle" /\ Idle.applied = {}
<1>1. [n \in Names |-> NoResource] \in Docs /\ [n \in Names |-> NoRow] \in [Names -> AnyRow]
  BY ValueFacts DEF Docs, AnyResource
<1>2. [n \in Names |-> NoAccount] \in [Names -> Seen]
  BY ValueFacts
<1>3. 0 \in 0..MaxGenerations /\ 0 \in 0..N + 1
  BY BoundsAssumption, ReferencesAssumption
<1> QED
  BY <1>1, <1>2, <1>3 DEF Idle, JobSet, Pcs

\* So does the writer that is none.
LEMMA WriterType == NoWriter \in WriterSet
<1>1. 0 \in 0..N
  BY ReferencesAssumption
<1> QED
  BY <1>1 DEF NoWriter, WriterSet

\* A budget that is spent stays a budget.
LEMMA SpendType ==
  ASSUME SpentOK, NEW what \in DOMAIN Budgets, spend(what) PROVE SpentOK'
<1>1. Budgets \in [DOMAIN Budgets -> Nat]
  BY BoundsAssumption DEF Budgets
<1> QED
  BY <1>1 DEF SpentOK, spend

\* The budgets are these five.
LEMMA BudgetNames == DOMAIN Budgets = {"failure", "outage", "crash", "local", "unlink"}
BY DEF Budgets

\* A failed row is a row, for a name of the document or one that has a row.
LEMMA FailedRowType ==
  ASSUME TypeInv, NEW n \in Names, n \in Named \/ rows[n].state # "none"
  PROVE  failed_row(n) \in AnyRow /\ failed_row(n).state = "failed"
<1>1. rows[n] \in AnyRow /\ job.doc[n] \in AnyResource
  BY TypeParts DEF TypeInv, JobSet, Docs, AnyResource
<1>2. rows[n].cred \in Credentials \cup {Null} /\ failed_row(n).ref \in Refs
  BY <1>1, ValueFacts DEF failed_row, Named, named
<1>3. failed_row(n) \in Rows
  BY <1>2 DEF failed_row, Rows
<1> QED
  BY <1>3 DEF failed_row, AnyRow

\* The sets a loop is about, and where it goes next.
LEMMA LoopFacts ==
  ASSUME job \in JobSet
  PROVE  /\ Named \subseteq Names /\ Orphans \subseteq Names /\ Named \cap Orphans = {}
         /\ 0 \in Nat /\ here \in Nat /\ N + 1 \notin Names /\ N + 1 \in 0..N + 1 /\ Names \subseteq 0..N + 1
         /\ \A n \in Nat : after(n, Named) \in Named \cup {N + 1} /\ after(n, Orphans) \in Orphans \cup {N + 1}
<1>1. Named \subseteq Names /\ Orphans \subseteq Names /\ Named \cap Orphans = {}
  BY DEF Named, Orphans, orphan
<1>2. 0 \in Nat /\ here \in Nat /\ N + 1 \notin Names /\ N + 1 \in 0..N + 1 /\ Names \subseteq 0..N + 1
  BY ReferencesAssumption DEF JobSet, here, Names
<1> QED
  BY <1>1, <1>2, AfterIsNext

\* The program starts in a state of that shape.
LEMMA TypeInit == Init => TypeInv
<1> SUFFICES ASSUME Init PROVE TypeInv
  OBVIOUS
<1>1. SpentOK
  BY BoundsAssumption DEF Init, SpentOK, Budgets
<1>2. latest \in LatestSet
  BY BoundsAssumption DEF Init, Unlinked, Docs, LatestSet
<1>3. rows \in [Names -> AnyRow] /\ account \in [Names -> AnyAccount] /\ job \in JobSet
  BY ValueFacts, IdleType DEF Init
<1>4. local \in WriterSet
  BY WriterType DEF Init
<1>5. elapsed \in BOOLEAN
  BY Zenon DEF Init
<1>6. Typed
  BY <1>1, <1>2, <1>3, <1>4, <1>5, TypeParts
<1>7. Shape
  BY IdleType DEF Init, Shape, in, Calls
<1> QED
  BY <1>6, <1>7 DEF TypeInv

---------------------------------------------------------------------------
(* Steps of an apply *)

\* A step that stays with its document and that goes to a name its loop is about keeps the shape.
LEMMA JobMoves ==
  ASSUME TypeInv, job' \in JobSet, job'.doc = job.doc,
         \A n \in Names : n \in Named \/ job'.known[n] = job.known[n],
         job'.pc # "discover", job'.applied \subseteq Named,
         job'.pc = "resource" => job'.at \in Named \cup {N + 1},
         job'.pc \in Calls => job'.at \in Named,
         job'.pc = "orphan" => job'.at \in Orphans \cup {N + 1},
         job'.pc = "forget" => job'.at \in Orphans,
         job'.pc \in {"create", "rotate", "switch"} => job.doc[job'.at].want # "deleted"
  PROVE  Shape' /\ Named' = Named /\ Orphans' = Orphans
<1>1. Named' = Named
  BY DEF Named, named
<1>2. Orphans' = Orphans
  BY DEF Orphans, orphan, Named, named
<1>3. N + 1 \notin Names
  BY NamesAreNumbers
<1> QED
  BY <1>1, <1>2, <1>3 DEF Shape, in, here, resource_here

\* The parts of the invariant that the steps below start from.
LEMMA Parts ==
  ASSUME TypeInv
  PROVE  /\ Typed /\ Shape /\ job \in JobSet /\ SpentOK
         /\ latest \in LatestSet
         /\ rows \in [Names -> AnyRow] /\ account \in [Names -> AnyAccount]
         /\ job.doc \in [Names -> AnyResource] /\ job.known \in [Names -> AnyRow] /\ job.seen \in [Names -> Seen]
<1>1. Typed /\ Shape
  BY DEF TypeInv
<1>2. Docs = [Names -> AnyResource]
  BY DEF Docs, AnyResource
<1> QED
  BY <1>1, <1>2, TypeParts DEF JobSet

\* A step of an apply that keeps the types of what it changes.
LEMMA Assembled ==
  ASSUME TypeInv, rows' \in [Names -> AnyRow], account' \in [Names -> AnyAccount], job' \in JobSet, SpentOK',
         UNCHANGED <<latest, local, elapsed>>
  PROVE  Typed'
<1>1. elapsed' \in BOOLEAN
  <2>1. elapsed \in BOOLEAN /\ elapsed' = elapsed
    BY TypeParts, Zenon DEF TypeInv
  <2> QED
    BY <2>1, Zenon
<1>2. local' \in WriterSet
  BY TypeParts DEF TypeInv
<1>3. latest' \in LatestSet
  BY TypeParts DEF TypeInv
<1> QED
  BY <1>1, <1>2, <1>3 DEF Typed, JobSet, AnyRow, AnyAccount, Seen, SpentOK, LatestSet, WriterSet

\* The same for a step that leaves the accounts and the clock, or the clock and the writer, alone.
LEMMA LatestAssembled ==
  ASSUME TypeInv, job' \in JobSet, UNCHANGED <<rows, account, local, elapsed, spent>>,
         latest' \in LatestSet
  PROVE  Typed'
<1>1. elapsed' \in BOOLEAN
  <2>1. elapsed \in BOOLEAN /\ elapsed' = elapsed
    BY TypeParts, Zenon DEF TypeInv
  <2> QED
    BY <2>1, Zenon
<1>2. local' \in WriterSet /\ rows' \in [Names -> AnyRow] /\ account' \in [Names -> AnyAccount]
  BY TypeParts DEF TypeInv
<1>3. SpentOK'
  BY TypeParts DEF TypeInv, SpentOK
<1> QED
  BY <1>1, <1>2, <1>3 DEF Typed, JobSet, AnyRow, AnyAccount, Seen, SpentOK, LatestSet, WriterSet

\* A manager's call, whatever becomes of it, with an account as its result and a next step that stays
\* with the resource.
LEMMA CallType ==
  ASSUME TypeInv, NEW pc \in Calls, NEW possible, NEW result, NEW then, call(pc, possible, result, then),
         possible => result \in AnyAccount,
         then \in JobSet, then.pc \in {"switch", "record"},
         then.pc = "switch" => resource_here.want # "deleted",
         then.at = job.at, then.doc = job.doc, then.known = job.known, then.applied = job.applied
  PROVE  TypeInv'
<1>1. here \in Named /\ here \in Names /\ job.pc = pc /\ job.applied \subseteq Named
  BY Parts, LoopFacts DEF Shape, call, in
<1>2. account' \in [Names -> AnyAccount]
  BY <1>1, Parts DEF call
<1>3. SpentOK'
  <2>1. ASSUME UNCHANGED spent PROVE SpentOK'
    BY <2>1, Parts DEF SpentOK
  <2> QED
    BY <2>1, Parts, SpendType, BudgetNames DEF call
<1>4. job' = then \/ job' = [job EXCEPT !.pc = "fail"]
  BY DEF call, goto
<1>5. job' \in JobSet /\ job'.pc \in {"switch", "record", "fail"} /\ job'.at = here /\ job'.doc = job.doc
      /\ job'.known = job.known /\ job'.applied = job.applied
      /\ (job'.pc = "switch" => resource_here.want # "deleted")
  <2>1. CASE job' = then
    BY <2>1 DEF here
  <2>2. CASE job' = [job EXCEPT !.pc = "fail"]
    BY <2>2, Parts DEF JobSet, Pcs, here
  <2> QED
    BY <1>4, <2>1, <2>2
<1>6. Typed'
  BY <1>2, <1>3, <1>5, Parts, Assembled DEF call
<1>7. Shape'
  BY <1>1, <1>5, JobMoves DEF resource_here, Calls
<1> QED
  BY <1>6, <1>7 DEF TypeInv

\* A step that only moves the apply.
LEMMA MoveType ==
  ASSUME TypeInv, NEW pc \in {"create", "delete", "record", "rotate", "switch", "fail", "relay", "egress", "finish"},
         goto(pc), pc \in Calls => here \in Named,
         pc \in {"create", "rotate", "switch"} => resource_here.want # "deleted"
  PROVE  job' \in JobSet /\ Shape'
<1>1. job' \in JobSet /\ job'.pc = pc /\ job'.at = here /\ job'.doc = job.doc /\ job'.known = job.known
      /\ job'.applied = job.applied
  BY Parts DEF goto, JobSet, Pcs, here
<1>2. job.applied \subseteq Named
  BY Parts DEF Shape
<1> QED
  BY <1>1, <1>2, JobMoves DEF resource_here, Calls

\* The inventory and the resources of the document.
LEMMA ResourceType ==
  ASSUME TypeInv,
         Discover \/ DiscoverFails \/ Collision \/ Adopt \/ Withdraw \/ Placeholder \/ Keep \/ Switched \/ DetailFails \/ Record \/ Fail
  PROVE  TypeInv'
<1>0. /\ job \in JobSet /\ Shape /\ rows \in [Names -> AnyRow] /\ account \in [Names -> AnyAccount]
      /\ job.doc \in [Names -> AnyResource] /\ job.known \in [Names -> AnyRow] /\ job.seen \in [Names -> Seen]
      /\ SpentOK /\ job.applied \subseteq Named
  BY Parts DEF Shape
<1>a. ASSUME UNCHANGED spent PROVE SpentOK'
  BY <1>a, <1>0 DEF SpentOK
<1>b. \A n \in Named : n \in Names /\ job.doc[n] \in Resources /\ job.doc[n].ref \in Refs /\ credential(job.doc[n]) \in Credentials
  BY <1>0, ValueFacts DEF Named, named
<1>1. CASE Discover
  <2>1. after(0, Named) \in Named \cup {N + 1} /\ after(0, Named) \in 0..N + 1
    BY <1>0, LoopFacts
  <2>2. account \in [Names -> Seen]
    BY <1>0, ValueFacts
  <2>3. /\ job' \in JobSet /\ job'.pc = "resource" /\ job'.at = after(0, Named) /\ job'.doc = job.doc
        /\ job'.known = job.known /\ job'.applied = job.applied
    BY <1>0, <1>1, <2>1, <2>2 DEF Discover, JobSet, Pcs
  <2>4. Typed'
    BY <1>0, <1>1, <1>a, <2>3, Assembled DEF Discover
  <2>5. Shape'
    BY <1>0, <2>1, <2>3, JobMoves DEF Calls
  <2> QED
    BY <2>4, <2>5 DEF TypeInv
<1>2. CASE DiscoverFails
  <2>1. ASSUME NEW n \in Names, n \in Named \cup Orphans PROVE failed_row(n) \in AnyRow
    <3>1. n \in Named \/ rows[n].state # "none"
      BY <1>0, <1>2, <2>1 DEF DiscoverFails, Shape, in, Orphans, orphan
    <3> QED
      BY <3>1, FailedRowType
  <2>2. rows' \in [Names -> AnyRow]
    BY <1>0, <1>2, <2>1 DEF DiscoverFails
  <2>3. /\ job' \in JobSet /\ job'.pc = "lanes" /\ job'.doc = job.doc
        /\ job'.known = job.known /\ job'.applied = job.applied
    BY <1>0, <1>2 DEF DiscoverFails, JobSet, Pcs
  <2>4. SpentOK'
    BY <1>0, <1>2, SpendType, BudgetNames DEF DiscoverFails
  <2>5. Typed'
    BY <1>0, <1>2, <2>2, <2>3, <2>4, Assembled DEF DiscoverFails
  <2>6. Shape'
    BY <1>0, <2>3, JobMoves DEF Calls
  <2> QED
    BY <2>5, <2>6 DEF TypeInv
<1>3. CASE Collision
  <2>1. here \in Nat /\ after(here, Named) \in Named \cup {N + 1} /\ after(here, Named) \in 0..N + 1
    BY <1>0, LoopFacts
  <2>2. /\ job' \in JobSet /\ job'.pc = "resource" /\ job'.at = after(here, Named) /\ job'.doc = job.doc
        /\ job'.known = job.known /\ job'.applied = job.applied
    BY <1>0, <1>3, <2>1 DEF Collision, at_resource, in, JobSet, Pcs
  <2>3. Typed'
    BY <1>0, <1>3, <1>a, <2>2, Assembled DEF Collision
  <2>4. Shape'
    BY <1>0, <2>1, <2>2, JobMoves DEF Calls
  <2> QED
    BY <2>3, <2>4 DEF TypeInv
<1>4. CASE Adopt
  <2> DEFINE row == [ref |-> resource_here.ref, cred |-> credential(resource_here), state |-> state_of(job.seen[here].enabled)]
  <2>1. here \in Named /\ here \in Names
    BY <1>0, <1>4 DEF Adopt, at_resource, Shape
  <2>2. row \in AnyRow
    BY <1>b, <2>1 DEF AnyRow, Rows, state_of, resource_here
  <2>3. rows' = [rows EXCEPT ![here] = row] /\ job' = [job EXCEPT !.known[here] = row] /\ job.pc = "resource"
    BY <1>4 DEF Adopt, at_resource, in
  <2> HIDE DEF row
  <2>4. /\ job' \in JobSet /\ job'.pc = "resource" /\ job'.at = here /\ job'.doc = job.doc
        /\ job'.known = [job.known EXCEPT ![here] = row] /\ job'.applied = job.applied
    BY <1>0, <2>1, <2>2, <2>3 DEF JobSet, Pcs, here
  <2>5. ASSUME account[here] # NoAccount
        PROVE  [account[here] EXCEPT !.owner = "central", !.cred = credential(resource_here)] \in AnyAccount
    BY <1>0, <1>b, <2>1, <2>5, ValueFacts DEF AnyAccount, Accounts, resource_here
  <2>6. account' \in [Names -> AnyAccount]
    BY <1>0, <1>4, <2>1, <2>5 DEF Adopt
  <2>7. Typed'
    BY <1>0, <1>4, <1>a, <2>1, <2>2, <2>3, <2>4, <2>6, Assembled DEF Adopt
  <2>8. Shape'
    BY <1>0, <2>1, <2>4, JobMoves DEF Calls
  <2> QED
    BY <2>7, <2>8 DEF TypeInv
<1>5. CASE Withdraw
  <2>1. here \in Named
    BY <1>0, <1>5 DEF Withdraw, at_resource, Shape
  <2>2. goto("delete") \/ goto("record")
    BY <1>5 DEF Withdraw
  <2>3. job' \in JobSet /\ Shape'
    BY <2>1, <2>2, MoveType
  <2> QED
    BY <1>0, <1>5, <1>a, <2>3, Assembled DEF Withdraw, TypeInv
<1>6. CASE Placeholder
  <2>1. here \in Named /\ here \in Names /\ resource_here.want # "deleted"
    BY <1>0, <1>6 DEF Placeholder, at_resource, Shape
  <2>2. failed_row(here) \in AnyRow
    BY <2>1, FailedRowType
  <2>3. job' \in JobSet /\ Shape'
    BY <1>6, <2>1, MoveType DEF Placeholder
  <2>4. rows' \in [Names -> AnyRow]
    BY <1>0, <1>6, <2>1, <2>2 DEF Placeholder
  <2> QED
    BY <1>0, <1>6, <1>a, <2>3, <2>4, Assembled DEF Placeholder, TypeInv
<1>7. CASE Keep
  <2>1. here \in Named /\ here \in Names /\ resource_here.want # "deleted"
    BY <1>0, <1>7 DEF Keep, at_resource, Shape
  <2>2. goto("rotate") \/ goto("switch")
    BY <1>7 DEF Keep
  <2>3. job' \in JobSet /\ Shape'
    BY <2>1, <2>2, MoveType
  <2>4. account[here] \in AnyAccount
    BY <1>0, <2>1
  <2>5. [account[here] EXCEPT !.cred = account[here].cred] \in AnyAccount
    BY <2>4 DEF AnyAccount, Accounts, NoAccount
  <2>6. ASSUME account[here] # NoAccount PROVE [account[here] EXCEPT !.cred = credential(resource_here)] \in AnyAccount
    BY <1>b, <2>1, <2>4, <2>6, ValueFacts DEF AnyAccount, Accounts, resource_here
  <2>7. account' = [account EXCEPT ![here] = [account[here] EXCEPT !.cred =
          IF rotates \/ AcceptsCaller \/ account[here] = NoAccount THEN account[here].cred ELSE credential(resource_here)]]
    BY <1>7, <1>0, <2>1 DEF Keep
  <2>8. account' \in [Names -> AnyAccount]
    BY <1>0, <2>1, <2>5, <2>6, <2>7
  <2> QED
    BY <1>0, <1>7, <1>a, <2>3, <2>8, Assembled DEF Keep, TypeInv
<1>8. CASE Switched
  <2>1. here \in Named
    BY <1>0, <1>8 DEF Switched, Shape, in, Calls
  <2>2. job' \in JobSet /\ Shape'
    BY <1>8, <2>1, MoveType DEF Switched
  <2> QED
    BY <1>0, <1>8, <1>a, <2>2, Assembled DEF Switched, TypeInv
<1>9. CASE Record
  <2> DEFINE row == [ref |-> resource_here.ref, cred |-> credential(resource_here),
        state |-> IF resource_here.want = "deleted" THEN "missing" ELSE state_of(job.seen[here].enabled)]
  <2>1. here \in Named /\ here \in Names
    BY <1>0, <1>9, LoopFacts DEF Record, Shape, in, Calls
  <2>2. row \in AnyRow
    BY <1>b, <2>1 DEF AnyRow, Rows, state_of, resource_here
  <2>3. rows' = [rows EXCEPT ![here] = row]
    BY <1>9 DEF Record
  <2> HIDE DEF row
  <2>4. here \in Nat /\ after(here, Named) \in Named \cup {N + 1} /\ after(here, Named) \in 0..N + 1
    BY <1>0, LoopFacts
  <2>5. /\ job' \in JobSet /\ job'.pc = "resource" /\ job'.at = after(here, Named) /\ job'.doc = job.doc
        /\ job'.known = job.known /\ job'.applied = job.applied \cup {here}
    BY <1>0, <1>9, <2>1, <2>4 DEF Record, JobSet, Pcs
  <2>6. rows' \in [Names -> AnyRow]
    BY <1>0, <2>1, <2>2, <2>3
  <2>7. Typed'
    BY <1>0, <1>9, <1>a, <2>5, <2>6, Assembled DEF Record
  <2>8. Shape'
    BY <1>0, <2>1, <2>4, <2>5, JobMoves DEF Calls
  <2> QED
    BY <2>7, <2>8 DEF TypeInv
<1>10. CASE Fail
  <2>1. here \in Named /\ here \in Names
    BY <1>0, <1>10, LoopFacts DEF Fail, Shape, in, Calls
  <2>2. failed_row(here) \in AnyRow
    BY <2>1, FailedRowType
  <2>3. here \in Nat /\ after(here, Named) \in Named \cup {N + 1} /\ after(here, Named) \in 0..N + 1
    BY <1>0, LoopFacts
  <2>4. /\ job' \in JobSet /\ job'.pc = "resource" /\ job'.at = after(here, Named) /\ job'.doc = job.doc
        /\ job'.known = job.known /\ job'.applied = job.applied
    BY <1>0, <1>10, <2>3 DEF Fail, JobSet, Pcs
  <2>5. rows' \in [Names -> AnyRow]
    BY <1>0, <1>10, <2>1, <2>2 DEF Fail
  <2>6. Typed'
    BY <1>0, <1>10, <1>a, <2>4, <2>5, Assembled DEF Fail
  <2>7. Shape'
    BY <1>0, <2>3, <2>4, JobMoves DEF Calls
  <2> QED
    BY <2>6, <2>7 DEF TypeInv
<1>11. CASE DetailFails
  <2>1. here \in Named
    BY <1>0, <1>11 DEF DetailFails, at_resource, Shape, in, Calls
  <2>2. job' \in JobSet /\ Shape'
    BY <1>11, <2>1, MoveType DEF DetailFails
  <2>3. SpentOK'
    BY <1>0, <1>11, SpendType, BudgetNames DEF DetailFails
  <2> QED
    BY <1>0, <1>11, <2>2, <2>3, Assembled DEF DetailFails, TypeInv
<1> QED
  BY <1>1, <1>2, <1>3, <1>4, <1>5, <1>6, <1>7, <1>8, <1>9, <1>10, <1>11

\* The four calls of a manager.
LEMMA CallsType ==
  ASSUME TypeInv, Create \/ Rotate \/ Delete \/ Switch
  PROVE  TypeInv'
<1>0. /\ job \in JobSet /\ Shape /\ account \in [Names -> AnyAccount] /\ job.seen \in [Names -> Seen]
      /\ job.doc \in [Names -> AnyResource]
  BY Parts
<1>1. job.pc \in {"create", "rotate", "delete", "switch"}
  BY DEF Create, Rotate, Delete, Switch, call, in
<1>2. here \in Named /\ here \in Names
  BY <1>0, <1>1, LoopFacts DEF Shape, Calls
<1>3. credential(resource_here) \in Credentials
  BY <1>0, <1>2, ValueFacts DEF resource_here, Named, named
<1>4. job.pc \in {"create", "rotate", "switch"} => resource_here.want # "deleted"
  BY <1>0 DEF Shape
<1>5. account[here] \in AnyAccount /\ (exists => account[here] \in Accounts)
  BY <1>0, <1>2, ValueFacts DEF exists
<1>6. wanted(resource_here) \in BOOLEAN
  BY DEF wanted
<1>7. job.seen[here] \in Seen
  BY <1>0, <1>2
<1>8. CASE Create
  <2> DEFINE made == [owner |-> "central", cred |-> credential(resource_here), enabled |-> TRUE]
             then == [to("switch") EXCEPT !.seen[here].enabled = TRUE]
  <2>1. made \in AnyAccount
    BY <1>3 DEF AnyAccount, Accounts
  <2>2. [job.seen[here] EXCEPT !.enabled = TRUE] \in Seen
    BY <1>7 DEF Seen
  <2>3. then = [job EXCEPT !.pc = "switch", !.seen = [job.seen EXCEPT ![here] = [job.seen[here] EXCEPT !.enabled = TRUE]]]
    BY <1>0, <1>2 DEF to, JobSet
  <2> HIDE DEF then
  <2>4. /\ then \in JobSet /\ then.pc = "switch" /\ then.at = job.at /\ then.doc = job.doc /\ then.known = job.known
        /\ then.applied = job.applied
    <3> DEFINE seen == [job.seen EXCEPT ![here] = [job.seen[here] EXCEPT !.enabled = TRUE]]
    <3>1. seen \in [Names -> Seen] /\ then = [job EXCEPT !.pc = "switch", !.seen = seen]
      BY <1>0, <1>2, <2>2, <2>3
    <3> HIDE DEF seen
    <3> QED
      BY <1>0, <3>1 DEF JobSet, Pcs
  <2> USE DEF then
  <2>5. call("create", ~exists, made, then) /\ job.pc = "create"
    BY <1>8 DEF Create, call, in
  <2> HIDE DEF made, then
  <2>6. "create" \in Calls
    BY DEF Calls
  <2> QED
    BY <1>4, <2>1, <2>4, <2>5, <2>6, CallType
<1>9. CASE Rotate
  <2> DEFINE rotated == [account[here] EXCEPT !.cred = credential(resource_here)]
             then == to("switch")
  <2>1. exists => rotated \in AnyAccount
    BY <1>3, <1>5 DEF AnyAccount, Accounts
  <2>2. /\ then \in JobSet /\ then.pc = "switch" /\ then.at = job.at /\ then.doc = job.doc /\ then.known = job.known
        /\ then.applied = job.applied
    BY <1>0 DEF JobSet, Pcs, to
  <2>3. call("rotate", exists, rotated, then) /\ job.pc = "rotate"
    BY <1>9 DEF Rotate, call, in
  <2> HIDE DEF rotated, then
  <2>4. "rotate" \in Calls
    BY DEF Calls
  <2> QED
    BY <1>4, <2>1, <2>2, <2>3, <2>4, CallType
<1>10. CASE Delete
  <2> DEFINE then == to("record")
  <2>1. /\ then \in JobSet /\ then.pc = "record" /\ then.at = job.at /\ then.doc = job.doc /\ then.known = job.known
        /\ then.applied = job.applied
    BY <1>0 DEF JobSet, Pcs, to
  <2>2. call("delete", exists, NoAccount, then)
    BY <1>10 DEF Delete
  <2> HIDE DEF then
  <2>3. "delete" \in Calls
    BY DEF Calls
  <2> QED
    BY <2>1, <2>2, <2>3, ValueFacts, CallType
<1>11. CASE Switch
  <2> DEFINE switched == [account[here] EXCEPT !.enabled = wanted(resource_here)]
             then == [to("record") EXCEPT !.seen[here].enabled = wanted(resource_here)]
  <2>1. exists => switched \in AnyAccount
    BY <1>5, <1>6 DEF AnyAccount, Accounts
  <2>2. [job.seen[here] EXCEPT !.enabled = wanted(resource_here)] \in Seen
    BY <1>6, <1>7 DEF Seen
  <2>3. then = [job EXCEPT !.pc = "record",
          !.seen = [job.seen EXCEPT ![here] = [job.seen[here] EXCEPT !.enabled = wanted(resource_here)]]]
    BY <1>0, <1>2 DEF to, JobSet
  <2> HIDE DEF then
  <2>4. /\ then \in JobSet /\ then.pc = "record" /\ then.at = job.at /\ then.doc = job.doc /\ then.known = job.known
        /\ then.applied = job.applied
    <3> DEFINE seen == [job.seen EXCEPT ![here] = [job.seen[here] EXCEPT !.enabled = wanted(resource_here)]]
    <3>1. seen \in [Names -> Seen] /\ then = [job EXCEPT !.pc = "record", !.seen = seen]
      BY <1>0, <1>2, <2>2, <2>3
    <3> HIDE DEF seen
    <3> QED
      BY <1>0, <3>1 DEF JobSet, Pcs
  <2> USE DEF then
  <2>5. call("switch", exists, switched, then)
    BY <1>11 DEF Switch
  <2> HIDE DEF switched, then
  <2>6. "switch" \in Calls
    BY DEF Calls
  <2> QED
    BY <2>1, <2>4, <2>5, <2>6, CallType
<1> QED
  BY <1>8, <1>9, <1>10, <1>11

\* The readback, the orphans, the other sections and the end.
LEMMA TailType ==
  ASSUME TypeInv,
         Readback \/ ReadbackFails \/ OrphanDelete \/ OrphanForget \/ Lanes \/ Relay \/ Egress \/ Finish
  PROVE  TypeInv'
<1>0. /\ job \in JobSet /\ Shape /\ rows \in [Names -> AnyRow] /\ account \in [Names -> AnyAccount]
      /\ job.doc \in [Names -> AnyResource] /\ SpentOK /\ job.applied \subseteq Named
  BY Parts DEF Shape
<1>a. ASSUME UNCHANGED spent PROVE SpentOK'
  BY <1>a, <1>0 DEF SpentOK
<1>b. \A n \in Named : n \in Names /\ job.doc[n].ref \in Refs /\ credential(job.doc[n]) \in Credentials
  BY <1>0, ValueFacts DEF Named, named
<1>c. ASSUME spend("failure") \/ spend("outage") PROVE SpentOK'
  BY <1>0, <1>c, SpendType, BudgetNames
<1>d. here \in Nat /\ after(here, Orphans) \in Orphans \cup {N + 1} /\ after(here, Orphans) \in 0..N + 1
  BY <1>0, LoopFacts
<1>e. ASSUME NEW pc \in {"relay", "egress", "finish"}, goto(pc) \/ section_fails(pc)
      PROVE  job' \in JobSet /\ Shape'
  <2>1. /\ job' \in JobSet /\ job'.pc = pc /\ job'.doc = job.doc
        /\ job'.known = job.known /\ job'.applied = job.applied
    BY <1>0, <1>e DEF goto, section_fails, JobSet, Pcs
  <2> QED
    BY <1>0, <2>1, JobMoves DEF Calls
<1>1. ASSUME NEW refuted \in SUBSET Named, readback(refuted), UNCHANGED spent \/ spend("outage") PROVE TypeInv'
  <2>1. \A n \in refuted : failed_row(n) \in AnyRow
    BY <1>b, FailedRowType
  <2>2. rows' \in [Names -> AnyRow]
    BY <1>0, <1>1, <2>1 DEF readback
  <2>3. after(0, Orphans) \in Orphans \cup {N + 1} /\ after(0, Orphans) \in 0..N + 1
    BY <1>0, LoopFacts
  <2>4. (job.failed \/ refuted # {}) \in BOOLEAN
    OBVIOUS
  <2>5. /\ job' \in JobSet /\ job'.pc = "orphan" /\ job'.at = after(0, Orphans) /\ job'.doc = job.doc
        /\ job'.known = job.known /\ job'.applied = job.applied
    BY <1>0, <1>1, <2>3, <2>4 DEF readback, to_orphans, JobSet, Pcs
  <2>6. Typed'
    BY <1>0, <1>1, <1>a, <1>c, <2>2, <2>5, Assembled DEF readback
  <2>7. Shape'
    BY <1>0, <2>3, <2>5, JobMoves DEF Calls
  <2> QED
    BY <2>6, <2>7 DEF TypeInv
<1>2. CASE Readback
  BY <1>0, <1>1, <1>2 DEF Readback
<1>3. CASE ReadbackFails
  BY <1>0, <1>1, <1>3 DEF ReadbackFails
<1>4. CASE OrphanDelete
  <2>1. here \in Orphans /\ here \in Names /\ job.pc = "orphan"
    BY <1>0, <1>4 DEF OrphanDelete, at_orphan, Shape, in
  <2>2. account' \in [Names -> AnyAccount]
    <3>1. account' \in {account, [account EXCEPT ![here] = NoAccount]}
      BY <1>4 DEF OrphanDelete
    <3> QED
      BY <1>0, <2>1, <3>1, ValueFacts
  <2>3. SpentOK'
    BY <1>4, <1>a, <1>c DEF OrphanDelete
  <2>4. /\ job' \in JobSet /\ job'.doc = job.doc /\ job'.known = job.known /\ job'.applied = job.applied
        /\ (job'.pc = "forget" /\ job'.at = here) \/ (job'.pc = "orphan" /\ job'.at = after(here, Orphans))
    <3>1. CASE goto("forget")
      BY <1>0, <3>1 DEF goto, JobSet, Pcs, here
    <3>2. CASE job' = [job EXCEPT !.at = after(here, Orphans), !.failed = TRUE]
      BY <1>0, <1>d, <2>1, <3>2 DEF JobSet
    <3> QED
      BY <1>4, <3>1, <3>2 DEF OrphanDelete
  <2>5. Typed'
    BY <1>0, <1>4, <2>2, <2>3, <2>4, Assembled DEF OrphanDelete
  <2>6. Shape'
    BY <1>0, <1>d, <2>1, <2>4, JobMoves DEF Calls
  <2> QED
    BY <2>5, <2>6 DEF TypeInv
<1>5. CASE OrphanForget
  <2>1. rows' \in [Names -> AnyRow]
    BY <1>0, <1>5, ValueFacts DEF OrphanForget
  <2>2. /\ job' \in JobSet /\ job'.doc = job.doc /\ job'.known = job.known /\ job'.applied = job.applied
        /\ job'.pc = "orphan" /\ job'.at = after(here, Orphans)
    BY <1>0, <1>5, <1>d DEF OrphanForget, JobSet, Pcs
  <2>3. Typed'
    BY <1>0, <1>5, <1>a, <2>1, <2>2, Assembled DEF OrphanForget
  <2>4. Shape'
    BY <1>0, <1>d, <2>2, JobMoves DEF Calls
  <2> QED
    BY <2>3, <2>4 DEF TypeInv
<1>6. CASE Lanes
  <2>1. job' \in JobSet /\ Shape'
    BY <1>6, <1>e DEF Lanes
  <2>2. SpentOK'
    BY <1>6, <1>a, <1>c DEF Lanes, section_fails
  <2>3. ASSUME NEW n \in Names, named(n)
        PROVE  [ref |-> job.doc[n].ref, cred |-> credential(job.doc[n]), state |-> "failed"] \in AnyRow
    BY <1>b, <2>3 DEF Named, AnyRow, Rows
  <2>4. rows' \in [Names -> AnyRow]
    <3>1. CASE UNCHANGED rows
      BY <1>0, <3>1
    <3>2. ASSUME NEW laned \in SUBSET {n \in Names : named(n)},
                 rows' = [n \in Names |->
                   IF n \in laned THEN [ref |-> job.doc[n].ref, cred |-> credential(job.doc[n]), state |-> "failed"] ELSE rows[n]]
          PROVE  rows' \in [Names -> AnyRow]
      BY <1>0, <2>3, <3>2
    <3> QED
      BY <1>6, <3>1, <3>2 DEF Lanes
  <2> QED
    BY <1>0, <1>6, <2>1, <2>2, <2>4, Assembled DEF Lanes, TypeInv
<1>7. CASE Relay
  <2>1. job' \in JobSet /\ Shape' /\ SpentOK'
    BY <1>7, <1>a, <1>c, <1>e DEF Relay, section_fails
  <2> QED
    BY <1>0, <1>7, <2>1, Assembled DEF Relay, TypeInv
<1>8. CASE Egress
  <2>1. job' \in JobSet /\ Shape' /\ SpentOK'
    BY <1>8, <1>a, <1>c, <1>e DEF Egress, section_fails
  <2> QED
    BY <1>0, <1>8, <2>1, Assembled DEF Egress, TypeInv
<1>9. CASE Finish
  <2>1. latest' \in LatestSet
    BY <1>9, Parts DEF Finish, LatestSet
  <2>2. job' \in JobSet /\ Shape'
    BY <1>9, IdleType DEF Finish, Shape, in, Calls
  <2>3. Typed'
    BY <1>9, <2>1, <2>2, LatestAssembled DEF Finish
  <2> QED
    BY <2>2, <2>3 DEF TypeInv
<1> QED
  BY <1>2, <1>3, <1>4, <1>5, <1>6, <1>7, <1>8, <1>9

---------------------------------------------------------------------------
(* The other actors *)

\* A step outside an apply: the shape speaks of the job and, before the inventory is read, of the rows.
LEMMA Beside ==
  ASSUME TypeInv, job' = job, in("discover") => rows' = rows,
         latest' \in LatestSet, rows' \in [Names -> AnyRow], account' \in [Names -> AnyAccount],
         local' \in WriterSet, elapsed' \in BOOLEAN, SpentOK'
  PROVE  TypeInv'
<1>1. job' \in JobSet
  BY Parts
<1>2. Typed'
  BY <1>1 DEF Typed, JobSet, AnyRow, AnyAccount, Seen, SpentOK, LatestSet, WriterSet
<1>3. Shape'
  BY Parts DEF Shape, in, here, resource_here, Named, named, Orphans, orphan
<1> QED
  BY <1>2, <1>3 DEF TypeInv

\* Accept, the start of an apply, the panel's writers, unlinking, the clock and a restart.
LEMMA OthersType ==
  ASSUME TypeInv,
         \/ \E n \in Names, resource \in Resources : Accept(n, resource)
         \/ start \/ (\E n \in Names, what \in {"create", "delete"} : LocalCheck(n, what)) \/ LocalCreate \/ LocalDelete
         \/ Unlink \/ Elapse \/ Restart
  PROVE  TypeInv'
<1>0. /\ job \in JobSet /\ Shape /\ rows \in [Names -> AnyRow] /\ account \in [Names -> AnyAccount] /\ SpentOK
      /\ latest \in LatestSet
  BY Parts
<1>0a. local \in WriterSet
  BY TypeParts DEF TypeInv
<1>0b. elapsed \in BOOLEAN
  BY TypeParts, Zenon DEF TypeInv
<1>a. ASSUME UNCHANGED spent PROVE SpentOK'
  BY <1>a, <1>0 DEF SpentOK
<1>b. ASSUME UNCHANGED elapsed PROVE elapsed' \in BOOLEAN
  BY <1>b, <1>0b, Zenon
<1>c. Unlinked \in LatestSet
  BY BoundsAssumption DEF Unlinked, LatestSet, Docs
<1>1. ASSUME NEW n \in Names, NEW resource \in Resources, Accept(n, resource) PROVE TypeInv'
  <2>1. [latest.doc EXCEPT ![n] = resource] \in Docs
    BY <1>0 DEF LatestSet, Docs
  <2>2. latest.generation + 1 \in 0..MaxGenerations
    BY <1>0, <1>1, BoundsAssumption DEF Accept, LatestSet
  <2>3. latest' \in LatestSet
    BY <1>1, <2>1, <2>2 DEF Accept, LatestSet
  <2> QED
    BY <1>0, <1>0a, <1>1, <1>a, <1>b, <2>3, Beside DEF Accept
<1>2. CASE start
  <2> DEFINE store == [n \in Names |-> IF n \in stale THEN NoRow ELSE rows[n]]
  <2>1. store \in [Names -> AnyRow]
    BY <1>0, ValueFacts
  <2>2. /\ rows' = store /\ latest' = [latest EXCEPT !.state = "applying"] /\ UNCHANGED <<account, local, elapsed, spent>>
        /\ job' = [Idle EXCEPT !.pc = "discover", !.generation = latest.generation, !.doc = latest.doc, !.known = store]
    BY <1>2 DEF start
  <2> HIDE DEF store
  <2>3. /\ job' \in JobSet /\ job'.pc = "discover" /\ job'.known = rows' /\ job'.applied = {}
    BY <1>0, <2>1, <2>2, IdleType DEF JobSet, Pcs, LatestSet
  <2>4. latest' \in LatestSet
    BY <1>0, <2>2 DEF LatestSet
  <2>5. SpentOK' /\ local' \in WriterSet /\ rows' \in [Names -> AnyRow] /\ account' \in [Names -> AnyAccount]
    BY <1>0, <1>0a, <1>a, <2>1, <2>2
  <2>6. elapsed' \in BOOLEAN
    BY <1>b, <2>2
  <2>7. Typed'
    BY <2>3, <2>4, <2>5, <2>6 DEF Typed, JobSet, AnyRow, AnyAccount, Seen, SpentOK, LatestSet, WriterSet
  <2>8. Shape'
    BY <2>3 DEF Shape, in, Calls
  <2> QED
    BY <2>7, <2>8 DEF TypeInv
<1>3. ASSUME NEW n \in Names, NEW what \in {"create", "delete"}, LocalCheck(n, what) PROVE TypeInv'
  <2>1. n \in 0..N
    BY ReferencesAssumption DEF Names
  <2>2. local' \in WriterSet
    BY <1>3, <2>1 DEF LocalCheck, WriterSet
  <2>3. SpentOK'
    BY <1>0, <1>3, SpendType, BudgetNames DEF LocalCheck
  <2> QED
    BY <1>0, <1>3, <1>b, <2>2, <2>3, Beside DEF LocalCheck
<1>4. CASE LocalCreate \/ LocalDelete
  <2>1. local' \in WriterSet
    BY <1>4, WriterType DEF LocalCreate, LocalDelete, WriterSet
  <2>2. [owner |-> "local", cred |-> Null, enabled |-> TRUE] \in AnyAccount
    BY DEF AnyAccount, Accounts
  <2>3. account' \in [Names -> AnyAccount]
    BY <1>0, <1>4, <2>2, ValueFacts DEF LocalCreate, LocalDelete
  <2> QED
    BY <1>0, <1>4, <1>a, <1>b, <2>1, <2>3, Beside DEF LocalCreate, LocalDelete
<1>5. CASE Unlink
  <2>1. rows' \in [Names -> AnyRow]
    BY <1>5, ValueFacts DEF Unlink
  <2>2. ASSUME NEW n \in Names, account[n] # NoAccount PROVE [account[n] EXCEPT !.owner = "local"] \in AnyAccount
    BY <1>0, <2>2, ValueFacts DEF AnyAccount, Accounts
  <2>3. account' \in [Names -> AnyAccount]
    BY <1>5, <2>2, ValueFacts DEF Unlink
  <2>4. SpentOK'
    BY <1>0, <1>5, SpendType, BudgetNames DEF Unlink
  <2>5. job' = job /\ ~in("discover") /\ latest' \in LatestSet /\ local' \in WriterSet
    BY <1>0a, <1>5, <1>c DEF Unlink, in
  <2>6. elapsed' \in BOOLEAN
    BY <1>5, <1>b DEF Unlink
  <2> QED
    BY <2>1, <2>3, <2>4, <2>5, <2>6, Beside
<1>6. CASE Elapse
  <2>1. elapsed' \in BOOLEAN
    BY <1>6, Zenon DEF Elapse
  <2> QED
    BY <1>0, <1>0a, <1>6, <1>a, <2>1, Beside DEF Elapse
<1>7. CASE Restart
  <2>1. job' \in JobSet /\ Shape'
    BY <1>7, IdleType DEF Restart, Shape, in, Calls
  <2>2. SpentOK' /\ local' \in WriterSet
    BY <1>0, <1>7, SpendType, BudgetNames, WriterType DEF Restart, WriterSet
  <2>3. elapsed' \in BOOLEAN
    BY <1>7, <1>b DEF Restart
  <2>4. latest' \in LatestSet /\ rows' \in [Names -> AnyRow] /\ account' \in [Names -> AnyAccount]
    BY <1>0, <1>7 DEF Restart
  <2>5. Typed'
    BY <2>1, <2>2, <2>3, <2>4 DEF Typed, JobSet, AnyRow, AnyAccount, Seen, SpentOK, LatestSet, WriterSet
  <2> QED
    BY <2>1, <2>5 DEF TypeInv
<1> QED
  BY <1>1, <1>2, <1>3, <1>4, <1>5, <1>6, <1>7

\* The steps, grouped as the lemmas are.
LEMMA NextGroups ==
  ASSUME Next
  PROVE  \/ Discover \/ DiscoverFails \/ Collision \/ Adopt \/ Withdraw \/ Placeholder \/ Keep \/ Switched \/ DetailFails \/ Record \/ Fail
         \/ Create \/ Rotate \/ Delete \/ Switch
         \/ Readback \/ ReadbackFails \/ OrphanDelete \/ OrphanForget \/ Lanes \/ Relay \/ Egress \/ Finish
         \/ \E n \in Names, resource \in Resources : Accept(n, resource)
         \/ start \/ (\E n \in Names, what \in {"create", "delete"} : LocalCheck(n, what)) \/ LocalCreate \/ LocalDelete
         \/ Unlink \/ Elapse \/ Restart
BY Zenon DEF Next, JobStep, Apply, RunPending

\* Every step keeps the types and the shape.
LEMMA TypeStep == TypeInv /\ [Next]_vars => TypeInv'
<1> SUFFICES ASSUME TypeInv, [Next]_vars PROVE TypeInv'
  OBVIOUS
<1>1. CASE UNCHANGED vars
  <2>1. UNCHANGED <<latest, rows, account, job, local, elapsed, spent>>
    BY <1>1 DEF vars
  <2>2. Typed'
    BY <2>1 DEF TypeInv, Typed, SpentOK
  <2>3. Shape'
    BY <2>1, Parts DEF Shape, in, here, resource_here, Named, named, Orphans, orphan
  <2> QED
    BY <2>2, <2>3 DEF TypeInv
<1>2. CASE Next
  BY <1>2, NextGroups, ResourceType, CallsType, TailType, OthersType, Zenon
<1> QED
  BY <1>1, <1>2

---------------------------------------------------------------------------
(* Ownership *)

\* Where the inventory that the apply read still decides what it deletes or forgets.
Deciding == Calls \cup {"resource", "orphan", "forget"}

\* OwnedHasRow is kept because a row is dropped or marked missing only where no account of the central's
\* can be: the delete answered, the inventory showed no account and nothing but this apply could make
\* one, or the row was missing already.
Owned ==
  /\ OwnedHasRow
  /\ in("create") => rows[here].state = "failed"
  /\ in("record") /\ resource_here.want = "deleted" => account[here].owner # "central"
  /\ in("forget") => account[here].owner # "central"
  /\ job.pc \in Deciding =>
       \A n \in Names : job.doc[n].want \in {"none", "deleted"} /\ job.seen[n].owner = "none" => account[n].owner # "central"
  /\ job.pc \in Deciding \cup {"discover"} =>
       \A n \in Names : ~named(n) /\ job.known[n].state = "missing" => account[n].owner # "central"

\* No account is anybody's before the first push.
LEMMA OwnedInit == Init => Owned
BY IdleType DEF Init, Owned, OwnedHasRow, NoAccount, in, Deciding, Calls

\* A resource's steps keep ownership.
LEMMA ResourceOwned ==
  ASSUME TypeInv, Owned,
         Discover \/ DiscoverFails \/ Collision \/ Adopt \/ Withdraw \/ Placeholder \/ Keep \/ Switched \/ DetailFails \/ Record \/ Fail
  PROVE  Owned'
<1>0. /\ job \in JobSet /\ Shape /\ rows \in [Names -> AnyRow] /\ account \in [Names -> AnyAccount]
      /\ job.doc \in [Names -> AnyResource] /\ job.known \in [Names -> AnyRow] /\ job.seen \in [Names -> Seen]
  BY Parts
<1>a. \A n \in Names : failed_row(n).state = "failed"
  BY DEF failed_row
<1>1. CASE Discover
  <2>1. job'.pc = "resource" /\ job'.seen = account /\ job'.doc = job.doc /\ job'.known = job.known /\ UNCHANGED <<rows, account>>
        /\ job.pc = "discover"
    BY <1>0, <1>1 DEF Discover, JobSet, in
  <2>2. OwnedHasRow'
    BY <2>1 DEF Owned, OwnedHasRow, is_managed
  <2> QED
    BY <2>1, <2>2 DEF Owned, in, named, Deciding, Calls
<1>2. CASE DiscoverFails
  <2>1. job'.pc = "lanes" /\ UNCHANGED account
    BY <1>0, <1>2 DEF DiscoverFails, JobSet
  <2>2. OwnedHasRow'
    BY <1>2, <1>a, <2>1 DEF DiscoverFails, Owned, OwnedHasRow, is_managed
  <2> QED
    BY <2>1, <2>2 DEF Owned, in, Deciding, Calls
<1>3. CASE Collision
  <2>1. job'.pc = "resource" /\ job'.seen = job.seen /\ job'.doc = job.doc /\ job'.known = job.known /\ UNCHANGED <<rows, account>>
        /\ job.pc = "resource"
    BY <1>0, <1>3 DEF Collision, JobSet, at_resource, in
  <2>2. OwnedHasRow'
    BY <2>1 DEF Owned, OwnedHasRow, is_managed
  <2> QED
    BY <2>1, <2>2 DEF Owned, in, named, Deciding, Calls
<1>4. CASE Adopt
  <2> DEFINE row == [ref |-> resource_here.ref, cred |-> credential(resource_here), state |-> state_of(job.seen[here].enabled)]
  <2>1. here \in Named /\ here \in Names /\ job.pc = "resource" /\ resource_here.want \notin {"none", "deleted"}
    BY <1>0, <1>4 DEF Adopt, at_resource, Shape, in, Named, named, resource_here
  <2>2. row.state \notin {"none", "missing"}
    BY DEF state_of
  <2>3. rows' = [rows EXCEPT ![here] = row] /\ job' = [job EXCEPT !.known[here] = row]
    BY <1>4 DEF Adopt
  <2> HIDE DEF row
  <2>4. job'.pc = "resource" /\ job'.seen = job.seen /\ job'.doc = job.doc /\ job'.at = job.at
        /\ \A n \in Names \ {here} : job'.known[n] = job.known[n]
    BY <1>0, <2>1, <2>3 DEF JobSet
  <2>5. \A n \in Names \ {here} : account'[n] = account[n] /\ rows'[n] = rows[n]
    BY <1>0, <1>4, <2>1, <2>3 DEF Adopt
  <2>6. rows'[here] = row
    BY <1>0, <2>1, <2>3
  <2>7. OwnedHasRow'
    BY <2>2, <2>5, <2>6 DEF Owned, OwnedHasRow, is_managed
  <2> QED
    BY <2>1, <2>4, <2>5, <2>7 DEF Owned, in, named, Named, Deciding, Calls, resource_here
<1>5. CASE Withdraw
  <2>1. here \in Names /\ job.pc = "resource" /\ resource_here.want = "deleted"
    BY <1>5 DEF Withdraw, at_resource, in
  <2>2. /\ job'.seen = job.seen /\ job'.doc = job.doc /\ job'.known = job.known /\ job'.at = job.at /\ UNCHANGED <<rows, account>>
        /\ job'.pc \in {"delete", "record"} /\ (job'.pc = "record" => ~item)
    BY <1>0, <1>5 DEF Withdraw, goto, JobSet
  <2>3. OwnedHasRow'
    BY <2>2 DEF Owned, OwnedHasRow, is_managed
  <2> QED
    BY <2>1, <2>2, <2>3 DEF Owned, in, named, Deciding, Calls, item, here, resource_here
<1>6. CASE Placeholder
  <2>1. here \in Names /\ job.pc = "resource"
    BY <1>6 DEF Placeholder, at_resource, in
  <2>2. /\ job'.seen = job.seen /\ job'.doc = job.doc /\ job'.known = job.known /\ job'.at = job.at /\ UNCHANGED account
        /\ job'.pc = "create" /\ rows' = [rows EXCEPT ![here] = failed_row(here)]
    BY <1>0, <1>6 DEF Placeholder, goto, JobSet
  <2>3. OwnedHasRow' /\ rows'[here].state = "failed"
    BY <1>0, <1>a, <2>1, <2>2 DEF Owned, OwnedHasRow, is_managed
  <2> QED
    BY <2>1, <2>2, <2>3 DEF Owned, in, named, Deciding, Calls, here
<1>7. CASE Keep
  <2>1. here \in Names /\ job.pc = "resource"
    BY <1>7 DEF Keep, at_resource, in
  <2>2. /\ job'.seen = job.seen /\ job'.doc = job.doc /\ job'.known = job.known /\ job'.at = job.at /\ UNCHANGED rows
        /\ job'.pc \in {"rotate", "switch"}
    BY <1>0, <1>7 DEF Keep, goto, JobSet
  <2>3. account[here] \in AnyAccount
    BY <1>0, <2>1
  <2>4. \A n \in Names : account'[n].owner = account[n].owner
    BY <1>0, <1>7, <2>1, <2>3 DEF Keep, AnyAccount, Accounts, NoAccount
  <2>5. OwnedHasRow'
    BY <2>2, <2>4 DEF Owned, OwnedHasRow, is_managed
  <2> QED
    BY <2>1, <2>2, <2>4, <2>5 DEF Owned, in, named, Deciding, Calls
<1>8. CASE Switched
  <2>1. /\ job'.seen = job.seen /\ job'.doc = job.doc /\ job'.known = job.known /\ job'.at = job.at /\ UNCHANGED <<rows, account>>
        /\ job'.pc = "record" /\ job.pc = "switch" /\ resource_here.want # "deleted"
    BY <1>0, <1>8 DEF Switched, goto, JobSet, in, Shape
  <2>2. OwnedHasRow'
    BY <2>1 DEF Owned, OwnedHasRow, is_managed
  <2> QED
    BY <2>1, <2>2 DEF Owned, in, named, Deciding, Calls, here, resource_here
<1>9. CASE Record
  <2> DEFINE row == [ref |-> resource_here.ref, cred |-> credential(resource_here),
        state |-> IF resource_here.want = "deleted" THEN "missing" ELSE state_of(job.seen[here].enabled)]
  <2>1. here \in Names /\ job.pc = "record"
    BY <1>0, <1>9, LoopFacts DEF Record, Shape, in, Calls
  <2>2. resource_here.want # "deleted" => row.state \notin {"none", "missing"}
    BY DEF state_of
  <2>3. rows' = [rows EXCEPT ![here] = row]
    BY <1>9 DEF Record
  <2> HIDE DEF row
  <2>4. /\ job'.seen = job.seen /\ job'.doc = job.doc /\ job'.known = job.known /\ UNCHANGED account
        /\ job'.pc = "resource"
    BY <1>0, <1>9 DEF Record, JobSet
  <2>5. OwnedHasRow'
    BY <1>0, <2>1, <2>2, <2>3, <2>4 DEF Owned, OwnedHasRow, is_managed, in
  <2> QED
    BY <2>1, <2>4, <2>5 DEF Owned, in, named, Deciding, Calls
<1>10. CASE Fail
  <2>1. here \in Names /\ job.pc = "fail"
    BY <1>0, <1>10, LoopFacts DEF Fail, Shape, in, Calls
  <2>2. /\ job'.seen = job.seen /\ job'.doc = job.doc /\ job'.known = job.known /\ UNCHANGED account
        /\ job'.pc = "resource" /\ rows' = [rows EXCEPT ![here] = failed_row(here)]
    BY <1>0, <1>10 DEF Fail, JobSet
  <2>3. OwnedHasRow'
    BY <1>0, <1>a, <2>1, <2>2 DEF Owned, OwnedHasRow, is_managed
  <2> QED
    BY <2>1, <2>2, <2>3 DEF Owned, in, named, Deciding, Calls
<1>11. CASE DetailFails
  <2>1. /\ job'.seen = job.seen /\ job'.doc = job.doc /\ job'.known = job.known /\ job'.at = job.at /\ UNCHANGED <<rows, account>>
        /\ job'.pc = "fail" /\ job.pc \in {"resource", "switch"}
    BY <1>0, <1>11 DEF DetailFails, at_resource, goto, JobSet, in
  <2>2. OwnedHasRow'
    BY <2>1 DEF Owned, OwnedHasRow, is_managed
  <2> QED
    BY <2>1, <2>2 DEF Owned, in, named, Deciding, Calls, here, resource_here
<1> QED
  BY <1>1, <1>2, <1>3, <1>4, <1>5, <1>6, <1>7, <1>8, <1>9, <1>10, <1>11

\* A call that gives the central only an account that has a row and that the document asks for.
LEMMA CallOwned ==
  ASSUME TypeInv, Owned, NEW pc \in Calls, NEW possible, NEW result, NEW then, call(pc, possible, result, then),
         possible => \/ result.owner # "central" \/ account[here].owner = "central"
                     \/ rows[here].state = "failed" /\ resource_here.want # "deleted",
         then.pc \in {"switch", "record"},
         then.pc = "record" /\ possible => resource_here.want # "deleted" \/ result.owner # "central",
         then.at = job.at, then.doc = job.doc, then.known = job.known,
         \A n \in Names : then.seen[n].owner = job.seen[n].owner
  PROVE  Owned'
<1>0. /\ job \in JobSet /\ Shape /\ account \in [Names -> AnyAccount]
  BY Parts
<1>1. here \in Named /\ here \in Names /\ job.pc = pc /\ resource_here.want # "none"
  BY <1>0, LoopFacts DEF Shape, call, in, Named, named, resource_here
<1>2. UNCHANGED rows /\ \A n \in Names \ {here} : account'[n] = account[n]
  BY <1>0, <1>1 DEF call
<1>3. \/ account'[here] = account[here]
      \/ possible /\ account'[here] = result
  BY <1>0, <1>1 DEF call
<1>4. \/ job' = then /\ possible /\ account'[here] = result
      \/ job' = [job EXCEPT !.pc = "fail"]
  BY <1>0, <1>1 DEF call, goto
<1>5. /\ job'.at = job.at /\ job'.doc = job.doc /\ job'.known = job.known
      /\ \A n \in Names : job'.seen[n].owner = job.seen[n].owner
      /\ job'.pc \in {"switch", "record", "fail"}
      /\ job'.pc = "record" => possible /\ account'[here] = result /\ then.pc = "record"
  <2>1. CASE job' = [job EXCEPT !.pc = "fail"]
    BY <1>0, <2>1 DEF JobSet
  <2> QED
    BY <1>4, <2>1
<1>6. OwnedHasRow'
  BY <1>1, <1>2, <1>3 DEF Owned, OwnedHasRow, is_managed
<1>7. \A n \in Names : account'[n].owner = "central" =>
        account[n].owner = "central" \/ job.doc[n].want \notin {"none", "deleted"}
  BY <1>1, <1>2, <1>3 DEF resource_here
<1>8. job'.pc = "record" /\ resource_here.want = "deleted" => account'[here].owner # "central"
  BY <1>5
<1>9. job.pc \in Deciding
  BY <1>1 DEF Deciding
<1> QED
  BY <1>1, <1>5, <1>6, <1>7, <1>8, <1>9 DEF Owned, in, named, Deciding, Calls, here, resource_here

\* The four calls keep ownership: an account is created under the row that was written before it.
LEMMA CallsOwned ==
  ASSUME TypeInv, Owned, Create \/ Rotate \/ Delete \/ Switch
  PROVE  Owned'
<1>0. /\ job \in JobSet /\ Shape /\ account \in [Names -> AnyAccount] /\ job.seen \in [Names -> Seen]
  BY Parts
<1>1. job.pc \in {"create", "rotate", "delete", "switch"} /\ job.pc \in Calls
  BY DEF Create, Rotate, Delete, Switch, call, in, Calls
<1>2. here \in Names
  BY <1>0, <1>1, LoopFacts DEF Shape
<1>3. job.pc \in {"create", "rotate", "switch"} => resource_here.want # "deleted"
  BY <1>0 DEF Shape
<1>4. exists => account[here] \in Accounts
  BY <1>0, <1>2, ValueFacts DEF exists
<1>5. job.seen[here] \in Seen
  BY <1>0, <1>2
<1>6. CASE Create
  <2> DEFINE made == [owner |-> "central", cred |-> credential(resource_here), enabled |-> TRUE]
             then == [to("switch") EXCEPT !.seen[here].enabled = TRUE]
  <2>1. /\ then.pc = "switch" /\ then.at = job.at /\ then.doc = job.doc /\ then.known = job.known
        /\ \A n \in Names : then.seen[n].owner = job.seen[n].owner
    BY <1>0, <1>2, <1>5 DEF to, JobSet, Seen
  <2>2. call("create", ~exists, made, then) /\ job.pc = "create" /\ rows[here].state = "failed"
    BY <1>6 DEF Create, call, in, Owned
  <2> HIDE DEF made, then
  <2> QED
    BY <1>1, <1>3, <2>1, <2>2, CallOwned
<1>7. CASE Rotate
  <2> DEFINE rotated == [account[here] EXCEPT !.cred = credential(resource_here)]
             then == to("switch")
  <2>1. exists => rotated.owner = account[here].owner
    BY <1>4 DEF Accounts
  <2>2. /\ then.pc = "switch" /\ then.at = job.at /\ then.doc = job.doc /\ then.known = job.known
        /\ \A n \in Names : then.seen[n].owner = job.seen[n].owner
    BY <1>0 DEF to, JobSet
  <2>3. call("rotate", exists, rotated, then) /\ job.pc = "rotate"
    BY <1>7 DEF Rotate, call, in
  <2> HIDE DEF rotated, then
  <2> QED
    BY <1>1, <1>3, <2>1, <2>2, <2>3, CallOwned
<1>8. CASE Delete
  <2> DEFINE then == to("record")
  <2>1. /\ then.pc = "record" /\ then.at = job.at /\ then.doc = job.doc /\ then.known = job.known
        /\ \A n \in Names : then.seen[n].owner = job.seen[n].owner
    BY <1>0 DEF to, JobSet
  <2>2. call("delete", exists, NoAccount, then) /\ job.pc = "delete"
    BY <1>8 DEF Delete, call, in
  <2>3. NoAccount.owner # "central"
    BY DEF NoAccount
  <2> HIDE DEF then
  <2> QED
    BY <1>1, <2>1, <2>2, <2>3, CallOwned
<1>9. CASE Switch
  <2> DEFINE switched == [account[here] EXCEPT !.enabled = wanted(resource_here)]
             then == [to("record") EXCEPT !.seen[here].enabled = wanted(resource_here)]
  <2>1. exists => switched.owner = account[here].owner
    BY <1>4 DEF Accounts
  <2>2. /\ then.pc = "record" /\ then.at = job.at /\ then.doc = job.doc /\ then.known = job.known
        /\ \A n \in Names : then.seen[n].owner = job.seen[n].owner
    BY <1>0, <1>2, <1>5 DEF to, JobSet, Seen
  <2>3. call("switch", exists, switched, then) /\ job.pc = "switch"
    BY <1>9 DEF Switch, call, in
  <2> HIDE DEF switched, then
  <2> QED
    BY <1>1, <1>3, <2>1, <2>2, <2>3, CallOwned
<1> QED
  BY <1>6, <1>7, <1>8, <1>9

\* The end of an apply keeps ownership: an orphan's row goes only after its account.
LEMMA TailOwned ==
  ASSUME TypeInv, Owned,
         Readback \/ ReadbackFails \/ OrphanDelete \/ OrphanForget \/ Lanes \/ Relay \/ Egress \/ Finish
  PROVE  Owned'
<1>0. job \in JobSet /\ Shape /\ rows \in [Names -> AnyRow] /\ account \in [Names -> AnyAccount]
  BY Parts
<1>a. \A n \in Names : failed_row(n).state = "failed"
  BY DEF failed_row
<1>b. ASSUME job'.pc \in {"relay", "egress", "finish", "idle"}, UNCHANGED account,
             \A n \in Names : rows'[n] = rows[n] \/ rows'[n].state = "failed"
      PROVE  Owned'
  <2>1. OwnedHasRow'
    BY <1>b DEF Owned, OwnedHasRow, is_managed
  <2> QED
    BY <1>b, <2>1 DEF Owned, in, Deciding, Calls
<1>c. ASSUME NEW pc \in {"relay", "egress", "finish"}, goto(pc) \/ section_fails(pc) PROVE job'.pc = pc
  BY <1>0, <1>c DEF goto, section_fails, JobSet
<1>1. ASSUME NEW refuted, readback(refuted) PROVE Owned'
  <2>1. /\ job'.pc = "orphan" /\ job.pc = "resource" /\ job'.doc = job.doc /\ job'.known = job.known
        /\ job'.seen = job.seen /\ UNCHANGED account
    BY <1>0, <1>1 DEF readback, to_orphans, JobSet, in
  <2>2. OwnedHasRow'
    BY <1>1, <1>a, <2>1 DEF readback, Owned, OwnedHasRow, is_managed
  <2> QED
    BY <2>1, <2>2 DEF Owned, in, named, Deciding, Calls
<1>2. CASE Readback \/ ReadbackFails
  BY <1>1, <1>2 DEF Readback, ReadbackFails
<1>3. CASE OrphanDelete
  <2>1. here \in Names /\ job.pc = "orphan"
    BY <1>3 DEF OrphanDelete, at_orphan, in
  <2>2. \A n \in Names : account'[n] = account[n] \/ account'[n] = NoAccount
    BY <1>0, <1>3, <2>1 DEF OrphanDelete
  <2>3. /\ job'.pc \in {"forget", "orphan"} /\ job'.doc = job.doc /\ job'.known = job.known
        /\ job'.seen = job.seen
        /\ job'.pc = "forget" => job'.at = here /\ account'[here] = NoAccount
    <3>1. CASE goto("forget") /\ account' = [account EXCEPT ![here] = NoAccount]
      BY <1>0, <2>1, <3>1 DEF goto, JobSet, here
    <3>2. CASE job' = [job EXCEPT !.at = after(here, Orphans), !.failed = TRUE]
      BY <1>0, <2>1, <3>2 DEF JobSet
    <3> QED
      BY <1>3, <3>1, <3>2 DEF OrphanDelete
  <2>4. NoAccount.owner # "central"
    BY DEF NoAccount
  <2>5. OwnedHasRow'
    BY <1>3, <2>2, <2>4 DEF OrphanDelete, Owned, OwnedHasRow, is_managed
  <2> QED
    BY <2>1, <2>2, <2>3, <2>4, <2>5 DEF Owned, in, named, Deciding, Calls, here
<1>4. CASE OrphanForget
  <2>1. here \in Orphans /\ here \in Names /\ job.pc \in {"forget", "orphan"}
    BY <1>0, <1>4, LoopFacts DEF OrphanForget, at_orphan, Shape, in
  <2>2. account[here].owner # "central"
    <3>1. CASE in("forget")
      BY <3>1 DEF Owned
    <3>2. CASE at_orphan /\ ~doomed
      BY <2>1, <3>2 DEF Owned, doomed, Orphans, orphan, named, Deciding
    <3> QED
      BY <1>4, <3>1, <3>2 DEF OrphanForget
  <2>3. /\ job'.pc = "orphan" /\ job'.doc = job.doc /\ job'.known = job.known
        /\ job'.seen = job.seen /\ UNCHANGED account /\ rows' = [rows EXCEPT ![here] = NoRow]
    BY <1>0, <1>4 DEF OrphanForget, JobSet
  <2>4. OwnedHasRow'
    BY <1>0, <2>1, <2>2, <2>3 DEF Owned, OwnedHasRow, is_managed
  <2> QED
    BY <2>1, <2>3, <2>4 DEF Owned, in, named, Deciding, Calls
<1>5. CASE Lanes
  <2>1. job'.pc = "relay" /\ UNCHANGED account
    BY <1>5, <1>c DEF Lanes
  <2>2. \A n \in Names : rows'[n] = rows[n] \/ rows'[n].state = "failed"
    <3>1. CASE UNCHANGED rows
      BY <3>1
    <3>2. ASSUME NEW laned,
                 rows' = [n \in Names |->
                   IF n \in laned THEN [ref |-> job.doc[n].ref, cred |-> credential(job.doc[n]), state |-> "failed"] ELSE rows[n]]
          PROVE  \A n \in Names : rows'[n] = rows[n] \/ rows'[n].state = "failed"
      BY <3>2
    <3> QED
      BY <1>5, <3>1, <3>2 DEF Lanes
  <2> QED
    BY <1>b, <2>1, <2>2
<1>6. CASE Relay
  BY <1>6, <1>b, <1>c DEF Relay
<1>7. CASE Egress
  BY <1>7, <1>b, <1>c DEF Egress
<1>8. CASE Finish
  BY <1>8, <1>b, IdleType DEF Finish
<1> QED
  BY <1>2, <1>3, <1>4, <1>5, <1>6, <1>7, <1>8

\* The other actors keep ownership: a stale row is a missing one, a local writer makes nothing the
\* central's, and an unlink takes the accounts along with the rows.
LEMMA OthersOwned ==
  ASSUME TypeInv, Owned,
         \/ \E n \in Names, resource \in Resources : Accept(n, resource)
         \/ start \/ (\E n \in Names, what \in {"create", "delete"} : LocalCheck(n, what)) \/ LocalCreate \/ LocalDelete
         \/ Unlink \/ Elapse \/ Restart
  PROVE  Owned'
<1>0. job \in JobSet /\ rows \in [Names -> AnyRow] /\ account \in [Names -> AnyAccount]
  BY Parts
<1>a. ASSUME UNCHANGED <<rows, job>>, \A n \in Names : account'[n].owner = "central" => account[n].owner = "central"
      PROVE  Owned'
  <2>1. OwnedHasRow'
    BY <1>a DEF Owned, OwnedHasRow, is_managed
  <2>2. in("record") \/ in("forget") => here \in Names
    BY <1>0, LoopFacts, Parts DEF Shape, in, Calls
  <2> QED
    BY <1>a, <2>1, <2>2 DEF Owned, in, named, Deciding, Calls, here, resource_here
<1>1. CASE \E n \in Names, resource \in Resources : Accept(n, resource)
  BY <1>1, <1>a DEF Accept
<1>2. CASE start
  <2> DEFINE store == [n \in Names |-> IF n \in stale THEN NoRow ELSE rows[n]]
  <2>1. /\ rows' = store /\ UNCHANGED account
        /\ job' = [Idle EXCEPT !.pc = "discover", !.generation = latest.generation, !.doc = latest.doc, !.known = store]
    BY <1>2 DEF start
  <2>2. \A n \in Names : store[n] = rows[n] \/ rows[n].state = "missing"
    BY DEF stale
  <2> HIDE DEF store
  <2>3. job'.pc = "discover" /\ job'.known = store
    BY <2>1, IdleType DEF JobSet
  <2>4. OwnedHasRow'
    BY <2>1, <2>2 DEF Owned, OwnedHasRow, is_managed
  <2>5. \A n \in Names : store[n].state = "missing" => account[n].owner # "central"
    BY <2>2 DEF Owned, OwnedHasRow, is_managed
  <2> QED
    BY <2>1, <2>3, <2>4, <2>5 DEF Owned, in, named, Deciding, Calls
<1>3. CASE \E n \in Names, what \in {"create", "delete"} : LocalCheck(n, what)
  BY <1>3, <1>a DEF LocalCheck
<1>4. CASE LocalCreate \/ LocalDelete
  <2>1. \A n \in Names : account'[n].owner = "central" => account[n].owner = "central"
    BY <1>0, <1>4 DEF LocalCreate, LocalDelete, NoAccount
  <2> QED
    BY <1>4, <1>a, <2>1 DEF LocalCreate, LocalDelete
<1>5. CASE Unlink
  <2>1. \A n \in Names : account'[n].owner # "central"
    BY <1>0, <1>5, ValueFacts DEF Unlink, NoAccount, Accounts
  <2>2. OwnedHasRow'
    BY <2>1 DEF OwnedHasRow
  <2>3. job'.pc = "idle"
    BY <1>5 DEF Unlink
  <2> QED
    BY <2>2, <2>3 DEF Owned, in, Deciding, Calls
<1>6. CASE Elapse
  BY <1>6, <1>a DEF Elapse
<1>7. CASE Restart
  <2>1. job'.pc = "idle" /\ UNCHANGED <<rows, account>>
    BY <1>7, IdleType DEF Restart
  <2>2. OwnedHasRow'
    BY <2>1 DEF Owned, OwnedHasRow, is_managed
  <2> QED
    BY <2>1, <2>2 DEF Owned, in, Deciding, Calls
<1> QED
  BY <1>1, <1>2, <1>3, <1>4, <1>5, <1>6, <1>7

\* Every step keeps ownership.
LEMMA OwnedStep == TypeInv /\ Owned /\ [Next]_vars => Owned'
<1> SUFFICES ASSUME TypeInv, Owned, [Next]_vars PROVE Owned'
  OBVIOUS
<1>1. CASE UNCHANGED vars
  <2>1. UNCHANGED <<rows, account, job>>
    BY <1>1 DEF vars
  <2>2. OwnedHasRow'
    BY <2>1 DEF Owned, OwnedHasRow, is_managed
  <2> QED
    BY <2>1, <2>2 DEF Owned, in, named, here, resource_here
<1>2. CASE Next
  BY <1>2, NextGroups, ResourceOwned, CallsOwned, TailOwned, OthersOwned, Zenon
<1> QED
  BY <1>1, <1>2

\* An account that the central put on the node always has a row that owns it, for any number of names,
\* through failures, lost replies, restarts and unlinks, and with the panel's own writers free to act in
\* the middle of an apply.
THEOREM CentralIsRecorded == Spec => []OwnedHasRow
<1>1. Owned => OwnedHasRow
  BY DEF Owned
<1> QED
  BY <1>1, TypeInit, OwnedInit, TypeStep, OwnedStep, PTL DEF Spec

---------------------------------------------------------------------------
(* The panel's own writers *)

\* What a local writer has in hand: a name that nothing owned when it asked. If a row owns it by now, an apply recorded
\* the name since.
Unguarded == local # NoWriter => local.name \in Names /\ (is_managed(local.name) => overtaken)

\* A step that owns no more than it did, or says that it overtook the writer.
LEMMA UnguardedKept ==
  ASSUME Unguarded, local' = local, overtaken => overtaken',
         local # NoWriter /\ local.name \in Names => (is_managed(local.name)' => is_managed(local.name) \/ overtaken')
  PROVE  Unguarded'
BY Zenon DEF Unguarded, is_managed

\* A step that records names.
LEMMA RecordGuards ==
  ASSUME Unguarded, NEW names, record(names), local' = local, \A n \in Names \ names : rows'[n] = rows[n]
  PROVE  Unguarded'
<1>1. overtaken => overtaken'
  BY Zenon DEF record
<1>2. ASSUME local # NoWriter, local.name \in Names, is_managed(local.name)' PROVE is_managed(local.name) \/ overtaken'
  <2>1. CASE local.name \in names
    BY <1>2, <2>1, Zenon DEF record
  <2>2. CASE local.name \notin names
    <3>1. rows'[local.name] = rows[local.name]
      BY <1>2, <2>2
    <3> QED BY <1>2, <3>1 DEF is_managed
  <2> QED BY <2>1, <2>2
<1> QED BY <1>1, <1>2, UnguardedKept

\* A step that records no name.
LEMMA RestGuards ==
  ASSUME Unguarded, local' = local, overtaken' = overtaken,
         \A n \in Names : rows'[n].state \notin {"none", "missing"} => rows[n].state \notin {"none", "missing"}
  PROVE  Unguarded'
<1>1. ASSUME local # NoWriter, local.name \in Names, is_managed(local.name)' PROVE is_managed(local.name)
  BY <1>1 DEF is_managed
<1> QED BY <1>1, UnguardedKept

\* From its question to its write, no row owns a writer's name but one that an apply wrote in between.
LEMMA UnguardedStep ==
  ASSUME TypeInv, Unguarded, [Next]_vars
  PROVE  Unguarded'
<1>0. rows \in [Names -> AnyRow] /\ NoRow.state = "none"
  BY Parts DEF NoRow
<1>1. CASE Discover \/ Collision \/ Withdraw \/ Keep \/ Create \/ Rotate \/ Delete \/ Switch \/ Switched \/ DetailFails
           \/ OrphanDelete \/ Relay \/ Egress \/ Finish \/ Elapse \/ UNCHANGED vars
           \/ \E n \in Names, resource \in Resources : Accept(n, resource)
  <2>1. UNCHANGED <<rows, local, overtaken>>
    BY <1>1 DEF Discover, Collision, Withdraw, Keep, Create, Rotate, Delete, Switch, Switched, DetailFails, call,
       OrphanDelete, Relay, Egress, Finish, Elapse, Accept, vars, history
  <2> QED BY <2>1, RestGuards
<1>2. CASE DiscoverFails
  <2>1. \A n \in Names \ (Named \cup Orphans) : rows'[n] = rows[n]
    BY <1>2 DEF DiscoverFails
  <2> QED BY <1>2, <2>1, RecordGuards DEF DiscoverFails
<1>3. CASE Adopt
  <2>1. \A n \in Names \ {here} : rows'[n] = rows[n]
    BY <1>0, <1>3 DEF Adopt
  <2> QED BY <1>3, <2>1, RecordGuards DEF Adopt
<1>4. CASE Placeholder \/ Record \/ Fail
  <2>1. \A n \in Names \ {here} : rows'[n] = rows[n]
    BY <1>0, <1>4 DEF Placeholder, Record, Fail
  <2>2. record({here}) /\ local' = local
    BY <1>4 DEF Placeholder, Record, Fail
  <2> QED BY <2>1, <2>2, RecordGuards
<1>5. ASSUME NEW refuted, readback(refuted) PROVE Unguarded'
  <2>1. \A n \in Names \ refuted : rows'[n] = rows[n]
    BY <1>5 DEF readback
  <2> QED BY <1>5, <2>1, RecordGuards DEF readback
<1>6. CASE Readback \/ ReadbackFails
  BY <1>5, <1>6 DEF Readback, ReadbackFails
<1>7. CASE OrphanForget
  <2>1. \A n \in Names : rows'[n] \in {rows[n], NoRow}
    BY <1>0, <1>7 DEF OrphanForget
  <2> QED BY <1>0, <1>7, <2>1, RestGuards DEF OrphanForget, history
<1>8. CASE Lanes
  <2>1. \A n \in Names : rows'[n] = rows[n] \/ rows[n].state = "enabled"
    BY <1>8 DEF Lanes
  <2> QED BY <1>8, <2>1, RestGuards DEF Lanes, history
<1>9. CASE start
  <2>1. \A n \in Names : rows'[n] \in {rows[n], NoRow}
    BY <1>9 DEF start
  <2> QED BY <1>0, <1>9, <2>1, RestGuards DEF start, history
<1>10. CASE Unlink
  <2>1. \A n \in Names : rows'[n] = NoRow
    BY <1>10 DEF Unlink
  <2> QED BY <1>0, <1>10, <2>1, RestGuards DEF Unlink, history
<1>11. ASSUME NEW n \in Names, NEW what \in {"create", "delete"}, LocalCheck(n, what) PROVE Unguarded'
  <2>1. local'.name = n /\ rows' = rows /\ ~is_managed(n)
    BY <1>11 DEF LocalCheck
  <2> QED BY <2>1 DEF Unguarded, is_managed
<1>12. CASE LocalCreate \/ LocalDelete \/ Restart
  BY <1>12 DEF LocalCreate, LocalDelete, Restart, Unguarded
<1>13. CASE Next
  BY <1>1, <1>2, <1>3, <1>4, <1>6, <1>7, <1>8, <1>9, <1>10, <1>11, <1>12, <1>13, NextGroups, Zenon
<1> QED BY <1>1, <1>13

\* A writer's write: about one name, makes nothing the central's, and crosses an apply that owns or works on the name.
LEMMA WriteDoes ==
  ASSUME TypeInv, Unguarded, LocalCreate \/ LocalDelete
  PROVE  /\ local # NoWriter /\ local.name \in Names /\ local' = NoWriter /\ UNCHANGED <<rows, job, latest, elapsed>>
         /\ \A n \in Names \ {local.name} : account'[n] = account[n]
         /\ \A n \in Names : account'[n].owner = "central" => account'[n] = account[n]
         /\ crossed' \in {crossed, crossed \cup {local.name}}
         /\ local.name \notin crossed' =>
              /\ ~is_managed(local.name) /\ ~overtaken
              /\ job.pc \in {"idle", "discover"} \/ (~named(local.name) /\ ~orphan(local.name))
<1>0. account \in [Names -> AnyAccount]
  BY Parts
<1>1. local # NoWriter /\ local' = NoWriter /\ UNCHANGED <<rows, job, latest, elapsed>> /\ cross(local.name)
  BY DEF LocalCreate, LocalDelete, NoWriter
<1>2. local.name \in Names /\ (is_managed(local.name) => overtaken)
  BY <1>1, Zenon DEF Unguarded
<1>3. \A n \in Names \ {local.name} : account'[n] = account[n]
  BY <1>0, <1>2 DEF LocalCreate, LocalDelete
<1>4. account'[local.name].owner = "central" => account'[local.name] = account[local.name]
  <2>1. CASE LocalDelete
    BY <1>0, <1>2, <2>1 DEF LocalDelete, NoAccount
  <2>2. CASE LocalCreate
    <3> DEFINE new == [owner |-> "local", cred |-> Null, enabled |-> TRUE]
    <3>1. new.owner # "central" /\ account' = [account EXCEPT ![local.name] = IF @ = NoAccount THEN new ELSE @]
      BY <2>2 DEF LocalCreate
    <3> HIDE DEF new
    <3> QED BY <1>0, <1>2, <3>1
  <2> QED BY <2>1, <2>2
<1>5. crossed' \in {crossed, crossed \cup {local.name}}
  BY <1>1, Zenon DEF cross
<1>6. ASSUME local.name \notin crossed'
      PROVE  ~overtaken /\ (job.pc \in {"idle", "discover"} \/ (~named(local.name) /\ ~orphan(local.name)))
  <2>1. ~(overtaken \/ (job.pc \notin {"idle", "discover"} /\ (named(local.name) \/ orphan(local.name))))
    BY <1>1, <1>6 DEF cross
  <2> QED BY <2>1, Zenon
<1>7. ASSUME local.name \notin crossed' PROVE ~is_managed(local.name)
  BY <1>2, <1>6, <1>7, Zenon
<1> QED BY <1>1, <1>2, <1>3, <1>4, <1>5, <1>6, <1>7

\* The panel's own writers never change an account that the central owns, but where an apply recorded the name between a
\* writer's question and its write: for any number of names, with applies, failures and restarts in between.
THEOREM OneWriterPerAccount == Spec => CentralIsOnlyWriter
<1> DEFINE P == local' # local /\ ~overtaken => \A n \in Names : account[n].owner = "central" => account'[n] = account[n]
<1>1. Init => Unguarded
  BY DEF Init, Unguarded
<1>2. ASSUME TypeInv, Owned, Unguarded, [Next]_vars, local' # local, ~overtaken
      PROVE  \A n \in Names : account[n].owner = "central" => account'[n] = account[n]
  <2>1. CASE LocalCreate \/ LocalDelete
    <3>1. local # NoWriter /\ local.name \in Names /\ \A n \in Names \ {local.name} : account'[n] = account[n]
      BY <1>2, <2>1, WriteDoes
    <3>2. ~is_managed(local.name)
      BY <1>2, <3>1, Zenon DEF Unguarded
    <3>3. account[local.name].owner # "central"
      BY <1>2, <3>1, <3>2 DEF Owned, OwnedHasRow
    <3> QED BY <3>1, <3>3
  <2>2. CASE Restart \/ \E n \in Names, what \in {"create", "delete"} : LocalCheck(n, what)
    BY <2>2 DEF Restart, LocalCheck
  <2>3. ASSUME JobStep \/ start \/ Unlink \/ Elapse \/ UNCHANGED vars
               \/ \E n \in Names, resource \in Resources : Accept(n, resource)
        PROVE  local' = local
    BY <2>3 DEF JobStep, Discover, DiscoverFails, Collision, Adopt, Withdraw, Placeholder, Keep, Create, Rotate, Delete,
       Switch, Switched, DetailFails, Record, Fail, Readback, ReadbackFails, OrphanDelete, OrphanForget, Lanes, Relay, Egress, Finish,
       call, readback, start, Unlink, Elapse, vars, Accept
  <2> QED BY <1>2, <2>1, <2>2, <2>3 DEF Next, Apply, RunPending
<1>3. TypeInv /\ Owned /\ Unguarded /\ [Next]_vars => P
  BY <1>2
<1>4. TypeInv /\ Unguarded /\ [Next]_vars => Unguarded'
  BY UnguardedStep
<1>5. CentralIsOnlyWriter <=> [][P]_vars
  BY DEF CentralIsOnlyWriter
<1> HIDE DEF P
<1> QED BY <1>1, <1>3, <1>4, <1>5, TypeInit, OwnedInit, TypeStep, OwnedStep, PTL DEF Spec

\* Every step but an unreadable inventory and a write leaves crossed as it is.
LEMMA Uncrossed ==
  ASSUME [Next]_vars
  PROVE  crossed' = crossed \/ DiscoverFails \/ LocalCreate \/ LocalDelete
<1>1. CASE JobStep
  BY <1>1 DEF JobStep, Discover, Collision, Adopt, Withdraw, Placeholder, Keep, Create, Rotate, Delete,
     Switch, Switched, DetailFails, Record, Fail, Readback, ReadbackFails, OrphanDelete, OrphanForget, Lanes, Relay, Egress, Finish,
     call, readback, history
<1>2. CASE start \/ Unlink \/ Elapse \/ Restart \/ UNCHANGED vars
           \/ (\E n \in Names, resource \in Resources : Accept(n, resource))
           \/ \E n \in Names, what \in {"create", "delete"} : LocalCheck(n, what)
  BY <1>2 DEF start, Unlink, Elapse, Restart, LocalCheck, Accept, vars, history
<1> QED BY <1>1, <1>2, Zenon DEF Next, Apply, RunPending

\* The history has its type.
LEMMA HistoryStep ==
  ASSUME TypeInv, Unguarded, HistoryOK, [Next]_vars
  PROVE  HistoryOK'
<1>1. crossed' \subseteq Names
  <2>1. CASE DiscoverFails
    BY <2>1 DEF DiscoverFails, HistoryOK, Named, Orphans
  <2>2. CASE LocalCreate \/ LocalDelete
    BY <2>2, WriteDoes DEF HistoryOK
  <2> QED BY <2>1, <2>2, Uncrossed DEF HistoryOK
<1>2. ASSUME NEW names, record(names) PROVE overtaken' \in BOOLEAN
  BY <1>2, Zenon DEF record
<1>3. overtaken' \in BOOLEAN
  <2>0. overtaken \in BOOLEAN
    BY Zenon DEF HistoryOK
  <2>1. CASE DiscoverFails \/ Adopt \/ Placeholder \/ Record \/ Fail \/ Readback \/ ReadbackFails
    BY <1>2, <2>1, Zenon DEF DiscoverFails, Adopt, Placeholder, Record, Fail, Readback, ReadbackFails, readback
  <2>2. CASE \E n \in Names, what \in {"create", "delete"} : LocalCheck(n, what)
    BY <2>2, Zenon DEF LocalCheck
  <2>3. ASSUME \/ Discover \/ Collision \/ Withdraw \/ Keep \/ Create \/ Rotate \/ Delete \/ Switch \/ Switched \/ DetailFails
               \/ OrphanDelete \/ OrphanForget \/ Lanes \/ Relay \/ Egress \/ Finish \/ Elapse \/ UNCHANGED vars \/ start \/ Unlink
               \/ LocalCreate \/ LocalDelete \/ Restart
               \/ \E n \in Names, resource \in Resources : Accept(n, resource)
        PROVE  overtaken' = overtaken
    BY <2>3 DEF Discover, Collision, Withdraw, Keep, Create, Rotate, Delete, Switch, Switched, DetailFails, call, OrphanForget, Lanes,
       OrphanDelete, Relay, Egress, Finish, Elapse, Accept, vars, history, start, Unlink, LocalCreate, LocalDelete, Restart, cross
  <2>4. CASE overtaken' = overtaken
    BY <2>0, <2>4, Zenon
  <2> QED BY <2>1, <2>2, <2>3, <2>4, NextGroups, Zenon
<1> QED BY <1>1, <1>3, Zenon DEF HistoryOK

\* Every variable of the node side keeps its type and no budget is overdrawn, for any number of names
\* and whatever fails, restarts or is written by the panel in between.
THEOREM NodeTypeCorrect == Spec => []TypeOK
<1>1. TypeInv /\ HistoryOK => TypeOK
  BY DEF TypeInv, Typed, HistoryOK, TypeOK, JobSet, AnyRow, AnyAccount, Seen, SpentOK, LatestSet, WriterSet
<1>2. Init => HistoryOK /\ Unguarded
  BY Zenon DEF Init, HistoryOK, Unguarded
<1>3. TypeInv /\ Unguarded /\ HistoryOK /\ [Next]_vars => HistoryOK' /\ Unguarded'
  BY HistoryStep, UnguardedStep
<1> QED
  BY <1>1, <1>2, <1>3, TypeInit, TypeStep, PTL DEF Spec


---------------------------------------------------------------------------
(* Whose an account is *)

\* The names that no writer wrote behind an apply's back and that no apply recorded unread over a local account.
Clear == Names \ crossed

\* A row that owns its name never covers an account that the panel or a person made: not in the store, and not in
\* what an apply has read or is about to change.
Foreign ==
  /\ (in("idle") => job = Idle) /\ (in("discover") => job.applied = {})
  /\ \A n \in Clear : account[n].owner = "local" => ~is_managed(n)
  /\ job.pc \in Deciding => \A n \in Named \ crossed : job.seen[n].owner = "none" => account[n].owner # "local"
  /\ job.pc # "idle" => \A n \in Clear : job.known[n].state \notin {"none", "missing"} => account[n].owner # "local"
  /\ job.pc \in Calls /\ here \notin crossed => account[here].owner # "local"
  /\ \A n \in job.applied \ crossed :
       account[n].owner # "local" /\ (job.doc[n].want = "deleted" => account[n].owner # "central")

---------------------------------------------------------------------------
(* What a converged generation is *)

\* The credential is one that was named before this resource's, or is this resource's.
older(cred, resource) == cred[2] < resource.version \/ cred = credential(resource)

\* The credentials of a name are named in their order: the store, an apply and the latest generation agree on it.
Numbered ==
  \A n \in Names :
    /\ older(rows[n].cred, latest.doc[n])
    /\ job.pc # "idle" =>
         /\ older(rows[n].cred, job.doc[n]) /\ older(job.known[n].cred, job.doc[n])
         /\ older(credential(job.doc[n]), latest.doc[n])

\* A managed account of a manager that takes credentials has the credential its row names, unless a later one was
\* named since: then the next apply rotates it.
Credited ==
  AcceptsCaller => \A n \in Clear :
    (is_managed(n) /\ rows[n].cred # Null /\ account[n] # NoAccount /\ account[n].cred # rows[n].cred) =>
      /\ rows[n].cred[2] < latest.doc[n].version
      /\ job.pc # "idle" => rows[n].cred[2] < job.doc[n].version

\* The names that an apply has passed, and the ones it has before it.
Ending == {"orphan", "forget", "lanes", "relay", "egress", "finish"}
Passed(n) == job.pc \in Ending \/ (job.pc \in Calls \cup {"resource"} /\ n < here)
Ahead(n) == (in("resource") /\ n >= here) \/ (job.pc \in Calls /\ n > here)

\* What the inventory and the rows said of a name is so until the apply is there.
Unread ==
  \A n \in Named \ crossed : Ahead(n) =>
    /\ rows[n] = job.known[n]
    /\ job.seen[n].owner # "none" <=> account[n] # NoAccount
    /\ account[n].enabled = job.seen[n].enabled

\* The account is what the resource asks for.
Fits(held, resource) ==
  IF resource.want \in {"none", "deleted"} THEN held.owner # "central"
  ELSE /\ held.owner = "central" /\ held.cred = credential(resource)
       /\ held.enabled => resource.want = "enabled"
       /\ resource.ref \notin Windowed => held.enabled = (resource.want = "enabled")
Applied(n, resource) == Fits(account[n], resource)

\* The resource that the apply is at, and the rows of the ones that it has applied.
Working ==
  /\ here \notin crossed =>
       /\ job.pc \in Calls \ {"record"} => is_managed(here)
       /\ job.pc \in {"rotate", "switch"} => account[here].enabled = job.seen[here].enabled
       /\ in("switch") => account[here].owner = "central" /\ account[here].cred = credential(resource_here)
       /\ in("record") => Applied(here, resource_here)
  /\ in("delete") => resource_here.want = "deleted"
  /\ \A n \in job.applied : job.doc[n].want # "deleted" => is_managed(n)

\* What an apply has done: every name that it passed without a failure is as the document says, and every name that
\* left the document is without an account of the central's.
Behind ==
  \A n \in Clear : Passed(n) =>
    /\ named(n) /\ rows[n].state \in {"enabled", "disabled"} => rows[n].cred = credential(job.doc[n])
    /\ named(n) /\ ~job.failed => Applied(n, job.doc[n])
Withdrawn ==
  /\ job.pc # "idle" => \A n \in Names : ~named(n) /\ job.known[n].state = "none" => account[n].owner # "central"
  /\ job.pc \in Ending /\ ~job.failed =>
       \A n \in Orphans : n < here \/ job.pc \notin {"orphan", "forget"} => account[n].owner # "central"

\* The generation that is applied is the latest one or an older one, and only an apply's end makes one converged.
Current ==
  /\ job.pc # "idle" =>
       /\ latest.state # "converged" /\ job.generation <= latest.generation
       /\ job.generation = latest.generation => job.doc = latest.doc
  /\ latest.state = "converged" => \A n \in Clear : Applied(n, latest.doc[n])

---------------------------------------------------------------------------
(* What the steps of an apply do *)

\* The rest of the apply stays as it is.
JobKeeps == job'.doc = job.doc /\ job'.generation = job.generation
Elsewhere == \A n \in Names \ {here} : rows'[n] = rows[n] /\ account'[n] = account[n]

\* The names between a number and the next one of a loop are not the loop's.
LEMMA AfterSkips ==
  ASSUME NEW n \in Nat, NEW chosen \in SUBSET Names, NEW m \in chosen
  PROVE  m > n => m >= after(n, chosen)
<1> DEFINE left == {k \in chosen : k > n}
<1>1. CASE left = {}
  BY <1>1
<1>2. CASE left # {}
  <2>1. left \in SUBSET Nat
    BY NamesAreNumbers
  <2>2. \E j \in left : \A k \in left : j <= k
    BY <1>2, <2>1, LeastNumber
  <2>3. after(n, chosen) \in left /\ \A k \in left : after(n, chosen) <= k
    BY <1>2, <2>2 DEF after
  <2>4. m \in Nat /\ after(n, chosen) \in Nat
    BY <2>1, <2>3, NamesAreNumbers
  <2> QED BY <2>3, <2>4
<1> QED BY <1>1, <1>2

\* The inventory.
LEMMA DiscoverDoes ==
  ASSUME TypeInv, Discover
  PROVE  /\ job.pc = "discover" /\ job'.pc = "resource" /\ job'.seen = account /\ job'.at = after(0, Named)
         /\ job'.known = job.known /\ job'.applied = job.applied /\ job'.failed = job.failed /\ JobKeeps
         /\ UNCHANGED <<latest, rows, account, local, elapsed, crossed>>
BY Parts DEF history, Discover, JobSet, in, JobKeeps

\* Somebody else's account.
LEMMA CollisionDoes ==
  ASSUME TypeInv, Collision
  PROVE  /\ job.pc = "resource" /\ here \in Named /\ here \in Names /\ job'.pc = "resource" /\ job'.at = after(here, Named) /\ ~stored
         /\ job'.seen = job.seen /\ job'.known = job.known /\ job'.applied = job.applied /\ job'.failed = TRUE /\ JobKeeps
         /\ UNCHANGED <<latest, rows, account, local, elapsed, crossed>>
BY Parts DEF history, Collision, at_resource, JobSet, in, JobKeeps, Shape

\* The adoption.
LEMMA AdoptDoes ==
  ASSUME TypeInv, Adopt
  PROVE  /\ job.pc = "resource" /\ here \in Named /\ here \in Names /\ job'.pc = "resource" /\ job'.at = here
         /\ resource_here.want \notin {"none", "deleted"} /\ resource_here.ref \in Imported /\ item
         /\ job'.seen = job.seen /\ job'.applied = job.applied /\ job'.failed = job.failed /\ JobKeeps
         /\ job'.known[here] = rows'[here] /\ rows'[here].cred = credential(resource_here) /\ rows'[here].state \in {"enabled", "disabled"}
         /\ account'[here] = IF account[here] = NoAccount THEN NoAccount
                             ELSE [account[here] EXCEPT !.owner = "central", !.cred = credential(resource_here)]
         /\ Elsewhere /\ (\A n \in Names \ {here} : job'.known[n] = job.known[n])
         /\ UNCHANGED <<latest, local, elapsed, crossed>>
<1> DEFINE new == [ref |-> resource_here.ref, cred |-> credential(resource_here), state |-> state_of(job.seen[here].enabled)]
<1>0. /\ job \in JobSet /\ Shape /\ rows \in [Names -> AnyRow] /\ account \in [Names -> AnyAccount]
      /\ job.known \in [Names -> AnyRow]
  BY Parts
<1>1. here \in Named /\ here \in Names /\ job.pc = "resource" /\ resource_here.want \notin {"none", "deleted"} /\ resource_here.ref \in Imported /\ item
  BY <1>0 DEF Adopt, at_resource, Shape, in, Named, named, resource_here
<1>2. new.cred = credential(resource_here) /\ new.state \in {"enabled", "disabled"}
  BY DEF state_of
<1>3. /\ rows' = [rows EXCEPT ![here] = new] /\ job' = [job EXCEPT !.known[here] = new] /\ UNCHANGED <<latest, local, elapsed, crossed>>
      /\ account' = [account EXCEPT ![here] =
           IF @ = NoAccount THEN @ ELSE [@ EXCEPT !.owner = "central", !.cred = credential(resource_here)]]
  BY DEF Adopt
<1> HIDE DEF new
<1>4. rows'[here] = new /\ Elsewhere
  BY <1>0, <1>1, <1>3 DEF Elsewhere
<1>5. /\ job'.pc = "resource" /\ job'.at = here /\ job'.seen = job.seen /\ job'.applied = job.applied /\ job'.failed = job.failed /\ JobKeeps
      /\ job'.known[here] = new /\ \A n \in Names \ {here} : job'.known[n] = job.known[n]
  BY <1>0, <1>1, <1>3 DEF JobSet, JobKeeps, here
<1>6. account'[here] = IF account[here] = NoAccount THEN NoAccount
                       ELSE [account[here] EXCEPT !.owner = "central", !.cred = credential(resource_here)]
  BY <1>0, <1>1, <1>3
<1> QED BY <1>1, <1>2, <1>3, <1>4, <1>5, <1>6

\* A step that only moves the apply.
LEMMA MoveDoes ==
  ASSUME TypeInv, NEW pc \in Pcs, goto(pc)
  PROVE  /\ job'.pc = pc /\ job'.at = here /\ job'.seen = job.seen /\ job'.known = job.known /\ job'.applied = job.applied
         /\ job'.failed = job.failed /\ JobKeeps
BY Parts DEF goto, JobSet, JobKeeps, here

\* The start of a deletion.
LEMMA WithdrawDoes ==
  ASSUME TypeInv, Withdraw
  PROVE  /\ job.pc = "resource" /\ here \in Named /\ here \in Names /\ resource_here.want = "deleted"
         /\ (job'.pc = "delete" /\ stored) \/ (job'.pc = "record" /\ ~item)
         /\ job'.at = here /\ job'.seen = job.seen /\ job'.known = job.known /\ job'.applied = job.applied
         /\ job'.failed = job.failed /\ JobKeeps /\ UNCHANGED <<latest, rows, account, local, elapsed, crossed>>
<1>1. job.pc = "resource" /\ here \in Named /\ here \in Names /\ resource_here.want = "deleted" /\ UNCHANGED <<latest, rows, account, local, elapsed, crossed>>
  BY Parts DEF history, Withdraw, at_resource, Shape, in
<1>2. CASE item
  <2>1. goto("delete") /\ stored
    BY <1>2 DEF Withdraw
  <2> QED BY <1>1, <2>1, MoveDoes DEF Pcs
<1>3. CASE ~item
  <2>1. goto("record")
    BY <1>3 DEF Withdraw
  <2> QED BY <1>1, <1>3, <2>1, MoveDoes DEF Pcs
<1> QED BY <1>2, <1>3

\* The row before the account.
LEMMA PlaceholderDoes ==
  ASSUME TypeInv, Placeholder
  PROVE  /\ job.pc = "resource" /\ here \in Named /\ here \in Names /\ resource_here.want \notin {"none", "deleted"} /\ ~item
         /\ job'.pc = "create" /\ job'.at = here /\ job'.seen = job.seen /\ job'.known = job.known /\ job'.applied = job.applied
         /\ job'.failed = job.failed /\ JobKeeps /\ UNCHANGED <<latest, account, local, elapsed, crossed>> /\ Elsewhere
         /\ rows'[here].state = "failed" /\ rows'[here].cred = rows[here].cred
<1>1. job.pc = "resource" /\ here \in Named /\ here \in Names /\ resource_here.want \notin {"none", "deleted"} /\ ~item
  BY Parts DEF Placeholder, at_resource, Shape, in, Named, named, resource_here
<1>2. UNCHANGED <<latest, account, local, elapsed, crossed>> /\ rows' = [rows EXCEPT ![here] = failed_row(here)] /\ goto("create")
  BY DEF Placeholder
<1>3. Elsewhere /\ rows'[here].state = "failed" /\ rows'[here].cred = rows[here].cred
  BY <1>1, <1>2, Parts DEF Elsewhere, failed_row
<1> QED BY <1>1, <1>2, <1>3, MoveDoes DEF Pcs

\* The account that the central owns already.
LEMMA KeepDoes ==
  ASSUME TypeInv, Keep
  PROVE  /\ job.pc = "resource" /\ here \in Named /\ here \in Names /\ resource_here.want \notin {"none", "deleted"} /\ item /\ stored
         /\ job'.pc = IF rotates THEN "rotate" ELSE "switch"
         /\ job'.at = here /\ job'.seen = job.seen /\ job'.known = job.known /\ job'.applied = job.applied
         /\ job'.failed = job.failed /\ JobKeeps /\ UNCHANGED <<latest, rows, local, elapsed, crossed>> /\ Elsewhere
         /\ \/ account'[here] = account[here] /\ (rotates \/ AcceptsCaller \/ account[here] = NoAccount)
            \/ ~rotates /\ ~AcceptsCaller /\ account[here] # NoAccount /\ account'[here] = [account[here] EXCEPT !.cred = credential(resource_here)]
<1>1. job.pc = "resource" /\ here \in Named /\ here \in Names /\ resource_here.want \notin {"none", "deleted"} /\ item /\ stored
  BY Parts DEF history, Keep, at_resource, Shape, in, Named, named, resource_here
<1>2. /\ UNCHANGED <<latest, rows, local, elapsed, crossed>> /\ goto(IF rotates THEN "rotate" ELSE "switch")
      /\ account' = [account EXCEPT ![here].cred = IF rotates \/ AcceptsCaller \/ account[here] = NoAccount THEN @ ELSE credential(resource_here)]
  BY DEF Keep, history
<1>3. Elsewhere
  BY <1>1, <1>2, Parts DEF Elsewhere
<1>4. account[here] \in AnyAccount /\ account \in [Names -> AnyAccount]
  BY <1>1, Parts
<1>5. \/ account'[here] = account[here] /\ (rotates \/ AcceptsCaller \/ account[here] = NoAccount)
      \/ ~rotates /\ ~AcceptsCaller /\ account[here] # NoAccount /\ account'[here] = [account[here] EXCEPT !.cred = credential(resource_here)]
  BY <1>1, <1>2, <1>4 DEF AnyAccount, Accounts, NoAccount
<1>6. (IF rotates THEN "rotate" ELSE "switch") \in Pcs
  BY DEF Pcs
<1> QED BY <1>1, <1>2, <1>3, <1>5, <1>6, MoveDoes

\* A manager's call is about the resource at hand.
Called ==
  /\ here \in Named /\ here \in Names /\ job.pc \in Calls /\ job'.at = here /\ job'.known = job.known /\ job'.applied = job.applied
  /\ job'.failed = job.failed /\ JobKeeps /\ UNCHANGED <<latest, rows, local, elapsed, crossed>> /\ Elsewhere
  /\ \A n \in Names : job'.seen[n].owner = job.seen[n].owner /\ (n # here => job'.seen[n] = job.seen[n])

\* A manager's call, whatever becomes of it.
LEMMA CallDoes ==
  ASSUME TypeInv, NEW pc \in Calls, NEW possible, NEW result, NEW then, call(pc, possible, result, then),
         then.at = job.at, then.doc = job.doc, then.known = job.known, then.applied = job.applied,
         then.failed = job.failed, then.generation = job.generation,
         \A n \in Names : then.seen[n].owner = job.seen[n].owner /\ (n # here => then.seen[n] = job.seen[n])
  PROVE  /\ Called /\ job.pc = pc
         /\ \/ possible /\ account'[here] = result /\ job'.pc = then.pc /\ job'.seen = then.seen
            \/ /\ job'.pc = "fail" /\ job'.seen = job.seen
               /\ account'[here] = account[here] \/ (possible /\ account'[here] = result)
<1>0. job \in JobSet /\ Shape /\ account \in [Names -> AnyAccount]
  BY Parts
<1>1. here \in Named /\ here \in Names /\ job.pc = pc
  BY <1>0, LoopFacts DEF Shape, call, in
<1>2. UNCHANGED <<latest, rows, local, elapsed, crossed>> /\ Elsewhere
  BY <1>0, <1>1 DEF call, Elsewhere, history
<1>3. \/ possible /\ account'[here] = result /\ job' = then
      \/ goto("fail") /\ (account'[here] = account[here] \/ (possible /\ account'[here] = result))
  BY <1>0, <1>1 DEF call
<1>4. CASE possible /\ account'[here] = result /\ job' = then
  BY <1>1, <1>2, <1>4 DEF Called, JobKeeps, here
<1>5. CASE goto("fail") /\ (account'[here] = account[here] \/ (possible /\ account'[here] = result))
  <2>1. /\ job'.pc = "fail" /\ job'.at = here /\ job'.seen = job.seen /\ job'.known = job.known /\ job'.applied = job.applied
        /\ job'.failed = job.failed /\ JobKeeps
    BY <1>5, MoveDoes DEF Pcs
  <2> QED BY <1>1, <1>2, <1>5, <2>1 DEF Called
<1> QED BY <1>3, <1>4, <1>5

\* The account that is made for a resource.
made == [owner |-> "central", cred |-> credential(resource_here), enabled |-> TRUE]

\* The creation.
LEMMA CreateDoes ==
  ASSUME TypeInv, Create
  PROVE  /\ Called /\ job.pc = "create" /\ resource_here.want \notin {"none", "deleted"}
         /\ \/ account[here] = NoAccount /\ account'[here] = made /\ job'.pc = "switch" /\ job'.seen[here].enabled = TRUE
            \/ job'.pc = "fail" /\ (account'[here] = account[here] \/ (account[here] = NoAccount /\ account'[here] = made))
<1> DEFINE then == [to("switch") EXCEPT !.seen[here].enabled = TRUE]
           free == ~exists
<1>0. job \in JobSet /\ Shape /\ job.seen \in [Names -> Seen]
  BY Parts
<1>1. call("create", free, made, then) /\ job.pc = "create"
  BY DEF Create, made, call, in
<1>2. here \in Named /\ here \in Names /\ resource_here.want \notin {"none", "deleted"}
  BY <1>0, <1>1, LoopFacts DEF Shape, Calls, Named, named, resource_here
<1>3. /\ then.at = job.at /\ then.doc = job.doc /\ then.known = job.known /\ then.applied = job.applied
      /\ then.failed = job.failed /\ then.generation = job.generation /\ then.pc = "switch" /\ then.seen[here].enabled = TRUE
      /\ \A n \in Names : then.seen[n].owner = job.seen[n].owner /\ (n # here => then.seen[n] = job.seen[n])
  BY <1>0, <1>2 DEF to, JobSet, Seen
<1> HIDE DEF then, free
<1>4. /\ Called /\ job.pc = "create"
      /\ \/ free /\ account'[here] = made /\ job'.pc = then.pc /\ job'.seen = then.seen
         \/ /\ job'.pc = "fail" /\ job'.seen = job.seen
            /\ account'[here] = account[here] \/ (free /\ account'[here] = made)
  BY <1>1, <1>3, CallDoes DEF Calls
<1> QED BY <1>2, <1>3, <1>4 DEF exists, free

\* The rotation.
LEMMA RotateDoes ==
  ASSUME TypeInv, Rotate
  PROVE  /\ Called /\ job.pc = "rotate" /\ resource_here.want \notin {"none", "deleted"} /\ job'.seen = job.seen
         /\ \/ /\ account[here] # NoAccount /\ account'[here] = [account[here] EXCEPT !.cred = credential(resource_here)]
               /\ job'.pc = "switch"
            \/ /\ job'.pc = "fail"
               /\ \/ account'[here] = account[here]
                  \/ account[here] # NoAccount /\ account'[here] = [account[here] EXCEPT !.cred = credential(resource_here)]
<1> DEFINE then == to("switch")
           result == [account[here] EXCEPT !.cred = credential(resource_here)]
<1>0. job \in JobSet /\ Shape
  BY Parts
<1>1. call("rotate", exists, result, then) /\ job.pc = "rotate"
  BY DEF Rotate, call, in
<1>2. here \in Named /\ here \in Names /\ resource_here.want \notin {"none", "deleted"}
  BY <1>0, <1>1, LoopFacts DEF Shape, Calls, Named, named, resource_here
<1>3. /\ then.at = job.at /\ then.doc = job.doc /\ then.known = job.known /\ then.applied = job.applied
      /\ then.failed = job.failed /\ then.generation = job.generation /\ then.pc = "switch" /\ then.seen = job.seen
  BY <1>0 DEF to, JobSet
<1> HIDE DEF then, result
<1>4. /\ Called /\ job.pc = "rotate"
      /\ \/ exists /\ account'[here] = result /\ job'.pc = then.pc /\ job'.seen = then.seen
         \/ /\ job'.pc = "fail" /\ job'.seen = job.seen
            /\ account'[here] = account[here] \/ (exists /\ account'[here] = result)
  BY <1>1, <1>3, CallDoes DEF Calls
<1> QED BY <1>2, <1>3, <1>4 DEF exists, result

\* The deletion.
LEMMA DeleteDoes ==
  ASSUME TypeInv, Delete
  PROVE  /\ Called /\ job.pc = "delete" /\ job'.seen = job.seen
         /\ \/ account'[here] = NoAccount /\ job'.pc = "record"
            \/ job'.pc = "fail" /\ (account'[here] = account[here] \/ account'[here] = NoAccount)
<1> DEFINE then == to("record")
<1>0. job \in JobSet
  BY Parts
<1>1. call("delete", exists, NoAccount, then) /\ job.pc = "delete"
  BY DEF Delete, call, in
<1>3. /\ then.at = job.at /\ then.doc = job.doc /\ then.known = job.known /\ then.applied = job.applied
      /\ then.failed = job.failed /\ then.generation = job.generation /\ then.pc = "record" /\ then.seen = job.seen
  BY <1>0 DEF to, JobSet
<1> HIDE DEF then
<1>4. /\ Called /\ job.pc = "delete"
      /\ \/ exists /\ account'[here] = NoAccount /\ job'.pc = then.pc /\ job'.seen = then.seen
         \/ /\ job'.pc = "fail" /\ job'.seen = job.seen
            /\ account'[here] = account[here] \/ (exists /\ account'[here] = NoAccount)
  BY <1>1, <1>3, CallDoes DEF Calls
<1> QED BY <1>3, <1>4

\* The switch.
LEMMA SwitchDoes ==
  ASSUME TypeInv, Switch
  PROVE  /\ Called /\ job.pc = "switch" /\ resource_here.want \notin {"none", "deleted"}
         /\ \/ /\ account[here] # NoAccount /\ account'[here] = [account[here] EXCEPT !.enabled = wanted(resource_here)]
               /\ job'.pc = "record" /\ job'.seen[here].enabled = wanted(resource_here)
            \/ /\ job'.pc = "fail"
               /\ \/ account'[here] = account[here]
                  \/ account[here] # NoAccount /\ account'[here] = [account[here] EXCEPT !.enabled = wanted(resource_here)]
<1> DEFINE then == [to("record") EXCEPT !.seen[here].enabled = wanted(resource_here)]
           result == [account[here] EXCEPT !.enabled = wanted(resource_here)]
<1>0. job \in JobSet /\ Shape /\ job.seen \in [Names -> Seen]
  BY Parts
<1>1. call("switch", exists, result, then) /\ job.pc = "switch"
  BY DEF Switch, call, in
<1>2. here \in Named /\ here \in Names /\ resource_here.want \notin {"none", "deleted"}
  BY <1>0, <1>1, LoopFacts DEF Shape, Calls, Named, named, resource_here
<1>3. /\ then.at = job.at /\ then.doc = job.doc /\ then.known = job.known /\ then.applied = job.applied
      /\ then.failed = job.failed /\ then.generation = job.generation /\ then.pc = "record"
      /\ then.seen[here].enabled = wanted(resource_here)
      /\ \A n \in Names : then.seen[n].owner = job.seen[n].owner /\ (n # here => then.seen[n] = job.seen[n])
  BY <1>0, <1>2 DEF to, JobSet, Seen
<1> HIDE DEF then, result
<1>4. /\ Called /\ job.pc = "switch"
      /\ \/ exists /\ account'[here] = result /\ job'.pc = then.pc /\ job'.seen = then.seen
         \/ /\ job'.pc = "fail" /\ job'.seen = job.seen
            /\ account'[here] = account[here] \/ (exists /\ account'[here] = result)
  BY <1>1, <1>3, CallDoes DEF Calls
<1> QED BY <1>2, <1>3, <1>4 DEF exists, result

\* The account that has its state already.
LEMMA SwitchedDoes ==
  ASSUME TypeInv, Switched
  PROVE  /\ job.pc = "switch" /\ here \in Named /\ here \in Names /\ resource_here.want \notin {"none", "deleted"} /\ ~unswitched
         /\ job'.pc = "record" /\ job'.at = here /\ job'.seen = job.seen /\ job'.known = job.known /\ job'.applied = job.applied
         /\ job'.failed = job.failed /\ JobKeeps /\ UNCHANGED <<latest, rows, account, local, elapsed, crossed>>
<1>1. job.pc = "switch" /\ ~unswitched /\ goto("record") /\ UNCHANGED <<latest, rows, account, local, elapsed, crossed>>
  BY DEF history, Switched, in
<1>2. here \in Named /\ here \in Names /\ resource_here.want \notin {"none", "deleted"}
  BY <1>1, Parts, LoopFacts DEF Shape, Calls, Named, named, resource_here
<1> QED BY <1>1, <1>2, MoveDoes DEF Pcs

\* The row of a resource that was applied.
LEMMA RecordDoes ==
  ASSUME TypeInv, Record
  PROVE  /\ job.pc = "record" /\ here \in Named /\ here \in Names
         /\ job'.pc = "resource" /\ job'.at = after(here, Named) /\ job'.seen = job.seen /\ job'.known = job.known
         /\ job'.applied = job.applied \cup {here} /\ job'.failed = job.failed /\ JobKeeps
         /\ UNCHANGED <<latest, account, local, elapsed, crossed>> /\ Elsewhere
         /\ rows'[here].cred = credential(resource_here)
         /\ rows'[here].state = IF resource_here.want = "deleted" THEN "missing" ELSE state_of(job.seen[here].enabled)
<1> DEFINE new == [ref |-> resource_here.ref, cred |-> credential(resource_here),
                   state |-> IF resource_here.want = "deleted" THEN "missing" ELSE state_of(job.seen[here].enabled)]
<1>0. job \in JobSet /\ Shape /\ rows \in [Names -> AnyRow]
  BY Parts
<1>1. /\ job.pc = "record" /\ rows' = [rows EXCEPT ![here] = new] /\ UNCHANGED <<latest, account, local, elapsed, crossed>>
      /\ job' = [job EXCEPT !.pc = "resource", !.at = after(here, Named), !.applied = @ \cup {here}]
  BY DEF Record, in
<1>2. here \in Named /\ here \in Names
  BY <1>0, <1>1, LoopFacts DEF Shape, Calls
<1>3. /\ job'.pc = "resource" /\ job'.at = after(here, Named) /\ job'.seen = job.seen /\ job'.known = job.known
      /\ job'.applied = job.applied \cup {here} /\ job'.failed = job.failed /\ JobKeeps
  BY <1>0, <1>1 DEF JobSet, JobKeeps
<1>4. /\ new.cred = credential(resource_here)
      /\ new.state = IF resource_here.want = "deleted" THEN "missing" ELSE state_of(job.seen[here].enabled)
  OBVIOUS
<1> HIDE DEF new
<1>5. rows'[here] = new /\ Elsewhere
  BY <1>0, <1>1, <1>2 DEF Elsewhere
<1> QED BY <1>1, <1>2, <1>3, <1>4, <1>5

\* The row of a resource that was not.
LEMMA FailDoes ==
  ASSUME TypeInv, Fail
  PROVE  /\ job.pc = "fail" /\ here \in Named /\ here \in Names
         /\ job'.pc = "resource" /\ job'.at = after(here, Named) /\ job'.seen = job.seen /\ job'.known = job.known
         /\ job'.applied = job.applied /\ job'.failed = TRUE /\ JobKeeps
         /\ UNCHANGED <<latest, account, local, elapsed, crossed>> /\ Elsewhere
         /\ rows'[here].cred = rows[here].cred /\ rows'[here].state = "failed"
<1>0. job \in JobSet /\ Shape /\ rows \in [Names -> AnyRow]
  BY Parts
<1>1. /\ job.pc = "fail" /\ rows' = [rows EXCEPT ![here] = failed_row(here)] /\ UNCHANGED <<latest, account, local, elapsed, crossed>>
      /\ job' = [job EXCEPT !.pc = "resource", !.at = after(here, Named), !.failed = TRUE]
  BY DEF Fail, in
<1>2. here \in Named /\ here \in Names
  BY <1>0, <1>1, LoopFacts DEF Shape, Calls
<1>3. /\ job'.pc = "resource" /\ job'.at = after(here, Named) /\ job'.seen = job.seen /\ job'.known = job.known
      /\ job'.applied = job.applied /\ job'.failed = TRUE /\ JobKeeps
  BY <1>0, <1>1 DEF JobSet, JobKeeps
<1>4. rows'[here] = failed_row(here) /\ Elsewhere
  BY <1>0, <1>1, <1>2 DEF Elsewhere
<1> QED BY <1>1, <1>2, <1>3, <1>4 DEF failed_row

\* An inventory that cannot be read.
LEMMA DiscoverFailsDoes ==
  ASSUME TypeInv, DiscoverFails
  PROVE  /\ job.pc = "discover" /\ job'.pc = "lanes" /\ job'.at = here /\ job'.seen = job.seen /\ job'.known = job.known
         /\ job'.applied = job.applied /\ job'.failed = TRUE /\ JobKeeps /\ UNCHANGED <<latest, account, local, elapsed>>
         /\ crossed \subseteq crossed' /\ (\A n \in Named : rows'[n].state = "failed")
         /\ \A n \in Names : \/ rows'[n] = rows[n]
                             \/ /\ rows'[n].state = "failed" /\ rows'[n].cred = rows[n].cred
                                /\ n \notin crossed' => account[n].owner # "local"
<1>1. /\ job.pc = "discover" /\ job'.pc = "lanes" /\ job'.at = here /\ job'.seen = job.seen /\ job'.known = job.known
      /\ job'.applied = job.applied /\ job'.failed = TRUE /\ JobKeeps /\ UNCHANGED <<latest, account, local, elapsed>>
  BY Parts DEF DiscoverFails, JobSet, in, JobKeeps, here
<1>2. \A n \in Names : rows'[n] = IF n \in Named \cup Orphans THEN failed_row(n) ELSE rows[n]
  BY DEF DiscoverFails
<1>3. crossed \subseteq crossed' /\ \A n \in Named \cup Orphans : n \notin crossed' => account[n].owner # "local"
  BY DEF DiscoverFails
<1>4. \A n \in Names : failed_row(n).state = "failed" /\ failed_row(n).cred = rows[n].cred
  BY DEF failed_row
<1>5. Named \subseteq Names
  BY DEF Named
<1> QED BY <1>1, <1>2, <1>3, <1>4, <1>5

\* A failure about an account that stands.
LEMMA DetailFailsDoes ==
  ASSUME TypeInv, DetailFails
  PROVE  /\ here \in Named /\ here \in Names /\ resource_here.want \notin {"none", "deleted"}
         /\ job.pc = "switch" \/ (job.pc = "resource" /\ item /\ stored)
         /\ job'.pc = "fail" /\ job'.at = here /\ job'.seen = job.seen /\ job'.known = job.known /\ job'.applied = job.applied
         /\ job'.failed = job.failed /\ JobKeeps /\ UNCHANGED <<latest, rows, account, local, elapsed, crossed>>
<1>1. /\ job.pc = "switch" \/ (job.pc = "resource" /\ here \in Names /\ item /\ stored /\ resource_here.want # "deleted")
      /\ goto("fail") /\ UNCHANGED <<latest, rows, account, local, elapsed, crossed>>
  BY DEF DetailFails, at_resource, in, history
<1>2. here \in Named /\ here \in Names /\ resource_here.want \notin {"none", "deleted"}
  BY <1>1, Parts, LoopFacts DEF Shape, Calls, Named, named, resource_here, in
<1> QED BY <1>1, <1>2, MoveDoes DEF Pcs

\* The readback, and one that cannot be read.
LEMMA ReadbackDoes ==
  ASSUME TypeInv, Readback \/ ReadbackFails
  PROVE  /\ job.pc = "resource" /\ here = N + 1
         /\ job'.pc = "orphan" /\ job'.at = after(0, Orphans) /\ job'.seen = job.seen /\ job'.known = job.known
         /\ job'.applied = job.applied /\ (job.failed => job'.failed) /\ JobKeeps
         /\ UNCHANGED <<latest, account, local, elapsed, crossed>>
         /\ \A n \in Names : \/ rows'[n] = rows[n]
                             \/ n \in job.applied /\ rows'[n].state = "failed" /\ rows'[n].cred = rows[n].cred
<1>0. job \in JobSet /\ rows \in [Names -> AnyRow]
  BY Parts
<1>1. PICK refuted \in SUBSET job.applied : readback(refuted)
  <2>1. CASE Readback
    BY <2>1 DEF Readback
  <2>2. CASE ReadbackFails
    BY <2>2 DEF ReadbackFails
  <2> QED BY <2>1, <2>2
<1>3. /\ job.pc = "resource" /\ here = N + 1 /\ UNCHANGED <<latest, account, local, elapsed, crossed>>
      /\ rows' = [n \in Names |-> IF n \in refuted THEN failed_row(n) ELSE rows[n]]
      /\ job' = [job EXCEPT !.pc = "orphan", !.at = after(0, Orphans), !.failed = job.failed \/ refuted # {}]
  BY <1>1 DEF readback, to_orphans, in
<1>4. /\ job'.pc = "orphan" /\ job'.at = after(0, Orphans) /\ job'.seen = job.seen /\ job'.known = job.known
      /\ job'.applied = job.applied /\ JobKeeps
  BY <1>0, <1>3 DEF JobSet, JobKeeps
<1>5. job.failed => job'.failed
  BY <1>0, <1>3, Zenon DEF JobSet
<1>6. \A n \in Names : rows'[n] = rows[n] \/ (n \in refuted /\ rows'[n] = failed_row(n))
  BY <1>3
<1> QED BY <1>3, <1>4, <1>5, <1>6 DEF failed_row

\* An account that the generation no longer names.
LEMMA OrphanDeleteDoes ==
  ASSUME TypeInv, OrphanDelete
  PROVE  /\ job.pc = "orphan" /\ here \in Orphans /\ here \in Names /\ doomed
         /\ job'.seen = job.seen /\ job'.known = job.known /\ job'.applied = job.applied /\ JobKeeps
         /\ UNCHANGED <<latest, rows, local, elapsed, crossed>> /\ Elsewhere
         /\ \/ job'.pc = "forget" /\ job'.at = here /\ account'[here] = NoAccount /\ job'.failed = job.failed
            \/ /\ job'.pc = "orphan" /\ job'.at = after(here, Orphans) /\ job'.failed = TRUE
               /\ account'[here] \in {account[here], NoAccount}
<1>0. job \in JobSet /\ Shape /\ account \in [Names -> AnyAccount]
  BY Parts
<1>1. job.pc = "orphan" /\ here \in Orphans /\ here \in Names /\ doomed /\ UNCHANGED <<latest, rows, local, elapsed, crossed>>
  BY <1>0 DEF history, OrphanDelete, at_orphan, Shape, in
<1>2. account' \in {account, [account EXCEPT ![here] = NoAccount]}
  BY DEF OrphanDelete
<1>3. Elsewhere /\ account'[here] \in {account[here], NoAccount}
  BY <1>0, <1>1, <1>2 DEF Elsewhere
<1>4. \/ account' = [account EXCEPT ![here] = NoAccount] /\ goto("forget")
      \/ job' = [job EXCEPT !.at = after(here, Orphans), !.failed = TRUE]
  BY DEF OrphanDelete
<1>5. CASE account' = [account EXCEPT ![here] = NoAccount] /\ goto("forget")
  <2>1. account'[here] = NoAccount
    BY <1>0, <1>1, <1>5
  <2> QED BY <1>1, <1>3, <1>5, <2>1, MoveDoes DEF Pcs
<1>6. CASE job' = [job EXCEPT !.at = after(here, Orphans), !.failed = TRUE]
  <2>1. /\ job'.pc = "orphan" /\ job'.at = after(here, Orphans) /\ job'.failed = TRUE
        /\ job'.seen = job.seen /\ job'.known = job.known /\ job'.applied = job.applied /\ JobKeeps
    BY <1>0, <1>1, <1>6 DEF JobSet, JobKeeps
  <2> QED BY <1>1, <1>3, <2>1
<1> QED BY <1>4, <1>5, <1>6

\* A row that is dropped.
LEMMA OrphanForgetDoes ==
  ASSUME TypeInv, OrphanForget
  PROVE  /\ job.pc = "forget" \/ (job.pc = "orphan" /\ ~doomed)
         /\ here \in Orphans /\ here \in Names /\ job'.pc = "orphan" /\ job'.at = after(here, Orphans)
         /\ job'.seen = job.seen /\ job'.known = job.known /\ job'.applied = job.applied /\ job'.failed = job.failed /\ JobKeeps
         /\ UNCHANGED <<latest, account, local, elapsed, crossed>> /\ Elsewhere /\ rows'[here] = NoRow
<1>0. job \in JobSet /\ Shape /\ rows \in [Names -> AnyRow]
  BY Parts
<1>1. /\ job.pc = "forget" \/ (job.pc = "orphan" /\ ~doomed)
      /\ here \in Orphans /\ here \in Names
  BY <1>0, LoopFacts DEF OrphanForget, at_orphan, Shape, in
<1>2. /\ UNCHANGED <<latest, account, local, elapsed, crossed>> /\ rows' = [rows EXCEPT ![here] = NoRow]
      /\ job' = [job EXCEPT !.pc = "orphan", !.at = after(here, Orphans)]
  BY DEF OrphanForget, history
<1>3. /\ job'.pc = "orphan" /\ job'.at = after(here, Orphans)
      /\ job'.seen = job.seen /\ job'.known = job.known /\ job'.applied = job.applied /\ job'.failed = job.failed /\ JobKeeps
  BY <1>0, <1>2 DEF JobSet, JobKeeps
<1> QED BY <1>0, <1>1, <1>2, <1>3 DEF Elsewhere

\* The sections after the accounts.
LEMMA SectionsDo ==
  ASSUME TypeInv, Lanes \/ Relay \/ Egress
  PROVE  /\ \/ job.pc \in {"lanes", "relay", "egress"}
            \/ job.pc = "orphan" /\ here = N + 1
         /\ job'.pc \in {"relay", "egress", "finish"}
         /\ job'.at = here /\ job'.seen = job.seen /\ job'.known = job.known /\ job'.applied = job.applied
         /\ (job.failed => job'.failed) /\ JobKeeps
         /\ UNCHANGED <<latest, account, local, elapsed, crossed>>
         /\ \A n \in Names : \/ rows'[n] = rows[n]
                             \/ /\ named(n) /\ rows[n].state = "enabled" /\ rows'[n].state = "failed"
                                /\ rows'[n].cred = credential(job.doc[n]) /\ job'.pc = "relay"
<1>0. job \in JobSet
  BY Parts
<1>a. ASSUME NEW pc \in {"relay", "egress", "finish"}, goto(pc) \/ section_fails(pc)
      PROVE  /\ job'.pc = pc /\ job'.at = here /\ job'.seen = job.seen /\ job'.known = job.known /\ job'.applied = job.applied
             /\ (job.failed => job'.failed) /\ JobKeeps
  BY <1>0, <1>a DEF goto, section_fails, JobSet, JobKeeps, here
<1>1. CASE Lanes
  <2>1. \A n \in Names : \/ rows'[n] = rows[n]
                         \/ /\ named(n) /\ rows[n].state = "enabled" /\ rows'[n].state = "failed"
                            /\ rows'[n].cred = credential(job.doc[n])
    BY <1>1 DEF Lanes
  <2>2. (goto("relay") \/ section_fails("relay")) /\ UNCHANGED <<latest, account, local, elapsed, crossed>>
        /\ (in("lanes") \/ (in("orphan") /\ here = N + 1))
    BY <1>1 DEF history, Lanes, in
  <2>3. job.pc = "lanes" \/ (job.pc = "orphan" /\ here = N + 1)
    BY <2>2 DEF in
  <2>4. /\ job'.pc = "relay" /\ job'.at = here /\ job'.seen = job.seen /\ job'.known = job.known /\ job'.applied = job.applied
        /\ (job.failed => job'.failed) /\ JobKeeps
    BY <1>a, <2>2
  <2> QED BY <2>1, <2>2, <2>3, <2>4
<1>2. CASE Relay
  BY <1>2, <1>a DEF history, Relay, in
<1>3. CASE Egress
  BY <1>3, <1>a DEF history, Egress, in
<1> QED BY <1>1, <1>2, <1>3

---------------------------------------------------------------------------
(* An apply and what is not the central's *)

\* What an apply may do to an account that the panel or a person made.
Respected == \A n \in Names \ crossed : kept(n)

\* A write of the panel itself spares what an apply owns or works on, or crosses it.
LEMMA WriteSpares ==
  ASSUME TypeInv, Unguarded, LocalCreate \/ LocalDelete
  PROVE  /\ crossed \subseteq crossed' /\ UNCHANGED <<rows, job, latest>>
         /\ \A n \in Names \ crossed' :
              \/ account'[n] = account[n]
              \/ ~is_managed(n) /\ (job.pc \in {"idle", "discover"} \/ (~named(n) /\ ~orphan(n)))
BY WriteDoes

\* A step of an apply that makes no account local, and owns and changes none that is.
LEMMA ForeignKept ==
  ASSUME TypeInv, Foreign, job.pc # "idle", job'.pc \notin {"idle", "discover"}, job'.doc = job.doc, crossed \subseteq crossed',
         \A n \in Names \ crossed' : account'[n].owner = "local" => account[n].owner = "local",
         \A n \in Names \ crossed' : account'[n].owner = "central" => account[n].owner = "central" \/ job.doc[n].want # "deleted",
         \A n \in Names \ crossed' : is_managed(n)' => is_managed(n) \/ account'[n].owner # "local",
         \/ job'.pc \notin Deciding
         \/ job.pc \in Deciding /\ \A n \in Names : job'.seen[n].owner = job.seen[n].owner
         \/ \A n \in Names : job'.seen[n].owner = "none" => account'[n].owner # "local",
         \A n \in Names \ crossed' : job'.known[n] = job.known[n] \/ account'[n].owner # "local",
         job'.pc \in Calls /\ job'.at \notin crossed' => account'[job'.at].owner # "local",
         \A n \in job'.applied \ crossed' :
           n \in job.applied \/ (account'[n].owner # "local" /\ (job.doc[n].want = "deleted" => account'[n].owner # "central"))
  PROVE  Foreign'
<1>1. Named' = Named /\ Named \subseteq Names
  BY DEF Named, named
<1>2. job.applied \subseteq Names
  BY Parts DEF JobSet
<1>3. \A n \in Names \ crossed' : account'[n].owner = "local" => ~is_managed(n)'
  BY DEF Foreign, Clear
<1>4. job'.pc \in Deciding => \A n \in Named \ crossed' : job'.seen[n].owner = "none" => account'[n].owner # "local"
  BY <1>1 DEF Foreign
<1>5. \A n \in Names \ crossed' : job'.known[n].state \notin {"none", "missing"} => account'[n].owner # "local"
  BY DEF Foreign, Clear
<1>6. ASSUME NEW n \in job'.applied, n \notin crossed'
      PROVE  account'[n].owner # "local" /\ (job.doc[n].want = "deleted" => account'[n].owner # "central")
  BY <1>2, <1>6 DEF Foreign
<1> QED BY <1>1, <1>3, <1>4, <1>5, <1>6 DEF Foreign, here, in, Clear

\* An apply that has ended leaves nothing in hand.
LEMMA ForeignEnds ==
  ASSUME Foreign, job' = Idle, UNCHANGED <<rows, account, crossed>>
  PROVE  Foreign'
<1>1. job'.pc = "idle" /\ job'.applied = {}
  BY IdleType
<1>2. \A n \in Names : is_managed(n)' = is_managed(n)
  BY DEF is_managed
<1> QED BY <1>1, <1>2 DEF Foreign, in, Deciding, Calls, is_managed, Clear

\* The inventory and the resources of the document own nothing that is not the central's.
LEMMA ResourceForeign ==
  ASSUME TypeInv, Owned, Foreign,
         Discover \/ DiscoverFails \/ Collision \/ Adopt \/ Withdraw \/ Placeholder \/ Keep \/ Switched \/ DetailFails \/ Record \/ Fail
  PROVE  Foreign' /\ Respected
<1>0. /\ job \in JobSet /\ Shape /\ account \in [Names -> AnyAccount]
      /\ NoAccount.owner = "none" /\ \A n \in Names : account[n] # NoAccount => account[n] \in Accounts
  BY Parts, ValueFacts DEF NoAccount
<1>1. CASE Discover
  BY <1>1, DiscoverDoes, ForeignKept DEF JobKeeps, is_managed, Respected, kept, Calls
<1>2. CASE Collision
  BY <1>2, CollisionDoes, ForeignKept DEF JobKeeps, is_managed, Respected, kept, Calls, Deciding
<1>3. CASE Adopt
  <2>a. here \in Names /\ (account[here] = NoAccount => account'[here] = NoAccount)
        /\ (account[here] # NoAccount => account'[here] = [account[here] EXCEPT !.owner = "central", !.cred = credential(resource_here)])
    BY <1>3, AdoptDoes
  <2>b. account[here] # NoAccount => account'[here].owner = "central"
    BY <1>0, <2>a DEF Accounts
  <2>1. account'[here].owner # "local" /\ (account[here].owner = "local" => account[here] # NoAccount)
    BY <1>0, <2>a, <2>b
  <2>2. Respected
    BY <1>3, <2>1, AdoptDoes DEF Respected, kept, Elsewhere, resource_here
  <2>3. \A n \in Names : job'.known[n] = job.known[n] \/ account'[n].owner # "local"
    BY <1>3, <2>1, AdoptDoes
  <2>4. \A n \in Names : is_managed(n)' => is_managed(n) \/ account'[n].owner # "local"
    BY <1>3, <2>1, AdoptDoes DEF Elsewhere, is_managed
  <2>5. /\ \A n \in Names : account'[n].owner = "local" => account[n].owner = "local"
        /\ \A n \in Names : account'[n].owner = "central" => account[n].owner = "central" \/ job.doc[n].want # "deleted"
    BY <1>3, <2>1, AdoptDoes DEF Elsewhere, resource_here
  <2> QED BY <1>3, <2>2, <2>3, <2>4, <2>5, AdoptDoes, ForeignKept DEF JobKeeps, Calls, Deciding
<1>4. CASE Withdraw
  <2>1. (here \notin crossed => account[here].owner # "local") /\ here \in Names /\ job.pc = "resource"
    BY <1>4, WithdrawDoes DEF Foreign, stored, item, Deciding, Clear
  <2> QED BY <1>4, <2>1, WithdrawDoes, ForeignKept DEF JobKeeps, is_managed, Respected, kept, Deciding, Calls
<1>5. CASE Placeholder
  <2>1. (here \notin crossed => account[here].owner # "local") /\ here \in Names /\ job.pc = "resource"
    BY <1>5, PlaceholderDoes DEF Foreign, item, Deciding, Clear
  <2>2. \A n \in Names \ crossed : is_managed(n)' => is_managed(n) \/ account'[n].owner # "local"
    BY <1>5, <2>1, PlaceholderDoes DEF Elsewhere, is_managed
  <2> QED BY <1>5, <2>1, <2>2, PlaceholderDoes, ForeignKept DEF JobKeeps, Respected, kept, Deciding, Calls
<1>6. CASE Keep
  <2>1. (here \notin crossed => account[here].owner # "local") /\ here \in Names /\ job.pc = "resource"
    BY <1>6, KeepDoes DEF Foreign, stored, Deciding, Clear
  <2>2. \A n \in Names : account'[n].owner = account[n].owner
    BY <1>0, <1>6, <2>1, KeepDoes DEF Elsewhere, Accounts
  <2>3. Respected
    BY <1>6, <2>1, KeepDoes DEF Respected, kept, Elsewhere
  <2> QED BY <1>6, <2>1, <2>2, <2>3, KeepDoes, ForeignKept DEF JobKeeps, is_managed, Deciding, Calls
<1>7. CASE Switched
  <2>1. here \notin crossed => account[here].owner # "local"
    BY <1>7, SwitchedDoes DEF Foreign, Calls
  <2> QED BY <1>7, <2>1, SwitchedDoes, ForeignKept DEF JobKeeps, is_managed, Respected, kept, Deciding, Calls
<1>8. CASE Record
  <2>1. here \notin crossed => account[here].owner # "local" /\ (job.doc[here].want = "deleted" => account[here].owner # "central")
    BY <1>8, RecordDoes DEF Foreign, Owned, in, Calls, resource_here
  <2>2. \A n \in Names \ crossed : is_managed(n)' => is_managed(n) \/ account'[n].owner # "local"
    BY <1>8, <2>1, RecordDoes DEF Elsewhere, is_managed
  <2> QED BY <1>8, <2>1, <2>2, RecordDoes, ForeignKept DEF JobKeeps, Respected, kept, Deciding, Calls
<1>9. CASE Fail
  <2>1. here \notin crossed => account[here].owner # "local"
    BY <1>9, FailDoes DEF Foreign, Calls
  <2>2. \A n \in Names \ crossed : is_managed(n)' => is_managed(n) \/ account'[n].owner # "local"
    BY <1>9, <2>1, FailDoes DEF Elsewhere, is_managed
  <2> QED BY <1>9, <2>1, <2>2, FailDoes, ForeignKept DEF JobKeeps, Respected, kept, Deciding, Calls
<1>10. CASE DetailFails
  <2>1. here \notin crossed => account[here].owner # "local"
    BY <1>10, DetailFailsDoes DEF Foreign, Calls, stored, Clear
  <2>2. job.pc \in Deciding /\ job.pc # "idle"
    BY <1>10, DetailFailsDoes DEF Deciding, Calls
  <2> QED BY <1>10, <2>1, <2>2, DetailFailsDoes, ForeignKept DEF JobKeeps, is_managed, Respected, kept
<1>11. CASE DiscoverFails
  <2>1. \A n \in Names \ crossed' : is_managed(n)' => is_managed(n) \/ account'[n].owner # "local"
    BY <1>11, DiscoverFailsDoes DEF is_managed
  <2>2. job'.pc \notin Deciding /\ job'.pc \notin Calls
    BY <1>11, DiscoverFailsDoes DEF Deciding, Calls
  <2> QED BY <1>11, <2>1, <2>2, DiscoverFailsDoes, ForeignKept DEF JobKeeps, Respected, kept
<1> QED BY <1>1, <1>2, <1>3, <1>4, <1>5, <1>6, <1>7, <1>8, <1>9, <1>10, <1>11

\* A manager is only called about an account that is the central's or none.
LEMMA CallsForeign ==
  ASSUME TypeInv, Foreign, Create \/ Rotate \/ Delete \/ Switch
  PROVE  Foreign' /\ Respected
<1>0. \A n \in Names : account[n] # NoAccount => account[n] \in Accounts
  BY Parts, ValueFacts
<1>1. Called /\ job'.pc \in {"switch", "record", "fail"} /\ here \in Names /\ crossed' = crossed
  BY CreateDoes, RotateDoes, DeleteDoes, SwitchDoes DEF Called
<1>2. here \notin crossed => account[here].owner # "local"
  BY <1>1 DEF Called, Foreign
<1>3. /\ account'[here].owner = "local" => account[here].owner = "local"
      /\ account'[here].owner = "central" => account[here].owner = "central" \/ job.doc[here].want # "deleted"
  <2>1. CASE Create
    <3>1. made.owner = "central"
      BY DEF made
    <3> QED BY <2>1, <3>1, CreateDoes DEF resource_here
  <2>2. CASE Rotate
    BY <1>0, <1>1, <2>2, RotateDoes DEF Accounts
  <2>3. CASE Delete
    BY <2>3, DeleteDoes DEF NoAccount
  <2>4. CASE Switch
    BY <1>0, <1>1, <2>4, SwitchDoes DEF Accounts
  <2> QED BY <2>1, <2>2, <2>3, <2>4
<1>4. Respected
  BY <1>1, <1>2 DEF Called, Respected, kept, Elsewhere
<1>5. /\ \A n \in Names : account'[n].owner = "local" => account[n].owner = "local"
      /\ \A n \in Names : account'[n].owner = "central" => account[n].owner = "central" \/ job.doc[n].want # "deleted"
  BY <1>1, <1>3 DEF Called, Elsewhere
<1>6. /\ job.pc \in Calls /\ job'.doc = job.doc /\ job'.known = job.known /\ job'.applied = job.applied /\ job'.at = here
      /\ rows' = rows /\ \A n \in Names : job'.seen[n].owner = job.seen[n].owner
  BY <1>1 DEF Called, JobKeeps
<1> QED BY <1>1, <1>2, <1>3, <1>4, <1>5, <1>6, ForeignKept DEF is_managed, Deciding, Calls

\* Neither do the readback, the orphans and the sections.
LEMMA TailForeign ==
  ASSUME TypeInv, Foreign, Readback \/ ReadbackFails \/ OrphanDelete \/ OrphanForget \/ Lanes \/ Relay \/ Egress \/ Finish
  PROVE  Foreign' /\ Respected
<1>0. /\ job \in JobSet /\ job.applied \subseteq Names /\ NoAccount.owner = "none"
  BY Parts DEF JobSet, NoAccount
<1>1. CASE Readback \/ ReadbackFails
  <2>1. \A n \in Names \ crossed : is_managed(n)' => is_managed(n) \/ account'[n].owner # "local"
    BY <1>1, ReadbackDoes DEF is_managed, Foreign
  <2> QED BY <1>1, <2>1, ReadbackDoes, ForeignKept DEF JobKeeps, Respected, kept, Deciding, Calls
<1>2. CASE OrphanDelete
  <2>1. (here \notin crossed => account[here].owner # "local") /\ here \in Names
    BY <1>2, OrphanDeleteDoes DEF Foreign, doomed, Orphans, orphan, Clear
  <2>2. \A n \in Names \ crossed : account'[n] = account[n] \/ (account'[n].owner = "none" /\ account[n].owner # "local")
    BY <1>0, <1>2, <2>1, OrphanDeleteDoes DEF Elsewhere
  <2>3. /\ job.pc = "orphan" /\ job'.pc \in {"forget", "orphan"} /\ job'.doc = job.doc /\ rows' = rows /\ crossed' = crossed
        /\ job'.known = job.known /\ job'.applied = job.applied /\ job'.seen = job.seen
    BY <1>2, OrphanDeleteDoes DEF JobKeeps
  <2>4. /\ \A n \in Names \ crossed : account'[n].owner = "local" => account[n].owner = "local"
        /\ \A n \in Names \ crossed : account'[n].owner = "central" => account[n].owner = "central"
        /\ \A n \in Names : is_managed(n)' => is_managed(n)
        /\ job.pc \in Deciding /\ job'.pc \notin Calls
    BY <2>2, <2>3 DEF is_managed, Deciding, Calls
  <2>5. Respected
    BY <2>2 DEF Respected, kept
  <2> QED BY <2>3, <2>4, <2>5, ForeignKept
<1>3. CASE OrphanForget
  <2>1. \A n \in Names : is_managed(n)' => is_managed(n)
    BY <1>3, OrphanForgetDoes DEF Elsewhere, is_managed, NoRow
  <2>2. job.pc \in Deciding /\ job.pc # "idle"
    BY <1>3, OrphanForgetDoes DEF Deciding
  <2> QED BY <1>3, <2>1, <2>2, OrphanForgetDoes, ForeignKept DEF JobKeeps, Respected, kept, Calls
<1>4. CASE Lanes \/ Relay \/ Egress
  <2>1. \A n \in Names : is_managed(n)' => is_managed(n)
    BY <1>4, SectionsDo DEF is_managed
  <2>2. job.pc # "idle" /\ job'.pc \notin Deciding /\ job'.pc \notin Calls /\ job'.pc \notin {"discover", "idle"}
    BY <1>4, SectionsDo DEF Deciding, Calls
  <2>3. job'.doc = job.doc /\ account' = account /\ job'.known = job.known /\ job'.applied = job.applied /\ crossed' = crossed
    BY <1>4, SectionsDo DEF JobKeeps
  <2> QED BY <2>1, <2>2, <2>3, ForeignKept DEF Respected, kept
<1>5. CASE Finish
  <2>1. job' = Idle /\ UNCHANGED <<rows, account, crossed>>
    BY <1>5 DEF Finish, history
  <2> QED BY <2>1, ForeignEnds DEF Respected, kept
<1> QED BY <1>1, <1>2, <1>3, <1>4, <1>5

\* The other actors leave what is not the central's without a row that owns it.
LEMMA OthersForeign ==
  ASSUME TypeInv, Unguarded, Foreign,
         \/ \E n \in Names, resource \in Resources : Accept(n, resource)
         \/ start \/ (\E n \in Names, what \in {"create", "delete"} : LocalCheck(n, what)) \/ LocalCreate \/ LocalDelete
         \/ Unlink \/ Elapse \/ Restart
  PROVE  Foreign' /\ (job' # job => account' = account)
<1>0. /\ job \in JobSet /\ Shape /\ rows \in [Names -> AnyRow] /\ account \in [Names -> AnyAccount]
      /\ NoRow.state = "none" /\ Idle.applied = {} /\ Idle.pc = "idle"
  BY Parts, IdleType DEF NoRow
<1>a. ASSUME UNCHANGED <<rows, account, job, crossed>> PROVE Foreign'
  BY <1>a DEF Foreign, is_managed, in, here, Clear, Named, named
<1>1. CASE \E n \in Names, resource \in Resources : Accept(n, resource)
  BY <1>1, <1>a DEF Accept, history
<1>2. CASE start
  <2> DEFINE store == [n \in Names |-> IF n \in stale THEN NoRow ELSE rows[n]]
  <2>1. /\ rows' = store /\ UNCHANGED <<account, crossed>>
        /\ job' = [Idle EXCEPT !.pc = "discover", !.generation = latest.generation, !.doc = latest.doc, !.known = store]
    BY <1>2 DEF start, history
  <2>2. \A n \in Names : store[n].state \notin {"none", "missing"} => rows[n].state \notin {"none", "missing"}
    BY <1>0
  <2> HIDE DEF store
  <2>3. job'.pc = "discover" /\ job'.known = store /\ job'.applied = {}
    BY <2>1, IdleType DEF JobSet
  <2>4. \A n \in Clear : store[n].state \notin {"none", "missing"} => account[n].owner # "local"
    BY <2>2 DEF Foreign, is_managed, Clear
  <2>5. \A n \in Clear : account'[n].owner = "local" => ~is_managed(n)'
    BY <2>1, <2>4 DEF is_managed
  <2> QED BY <2>1, <2>3, <2>4, <2>5 DEF Foreign, in, Deciding, Calls, Clear
<1>3. ASSUME NEW n \in Names, NEW what \in {"create", "delete"}, LocalCheck(n, what) PROVE Foreign' /\ job' = job
  BY <1>3, <1>a DEF LocalCheck
<1>4. CASE LocalCreate \/ LocalDelete
  <2>1. /\ crossed \subseteq crossed' /\ UNCHANGED <<rows, job>>
        /\ \A n \in Names \ crossed' :
             \/ account'[n] = account[n]
             \/ ~is_managed(n) /\ (job.pc \in {"idle", "discover"} \/ (~named(n) /\ ~orphan(n)))
    BY <1>4, WriteSpares
  <2>2. Named' = Named /\ Named \subseteq Names /\ job.applied \subseteq Named
    BY <1>0, <2>1 DEF Named, named, Shape
  <2>3. \A n \in Names \ crossed' : account'[n].owner = "local" => ~is_managed(n)'
    BY <2>1 DEF Foreign, Clear, is_managed
  <2>4. job.pc \notin {"idle", "discover"} => \A n \in Named \ crossed' : account'[n] = account[n]
    BY <2>1 DEF Named
  <2>5. job.pc \in Deciding => \A n \in Named \ crossed' : job.seen[n].owner = "none" => account'[n].owner # "local"
    BY <2>1, <2>4 DEF Foreign, Deciding, Calls
  <2>6. ASSUME job.pc # "idle", NEW n \in Names, n \notin crossed', job.known[n].state \notin {"none", "missing"} PROVE account'[n].owner # "local"
    <3>1. account[n].owner # "local"
      BY <2>1, <2>6 DEF Foreign, Clear
    <3>2. CASE in("discover")
      <4>1. is_managed(n)
        BY <1>0, <2>6, <3>2 DEF Shape, is_managed
      <4> QED BY <2>1, <2>6, <3>1, <4>1
    <3>3. CASE ~in("discover")
      <4>1. named(n) \/ orphan(n)
        BY <2>6 DEF orphan
      <4> QED BY <2>1, <2>6, <3>1, <3>3, <4>1 DEF in
    <3> QED BY <3>2, <3>3
  <2>7. job.pc \in Calls /\ here \notin crossed' => account'[here].owner # "local"
    BY <1>0, <2>1, <2>4 DEF Foreign, Calls, Shape
  <2>8. ASSUME NEW n \in job.applied, n \notin crossed'
        PROVE  account'[n].owner # "local" /\ (job.doc[n].want = "deleted" => account'[n].owner # "central")
    <3>1. job.pc \notin {"idle", "discover"}
      BY <1>0, <2>8 DEF Foreign, in
    <3> QED BY <2>1, <2>2, <2>4, <2>8, <3>1 DEF Foreign
  <2> QED BY <2>1, <2>2, <2>3, <2>5, <2>6, <2>7, <2>8 DEF Foreign, in, here, Clear
<1>5. CASE Unlink
  <2>1. /\ UNCHANGED <<job, crossed>> /\ job.pc = "idle" /\ \A n \in Names : rows'[n] = NoRow
    BY <1>5 DEF Unlink, history
  <2>2. \A n \in Names : ~is_managed(n)'
    BY <1>0, <2>1 DEF is_managed
  <2>3. job = Idle
    BY <2>1 DEF Foreign, in
  <2> QED BY <1>0, <2>1, <2>2, <2>3 DEF Foreign, in, Deciding, Calls, is_managed, Clear
<1>6. CASE Elapse
  BY <1>6, <1>a DEF Elapse, history
<1>7. CASE Restart
  BY <1>7, ForeignEnds DEF Restart, history
<1> QED BY <1>1, <1>2, <1>3, <1>4, <1>5, <1>6, <1>7 DEF Accept, start, Unlink, Elapse, Restart, LocalCreate, LocalDelete

\* Every step keeps what is not the central's apart, and an apply respects it.
LEMMA ForeignStep ==
  ASSUME TypeInv, Owned, Unguarded, Foreign, [Next]_vars
  PROVE  Foreign' /\ (job' # job => Respected)
<1>1. CASE UNCHANGED vars
  BY <1>1 DEF vars, history, Foreign, is_managed, in, here, Clear, Named, named
<1>2. CASE Next
  <2>1. CASE \/ \E n \in Names, resource \in Resources : Accept(n, resource)
             \/ start \/ (\E n \in Names, what \in {"create", "delete"} : LocalCheck(n, what)) \/ LocalCreate \/ LocalDelete
             \/ Unlink \/ Elapse \/ Restart
    <3>1. account' = account => Respected
      BY DEF Respected, kept
    <3> QED BY <2>1, <3>1, OthersForeign, Zenon
  <2> QED BY <1>2, <2>1, NextGroups, ResourceForeign, CallsForeign, TailForeign, Zenon
<1> QED BY <1>1, <1>2

\* An apply never changes an account that the panel or a person made, but for the adoption of one that the central
\* imported: for any number of names, whatever calls fail or answer late, wherever the node restarts and whatever the
\* panel writes meanwhile. The exceptions are the names of crossed: the ones that an apply recorded as its own while it
\* could not read the inventory, and the ones written behind an apply's back.
THEOREM OthersAccountsAreKept == Spec => ForeignUntouched
<1> DEFINE P == job' # job => Respected
<1>1. Init => Foreign /\ Unguarded
  BY IdleType DEF Init, Foreign, Unguarded, in, NoAccount, Deciding, Calls, Clear
<1>2. TypeInv /\ Owned /\ Unguarded /\ Foreign /\ [Next]_vars => Foreign' /\ Unguarded'
  BY ForeignStep, UnguardedStep
<1>3. TypeInv /\ Owned /\ Unguarded /\ Foreign /\ [Next]_vars => P
  BY ForeignStep
<1>4. ForeignUntouched <=> [][P]_vars
  BY DEF ForeignUntouched, Respected
<1> HIDE DEF P
<1> QED BY <1>1, <1>2, <1>3, <1>4, TypeInit, OwnedInit, TypeStep, OwnedStep, PTL DEF Spec

---------------------------------------------------------------------------
(* The order of the credentials *)

\* A credential carries its version, and the one of no resource is older than any other.
LEMMA CredentialFacts ==
  /\ \A d \in AnyResource : d.version \in Nat /\ credential(d)[2] = d.version /\ older(Null, d) /\ older(credential(d), d)
                            /\ (d.want # "none" => credential(d) # Null)
  /\ \A c \in Credentials \cup {Null} : c[2] \in Nat
<1>1. \A d \in AnyResource : d.version \in Nat /\ (d.want # "none" => d.ref \in Refs)
  BY BoundsAssumption DEF AnyResource, Resources, NoResource, Versions
<1>2. \A c \in Credentials \cup {Null} : c[2] \in Nat
  BY BoundsAssumption DEF Credentials, Versions, Null
<1>3. ASSUME NEW d \in AnyResource PROVE credential(d)[2] = d.version /\ older(credential(d), d)
  BY DEF credential, older
<1>4. ASSUME NEW d \in AnyResource, d.want # "none" PROVE credential(d) # Null
  BY <1>1, <1>4, ReferencesAssumption DEF credential, Null
<1>5. ASSUME NEW d \in AnyResource PROVE older(Null, d)
  <2>1. CASE d = NoResource
    BY <2>1 DEF older, Null, NoResource, credential
  <2>2. CASE d # NoResource
    <3>1. d.version \in Nat /\ d.version # 0
      BY <2>2, BoundsAssumption DEF AnyResource, Resources, Versions
    <3> QED BY <3>1 DEF older, Null
  <2> QED BY <2>1, <2>2
<1> QED BY <1>1, <1>2, <1>3, <1>4, <1>5

\* Older is an order.
LEMMA OlderStill ==
  ASSUME NEW c \in Credentials \cup {Null}, NEW d \in AnyResource, NEW e \in AnyResource, older(c, d), older(credential(d), e)
  PROVE  older(c, e) /\ d.version <= e.version
<1>1. c[2] \in Nat /\ d.version \in Nat /\ e.version \in Nat /\ credential(d)[2] = d.version /\ credential(e)[2] = e.version
  BY CredentialFacts
<1> QED BY <1>1 DEF older

\* The central names the credentials of a name in their order.
LEMMA FollowsInOrder ==
  ASSUME NEW old \in AnyResource, NEW new \in Resources, NEW row, follows(old, new, row)
  PROVE  older(credential(old), new)
<1>1. new.version \in Nat /\ old.version \in Nat
  BY CredentialFacts DEF AnyResource
<1>2. \/ new.ref = old.ref /\ new.version \in {old.version, old.version + 1}
      \/ new.version = old.version + 1
      \/ new = [old EXCEPT !.want = "none"]
  <2>1. old.want \in {"none", "enabled", "disabled", "deleted"}
    BY DEF AnyResource, Resources, NoResource
  <2> QED BY <2>1 DEF follows
<1>3. new = [old EXCEPT !.want = "none"] => new.ref = old.ref /\ new.version = old.version
  BY DEF AnyResource, Resources, NoResource
<1> QED BY <1>1, <1>2, <1>3 DEF older, credential

\* The values that the order is about.
LEMMA OrderedValues ==
  ASSUME TypeInv
  PROVE  \A n \in Names : /\ latest.doc[n] \in AnyResource /\ job.doc[n] \in AnyResource
                          /\ rows[n].cred \in Credentials \cup {Null} /\ job.known[n].cred \in Credentials \cup {Null}
<1>1. latest.doc \in Docs
  BY Parts DEF LatestSet
<1>2. latest.doc \in [Names -> AnyResource]
  BY <1>1 DEF Docs, AnyResource
<1> QED BY <1>2, Parts, ValueFacts

\* A step of an apply that gives rows the credentials of the document, or none, keeps the order.
LEMMA NumberedKept ==
  ASSUME TypeInv, Numbered, job.pc # "idle", job'.doc = job.doc, latest'.doc = latest.doc,
         \A n \in Names : rows'[n].cred \in {rows[n].cred, credential(job.doc[n]), Null},
         \A n \in Names : job'.known[n].cred \in {job.known[n].cred, credential(job.doc[n])}
  PROVE  Numbered'
<1> SUFFICES ASSUME NEW n \in Names
             PROVE  /\ older(rows'[n].cred, latest.doc[n])
                    /\ older(rows'[n].cred, job.doc[n]) /\ older(job'.known[n].cred, job.doc[n])
                    /\ older(credential(job.doc[n]), latest.doc[n])
  BY DEF Numbered, older
<1>1. latest.doc[n] \in AnyResource /\ job.doc[n] \in AnyResource
  BY OrderedValues
<1>2. /\ older(rows[n].cred, latest.doc[n]) /\ older(rows[n].cred, job.doc[n]) /\ older(job.known[n].cred, job.doc[n])
      /\ older(credential(job.doc[n]), latest.doc[n])
  BY DEF Numbered
<1>3. older(Null, latest.doc[n]) /\ older(Null, job.doc[n]) /\ older(credential(job.doc[n]), job.doc[n])
  BY <1>1, CredentialFacts
<1> QED BY <1>2, <1>3

\* The order of the credentials is kept.
LEMMA NumberedStep ==
  ASSUME TypeInv, Numbered, [Next]_vars
  PROVE  Numbered'
<1>0. NoRow.cred = Null /\ Idle.pc = "idle"
  BY IdleType DEF NoRow
<1>a. ASSUME job'.pc = "idle", UNCHANGED rows, latest'.doc = latest.doc PROVE Numbered'
  BY <1>a DEF Numbered, older
<1>b. ASSUME UNCHANGED <<rows, job, latest>> PROVE Numbered'
  BY <1>b DEF Numbered, older
<1>1. CASE Discover \/ Collision \/ Withdraw \/ Keep \/ Switched \/ DetailFails \/ Create \/ Rotate \/ Delete \/ Switch
  <2>1. job.pc # "idle" /\ UNCHANGED <<latest, rows>> /\ job'.doc = job.doc /\ job'.known = job.known
    BY <1>1, DiscoverDoes, CollisionDoes, WithdrawDoes, KeepDoes, SwitchedDoes, DetailFailsDoes, CreateDoes, RotateDoes,
       DeleteDoes, SwitchDoes DEF Called, JobKeeps, Calls
  <2> QED BY <2>1, NumberedKept
<1>2. CASE Adopt
  BY <1>2, AdoptDoes, NumberedKept DEF JobKeeps, Elsewhere, resource_here
<1>3. CASE Placeholder
  BY <1>3, PlaceholderDoes, NumberedKept DEF JobKeeps, Elsewhere
<1>4. CASE Record
  BY <1>4, RecordDoes, NumberedKept DEF JobKeeps, Elsewhere, resource_here
<1>5. CASE Fail
  BY <1>5, FailDoes, NumberedKept DEF JobKeeps, Elsewhere
<1>6. CASE Readback \/ ReadbackFails
  BY <1>6, ReadbackDoes, NumberedKept DEF JobKeeps
<1>7. CASE OrphanDelete
  BY <1>7, OrphanDeleteDoes, NumberedKept DEF JobKeeps
<1>8. CASE OrphanForget
  <2>1. \A n \in Names : rows'[n].cred \in {rows[n].cred, Null}
    BY <1>0, <1>8, OrphanForgetDoes DEF Elsewhere
  <2>2. job.pc # "idle" /\ job'.doc = job.doc /\ job'.known = job.known /\ latest' = latest
    BY <1>8, OrphanForgetDoes DEF JobKeeps
  <2> QED BY <2>1, <2>2, NumberedKept
<1>9. CASE Lanes \/ Relay \/ Egress
  <2>1. \A n \in Names : rows'[n].cred \in {rows[n].cred, credential(job.doc[n])}
    BY <1>9, SectionsDo
  <2>2. job.pc # "idle" /\ job'.doc = job.doc /\ job'.known = job.known /\ latest' = latest
    BY <1>9, SectionsDo DEF JobKeeps
  <2> QED BY <2>1, <2>2, NumberedKept
<1>10. CASE Finish
  <2>1. latest'.doc = latest.doc
    BY <1>10, Parts DEF Finish, LatestSet
  <2> QED BY <1>0, <1>10, <1>a, <2>1 DEF Finish
<1>11. ASSUME NEW n \in Names, NEW resource \in Resources, Accept(n, resource) PROVE Numbered'
  <2>1. /\ UNCHANGED <<rows, job>> /\ latest'.doc = [latest.doc EXCEPT ![n] = resource] /\ follows(latest.doc[n], resource, rows[n])
    BY <1>11 DEF Accept
  <2>2. resource \in AnyResource /\ latest.doc[n] \in AnyResource /\ older(credential(latest.doc[n]), resource)
    BY <2>1, OrderedValues, FollowsInOrder DEF AnyResource
  <2>3. \A m \in Names : latest'.doc[m] = IF m = n THEN resource ELSE latest.doc[m]
    BY <2>1, Parts DEF LatestSet, Docs
  <2>4. older(rows[n].cred, resource)
    BY <2>2, OrderedValues, OlderStill DEF Numbered
  <2>5. job.pc # "idle" => older(credential(job.doc[n]), resource)
    <3>1. job.pc # "idle" => older(credential(job.doc[n]), latest.doc[n])
      BY DEF Numbered
    <3>2. credential(job.doc[n]) \in Credentials \cup {Null}
      <4>1. job.doc[n] \in AnyResource
        BY OrderedValues
      <4> QED BY <4>1 DEF AnyResource, Resources, NoResource, credential, Credentials, Null
    <3> QED BY <2>2, <3>1, <3>2, OlderStill
  <2>6. /\ \A m \in Names : older(rows[m].cred, latest'.doc[m])
        /\ job.pc # "idle" => \A m \in Names : older(credential(job.doc[m]), latest'.doc[m])
    BY <2>3, <2>4, <2>5 DEF Numbered
  <2> QED BY <2>1, <2>6 DEF Numbered, older
<1>12. CASE start
  <2> DEFINE store == [n \in Names |-> IF n \in stale THEN NoRow ELSE rows[n]]
  <2>1. /\ rows' = store /\ latest' = [latest EXCEPT !.state = "applying"]
        /\ job' = [Idle EXCEPT !.pc = "discover", !.generation = latest.generation, !.doc = latest.doc, !.known = store]
    BY <1>12 DEF start
  <2>2. \A n \in Names : store[n].cred \in {rows[n].cred, Null}
    BY <1>0
  <2> HIDE DEF store
  <2>3. job'.known = store /\ job'.doc = latest.doc /\ latest'.doc = latest.doc
    BY <2>1, IdleType, Parts DEF JobSet, LatestSet
  <2>4. \A n \in Names : older(Null, latest.doc[n]) /\ older(credential(latest.doc[n]), latest.doc[n])
    BY OrderedValues, CredentialFacts
  <2>5. \A n \in Names : older(store[n].cred, latest.doc[n])
    BY <2>2, <2>4 DEF Numbered
  <2> QED BY <2>1, <2>3, <2>4, <2>5 DEF Numbered, older
<1>13. CASE (\E n \in Names, what \in {"create", "delete"} : LocalCheck(n, what)) \/ LocalCreate \/ LocalDelete \/ Elapse
  BY <1>13, <1>b DEF LocalCheck, LocalCreate, LocalDelete, Elapse
<1>14. CASE Unlink
  <2>1. /\ job' = job /\ job.pc = "idle" /\ \A n \in Names : rows'[n] = NoRow /\ latest'.doc[n] = NoResource
    BY <1>14 DEF Unlink, Unlinked
  <2>2. older(Null, NoResource)
    BY CredentialFacts, ValueFacts
  <2> QED BY <1>0, <2>1, <2>2 DEF Numbered, older
<1>15. CASE Restart
  BY <1>0, <1>15, <1>a DEF Restart
<1>16. CASE UNCHANGED vars
  BY <1>16, <1>b DEF vars
<1>18. CASE DiscoverFails
  BY <1>18, DiscoverFailsDoes, NumberedKept DEF JobKeeps
<1>17. CASE Next
  BY <1>17, <1>1, <1>2, <1>3, <1>4, <1>5, <1>6, <1>7, <1>8, <1>9, <1>10, <1>11, <1>12, <1>13, <1>14, <1>15, <1>18, NextGroups, Zenon
<1> QED BY <1>16, <1>17

---------------------------------------------------------------------------
(* The credential of an account *)

\* What a step may do to one name, for its account to keep the credential that its row names.
Accredited(n) ==
  \/ /\ rows'[n].state \notin {"none", "missing"} => is_managed(n)
     /\ rows'[n].cred = rows[n].cred
     /\ account'[n] # NoAccount => account[n] # NoAccount /\ account'[n].cred = account[n].cred
  \/ rows'[n].state \in {"none", "missing"} \/ account'[n] = NoAccount \/ account'[n].cred = rows'[n].cred
  \/ rows'[n].cred[2] < job.doc[n].version

\* A step of an apply that does no more than that to any name.
LEMMA CreditedKept ==
  ASSUME TypeInv, Numbered, Credited, job.pc # "idle", job'.doc = job.doc, latest'.doc = latest.doc,
         crossed \subseteq crossed',
         rows' \in [Names -> AnyRow], AcceptsCaller => \A n \in Names \ crossed' : Accredited(n)
  PROVE  Credited'
<1> SUFFICES ASSUME AcceptsCaller, NEW n \in Names, n \notin crossed', n \notin crossed,
                    is_managed(n)', rows'[n].cred # Null, account'[n] # NoAccount, account'[n].cred # rows'[n].cred
             PROVE  rows'[n].cred[2] < latest.doc[n].version /\ rows'[n].cred[2] < job.doc[n].version
  BY DEF Credited, Clear
<1>1. Accredited(n)
  OBVIOUS
<1>2. /\ latest.doc[n] \in AnyResource /\ job.doc[n] \in AnyResource
      /\ latest.doc[n].version \in Nat /\ job.doc[n].version \in Nat /\ rows'[n].cred[2] \in Nat
  BY OrderedValues, CredentialFacts, ValueFacts
<1>3. job.doc[n].version <= latest.doc[n].version
  BY <1>2, CredentialFacts, OlderStill DEF Numbered, older
<1>4. CASE rows'[n].cred[2] < job.doc[n].version
  BY <1>2, <1>3, <1>4
<1>5. CASE is_managed(n) /\ rows'[n].cred = rows[n].cred /\ account[n] # NoAccount /\ account'[n].cred = account[n].cred
  BY <1>5 DEF Credited, Clear
<1> QED BY <1>1, <1>4, <1>5 DEF Accredited, is_managed

\* The credentials of the accounts are kept.
LEMMA CreditedStep ==
  ASSUME TypeInv, TypeInv', Owned, Unguarded, Foreign, Numbered, Credited, Unread, Working, Behind, [Next]_vars
  PROVE  Credited'
<1>0. /\ NoRow.state = "none" /\ Idle.pc = "idle" /\ rows' \in [Names -> AnyRow]
      /\ \A n \in Names : account[n] # NoAccount => account[n] \in Accounts
  <2>1. rows' \in [Names -> AnyRow]
    BY DEF TypeInv, Typed, AnyRow
  <2> QED BY <2>1, Parts, ValueFacts, IdleType DEF NoRow
<1>a. ASSUME NEW n \in Names, rows'[n] = rows[n], account'[n] = account[n] PROVE Accredited(n)
  BY <1>a DEF Accredited, is_managed
<1>b. ASSUME job'.pc = "idle", UNCHANGED <<rows, account, crossed>>, latest'.doc = latest.doc PROVE Credited'
  BY <1>b DEF Credited, is_managed, Clear
<1>1. CASE Discover \/ Collision \/ Withdraw \/ Switched \/ DetailFails
  <2>1. job.pc # "idle" /\ UNCHANGED <<latest, rows, account, crossed>> /\ job'.doc = job.doc
    BY <1>1, DiscoverDoes, CollisionDoes, WithdrawDoes, SwitchedDoes, DetailFailsDoes DEF JobKeeps
  <2> QED BY <1>0, <1>a, <2>1, CreditedKept
<1>2. CASE Adopt
  <2>1. here \in Names /\ Elsewhere /\ job.pc # "idle" /\ job'.doc = job.doc /\ latest' = latest /\ crossed' = crossed
    BY <1>2, AdoptDoes DEF JobKeeps
  <2>2. Accredited(here)
    BY <1>0, <1>2, AdoptDoes DEF Accredited, Accounts
  <2> QED BY <1>0, <1>a, <2>1, <2>2, CreditedKept DEF Elsewhere
<1>3. CASE Placeholder
  <2>1. here \in Names /\ here \in Named /\ in("resource") /\ Elsewhere /\ job.pc # "idle" /\ job'.doc = job.doc /\ latest' = latest /\ crossed' = crossed
    BY <1>3, PlaceholderDoes DEF JobKeeps, in
  <2>2. here \notin crossed => account[here] = NoAccount
    BY <1>3, <2>1, PlaceholderDoes, NamesAreNumbers DEF Unread, Ahead, item
  <2>3. here \notin crossed => Accredited(here)
    BY <1>3, <2>2, PlaceholderDoes DEF Accredited
  <2> QED BY <1>0, <1>a, <2>1, <2>3, CreditedKept DEF Elsewhere
<1>4. CASE Keep
  <2>1. here \in Names /\ Elsewhere /\ job.pc # "idle" /\ job'.doc = job.doc /\ latest' = latest /\ crossed' = crossed /\ rows' = rows
    BY <1>4, KeepDoes DEF JobKeeps
  <2>2. AcceptsCaller => account'[here] = account[here]
    BY <1>4, KeepDoes
  <2> QED BY <1>0, <1>a, <2>1, <2>2, CreditedKept DEF Elsewhere
<1>5. CASE Create \/ Rotate \/ Delete \/ Switch
  <2>1. here \in Names /\ Elsewhere /\ job.pc # "idle" /\ job'.doc = job.doc /\ latest' = latest /\ crossed' = crossed /\ rows' = rows
    BY <1>5, CreateDoes, RotateDoes, DeleteDoes, SwitchDoes DEF Called, JobKeeps, Calls
  <2>2. rows[here].cred = credential(resource_here) \/ rows[here].cred[2] < job.doc[here].version
    BY <2>1 DEF Numbered, older, resource_here
  <2>3. \/ account'[here] = NoAccount \/ account'[here].cred = credential(resource_here)
        \/ account[here] # NoAccount /\ account'[here].cred = account[here].cred
    <3>1. CASE Create
      <4>1. made.cred = credential(resource_here)
        BY DEF made
      <4> QED BY <3>1, <4>1, CreateDoes
    <3>2. CASE Rotate
      BY <1>0, <2>1, <3>2, RotateDoes DEF Accounts
    <3>3. CASE Delete
      BY <3>3, DeleteDoes
    <3>4. CASE Switch
      BY <1>0, <2>1, <3>4, SwitchDoes DEF Accounts
    <3> QED BY <1>5, <3>1, <3>2, <3>3, <3>4
  <2>4. Accredited(here)
    BY <2>1, <2>2, <2>3 DEF Accredited, is_managed
  <2> QED BY <1>0, <1>a, <2>1, <2>4, CreditedKept DEF Elsewhere
<1>6. CASE Record
  <2>1. here \in Names /\ here \in Named /\ Elsewhere /\ in("record") /\ job.pc # "idle" /\ job'.doc = job.doc /\ latest' = latest /\ crossed' = crossed /\ account' = account
    BY <1>6, RecordDoes DEF JobKeeps, in
  <2>2. ASSUME here \notin crossed PROVE Accredited(here)
    <3>1. CASE resource_here.want = "deleted"
      BY <1>6, <3>1, RecordDoes DEF Accredited, is_managed
    <3>2. CASE resource_here.want # "deleted"
      <4>1. account[here].cred = credential(resource_here)
        BY <2>1, <2>2, <3>2 DEF Working, Applied, Fits, Named, named, resource_here
      <4> QED BY <1>6, <2>1, <4>1, RecordDoes DEF Accredited
    <3> QED BY <3>1, <3>2
  <2> QED BY <1>0, <1>a, <2>1, <2>2, CreditedKept DEF Elsewhere
<1>7. CASE Fail
  <2>1. here \in Names /\ Elsewhere /\ job.pc # "idle" /\ job'.doc = job.doc /\ latest' = latest /\ crossed' = crossed /\ account' = account
    BY <1>7, FailDoes DEF JobKeeps
  <2>2. here \notin crossed => is_managed(here)
    BY <1>7, FailDoes DEF Working, Calls
  <2>3. here \notin crossed => Accredited(here)
    BY <1>7, <2>1, <2>2, FailDoes DEF Accredited
  <2> QED BY <1>0, <1>a, <2>1, <2>3, CreditedKept DEF Elsewhere
<1>8. CASE Readback \/ ReadbackFails
  <2>1. job.pc # "idle" /\ job'.doc = job.doc /\ latest' = latest /\ crossed' = crossed /\ account' = account
    BY <1>8, ReadbackDoes DEF JobKeeps
  <2>2. ASSUME NEW n \in Names, n \notin crossed PROVE Accredited(n)
    <3>1. CASE rows'[n] = rows[n]
      BY <1>a, <2>1, <3>1
    <3>2. CASE rows'[n] # rows[n]
      <4>1. n \in job.applied /\ rows'[n].cred = rows[n].cred
        BY <1>8, <3>2, ReadbackDoes
      <4>2. job.doc[n].want = "deleted" => account[n] = NoAccount
        BY <1>0, <2>2, <4>1 DEF Foreign, Accounts
      <4>3. job.doc[n].want # "deleted" => is_managed(n)
        BY <4>1 DEF Working
      <4> QED BY <2>1, <4>1, <4>2, <4>3 DEF Accredited
    <3> QED BY <3>1, <3>2
  <2> QED BY <1>0, <2>1, <2>2, CreditedKept
<1>9. CASE OrphanDelete
  <2>1. here \in Names /\ Elsewhere /\ job.pc # "idle" /\ job'.doc = job.doc /\ latest' = latest /\ crossed' = crossed /\ rows' = rows
    BY <1>9, OrphanDeleteDoes DEF JobKeeps
  <2>2. account'[here] = account[here] \/ account'[here] = NoAccount
    BY <1>9, OrphanDeleteDoes
  <2>3. Accredited(here)
    BY <2>1, <2>2 DEF Accredited, is_managed
  <2> QED BY <1>0, <1>a, <2>1, <2>3, CreditedKept DEF Elsewhere
<1>10. CASE OrphanForget
  <2>1. here \in Names /\ Elsewhere /\ job.pc # "idle" /\ job'.doc = job.doc /\ latest' = latest /\ crossed' = crossed /\ account' = account /\ rows'[here] = NoRow
    BY <1>10, OrphanForgetDoes DEF JobKeeps
  <2>2. Accredited(here)
    BY <1>0, <2>1 DEF Accredited, is_managed
  <2> QED BY <1>0, <1>a, <2>1, <2>2, CreditedKept DEF Elsewhere
<1>11. CASE Lanes \/ Relay \/ Egress
  <2>1. job.pc # "idle" /\ job'.doc = job.doc /\ latest' = latest /\ crossed' = crossed /\ account' = account
    BY <1>11, SectionsDo DEF JobKeeps
  <2>2. ASSUME NEW n \in Names, n \notin crossed PROVE Accredited(n)
    <3>1. CASE rows'[n] = rows[n]
      BY <1>a, <2>1, <3>1
    <3>2. CASE rows'[n] # rows[n]
      <4>1. /\ job.pc \in Ending /\ named(n) /\ rows[n].state = "enabled" /\ rows'[n].cred = credential(job.doc[n])
        BY <1>11, <3>2, SectionsDo DEF Ending
      <4>2. rows[n].cred = credential(job.doc[n])
        BY <2>2, <4>1 DEF Behind, Passed, Clear
      <4> QED BY <2>1, <4>1, <4>2 DEF Accredited, is_managed
    <3> QED BY <3>1, <3>2
  <2> QED BY <1>0, <2>1, <2>2, CreditedKept
<1>12. CASE Finish
  <2>1. latest'.doc = latest.doc
    BY <1>12, Parts DEF Finish, LatestSet
  <2> QED BY <1>0, <1>12, <1>b, <2>1 DEF Finish, history
<1>13. ASSUME NEW n \in Names, NEW resource \in Resources, Accept(n, resource) PROVE Credited'
  <2>1. /\ UNCHANGED <<rows, job, account, crossed>> /\ latest'.doc = [latest.doc EXCEPT ![n] = resource] /\ follows(latest.doc[n], resource, rows[n])
    BY <1>13 DEF Accept, history
  <2>2. resource \in AnyResource /\ latest.doc[n] \in AnyResource /\ older(credential(latest.doc[n]), resource)
    BY <2>1, OrderedValues, FollowsInOrder DEF AnyResource
  <2>3. \A m \in Names : latest'.doc[m] = IF m = n THEN resource ELSE latest.doc[m]
    BY <2>1, Parts DEF LatestSet, Docs
  <2>4. resource.version \in Nat /\ latest.doc[n].version \in Nat /\ latest.doc[n].version <= resource.version
    BY <2>2, CredentialFacts DEF older
  <2>5. \A m \in Names : rows[m].cred[2] \in Nat
    BY OrderedValues, CredentialFacts
  <2>6. \A m \in Names : rows[m].cred[2] < latest.doc[m].version => rows[m].cred[2] < latest'.doc[m].version
    BY <2>3, <2>4, <2>5
  <2> QED BY <2>1, <2>6 DEF Credited, is_managed, Clear
<1>14. CASE start
  <2> DEFINE store == [n \in Names |-> IF n \in stale THEN NoRow ELSE rows[n]]
  <2>1. /\ rows' = store /\ latest' = [latest EXCEPT !.state = "applying"] /\ account' = account /\ crossed' = crossed
        /\ job' = [Idle EXCEPT !.pc = "discover", !.generation = latest.generation, !.doc = latest.doc, !.known = store]
    BY <1>14 DEF start, history
  <2>2. \A n \in Names : store[n] \in {rows[n], NoRow}
    OBVIOUS
  <2> HIDE DEF store
  <2>3. job'.doc = latest.doc /\ latest'.doc = latest.doc
    BY <2>1, IdleType, Parts DEF JobSet, LatestSet
  <2> QED BY <1>0, <2>1, <2>2, <2>3 DEF Credited, is_managed, Clear
<1>15. CASE LocalCreate \/ LocalDelete
  <2>1. /\ UNCHANGED <<rows, job, latest>> /\ crossed \subseteq crossed'
        /\ \A n \in Names \ crossed' : account'[n] = account[n] \/ ~is_managed(n)
    BY <1>15, WriteSpares
  <2> QED BY <2>1 DEF Credited, is_managed, Clear
<1>16. CASE (\E n \in Names, what \in {"create", "delete"} : LocalCheck(n, what)) \/ Elapse \/ UNCHANGED vars
  <2>1. UNCHANGED <<rows, job, latest, account, crossed>>
    BY <1>16 DEF LocalCheck, Elapse, vars, history
  <2> QED BY <2>1 DEF Credited, is_managed, Clear
<1>17. CASE Unlink
  <2>1. \A n \in Names : rows'[n] = NoRow
    BY <1>17 DEF Unlink
  <2> QED BY <1>0, <2>1 DEF Credited, is_managed, Clear
<1>18. CASE Restart
  BY <1>0, <1>18, <1>b DEF Restart, history
<1>20. CASE DiscoverFails
  <2>1. job.pc # "idle" /\ job'.doc = job.doc /\ latest' = latest /\ account' = account /\ crossed \subseteq crossed'
    BY <1>20, DiscoverFailsDoes DEF JobKeeps
  <2>2. ASSUME NEW n \in Names, n \notin crossed' PROVE Accredited(n)
    <3>1. CASE rows'[n] = rows[n]
      BY <1>a, <2>1, <3>1
    <3>2. CASE rows'[n] # rows[n]
      <4>1. rows'[n].cred = rows[n].cred /\ account[n].owner # "local"
        BY <1>20, <2>2, <3>2, DiscoverFailsDoes
      <4>2. ~is_managed(n) => account[n] = NoAccount
        BY <1>0, <4>1 DEF Owned, OwnedHasRow, Accounts
      <4> QED BY <2>1, <4>1, <4>2 DEF Accredited
    <3> QED BY <3>1, <3>2
  <2> QED BY <1>0, <2>1, <2>2, CreditedKept
<1>19. CASE Next
  BY <1>19, <1>1, <1>2, <1>3, <1>4, <1>5, <1>6, <1>7, <1>8, <1>9, <1>10, <1>11, <1>12, <1>13, <1>14, <1>15, <1>16, <1>17, <1>18, <1>20,
     NextGroups, Zenon
<1> QED BY <1>16, <1>19

---------------------------------------------------------------------------
(* What an apply has before it, at hand and behind it *)

\* The loop goes on, past the name it is at.
LEMMA AfterBeyond ==
  ASSUME NEW n \in Nat, n <= N, NEW chosen \in SUBSET Names
  PROVE  after(n, chosen) \in Nat /\ after(n, chosen) > n
<1> DEFINE left == {k \in chosen : k > n}
<1>0. N \in Nat /\ Names \subseteq Nat
  BY NamesAreNumbers
<1>1. CASE left = {}
  BY <1>0, <1>1 DEF after
<1>2. CASE left # {}
  <2>1. left \in SUBSET Nat
    BY <1>0
  <2>2. \E j \in left : \A k \in left : j <= k
    BY <1>2, <2>1, LeastNumber
  <2>3. after(n, chosen) \in left
    BY <1>2, <2>2 DEF after
  <2> QED BY <2>1, <2>3
<1> QED BY <1>1, <1>2

\* Where the loop over the document goes: every name of the document is done with or still to come.
LEMMA LoopGoesOn ==
  ASSUME TypeInv
  PROVE  /\ \A n \in Named : n \in Nat /\ 0 < n /\ n < N + 1
         /\ \A n \in Orphans : n \in Nat /\ 0 < n /\ n < N + 1
         /\ after(0, Named) \in Nat /\ \A n \in Named : ~(n < after(0, Named))
         /\ after(0, Orphans) \in Nat /\ \A n \in Orphans : ~(n < after(0, Orphans))
         /\ here \in Names =>
              /\ after(here, Named) \in Nat /\ \A n \in Named : (n < after(here, Named) => n <= here) /\ (n >= after(here, Named) => n > here)
              /\ after(here, Orphans) \in Nat /\ \A n \in Orphans : n < after(here, Orphans) => n <= here
<1>1. Named \in SUBSET Names /\ Orphans \in SUBSET Names /\ N \in Nat /\ Names \subseteq Nat
  BY NamesAreNumbers DEF Named, Orphans
<1>2. \A n \in Names : n \in Nat /\ 0 < n /\ n <= N
  BY <1>1 DEF Names
<1>3. after(0, Named) \in Nat /\ after(0, Orphans) \in Nat
  BY <1>1, AfterBeyond
<1>4. /\ \A n \in Named : ~(n < after(0, Named))
      /\ \A n \in Orphans : ~(n < after(0, Orphans))
  BY <1>1, <1>2, <1>3, AfterSkips
<1>5. ASSUME here \in Names
      PROVE  /\ after(here, Named) \in Nat /\ \A n \in Named : (n < after(here, Named) => n <= here) /\ (n >= after(here, Named) => n > here)
             /\ after(here, Orphans) \in Nat /\ \A n \in Orphans : n < after(here, Orphans) => n <= here
  <2>1. here \in Nat /\ here <= N
    BY <1>2, <1>5
  <2>2. after(here, Named) \in Nat /\ after(here, Named) > here /\ after(here, Orphans) \in Nat
    BY <1>1, <2>1, AfterBeyond
  <2>3. /\ \A n \in Named : n > here => n >= after(here, Named)
        /\ \A n \in Orphans : n > here => n >= after(here, Orphans)
    BY <1>1, <2>1, AfterSkips
  <2> QED BY <1>1, <1>2, <2>1, <2>2, <2>3
<1> QED BY <1>1, <1>2, <1>3, <1>4, <1>5

\* What an apply has not reached stays as it was read.
LEMMA UnreadStep ==
  ASSUME TypeInv, Unguarded, Unread, [Next]_vars
  PROVE  Unread'
<1>0. /\ job \in JobSet /\ Shape /\ NoAccount.owner = "none"
      /\ \A n \in Names : account[n] # NoAccount => account[n] \in Accounts
      /\ Named \subseteq Names /\ Names \subseteq Nat
  BY Parts, ValueFacts, LoopFacts, NamesAreNumbers DEF NoAccount
<1>a. ASSUME job'.pc \notin Calls \cup {"resource"} PROVE Unread'
  BY <1>a DEF Unread, Ahead, in
<1>b. ASSUME UNCHANGED <<rows, account, job, crossed>> PROVE Unread'
  BY <1>b DEF Unread, Ahead, in, here, Named, named
<1>c. ASSUME job'.doc = job.doc, crossed \subseteq crossed',
             \A n \in Named \ crossed' : (job'.pc = "resource" /\ n >= job'.at) \/ (job'.pc \in Calls /\ n > job'.at) =>
               /\ rows'[n] = job'.known[n]
               /\ job'.seen[n].owner # "none" <=> account'[n] # NoAccount
               /\ account'[n].enabled = job'.seen[n].enabled
      PROVE  Unread'
  BY <1>c DEF Unread, Ahead, in, here, Named, named
<1>d. ASSUME job.pc \in Calls \cup {"resource"}, job'.doc = job.doc, crossed' = crossed, Elsewhere, here \in Names, here \in Nat,
             \A n \in Names \ {here} : job'.known[n] = job.known[n] /\ job'.seen[n] = job.seen[n],
             (job'.pc \in Calls /\ job'.at = here) \/ (job'.pc = "resource" /\ job'.at = after(here, Named))
      PROVE  Unread'
  <2>1. \A n \in Named : (job'.pc = "resource" /\ n >= job'.at) \/ (job'.pc \in Calls /\ n > job'.at) => n > here
    BY <1>d, LoopGoesOn DEF Calls
  <2>2. \A n \in Named : n > here => n \in Names \ {here} /\ n >= here
    BY <1>d, LoopGoesOn DEF Named
  <2>3. \A n \in Named : n > here => Ahead(n)
    BY <1>d, <2>2 DEF Ahead, in
  <2>4. \A n \in Named \ crossed : n > here =>
          /\ rows'[n] = job'.known[n]
          /\ job'.seen[n].owner # "none" <=> account'[n] # NoAccount
          /\ account'[n].enabled = job'.seen[n].enabled
    <3> SUFFICES ASSUME NEW n \in Named, n \notin crossed, n > here
                 PROVE  /\ rows'[n] = job'.known[n]
                        /\ job'.seen[n].owner # "none" <=> account'[n] # NoAccount
                        /\ account'[n].enabled = job'.seen[n].enabled
      OBVIOUS
    <3>1. rows'[n] = rows[n] /\ account'[n] = account[n] /\ job'.known[n] = job.known[n] /\ job'.seen[n] = job.seen[n]
      BY <1>d, <2>2 DEF Elsewhere
    <3> QED BY <2>3, <3>1 DEF Unread
  <2> QED BY <1>c, <1>d, <2>1, <2>4
<1>1. CASE Discover
  <2>1. /\ job'.doc = job.doc /\ rows' = job'.known /\ job'.seen = account /\ account' = account /\ crossed' = crossed
    BY <1>0, <1>1, DiscoverDoes DEF JobKeeps, Shape, in
  <2>2. \A n \in Names : account[n].owner # "none" <=> account[n] # NoAccount
    BY <1>0 DEF Accounts
  <2> QED BY <1>0, <1>c, <2>1, <2>2
<1>2. CASE Adopt
  <2>1. /\ here \in Named /\ here \in Names /\ in("resource") /\ job'.pc = "resource" /\ job'.at = here /\ job'.doc = job.doc /\ job'.seen = job.seen
        /\ job'.known[here] = rows'[here] /\ Elsewhere /\ item /\ crossed' = crossed
        /\ \A n \in Names \ {here} : job'.known[n] = job.known[n]
    BY <1>2, AdoptDoes DEF JobKeeps, in
  <2>2. ASSUME here \notin crossed PROVE account[here] # NoAccount /\ account[here].enabled = job.seen[here].enabled
    <3>1. here \in Nat /\ here >= here
      BY <2>1, LoopGoesOn
    <3> QED BY <2>1, <2>2, <3>1 DEF Unread, Ahead, item
  <2>3. here \notin crossed => account'[here] = [account[here] EXCEPT !.owner = "central", !.cred = credential(resource_here)]
    BY <1>2, <2>2, AdoptDoes
  <2>4. here \notin crossed => account'[here].owner = "central" /\ account'[here].enabled = account[here].enabled
    BY <1>0, <2>1, <2>2, <2>3 DEF Accounts
  <2>5. here \notin crossed => account'[here] # NoAccount
    BY <1>0, <2>4
  <2>6. \A n \in Named : n >= here => Ahead(n)
    BY <2>1 DEF Ahead
  <2>7. ASSUME NEW n \in Named, n \notin crossed, n >= here
        PROVE  /\ rows'[n] = job'.known[n]
               /\ job'.seen[n].owner # "none" <=> account'[n] # NoAccount
               /\ account'[n].enabled = job'.seen[n].enabled
    <3>1. CASE n = here
      BY <2>1, <2>2, <2>4, <2>5, <2>7, <3>1 DEF item
    <3>2. CASE n # here
      <4>1. n \in Names \ {here}
        BY <1>0, <3>2
      <4>2. rows'[n] = rows[n] /\ account'[n] = account[n] /\ job'.known[n] = job.known[n] /\ job'.seen[n] = job.seen[n]
        BY <2>1, <4>1 DEF Elsewhere
      <4> QED BY <2>6, <2>7, <4>2 DEF Unread
    <3> QED BY <3>1, <3>2
  <2>8. job'.pc \notin Calls
    BY <2>1 DEF Calls
  <2> QED BY <1>c, <2>1, <2>7, <2>8
<1>3. CASE Collision
  <2>1. here \in Names /\ here \in Nat /\ Elsewhere
    BY <1>0, <1>3, CollisionDoes DEF Elsewhere
  <2> QED BY <1>3, <1>d, <2>1, CollisionDoes DEF JobKeeps, Calls
<1>4. CASE Withdraw
  <2>1. here \in Names /\ here \in Nat /\ Elsewhere
    BY <1>0, <1>4, WithdrawDoes DEF Elsewhere
  <2> QED BY <1>4, <1>d, <2>1, WithdrawDoes DEF JobKeeps, Calls
<1>5. CASE Placeholder
  <2>1. here \in Names /\ here \in Nat
    BY <1>0, <1>5, PlaceholderDoes
  <2> QED BY <1>5, <1>d, <2>1, PlaceholderDoes DEF JobKeeps, Calls
<1>6. CASE Keep
  <2>1. here \in Names /\ here \in Nat /\ job'.pc \in {"rotate", "switch"}
    BY <1>0, <1>6, KeepDoes
  <2> QED BY <1>6, <1>d, <2>1, KeepDoes DEF JobKeeps, Calls
<1>7. CASE Switched \/ DetailFails
  <2>1. here \in Names /\ here \in Nat /\ Elsewhere
    BY <1>0, <1>7, SwitchedDoes, DetailFailsDoes DEF Elsewhere
  <2> QED BY <1>7, <1>d, <2>1, SwitchedDoes, DetailFailsDoes DEF JobKeeps, Calls
<1>8. CASE Create \/ Rotate \/ Delete \/ Switch
  <2>1. Called /\ job'.pc \in {"switch", "record", "fail"}
    BY <1>8, CreateDoes, RotateDoes, DeleteDoes, SwitchDoes
  <2>2. here \in Names /\ here \in Nat
    BY <1>0, <2>1 DEF Called
  <2> QED BY <1>d, <2>1, <2>2 DEF Called, JobKeeps, Calls
<1>9. CASE Record
  <2>1. here \in Names /\ here \in Nat
    BY <1>0, <1>9, RecordDoes
  <2> QED BY <1>9, <1>d, <2>1, RecordDoes DEF JobKeeps, Calls
<1>10. CASE Fail
  <2>1. here \in Names /\ here \in Nat
    BY <1>0, <1>10, FailDoes
  <2> QED BY <1>10, <1>d, <2>1, FailDoes DEF JobKeeps, Calls
<1>11. CASE DiscoverFails \/ Readback \/ ReadbackFails \/ OrphanDelete \/ OrphanForget
  BY <1>11, <1>a, DiscoverFailsDoes, ReadbackDoes, OrphanDeleteDoes, OrphanForgetDoes DEF Calls
<1>12. CASE Lanes \/ Relay \/ Egress
  <2>1. job'.pc \in {"relay", "egress", "finish"}
    BY <1>0, <1>12 DEF Lanes, Relay, Egress, goto, section_fails, JobSet
  <2> QED BY <1>a, <2>1 DEF Calls
<1>13. CASE Finish \/ Restart
  BY <1>13, <1>a, IdleType DEF Finish, Restart, Calls
<1>14. CASE start
  <2>1. job'.pc = "discover"
    BY <1>14, IdleType DEF start, JobSet
  <2> QED BY <1>a, <2>1 DEF Calls
<1>15. CASE \/ \E n \in Names, resource \in Resources : Accept(n, resource)
            \/ (\E n \in Names, what \in {"create", "delete"} : LocalCheck(n, what)) \/ Elapse \/ UNCHANGED vars
  BY <1>15, <1>b DEF Accept, LocalCheck, Elapse, vars, history
<1>16. CASE LocalCreate \/ LocalDelete
  <2>1. /\ UNCHANGED <<rows, job, latest>> /\ crossed \subseteq crossed'
        /\ \A n \in Names \ crossed' :
             account'[n] = account[n] \/ job.pc \in {"idle", "discover"} \/ (~named(n) /\ ~orphan(n))
    BY <1>16, WriteSpares
  <2>2. \A n \in Named \ crossed' : Ahead(n) => account'[n] = account[n]
    BY <1>0, <2>1 DEF Ahead, in, Calls, Named
  <2> QED BY <2>1, <2>2 DEF Unread, Ahead, in, here, Named, named
<1>18. CASE Unlink
  BY <1>18, <1>a DEF Unlink, Calls
<1>17. CASE Next
  BY <1>17, <1>1, <1>2, <1>3, <1>4, <1>5, <1>6, <1>7, <1>8, <1>9, <1>10, <1>11, <1>12, <1>13, <1>14, <1>15, <1>16,
     <1>18, NextGroups, Zenon
<1> QED BY <1>15, <1>17

\* A step that stays with the resource at hand.
LEMMA WorkingHere ==
  ASSUME job'.at = here, job'.doc = job.doc, crossed' = crossed, job'.pc = "delete" => resource_here.want = "deleted",
         here \notin crossed =>
           /\ job'.pc \in Calls \ {"record"} => rows'[here].state \notin {"none", "missing"}
           /\ job'.pc \in {"rotate", "switch"} => account'[here].enabled = job'.seen[here].enabled
           /\ job'.pc = "switch" => account'[here].owner = "central" /\ account'[here].cred = credential(resource_here)
           /\ job'.pc = "record" => Fits(account'[here], resource_here),
         \A n \in job'.applied : job.doc[n].want # "deleted" => rows'[n].state \notin {"none", "missing"}
  PROVE  Working'
BY DEF Working, is_managed, here, in, resource_here, Applied

\* A step that goes to none.
LEMMA WorkingNowhere ==
  ASSUME job'.pc \notin Calls, job'.doc = job.doc \/ job'.applied = {},
         \A n \in job'.applied : job.doc[n].want # "deleted" => rows'[n].state \notin {"none", "missing"}
  PROVE  Working'
BY DEF Working, is_managed, in, Calls

\* The resource at hand is brought to what the document says.
LEMMA WorkingStep ==
  ASSUME TypeInv, Unguarded, Foreign, Numbered, Credited, Unread, Working, [Next]_vars
  PROVE  Working'
<1>0. /\ job \in JobSet /\ Shape /\ NoAccount.owner = "none" /\ NoRow.state = "none"
      /\ Idle.pc = "idle" /\ Idle.applied = {}
      /\ \A n \in Names : account[n] # NoAccount => account[n] \in Accounts
      /\ Named \subseteq Names /\ job.applied \subseteq Named
  BY Parts, ValueFacts, LoopFacts, IdleType DEF NoAccount, NoRow, Shape
<1>a. \A n \in job.applied : job.doc[n].want # "deleted" => rows[n].state \notin {"none", "missing"}
  BY DEF Working, is_managed
<1>b. ASSUME in("resource"), here \in Named, here \notin crossed
      PROVE  /\ rows[here] = job.known[here] /\ (item <=> account[here] # NoAccount)
             /\ account[here].enabled = job.seen[here].enabled
  <2>1. here \in Nat /\ here >= here
    BY <1>b, LoopGoesOn
  <2> QED BY <1>b, <2>1 DEF Unread, Ahead, item
<1>1. CASE Discover
  BY <1>1, <1>a, DiscoverDoes, WorkingNowhere DEF Calls, JobKeeps
<1>2. CASE Collision
  BY <1>2, <1>a, CollisionDoes, WorkingNowhere DEF Calls, JobKeeps
<1>3. CASE Adopt
  <2>1. \A n \in job.applied : job.doc[n].want # "deleted" => rows'[n].state \notin {"none", "missing"}
    BY <1>0, <1>3, <1>a, AdoptDoes DEF Elsewhere
  <2> QED BY <1>3, <2>1, AdoptDoes, WorkingNowhere DEF Calls, JobKeeps
<1>4. CASE Withdraw
  <2>1. in("resource") /\ here \in Named /\ here \in Names /\ resource_here.want = "deleted" /\ UNCHANGED <<rows, account, crossed>>
        /\ job'.applied = job.applied /\ job'.at = here /\ job'.doc = job.doc
    BY <1>4, WithdrawDoes DEF in, JobKeeps
  <2>2. here \notin crossed /\ job'.pc = "delete" => rows[here].state \notin {"none", "missing"}
    BY <1>4, <1>b, <2>1, WithdrawDoes DEF stored
  <2>3. here \notin crossed /\ job'.pc = "record" => Fits(account[here], resource_here)
    BY <1>0, <1>4, <1>b, <2>1, WithdrawDoes DEF Fits
  <2>4. job'.pc \in {"delete", "record"}
    BY <1>4, WithdrawDoes
  <2> QED BY <1>a, <2>1, <2>2, <2>3, <2>4, WorkingHere
<1>5. CASE Placeholder
  <2>1. \A n \in job.applied : job.doc[n].want # "deleted" => rows'[n].state \notin {"none", "missing"}
    BY <1>0, <1>5, <1>a, PlaceholderDoes DEF Elsewhere
  <2> QED BY <1>5, <2>1, PlaceholderDoes, WorkingHere DEF JobKeeps
<1>6. CASE Keep
  <2>1. /\ in("resource") /\ here \in Named /\ here \in Names /\ resource_here.want \notin {"none", "deleted"} /\ item /\ stored
        /\ UNCHANGED <<rows, crossed>> /\ job'.applied = job.applied /\ job'.at = here /\ job'.doc = job.doc /\ job'.seen = job.seen
        /\ job'.pc = (IF rotates THEN "rotate" ELSE "switch")
    BY <1>6, KeepDoes DEF in, JobKeeps
  <2>2. ASSUME here \notin crossed
        PROVE  /\ rows[here] = job.known[here] /\ account[here] \in Accounts /\ account[here] # NoAccount
               /\ account[here].enabled = job.seen[here].enabled
    BY <1>0, <1>b, <2>1, <2>2
  <2>3. here \notin crossed => rows[here].state \notin {"none", "missing"} /\ is_managed(here)
    BY <2>1, <2>2 DEF stored, is_managed
  <2>4. here \notin crossed => account[here].owner = "central"
    BY <2>1, <2>2, <2>3 DEF Foreign, Accounts, Clear
  <2>5. here \notin crossed => account'[here].owner = "central" /\ account'[here].enabled = account[here].enabled
    BY <1>6, <2>2, <2>4, KeepDoes DEF Accounts
  <2>6. ASSUME here \notin crossed PROVE ~rotates => account'[here].cred = credential(resource_here)
    <3>1. CASE AcceptsCaller
      <4> SUFFICES ASSUME ~rotates PROVE account'[here].cred = credential(resource_here)
        OBVIOUS
      <4>1. account'[here] = account[here] /\ rows[here].cred = credential(resource_here)
        BY <1>6, <2>2, <2>6, <3>1, KeepDoes DEF rotates
      <4>2. /\ job.doc[here] \in AnyResource /\ credential(resource_here) # Null
            /\ credential(resource_here)[2] = job.doc[here].version /\ job.doc[here].version \in Nat
        BY <2>1, OrderedValues, CredentialFacts DEF resource_here
      <4>3. account[here].cred # rows[here].cred => rows[here].cred[2] < job.doc[here].version
        BY <2>1, <2>2, <2>3, <2>6, <3>1, <4>1, <4>2 DEF Credited, in, Clear
      <4> QED BY <4>1, <4>2, <4>3
    <3>2. CASE ~AcceptsCaller
      BY <1>6, <2>2, <2>6, <3>2, KeepDoes DEF Accounts
    <3> QED BY <3>1, <3>2
  <2> QED BY <1>a, <2>1, <2>2, <2>3, <2>5, <2>6, WorkingHere
<1>7. CASE Create
  <2>1. /\ Called /\ here \in Names /\ job.pc \in Calls \ {"record"} /\ rows' = rows /\ job'.applied = job.applied /\ job'.at = here /\ job'.doc = job.doc
        /\ crossed' = crossed
    BY <1>7, CreateDoes DEF Called, JobKeeps
  <2>2. here \notin crossed => rows[here].state \notin {"none", "missing"}
    BY <2>1 DEF Working, is_managed
  <2>3. made.owner = "central" /\ made.cred = credential(resource_here) /\ made.enabled = TRUE
    BY DEF made
  <2> QED BY <1>7, <1>a, <2>1, <2>2, <2>3, CreateDoes, WorkingHere
<1>8. CASE Rotate
  <2>1. /\ Called /\ here \in Names /\ job.pc \in Calls \ {"record"} /\ rows' = rows /\ job'.applied = job.applied /\ job'.at = here /\ job'.doc = job.doc
        /\ crossed' = crossed
    BY <1>8, RotateDoes DEF Called, JobKeeps
  <2>2. here \notin crossed => rows[here].state \notin {"none", "missing"} /\ account[here].owner # "local"
    BY <2>1 DEF Working, is_managed, Foreign
  <2>3. here \notin crossed /\ job'.pc = "switch" =>
          /\ account'[here].owner = "central" /\ account'[here].cred = credential(resource_here)
          /\ account'[here].enabled = account[here].enabled
    BY <1>0, <1>8, <2>1, <2>2, RotateDoes DEF Accounts
  <2>4. here \notin crossed => account[here].enabled = job.seen[here].enabled
    BY <1>8, RotateDoes DEF Working
  <2> QED BY <1>8, <1>a, <2>1, <2>2, <2>3, <2>4, RotateDoes, WorkingHere
<1>9. CASE Delete
  <2>1. /\ Called /\ here \in Names /\ job.pc \in Calls \ {"record"} /\ rows' = rows /\ job'.applied = job.applied /\ job'.at = here /\ job'.doc = job.doc
        /\ crossed' = crossed
    BY <1>9, DeleteDoes DEF Called, JobKeeps
  <2>2. (here \notin crossed => rows[here].state \notin {"none", "missing"}) /\ resource_here.want = "deleted"
    BY <1>9, <2>1, DeleteDoes DEF Working, is_managed, in
  <2>3. job'.pc = "record" => Fits(account'[here], resource_here)
    BY <1>0, <1>9, <2>2, DeleteDoes DEF Fits
  <2> QED BY <1>9, <1>a, <2>1, <2>2, <2>3, DeleteDoes, WorkingHere
<1>10. CASE Switch
  <2>1. /\ Called /\ here \in Names /\ job.pc \in Calls \ {"record"} /\ rows' = rows /\ job'.applied = job.applied /\ job'.at = here /\ job'.doc = job.doc
        /\ crossed' = crossed
    BY <1>10, SwitchDoes DEF Called, JobKeeps
  <2>2. ASSUME here \notin crossed
        PROVE  /\ rows[here].state \notin {"none", "missing"}
               /\ account[here].owner = "central" /\ account[here].cred = credential(resource_here) /\ account[here] \in Accounts
    BY <1>0, <1>10, <2>1, <2>2, SwitchDoes DEF Working, is_managed, in
  <2>3. here \notin crossed /\ job'.pc = "record" => Fits(account'[here], resource_here)
    <3> SUFFICES ASSUME here \notin crossed, job'.pc = "record" PROVE Fits(account'[here], resource_here)
      OBVIOUS
    <3>1. account'[here] = [account[here] EXCEPT !.enabled = wanted(resource_here)] /\ resource_here.want \notin {"none", "deleted"}
      BY <1>10, SwitchDoes
    <3>2. /\ account'[here].owner = "central" /\ account'[here].cred = credential(resource_here)
          /\ account'[here].enabled = wanted(resource_here)
      BY <2>2, <3>1 DEF Accounts
    <3> QED BY <3>1, <3>2 DEF Fits, wanted
  <2> QED BY <1>10, <1>a, <2>1, <2>2, <2>3, SwitchDoes, WorkingHere
<1>11. CASE Switched
  <2>1. /\ in("switch") /\ here \in Names /\ UNCHANGED <<rows, account, crossed>> /\ job'.applied = job.applied /\ job'.at = here /\ job'.doc = job.doc
        /\ job'.pc = "record" /\ ~unswitched /\ resource_here.want \notin {"none", "deleted"}
    BY <1>11, SwitchedDoes DEF JobKeeps, in
  <2>2. ASSUME here \notin crossed
        PROVE  /\ account[here].owner = "central" /\ account[here].cred = credential(resource_here)
               /\ account[here].enabled = wanted(resource_here)
    BY <2>1, <2>2 DEF Working, in, unswitched
  <2>3. here \notin crossed => Fits(account[here], resource_here)
    BY <2>1, <2>2 DEF Fits, wanted
  <2> QED BY <1>a, <2>1, <2>3, WorkingHere
<1>12. CASE Record
  <2>1. \A n \in job'.applied : job.doc[n].want # "deleted" => rows'[n].state \notin {"none", "missing"}
    BY <1>0, <1>12, <1>a, RecordDoes DEF Elsewhere, state_of, resource_here
  <2> QED BY <1>12, <2>1, RecordDoes, WorkingNowhere DEF Calls, JobKeeps
<1>13. CASE Fail
  <2>1. \A n \in job'.applied : job.doc[n].want # "deleted" => rows'[n].state \notin {"none", "missing"}
    BY <1>0, <1>13, <1>a, FailDoes DEF Elsewhere
  <2> QED BY <1>13, <2>1, FailDoes, WorkingNowhere DEF Calls, JobKeeps
<1>14. CASE Readback \/ ReadbackFails
  <2>1. \A n \in job'.applied : job.doc[n].want # "deleted" => rows'[n].state \notin {"none", "missing"}
    BY <1>0, <1>14, <1>a, ReadbackDoes
  <2> QED BY <1>14, <2>1, ReadbackDoes, WorkingNowhere DEF Calls, JobKeeps
<1>15. CASE OrphanDelete
  <2>1. job'.pc \in {"orphan", "forget"} /\ rows' = rows /\ job'.doc = job.doc /\ job'.applied = job.applied
    BY <1>15, OrphanDeleteDoes DEF JobKeeps
  <2> QED BY <1>a, <2>1, WorkingNowhere DEF Calls
<1>16. CASE OrphanForget
  <2>1. here \notin Named
    BY <1>16, OrphanForgetDoes, LoopFacts, Parts
  <2>2. \A n \in job'.applied : job.doc[n].want # "deleted" => rows'[n].state \notin {"none", "missing"}
    BY <1>0, <1>16, <1>a, <2>1, OrphanForgetDoes DEF Elsewhere
  <2> QED BY <1>16, <2>2, OrphanForgetDoes, WorkingNowhere DEF Calls, JobKeeps
<1>17. CASE Lanes \/ Relay \/ Egress
  <2>1. \A n \in job'.applied : job.doc[n].want # "deleted" => rows'[n].state \notin {"none", "missing"}
    BY <1>0, <1>17, <1>a, SectionsDo
  <2>2. job'.pc \in {"relay", "egress", "finish"} /\ job'.doc = job.doc
    BY <1>17, SectionsDo DEF JobKeeps
  <2> QED BY <2>1, <2>2, WorkingNowhere DEF Calls
<1>18. CASE Finish \/ Restart
  <2>1. job' = Idle
    BY <1>18 DEF Finish, Restart
  <2> QED BY <1>0, <2>1, WorkingNowhere DEF Calls
<1>19. CASE start
  <2>1. job'.pc = "discover" /\ job'.applied = {}
    BY <1>19, IdleType DEF start, JobSet
  <2> QED BY <2>1, WorkingNowhere DEF Calls
<1>20. CASE \/ \E n \in Names, resource \in Resources : Accept(n, resource)
            \/ (\E n \in Names, what \in {"create", "delete"} : LocalCheck(n, what)) \/ Elapse \/ UNCHANGED vars
  <2>1. UNCHANGED <<rows, account, job, crossed>>
    BY <1>20 DEF Accept, LocalCheck, Elapse, vars, history
  <2> QED BY <2>1 DEF Working, is_managed, here, in, resource_here, Applied
<1>21. CASE LocalCreate \/ LocalDelete
  <2>1. /\ UNCHANGED <<rows, job, latest>> /\ crossed \subseteq crossed'
        /\ \A n \in Names \ crossed' :
             account'[n] = account[n] \/ job.pc \in {"idle", "discover"} \/ (~named(n) /\ ~orphan(n))
    BY <1>21, WriteSpares
  <2>2. job.pc \in Calls /\ here \notin crossed' => account'[here] = account[here] /\ here \notin crossed
    BY <1>0, <2>1 DEF Calls, Shape, Named
  <2> QED BY <2>1, <2>2 DEF Working, is_managed, here, in, resource_here, Applied, Calls
<1>23. CASE Unlink
  <2>1. job' = job /\ job.pc = "idle" /\ job = Idle
    BY <1>23 DEF Unlink, Foreign, in
  <2> QED BY <1>0, <2>1, WorkingNowhere DEF Calls
<1>24. CASE DiscoverFails
  <2>1. job.applied = {} /\ job'.applied = job.applied /\ job'.pc = "lanes"
    BY <1>24, DiscoverFailsDoes DEF Foreign, in
  <2> QED BY <2>1, WorkingNowhere DEF Calls
<1>25. CASE DetailFails
  <2>1. /\ here \in Named /\ here \in Names /\ UNCHANGED <<rows, account, crossed>> /\ job'.applied = job.applied /\ job'.at = here
        /\ job'.doc = job.doc /\ job'.pc = "fail" /\ (in("switch") \/ (in("resource") /\ stored))
    BY <1>25, DetailFailsDoes DEF JobKeeps, in
  <2>2. here \notin crossed => rows[here].state \notin {"none", "missing"}
    <3>1. CASE in("switch")
      BY <3>1 DEF Working, is_managed, in, Calls
    <3>2. CASE in("resource") /\ stored
      BY <1>b, <2>1, <3>2 DEF stored
    <3> QED BY <2>1, <3>1, <3>2
  <2> QED BY <1>a, <2>1, <2>2, WorkingHere
<1>22. CASE Next
  BY <1>22, <1>1, <1>2, <1>3, <1>4, <1>5, <1>6, <1>7, <1>8, <1>9, <1>10, <1>11, <1>12, <1>13, <1>14, <1>15, <1>16, <1>17, <1>18,
     <1>19, <1>20, <1>21, <1>23, <1>24, <1>25, NextGroups, Zenon
<1> QED BY <1>20, <1>22

\* One name that an apply has passed, after a step of it.
Done(n) ==
  /\ rows'[n].state \in {"enabled", "disabled"} => rows'[n].cred = credential(job.doc[n])
  /\ ~job'.failed => Fits(account'[n], job.doc[n])

\* A step that passes only what is done with.
LEMMA BehindKept ==
  ASSUME job'.doc = job.doc, crossed' = crossed,
         \A n \in Named \ crossed : job'.pc \in Ending \/ (job'.pc \in Calls \cup {"resource"} /\ n < job'.at) => Done(n)
  PROVE  Behind'
BY DEF Behind, Passed, here, named, Named, Done, Applied, Clear

\* What an apply has passed stays done with.
LEMMA BehindStep ==
  ASSUME TypeInv, Unguarded, Foreign, Unread, Working, Behind, [Next]_vars
  PROVE  Behind'
<1>0. /\ job \in JobSet /\ Shape /\ Named \subseteq Names /\ Names \subseteq Nat /\ Idle.pc = "idle"
      /\ \A n \in Names : n < N + 1
  BY Parts, LoopFacts, IdleType, LoopGoesOn, NamesAreNumbers DEF Names
<1>a. ASSUME job'.pc \in {"idle", "discover"} PROVE Behind'
  BY <1>a DEF Behind, Passed, Ending, Calls
<1>b. ASSUME NEW n \in Named, n \notin crossed, Passed(n), job.failed => job'.failed, account'[n] = account[n],
             rows'[n] = rows[n] \/ rows'[n].state = "failed"
      PROVE  Done(n)
  BY <1>b DEF Behind, Done, Applied, Named, Clear
<1>c. ASSUME job.pc \in Calls \cup {"resource"}, job'.pc \in Calls \cup {"resource"}, job'.at = here, job'.doc = job.doc,
             job'.failed = job.failed, Elsewhere, here \in Names, crossed' = crossed
      PROVE  Behind'
  <2>1. \A n \in Named : n < here => Passed(n) /\ n \in Names \ {here}
    BY <1>0, <1>c, LoopGoesOn DEF Passed
  <2>2. job'.pc \notin Ending
    BY <1>c DEF Ending, Calls
  <2> QED BY <1>b, <1>c, <2>1, <2>2, BehindKept DEF Elsewhere
<1>d. ASSUME job.pc \in Calls \cup {"resource"}, job'.pc = "resource", job'.at = after(here, Named), job'.doc = job.doc,
             job.failed => job'.failed, Elsewhere, here \in Names, crossed' = crossed, here \in Named \ crossed => Done(here)
      PROVE  Behind'
  <2>1. \A n \in Named : n < after(here, Named) => n = here \/ (n < here /\ Passed(n) /\ n \in Names \ {here})
    BY <1>0, <1>d, LoopGoesOn DEF Passed
  <2>2. job'.pc \notin Ending
    BY <1>d DEF Ending
  <2>3. \A n \in Named \ crossed : n < after(here, Named) => Done(n)
    BY <1>b, <1>d, <2>1 DEF Elsewhere
  <2> QED BY <1>d, <2>2, <2>3, BehindKept
<1>e. ASSUME job.pc \in Ending \/ (in("resource") /\ here = N + 1), job'.doc = job.doc, job.failed => job'.failed, crossed' = crossed,
             \A n \in Named : account'[n] = account[n] /\ (rows'[n] = rows[n] \/ rows'[n].state = "failed")
      PROVE  Behind'
  <2>1. \A n \in Named : Passed(n)
    BY <1>0, <1>e DEF Passed, in
  <2> QED BY <1>b, <1>e, <2>1, BehindKept
<1>1. CASE Discover
  <2>1. job'.pc \notin Ending /\ job'.at = after(0, Named) /\ job'.doc = job.doc /\ crossed' = crossed
    BY <1>1, DiscoverDoes DEF Ending, JobKeeps
  <2> QED BY <2>1, LoopGoesOn, BehindKept
<1>2. CASE Collision
  <2>1. in("resource") /\ here \in Named /\ here \in Names /\ Elsewhere /\ ~stored /\ job'.failed = TRUE /\ rows' = rows
    BY <1>2, CollisionDoes DEF in, Elsewhere
  <2>2. here \notin crossed => rows[here] = job.known[here]
    <3>1. here >= here
      BY <1>0, <2>1
    <3> QED BY <2>1, <3>1 DEF Unread, Ahead
  <2>3. here \notin crossed => Done(here)
    BY <2>1, <2>2 DEF Done, stored
  <2> QED BY <1>2, <1>d, <2>1, <2>3, CollisionDoes DEF JobKeeps
<1>3. CASE Adopt
  BY <1>3, <1>c, AdoptDoes DEF JobKeeps
<1>4. CASE Withdraw \/ Switched \/ DetailFails
  <2>1. Elsewhere
    BY <1>4, WithdrawDoes, SwitchedDoes, DetailFailsDoes DEF Elsewhere
  <2> QED BY <1>4, <1>c, <2>1, WithdrawDoes, SwitchedDoes, DetailFailsDoes DEF JobKeeps, Calls
<1>5. CASE Placeholder
  BY <1>5, <1>c, PlaceholderDoes DEF JobKeeps, Calls
<1>6. CASE Keep
  <2>1. job'.pc \in Calls
    BY <1>6, KeepDoes DEF Calls
  <2> QED BY <1>6, <1>c, <2>1, KeepDoes DEF JobKeeps
<1>7. CASE Create \/ Rotate \/ Delete \/ Switch
  <2>1. Called /\ job'.pc \in {"switch", "record", "fail"}
    BY <1>7, CreateDoes, RotateDoes, DeleteDoes, SwitchDoes
  <2> QED BY <1>c, <2>1 DEF Called, JobKeeps, Calls
<1>8. CASE Record
  <2>1. here \notin crossed => Done(here)
    <3>1. here \notin crossed => Fits(account[here], resource_here)
      BY <1>8, RecordDoes DEF Working, in, Applied
    <3> QED BY <1>8, <3>1, RecordDoes DEF Done, resource_here
  <2> QED BY <1>8, <1>d, <2>1, RecordDoes DEF JobKeeps, Calls
<1>9. CASE Fail
  <2>1. Done(here)
    BY <1>9, FailDoes DEF Done
  <2> QED BY <1>9, <1>d, <2>1, FailDoes DEF JobKeeps, Calls
<1>10. CASE Readback \/ ReadbackFails
  BY <1>0, <1>10, <1>e, ReadbackDoes DEF JobKeeps, in
<1>11. CASE OrphanDelete \/ OrphanForget
  <2>1. /\ here \in Orphans /\ Elsewhere /\ job.pc \in Ending /\ job'.doc = job.doc /\ (job.failed => job'.failed)
        /\ crossed' = crossed
    BY <1>11, OrphanDeleteDoes, OrphanForgetDoes DEF JobKeeps, Ending
  <2>2. here \notin Named
    BY <1>0, <2>1, LoopFacts
  <2> QED BY <1>0, <1>e, <2>1, <2>2 DEF Elsewhere
<1>12. CASE Lanes \/ Relay \/ Egress
  <2>1. /\ job.pc \in Ending /\ job'.doc = job.doc /\ (job.failed => job'.failed) /\ UNCHANGED <<account, crossed>>
    BY <1>12, SectionsDo DEF JobKeeps, Ending
  <2>2. \A n \in Named : rows'[n] = rows[n] \/ rows'[n].state = "failed"
    BY <1>0, <1>12, SectionsDo
  <2> QED BY <1>e, <2>1, <2>2
<1>13. CASE Finish \/ Restart
  BY <1>0, <1>13, <1>a DEF Finish, Restart
<1>14. CASE start
  <2>1. job'.pc = "discover"
    BY <1>14, IdleType DEF start, JobSet
  <2> QED BY <1>a, <2>1
<1>15. CASE \/ \E n \in Names, resource \in Resources : Accept(n, resource)
            \/ (\E n \in Names, what \in {"create", "delete"} : LocalCheck(n, what)) \/ Elapse \/ UNCHANGED vars
  <2>1. UNCHANGED <<rows, account, job, crossed>>
    BY <1>15 DEF Accept, LocalCheck, Elapse, vars, history
  <2> QED BY <2>1 DEF Behind, Passed, here, named, Applied, Clear
<1>16. CASE LocalCreate \/ LocalDelete
  <2>1. /\ UNCHANGED <<rows, job, latest>> /\ crossed \subseteq crossed'
        /\ \A n \in Names \ crossed' :
             account'[n] = account[n] \/ job.pc \in {"idle", "discover"} \/ (~named(n) /\ ~orphan(n))
    BY <1>16, WriteSpares
  <2>2. \A n \in Names \ crossed' : Passed(n) /\ named(n) => account'[n] = account[n]
    BY <2>1 DEF Passed, Ending, Calls
  <2> QED BY <2>1, <2>2 DEF Behind, Passed, here, named, Applied, Clear
<1>18. CASE Unlink
  BY <1>18, <1>a DEF Unlink
<1>19. CASE DiscoverFails
  <2>1. job'.doc = job.doc /\ job'.failed = TRUE /\ \A n \in Named : rows'[n].state = "failed"
    BY <1>19, DiscoverFailsDoes DEF JobKeeps
  <2> QED BY <1>0, <2>1 DEF Behind, Passed, here, named, Named, Clear
<1>17. CASE Next
  BY <1>17, <1>1, <1>2, <1>3, <1>4, <1>5, <1>6, <1>7, <1>8, <1>9, <1>10, <1>11, <1>12, <1>13, <1>14, <1>15, <1>16,
     <1>18, <1>19, NextGroups, Zenon
<1> QED BY <1>15, <1>17

\* A step of an apply that makes no account of a name outside the document the central's.
LEMMA WithdrawnKept ==
  ASSUME Withdrawn, job.pc # "idle", job'.doc = job.doc,
         \A n \in Names : job.doc[n].want = "none" => job'.known[n] = job.known[n] /\ (account'[n].owner = "central" => account[n].owner = "central"),
         job'.pc \in Ending /\ ~job'.failed =>
           \A n \in Orphans : n < job'.at \/ job'.pc \notin {"orphan", "forget"} => account'[n].owner # "central"
  PROVE  Withdrawn'
<1>1. Orphans' = Orphans
  BY DEF Orphans, orphan, named
<1> QED BY <1>1 DEF Withdrawn, named, here

\* What left the document goes.
LEMMA WithdrawnStep ==
  ASSUME TypeInv, Owned, Unguarded, Withdrawn, [Next]_vars
  PROVE  Withdrawn'
<1>0. /\ job \in JobSet /\ Shape /\ Names \subseteq Nat /\ Orphans \subseteq Names /\ Idle.pc = "idle" /\ NoAccount.owner = "none"
      /\ NoRow.state = "none" /\ Named \cap Orphans = {} /\ \A n \in Names : n < N + 1
  BY Parts, LoopFacts, IdleType, NamesAreNumbers DEF NoAccount, NoRow, Names
<1>a. \A n \in Names : job.doc[n].want = "none" <=> n \notin Named
  BY DEF Named, named
<1>b. ASSUME here \in Named, Elsewhere, job'.pc \in Calls \cup {"resource"}, job.pc # "idle", job'.doc = job.doc,
             \A n \in Names \ {here} : job'.known[n] = job.known[n]
      PROVE  Withdrawn'
  <2>1. job'.pc \notin Ending
    BY <1>b DEF Ending, Calls
  <2> QED BY <1>a, <1>b, <2>1, WithdrawnKept DEF Elsewhere
<1>1. CASE Discover
  BY <1>1, DiscoverDoes, WithdrawnKept DEF JobKeeps, Ending
<1>2. CASE Collision \/ Withdraw \/ Switched \/ DetailFails
  <2>1. Elsewhere
    BY <1>2, CollisionDoes, WithdrawDoes, SwitchedDoes, DetailFailsDoes DEF Elsewhere
  <2> QED BY <1>2, <1>b, <2>1, CollisionDoes, WithdrawDoes, SwitchedDoes, DetailFailsDoes DEF JobKeeps, Calls
<1>3. CASE Adopt \/ Placeholder \/ Record \/ Fail
  BY <1>3, <1>b, AdoptDoes, PlaceholderDoes, RecordDoes, FailDoes DEF JobKeeps, Calls
<1>4. CASE Keep
  <2>1. job'.pc \in Calls
    BY <1>4, KeepDoes DEF Calls
  <2> QED BY <1>4, <1>b, <2>1, KeepDoes DEF JobKeeps
<1>5. CASE Create \/ Rotate \/ Delete \/ Switch
  <2>1. Called /\ job'.pc \in {"switch", "record", "fail"}
    BY <1>5, CreateDoes, RotateDoes, DeleteDoes, SwitchDoes
  <2>2. job.pc # "idle" /\ job'.pc \in Calls
    BY <2>1 DEF Called, Calls
  <2> QED BY <1>b, <2>1, <2>2 DEF Called, JobKeeps
<1>6. CASE Readback \/ ReadbackFails
  <2>1. job'.pc = "orphan" /\ job'.at = after(0, Orphans) /\ job'.doc = job.doc /\ job'.known = job.known /\ account' = account /\ job.pc # "idle"
    BY <1>6, ReadbackDoes DEF JobKeeps
  <2>2. \A n \in Orphans : ~(n < job'.at)
    BY <2>1, LoopGoesOn
  <2> QED BY <2>1, <2>2, WithdrawnKept
<1>7. CASE OrphanDelete
  <2>1. /\ job.pc = "orphan" /\ here \in Names /\ Elsewhere /\ job'.doc = job.doc /\ job'.known = job.known
        /\ account'[here] \in {account[here], NoAccount}
        /\ (job'.pc = "forget" /\ job'.at = here /\ job'.failed = job.failed) \/ job'.failed = TRUE
    BY <1>7, OrphanDeleteDoes DEF JobKeeps
  <2>2. \A n \in Names : account'[n].owner = "central" => account[n].owner = "central"
    BY <1>0, <2>1 DEF Elsewhere
  <2>3. job'.pc \in Ending /\ ~job'.failed =>
           \A n \in Orphans : n < job'.at \/ job'.pc \notin {"orphan", "forget"} => account'[n].owner # "central"
    BY <1>0, <2>1, <2>2 DEF Withdrawn, Ending
  <2> QED BY <2>1, <2>2, <2>3, WithdrawnKept
<1>8. CASE OrphanForget
  <2>1. /\ job.pc \in {"orphan", "forget"} /\ here \in Orphans /\ here \in Names /\ job'.doc = job.doc /\ job'.known = job.known
        /\ account' = account /\ job'.pc = "orphan" /\ job'.at = after(here, Orphans) /\ job'.failed = job.failed
    BY <1>8, OrphanForgetDoes DEF JobKeeps
  <2>2. account[here].owner # "central"
    <3>1. CASE job.pc = "forget"
      BY <3>1 DEF Owned, in
    <3>2. CASE job.pc = "orphan" /\ ~doomed
      BY <2>1, <3>2 DEF Owned, doomed, Orphans, orphan, named, Deciding
    <3> QED BY <1>8, <3>1, <3>2, OrphanForgetDoes
  <2>3. \A n \in Orphans : n < after(here, Orphans) => n = here \/ n < here
    BY <1>0, <2>1, LoopGoesOn
  <2>4. ~job'.failed => \A n \in Orphans : n < job'.at => account'[n].owner # "central"
    BY <2>1, <2>2, <2>3 DEF Withdrawn, Ending
  <2> QED BY <2>1, <2>4, WithdrawnKept
<1>9. CASE Lanes \/ Relay \/ Egress
  <2>1. /\ job.pc \in {"lanes", "relay", "egress"} \/ (job.pc = "orphan" /\ here = N + 1)
        /\ job'.doc = job.doc /\ job'.known = job.known /\ (job.failed => job'.failed) /\ account' = account
    BY <1>9, SectionsDo DEF JobKeeps
  <2>2. ~job'.failed => \A n \in Orphans : account'[n].owner # "central"
    BY <1>0, <2>1 DEF Withdrawn, Ending
  <2> QED BY <2>1, <2>2, WithdrawnKept
<1>10. CASE Finish \/ Restart
  BY <1>0, <1>10 DEF Finish, Restart, Withdrawn, Ending
<1>11. CASE start
  <2> DEFINE store == [n \in Names |-> IF n \in stale THEN NoRow ELSE rows[n]]
  <2>1. /\ account' = account
        /\ job' = [Idle EXCEPT !.pc = "discover", !.generation = latest.generation, !.doc = latest.doc, !.known = store]
    BY <1>11 DEF start
  <2>2. \A n \in Names : store[n].state = "none" => rows[n].state \in {"none", "missing"}
    BY DEF stale
  <2> HIDE DEF store
  <2>3. job'.pc = "discover" /\ job'.known = store
    BY <2>1, IdleType DEF JobSet
  <2>4. \A n \in Names : store[n].state = "none" => account[n].owner # "central"
    BY <2>2 DEF Owned, OwnedHasRow, is_managed
  <2> QED BY <2>1, <2>3, <2>4 DEF Withdrawn, Ending
<1>12. CASE \/ \E n \in Names, resource \in Resources : Accept(n, resource)
            \/ (\E n \in Names, what \in {"create", "delete"} : LocalCheck(n, what)) \/ Elapse \/ UNCHANGED vars
  <2>1. UNCHANGED <<account, job>>
    BY <1>12 DEF Accept, LocalCheck, Elapse, vars
  <2> QED BY <2>1 DEF Withdrawn, named, Orphans, orphan, here
<1>13. CASE LocalCreate \/ LocalDelete
  <2>1. job' = job /\ \A n \in Names : account'[n].owner = "central" => account[n].owner = "central"
    BY <1>13, WriteDoes
  <2> QED BY <1>0, <2>1 DEF Withdrawn, named, Orphans, orphan, here
<1>15. CASE Unlink
  BY <1>15 DEF Unlink, Withdrawn, Ending
<1>16. CASE DiscoverFails
  <2>1. job.pc # "idle" /\ job'.doc = job.doc /\ job'.known = job.known /\ account' = account /\ job'.failed = TRUE
    BY <1>16, DiscoverFailsDoes DEF JobKeeps
  <2> QED BY <2>1, WithdrawnKept
<1>14. CASE Next
  BY <1>14, <1>1, <1>2, <1>3, <1>4, <1>5, <1>6, <1>7, <1>8, <1>9, <1>10, <1>11, <1>12, <1>13, <1>15, <1>16, NextGroups, Zenon
<1> QED BY <1>12, <1>14

---------------------------------------------------------------------------
(* The end of an apply *)

\* The steps of an apply before its end.
Underway ==
  \/ Discover \/ DiscoverFails \/ Collision \/ Adopt \/ Withdraw \/ Placeholder \/ Keep \/ Switched \/ DetailFails \/ Record \/ Fail
  \/ Create \/ Rotate \/ Delete \/ Switch \/ Readback \/ ReadbackFails \/ OrphanDelete \/ OrphanForget \/ Lanes \/ Relay \/ Egress

\* A generation is converged at the end of an apply of it that went without a failure, and then it is applied.
LEMMA CurrentStep ==
  ASSUME TypeInv, Owned, Unguarded, Behind, Withdrawn, Current, [Next]_vars
  PROVE  Current'
<1>0. /\ job \in JobSet /\ latest \in LatestSet /\ NoAccount.owner = "none" /\ Idle.pc = "idle"
      /\ account \in [Names -> AnyAccount]
      /\ latest.generation \in Nat /\ job.generation \in Nat /\ latest.doc \in Docs
  BY Parts, IdleType, BoundsAssumption DEF NoAccount, JobSet, LatestSet
<1>1. CASE Underway
  <2>1. job.pc # "idle" /\ UNCHANGED latest /\ job'.doc = job.doc /\ job'.generation = job.generation
    <3>1. CASE Discover \/ DiscoverFails \/ Collision \/ Adopt \/ Withdraw \/ Placeholder \/ Keep \/ Switched \/ DetailFails \/ Record \/ Fail
      BY <3>1, DiscoverDoes, DiscoverFailsDoes, CollisionDoes, AdoptDoes, WithdrawDoes, PlaceholderDoes, KeepDoes, SwitchedDoes,
         DetailFailsDoes, RecordDoes, FailDoes DEF JobKeeps
    <3>2. CASE Create \/ Rotate \/ Delete \/ Switch
      BY <3>2, CreateDoes, RotateDoes, DeleteDoes, SwitchDoes DEF Called, JobKeeps, Calls
    <3>3. CASE Readback \/ ReadbackFails \/ OrphanDelete \/ OrphanForget
      BY <3>3, ReadbackDoes, OrphanDeleteDoes, OrphanForgetDoes DEF JobKeeps
    <3>4. CASE Lanes \/ Relay \/ Egress
      BY <3>4, SectionsDo DEF JobKeeps
    <3> QED BY <1>1, <3>1, <3>2, <3>3, <3>4 DEF Underway
  <2> QED BY <2>1 DEF Current
<1>2. CASE Finish
  <2>1. /\ job.pc = "finish" /\ job'.pc = "idle" /\ UNCHANGED <<account, crossed>>
        /\ latest' = [latest EXCEPT !.state =
             IF latest.generation # job.generation THEN @ ELSE IF job.failed THEN "failed" ELSE "converged"]
    BY <1>0, <1>2 DEF Finish, in, history
  <2>2. /\ latest'.doc = latest.doc
        /\ latest'.state = (IF latest.generation # job.generation THEN latest.state ELSE IF job.failed THEN "failed" ELSE "converged")
    BY <1>0, <2>1 DEF LatestSet
  <2>3. latest'.state = "converged" => latest.generation = job.generation /\ ~job.failed /\ job.doc = latest.doc
    BY <2>1, <2>2 DEF Current
  <2>4. ASSUME ~job.failed, NEW n \in Names, n \notin crossed PROVE Applied(n, job.doc[n])
    <3>1. CASE named(n)
      BY <2>1, <2>4, <3>1 DEF Behind, Passed, Ending, Clear
    <3>2. CASE ~named(n)
      <4>1. account[n].owner # "central"
        BY <2>1, <2>4, <3>2 DEF Withdrawn, Orphans, orphan, Ending
      <4> QED BY <3>2, <4>1 DEF named, Applied, Fits
    <3> QED BY <3>1, <3>2
  <2> QED BY <2>1, <2>2, <2>3, <2>4 DEF Current, Applied, Clear
<1>3. ASSUME NEW n \in Names, NEW resource \in Resources, Accept(n, resource) PROVE Current'
  <2>1. job' = job /\ latest'.state = "received" /\ latest'.generation = latest.generation + 1
    BY <1>3 DEF Accept
  <2> QED BY <1>0, <2>1 DEF Current
<1>4. CASE start
  <2> DEFINE store == [n \in Names |-> IF n \in stale THEN NoRow ELSE rows[n]]
  <2>1. /\ latest' = [latest EXCEPT !.state = "applying"]
        /\ job' = [Idle EXCEPT !.pc = "discover", !.generation = latest.generation, !.doc = latest.doc, !.known = store]
    BY <1>4 DEF start
  <2> HIDE DEF store
  <2>2. /\ latest'.state = "applying" /\ latest'.generation = latest.generation /\ latest'.doc = latest.doc
        /\ job'.generation = latest.generation /\ job'.doc = latest.doc
    BY <1>0, <2>1, IdleType DEF JobSet, LatestSet
  <2> QED BY <1>0, <2>2 DEF Current
<1>5. CASE LocalCreate \/ LocalDelete
  <2>1. /\ UNCHANGED <<rows, job, latest>> /\ crossed \subseteq crossed'
        /\ \A n \in Names \ crossed' : account'[n] = account[n] \/ ~is_managed(n)
        /\ \A n \in Names : account'[n].owner = "central" => account'[n] = account[n]
    BY <1>5, WriteDoes, WriteSpares
  <2>4. \A n \in Names \ crossed' : account'[n] = account[n] \/ (account[n].owner # "central" /\ account'[n].owner # "central")
    BY <2>1 DEF Owned, OwnedHasRow
  <2>5. \A n \in Names \ crossed' : \A d : Applied(n, d) => Fits(account'[n], d)
    BY <2>4 DEF Applied, Fits
  <2> QED BY <2>1, <2>5 DEF Current, Applied, Clear
<1>6. CASE Unlink
  <2>1. latest'.state = "none" /\ job' = job /\ job.pc = "idle"
    BY <1>6 DEF Unlink, Unlinked
  <2> QED BY <2>1 DEF Current
<1>7. CASE Restart
  BY <1>0, <1>7 DEF Restart, Current, Applied, Clear, history
<1>8. CASE (\E n \in Names, what \in {"create", "delete"} : LocalCheck(n, what)) \/ Elapse \/ UNCHANGED vars
  <2>1. UNCHANGED <<account, job, latest, crossed>>
    BY <1>8 DEF LocalCheck, Elapse, vars, history
  <2> QED BY <2>1 DEF Current, Applied, Clear
<1>9. CASE Next
  BY <1>9, <1>1, <1>2, <1>3, <1>4, <1>5, <1>6, <1>7, <1>8, NextGroups, Zenon DEF Underway
<1> QED BY <1>8, <1>9

\* The inductive invariant: rows own only the central's accounts, the credentials of a name come in their order, and an
\* apply knows what it has before it, at hand and behind it.
Sound == TypeInv /\ Owned /\ Unguarded /\ Foreign /\ Numbered /\ Credited /\ Unread /\ Working /\ Behind /\ Withdrawn /\ Current

\* The program starts in it.
LEMMA SoundInit == Init => Sound
<1> SUFFICES ASSUME Init PROVE Sound
  OBVIOUS
<1>0. /\ job = Idle /\ Idle.pc = "idle" /\ Idle.applied = {} /\ local = NoWriter /\ latest = Unlinked
      /\ rows = [n \in Names |-> NoRow] /\ account = [n \in Names |-> NoAccount]
      /\ NoRow.state = "none" /\ NoRow.cred = Null /\ NoAccount.owner = "none"
  BY IdleType DEF Init, NoRow, NoAccount
<1>1. Foreign /\ Unguarded
  BY <1>0 DEF Foreign, Unguarded, in, Deciding, Calls, Clear
<1>2. Numbered
  <2>1. older(Null, NoResource)
    BY CredentialFacts, ValueFacts
  <2> QED BY <1>0, <2>1 DEF Numbered, Unlinked
<1>3. Credited /\ Unread /\ Working /\ Behind /\ Withdrawn
  BY <1>0 DEF Credited, is_managed, Clear, Unread, Ahead, in, Working, Calls, Behind, Passed, Ending, Withdrawn
<1>4. Current
  BY <1>0 DEF Current, Unlinked
<1> QED BY <1>1, <1>2, <1>3, <1>4, TypeInit, OwnedInit DEF Sound

\* Every step keeps it.
LEMMA SoundStep == ASSUME Sound, [Next]_vars PROVE Sound'
<1>1. TypeInv' /\ Owned'
  BY TypeStep, OwnedStep DEF Sound
<1>2. Foreign' /\ Unguarded'
  BY ForeignStep, UnguardedStep DEF Sound
<1>3. Numbered' /\ Credited'
  BY <1>1, NumberedStep, CreditedStep DEF Sound
<1>4. Unread' /\ Working' /\ Behind' /\ Withdrawn' /\ Current'
  BY UnreadStep, WorkingStep, BehindStep, WithdrawnStep, CurrentStep DEF Sound
<1> QED BY <1>1, <1>2, <1>3, <1>4 DEF Sound

\* A generation that the node reports as converged is what its runtime holds, with no account of the central's beside it:
\* for any number of names and credentials, whatever calls fail or answer late, inventories cannot be read, newer
\* generations overtake an apply, the panel writes meanwhile and wherever the node restarts. The exceptions are the names
\* of crossed, which a local writer wrote after an apply had read or recorded them, or an apply recorded unread.
THEOREM ConvergedMeansApplied == Spec => []ConvergedIsApplied
<1>1. Sound => ConvergedIsApplied
  BY DEF Sound, Current, ConvergedIsApplied, Applied, Fits, Clear
<1>2. Sound /\ [Next]_vars => Sound'
  BY SoundStep
<1> QED BY <1>1, <1>2, SoundInit, PTL DEF Spec

=============================================================================
