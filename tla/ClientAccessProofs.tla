------------------------- MODULE ClientAccessProofs -------------------------
(***************************************************************************)
(* Proofs about ClientAccess for any names, any number of callers and      *)
(* every bound: what the grants name, with the requests and the passes of  *)
(* reconcile_access interleaved as they may be.                            *)
(***************************************************************************)
EXTENDS ClientAccess, FiniteSetTheorems, FunctionTheorems, TLAPS

---------------------------------------------------------------------------
(* Numbers and constants *)

States == {"pending", "active", "revoked"}

\* Grants have numbers, and 0 is none of them.
LEMMA Numbers ==
  /\ Cardinality(Names) \in Nat /\ Never \in Nat /\ 1 \in 0..Never /\ 0 \in 0..Never /\ Never \in 0..Never
  /\ Ids \subseteq Nat /\ 0 \notin Ids
<1>1. Cardinality(Names) \in Nat
  BY NamesAssumption, FS_CardinalityType
<1> QED
  BY <1>1, BoundsAssumption DEF Never, Ids

\* The number of a grant, or of none.
LEMMA IdsAreNumbers == \A i \in Ids \cup {0} : i \in Nat
BY Numbers

\* A row, a request and a pass that are none are of their types.
LEMMA NoneTyped == NoRow \in Rows /\ NoRequest \in Requests /\ NoPass \in Passes
<1>1. (CHOOSE n \in Names : TRUE) \in Names
  BY NamesAssumption
<1>2. NoRow \in Rows
  BY Numbers DEF NoRow, Rows
<1>3. NoRequest \in Requests
  BY <1>1 DEF NoRequest, Requests, Points, Kinds
<1>4. NoPass \in Passes
  BY <1>1 DEF NoPass, Passes
<1> QED
  BY <1>2, <1>3, <1>4

\* The grants the panel starts with can be numbered one by one.
LEMMA Numbering ==
  \E f \in [Names -> 1..Cardinality(Names)] : \A m, n \in Names : m # n => f[m] # f[n]
<1>1. ExistsBijection(1..Cardinality(Names), Names)
  BY NamesAssumption, FS_CardinalityType
<1>2. ExistsBijection(Names, 1..Cardinality(Names))
  BY <1>1, Fun_ExistsBijSymmetric
<1>3. PICK f \in Bijection(Names, 1..Cardinality(Names)) : TRUE
  BY <1>2 DEF ExistsBijection
<1>4. f \in [Names -> 1..Cardinality(Names)] /\ \A m, n \in Names : m # n => f[m] # f[n]
  BY <1>3 DEF Bijection, Injection, IsInjective
<1> QED
  BY <1>4

---------------------------------------------------------------------------
(* The invariant *)

\* What a request can be at, by what was asked.
Path(r) ==
  /\ r.pc = "find" => r.kind \in {"toggle", "page", "rotate", "pagerotate", "delete", "pagedelete"}
  /\ r.pc = "known" => r.kind = "page"
  /\ r.pc = "touch" => r.kind \in {"toggle", "page", "rotate", "pagerotate"}
  /\ r.pc = "mirror" => r.kind \in {"toggle", "page"}
  /\ r.pc = "call" => r.kind \in {"page", "delete", "pagedelete", "rotate", "pagerotate", "adopt", "undo"}
  /\ r.pc = "forget" => r.kind \in {"delete", "pagedelete"}
  /\ r.pc = "purge" => r.kind \in {"delete", "pagedelete", "issue", "undo"}
  /\ r.pc = "store" => r.kind \in {"rotate", "pagerotate"}
  /\ r.pc = "escrow" => r.kind = "adopt"
  /\ r.pc \in {"reserve", "create", "confirm"} => r.kind = "issue"
  /\ r.pc \in {"lock", "held"} => r.kind \in {"state", "validity", "toggle", "page", "issue"}

\* A request that may still make a row, with the number it was given.
Unspent(r) == r.pc \in {"reserve", "touch", "find", "known"} \/ (r.pc = "call" /\ r.kind \notin {"rotate", "undo", "adopt"})
\* An issue between its reservation and its activation.
Reserved(r) == r.kind = "issue" /\ r.pc \in {"create", "lock", "held", "confirm"}

Given == Cardinality(Names) + requests

\* Every row has a number of its own, given out before.
Distinct ==
  /\ \A n \in Names : row[n].id <= Given
  /\ \A m, n \in Names : (m # n /\ row[m].id # 0) => row[m].id # row[n].id
\* A row names a version that exists and is not revoked.
NamesLive ==
  \A n \in Names : (row[n].id # 0 /\ row[n].ref # 0)
    => row[n].ref \in DOMAIN secrets[row[n].id] /\ secrets[row[n].id][row[n].ref] # "revoked"
\* What has no row has no credential.
GoneRevoked ==
  \A i \in Ids : (\A n \in Names : row[n].id # i) => \A v \in DOMAIN secrets[i] : secrets[i][v] = "revoked"
\* What a request may make has no row yet, and what an issue reserved has its first version.
Fresh(r) == Unspent(r) => (r.new # 0 /\ \A n \in Names : row[n].id # r.new)
Kept(r) == Reserved(r) => (r.own # 0 /\ 1 \in DOMAIN secrets[r.own])
Asked == \A c \in Callers : Path(req[c]) /\ req[c].new <= Given /\ Fresh(req[c]) /\ Kept(req[c])
\* No two requests were given the same number.
Apart == \A c, d \in Callers : (c # d /\ req[c].pc # "idle" /\ req[d].pc # "idle") => req[c].new # req[d].new
\* Who holds the access lock waits for its pass.
Holding == pass.by \in Callers => req[pass.by].pc = "held"

Creds == Distinct /\ NamesLive /\ GoneRevoked
Inv == TypeOK /\ Creds /\ Asked /\ Apart /\ Holding

(* The notes on the accounts *)

\* A note that is not what the account is, and that nothing the panel missed excuses.
Wrong(n) ==
  /\ live(n) /\ account[n] # "none" /\ n \notin doubt
  /\ row[n].observed \in {"enabled", "disabled"} /\ account[n] # as_account(row[n].observed = "enabled")
\* A pass is about to note what it read, and it is not so any more.
Misread(n) ==
  /\ pass.pc = "record" /\ pass.name = n /\ holds(n, pass.id) /\ live(n) /\ n \notin doubt
  /\ pass.seen # "none" /\ account[n] \notin {"none", pass.seen}
\* A pass is about to switch an account whose note says something else than pending.
InHand(n) ==
  /\ pass.pc \in {"discover", "switch"} /\ pass.name = n /\ live(n) /\ n \notin doubt
  /\ row[n].observed \in {"enabled", "disabled"}

\* Who will see to the note: a page that goes to the grant of that name, or has it and is about to
\* set it to pending or to force a pass, or whose pass has yet to come to it.
Page(c, n) == req[c].kind \in {"page", "toggle"} /\ req[c].name = n
Early(c, n) == Page(c, n) /\ req[c].pc \in {"known", "find", "touch"}
Mirrors(c, n) == Page(c, n) /\ req[c].id = row[n].id /\ req[c].pc = "mirror"
Late(c, n) == Page(c, n) /\ req[c].id = row[n].id /\ req[c].pc = "lock" /\ req[c].whose = row[n].client
Minds(c, n) == Early(c, n) \/ Mirrors(c, n) \/ Late(c, n)
Due(n) == <<n, row[n].id>> \in pass.todo
Awaits(c, n) == Page(c, n) /\ req[c].pc = "held" /\ pass.by = c /\ Due(n)

Minded == serving => \A n \in Names : Wrong(n) => \E c \in Callers : Minds(c, n) \/ Awaits(c, n)
ReadAgain == \A n \in Names : Misread(n) => \E c \in Callers : Minds(c, n)
Switched == serving => \A n \in Names : InHand(n) => \E c \in Callers : Mirrors(c, n)
\* Before the panel serves there are no requests, and the first pass comes to every grant.
Starting ==
  ~serving => /\ \A c \in Callers : req[c].pc = "idle"
              /\ (pass.by = "nobody" \/ (pass.by = "enforcer" /\ \A n \in Names : Wrong(n) => Due(n)))
              /\ (pass.pc # "next" => holds(pass.name, pass.id))
\* What a pass works on is pending, and has a number no request will use.
Working ==
  /\ pass.by = "nobody" => pass = NoPass
  /\ (pass.pc # "next" /\ holds(pass.name, pass.id)) => row[pass.name].observed \in {"pending", "missing"}
  /\ pass.id <= Given /\ \A c \in Callers : Unspent(req[c]) => req[c].new # pass.id
Notes == Minded /\ ReadAgain /\ Switched /\ Starting /\ Working

---------------------------------------------------------------------------
(* The beginning *)

\* What the panel starts with.
LEMMA InitInv == Init => Inv
<1> SUFFICES ASSUME Init PROVE Inv
  OBVIOUS
<1> DEFINE id == CHOOSE f \in [Names -> 1..Cardinality(Names)] : \A m, n \in Names : m # n => f[m] # f[n]
<1>0. id \in [Names -> 1..Cardinality(Names)] /\ \A m, n \in Names : m # n => id[m] # id[n]
  BY Numbering
<1>1. PICK known \in [Names -> {"nothing", "stranger", "imported", "issued"}] :
        /\ row = [n \in Names |-> CASE known[n] = "imported" -> [Granted EXCEPT !.id = id[n]]
                                    [] known[n] = "issued" -> [Granted EXCEPT !.id = id[n], !.until = 1, !.ref = 1]
                                    [] OTHER -> NoRow]
        /\ account = [n \in Names |-> IF known[n] = "nothing" THEN "none" ELSE "on"]
        /\ secrets = [i \in Ids |-> IF \E n \in Names : known[n] = "issued" /\ id[n] = i THEN <<"active">> ELSE <<>>]
  BY DEF Init
<1> HIDE DEF id
<1>2. /\ now = 0 /\ protocol \in [Names -> Protocols] /\ client = "active" /\ serving = TRUE /\ doubt = {}
      /\ req = [c \in Callers |-> NoRequest] /\ pass = NoPass /\ requests = 0 /\ faults = 0
  BY DEF Init
<1>3. \A n \in Names : id[n] \in Ids /\ id[n] # 0 /\ id[n] <= Cardinality(Names) /\ id[n] \in Nat
  BY <1>0, Numbers, BoundsAssumption DEF Ids
<1>4. \A n \in Names : /\ known[n] = "imported" => row[n] = [Granted EXCEPT !.id = id[n]]
                       /\ known[n] = "issued" => row[n] = [Granted EXCEPT !.id = id[n], !.until = 1, !.ref = 1]
                       /\ known[n] \in {"nothing", "stranger"} => row[n] = NoRow
  BY <1>1
<1>5. \A n \in Names : row[n] \in Rows /\ row[n].id \in {0, id[n]} /\ row[n].ref \in {0, 1}
                       /\ ((row[n].id # 0 /\ row[n].ref # 0) => (row[n].ref = 1 /\ known[n] = "issued" /\ row[n].id = id[n]))
                       /\ (known[n] = "issued" => row[n].id = id[n])
  <2> TAKE n \in Names
  <2>0. Granted \in Rows /\ Granted.ref = 0 /\ Granted.id = 0
    BY Numbers DEF Granted, NoRow, Rows
  <2>1. CASE known[n] = "imported"
    <3>1. row[n] \in Rows /\ row[n].id = id[n] /\ row[n].ref = 0
      BY <1>4, <1>3, <2>0, <2>1 DEF Rows
    <3> QED
      BY <3>1, <1>3, <2>1
  <2>2. CASE known[n] = "issued"
    <3> DEFINE g == [Granted EXCEPT !.id = id[n]]
               h == [g EXCEPT !.until = 1]
    <3>2. g \in Rows /\ g.id = id[n]
      BY <1>3, <2>0 DEF Rows
    <3>3. h \in Rows /\ h.id = id[n]
      <4> HIDE DEF g
      <4> QED
        BY <3>2, Numbers DEF Rows
    <3>4. row[n] = [h EXCEPT !.ref = 1]
      BY <1>4, <2>2
    <3>1. row[n] \in Rows /\ row[n].id = id[n] /\ row[n].ref = 1
      <4> HIDE DEF h
      <4> QED
        BY <3>3, <3>4 DEF Rows
    <3> QED
      BY <3>1, <1>3, <2>2
  <2>3. CASE known[n] \in {"nothing", "stranger"}
    <3>1. row[n] = NoRow /\ NoRow.id = 0 /\ NoRow.ref = 0
      BY <1>4, <2>3 DEF NoRow
    <3> QED
      BY <3>1, <2>3, NoneTyped
  <2> QED
    BY <2>1, <2>2, <2>3
<1>6. \A i \in Ids : secrets[i] \in Seq(States)
                     /\ ((\E n \in Names : known[n] = "issued" /\ id[n] = i) => secrets[i] = <<"active">>)
                     /\ (~(\E n \in Names : known[n] = "issued" /\ id[n] = i) => secrets[i] = <<>>)
  <2> TAKE i \in Ids
  <2> DEFINE used == \E n \in Names : known[n] = "issued" /\ id[n] = i
  <2>1. secrets[i] = IF used THEN <<"active">> ELSE <<>>
    BY <1>1
  <2>2. <<"active">> \in Seq(States) /\ <<>> \in Seq(States)
    BY DEF States
  <2> HIDE DEF used
  <2>3. secrets[i] \in Seq(States) /\ (used => secrets[i] = <<"active">>) /\ (~used => secrets[i] = <<>>)
    BY <2>1, <2>2
  <2> QED
    BY <2>3 DEF used
<1>7. TypeOK
  <2>1. row \in [Names -> Rows]
    BY <1>1, <1>5
  <2>2. secrets \in [Ids -> Seq(States)]
    BY <1>1, <1>6
  <2>3. account \in [Names -> {"none", "on", "off"}]
    BY <1>1
  <2>4. req \in [Callers -> Requests] /\ pass \in Passes
    BY <1>2, NoneTyped
  <2> QED
    BY <2>1, <2>2, <2>3, <2>4, <1>2, BoundsAssumption DEF TypeOK, States
<1>8. Distinct
  BY <1>5, <1>0, <1>3, <1>2, Numbers DEF Distinct, Given
<1>9. NamesLive
  BY <1>5, <1>6, <1>3 DEF NamesLive
<1>10. GoneRevoked
  <2> SUFFICES ASSUME NEW i \in Ids, \A n \in Names : row[n].id # i PROVE \A v \in DOMAIN secrets[i] : secrets[i][v] = "revoked"
    BY DEF GoneRevoked
  <2>1. secrets[i] = <<>>
    BY <1>6, <1>5
  <2> QED
    BY <2>1
<1>11. Asked /\ Apart /\ Holding
  <2>1. \A c \in Callers : req[c] = NoRequest
    BY <1>2
  <2>2. NoRequest.pc = "idle" /\ NoRequest.kind = "none" /\ NoRequest.new = 0
    BY DEF NoRequest
  <2>3. pass.by = "nobody"
    BY <1>2 DEF NoPass
  <2> QED
    BY <2>1, <2>2, <2>3, <1>2, Numbers, CallersAssumption DEF Asked, Apart, Holding, Path, Fresh, Kept, Unspent, Reserved, Given
<1> QED
  BY <1>7, <1>8, <1>9, <1>10, <1>11 DEF Inv, Creds

\* At the start every note is what the account is.
LEMMA InitNotes == Init => Notes
<1> SUFFICES ASSUME Init PROVE Notes
  OBVIOUS
<1> DEFINE id == CHOOSE f \in [Names -> 1..Cardinality(Names)] : \A m, n \in Names : m # n => f[m] # f[n]
<1>1. PICK known \in [Names -> {"nothing", "stranger", "imported", "issued"}] :
        /\ row = [n \in Names |-> CASE known[n] = "imported" -> [Granted EXCEPT !.id = id[n]]
                                    [] known[n] = "issued" -> [Granted EXCEPT !.id = id[n], !.until = 1, !.ref = 1]
                                    [] OTHER -> NoRow]
        /\ account = [n \in Names |-> IF known[n] = "nothing" THEN "none" ELSE "on"]
  BY DEF Init
<1> HIDE DEF id
<1>2. serving = TRUE /\ pass = NoPass /\ req = [c \in Callers |-> NoRequest] /\ requests = 0
  BY DEF Init
<1>3. Granted.observed = "enabled" /\ Granted \in Rows /\ NoRow.observed = "missing"
  BY Numbers DEF Granted, NoRow, Rows
<1>4. \A n \in Names : account[n] \in {"none", "on"} /\ row[n].observed \in {"enabled", "missing"}
  BY <1>1, <1>3 DEF Rows
<1>5. Minded
  BY <1>4 DEF Minded, Wrong, as_account
<1>6. NoPass.pc = "next" /\ NoPass.id = 0 /\ NoPass.by = "nobody" /\ NoRequest.pc = "idle"
  BY DEF NoPass, NoRequest
<1>7. ReadAgain /\ Switched /\ Starting
  BY <1>2, <1>6 DEF ReadAgain, Misread, Switched, InHand, Starting
<1>8. Working
  BY <1>2, <1>6, Numbers DEF Working, Given, Unspent
<1> QED
  BY <1>5, <1>7, <1>8 DEF Notes

---------------------------------------------------------------------------
(* The steps of a request, with whatever it does to its own name *)

Others(c) == \A d \in Callers \ {c} : req'[d] = req[d]
SameRow(n) == row'[n].id = row[n].id /\ row'[n].client = row[n].client
Alike(n) ==
  /\ SameRow(n) /\ row'[n].desired = row[n].desired /\ row'[n].observed = row[n].observed
  /\ account'[n] = account[n] /\ (n \in doubt => n \in doubt')

\* Nothing turns wrong about a name a step leaves alone.
LEMMA AlikeKept ==
  ASSUME NEW n \in Names, Alike(n), pass' = pass
  PROVE  (Wrong(n)' => Wrong(n)) /\ (Misread(n)' => Misread(n)) /\ (InHand(n)' => InHand(n)) /\ SameRow(n)
BY DEF Alike, SameRow, Wrong, Misread, InHand, live, exists, holds

\* A request that moves keeps to its path, and others keep what they have.
LEMMA AskedKept ==
  ASSUME Inv, NEW c \in Callers, Others(c), requests' = requests,
         req'[c].new = req[c].new \/ req'[c].new = 0, req'[c].pc = "idle" \/ (req'[c].new = req[c].new /\ req[c].pc # "idle"),
         Path(req[c])', Unspent(req[c])' => Unspent(req[c]), Kept(req[c])',
         \A i \in Ids : 1 \in DOMAIN secrets[i] => 1 \in DOMAIN secrets'[i],
         \A n \in Names : \/ row'[n].id \in {row[n].id, 0}
                          \/ row'[n].id = req[c].new /\ Unspent(req[c]) /\ ~Unspent(req[c])'
  PROVE  Asked' /\ Apart'
<1>1. \A d \in Callers : req[d] \in Requests /\ Path(req[d]) /\ req[d].new <= Given /\ Fresh(req[d]) /\ Kept(req[d])
  BY DEF Inv, TypeOK, Asked
<1>2. Given' = Given /\ Given \in Nat
  BY Numbers DEF Given, Inv, TypeOK
<1>3. \A d \in Callers : req[d].new \in Ids \cup {0} /\ req[d].own \in Ids \cup {0}
  BY <1>1 DEF Requests
<1>4. ASSUME NEW d \in Callers PROVE Path(req[d])' /\ req'[d].new <= Given' /\ Fresh(req[d])' /\ Kept(req[d])'
  <2>1. CASE d = c
    <3>1. Fresh(req[c])'
      <4> SUFFICES ASSUME Unspent(req[c])' PROVE req'[c].new # 0 /\ \A n \in Names : row'[n].id # req'[c].new
        BY DEF Fresh
      <4>1. Unspent(req[c]) /\ req'[c].new = req[c].new
        BY DEF Unspent
      <4> QED
        BY <4>1, <1>1 DEF Fresh
    <3> QED
      BY <2>1, <3>1, <1>1, <1>2
  <2>2. CASE d # c
    <3>1. req'[d] = req[d]
      BY <2>2 DEF Others
    <3>2. Fresh(req[d])'
      <4> SUFFICES ASSUME Unspent(req[d]), NEW n \in Names PROVE req[d].new # 0 /\ row'[n].id # req[d].new
        BY <3>1, NamesAssumption DEF Fresh, Unspent
      <4>1. req[d].new # 0 /\ row[n].id # req[d].new
        BY <1>1 DEF Fresh
      <4>2. Unspent(req[c]) => req[c].new # req[d].new
        BY <2>2 DEF Inv, Apart, Unspent
      <4> QED
        BY <4>1, <4>2
    <3>3. Kept(req[d])'
      BY <3>1, <1>1, <1>3 DEF Kept
    <3> QED
      BY <3>1, <3>2, <3>3, <1>1, <1>2
  <2> QED
    BY <2>1, <2>2
<1>5. Apart'
  BY DEF Inv, Apart, Others
<1> QED
  BY <1>4, <1>5 DEF Asked

\* A step of a request keeps the notes minded when it accounts for what it does itself.
LEMMA NotesKept ==
  ASSUME Inv, Notes, NEW c \in Callers, Others(c), requests' = requests, pass' = pass, serving' = serving,
         req[c].pc \notin {"idle", "held"}, req'[c].new = req[c].new \/ req'[c].pc = "idle",
         Unspent(req[c])' => Unspent(req[c]),
         \A n \in Names : Wrong(n)' => Minds(c, n)' \/ (Wrong(n) /\ SameRow(n) /\ ~Minds(c, n)),
         \A n \in Names : Misread(n)' => Minds(c, n)' \/ (Misread(n) /\ SameRow(n) /\ ~Minds(c, n)),
         \A n \in Names : InHand(n)' => Mirrors(c, n)' \/ (InHand(n) /\ SameRow(n) /\ ~Mirrors(c, n)),
         \A n \in Names : \/ row'[n].observed \in {"pending", "missing"}
                          \/ row'[n].id = row[n].id /\ row'[n].observed = row[n].observed
                          \/ row'[n].id \in {0, req[c].new} /\ Unspent(req[c])
  PROVE  Holding' /\ Notes'
<1>0. pass \in Passes /\ req[c] \in Requests /\ pass.name \in Names
  BY DEF Inv, TypeOK, Passes
<1>1. \A d \in Callers \ {c} : req'[d] = req[d]
  BY DEF Others
<1>2. pass.by # c
  BY DEF Inv, Holding
<1>3. Holding'
  BY <1>1, <1>2 DEF Holding, Inv
<1>4. \A d \in Callers \ {c}, n \in Names :
        SameRow(n) => (Minds(d, n)' <=> Minds(d, n)) /\ (Mirrors(d, n)' <=> Mirrors(d, n)) /\ (Awaits(d, n)' <=> Awaits(d, n))
  BY <1>1 DEF SameRow, Minds, Early, Mirrors, Late, Page, Awaits, Due
<1>5. serving
  BY DEF Notes, Starting
<1>6. Minded'
  <2> SUFFICES ASSUME NEW n \in Names, Wrong(n)' PROVE \E d \in Callers : Minds(d, n)' \/ Awaits(d, n)'
    BY DEF Minded
  <2>1. CASE Minds(c, n)'
    BY <2>1
  <2>2. CASE Wrong(n) /\ SameRow(n) /\ ~Minds(c, n)
    <3>1. PICK d \in Callers : Minds(d, n) \/ Awaits(d, n)
      BY <2>2, <1>5 DEF Notes, Minded
    <3>2. d # c
      BY <3>1, <2>2, <1>2 DEF Awaits
    <3> QED
      BY <3>1, <3>2, <2>2, <1>4
  <2> QED
    BY <2>1, <2>2
<1>7. ReadAgain'
  <2> SUFFICES ASSUME NEW n \in Names, Misread(n)' PROVE \E d \in Callers : Minds(d, n)'
    BY DEF ReadAgain
  <2>1. CASE Minds(c, n)'
    BY <2>1
  <2>2. CASE Misread(n) /\ SameRow(n) /\ ~Minds(c, n)
    <3>1. PICK d \in Callers : Minds(d, n)
      BY <2>2 DEF Notes, ReadAgain
    <3> QED
      BY <3>1, <2>2, <1>4
  <2> QED
    BY <2>1, <2>2
<1>8. Switched'
  <2> SUFFICES ASSUME NEW n \in Names, InHand(n)' PROVE \E d \in Callers : Mirrors(d, n)'
    BY DEF Switched
  <2>1. CASE Mirrors(c, n)'
    BY <2>1
  <2>2. CASE InHand(n) /\ SameRow(n) /\ ~Mirrors(c, n)
    <3>1. PICK d \in Callers : Mirrors(d, n)
      BY <2>2, <1>5 DEF Notes, Switched
    <3> QED
      BY <3>1, <2>2, <1>4
  <2> QED
    BY <2>1, <2>2
<1>9. Starting'
  BY <1>5 DEF Starting
<1>10. Working'
  <2>1. Given' = Given
    BY DEF Given
  <2>2. \A d \in Callers : Unspent(req[d])' => req'[d].new # pass.id
    BY <1>1 DEF Notes, Working, Unspent
  <2>3. ASSUME pass.pc # "next", holds(pass.name, pass.id)' PROVE row'[pass.name].observed \in {"pending", "missing"}
    BY <2>3, <1>0 DEF Notes, Working, holds
  <2> QED
    BY <2>1, <2>2, <2>3 DEF Working, Notes, holds
<1> QED
  BY <1>3, <1>6, <1>7, <1>8, <1>9, <1>10 DEF Notes

\* What the parts of the type say of one request and of one row.
LEMMA Typed ==
  ASSUME TypeOK
  PROVE  /\ \A c \in Callers : /\ req[c] \in Requests /\ req[c].name \in Names /\ req[c].pc \in Points /\ req[c].kind \in Kinds
                               /\ req[c].own \in Ids \cup {0} /\ req[c].id \in Ids \cup {0} /\ req[c].new \in Ids \cup {0}
                               /\ req[c].ref \in Nat /\ req[c].whose \in {"given", "named"}
         /\ \A n \in Names : /\ row[n] \in Rows /\ row[n].id \in Ids \cup {0} /\ row[n].ref \in Nat
                             /\ row[n].client \in {"given", "named"}
         /\ pass \in Passes /\ pass.name \in Names /\ pass.id \in Ids \cup {0}
BY DEF TypeOK, Requests, Rows, Passes

\* A request goes on to another point.
LEMMA Goes ==
  ASSUME TypeOK, NEW c \in Callers, NEW pc \in Points, goes(c, pc)
  PROVE  /\ req' \in [Callers -> Requests] /\ Others(c) /\ req'[c] \in Requests /\ req'[c].pc = pc
         /\ req'[c].kind = req[c].kind /\ req'[c].name = req[c].name /\ req'[c].own = req[c].own /\ req'[c].id = req[c].id
         /\ req'[c].new = req[c].new /\ req'[c].ref = req[c].ref /\ req'[c].whose = req[c].whose
<1>1. req \in [Callers -> Requests] /\ req[c] \in Requests
  BY DEF TypeOK
<1> DEFINE s == [req[c] EXCEPT !.pc = pc]
<1>2. /\ s \in Requests /\ s.pc = pc /\ s.kind = req[c].kind /\ s.name = req[c].name /\ s.own = req[c].own /\ s.id = req[c].id
      /\ s.new = req[c].new /\ s.ref = req[c].ref /\ s.whose = req[c].whose
  BY <1>1 DEF Requests
<1>3. req' = [req EXCEPT ![c] = s]
  BY DEF goes
<1> HIDE DEF s
<1> QED
  BY <1>1, <1>2, <1>3 DEF Others

\* A request is over.
LEMMA Done ==
  ASSUME TypeOK, NEW c \in Callers, done(c)
  PROVE  /\ req' \in [Callers -> Requests] /\ Others(c) /\ req'[c] = NoRequest
         /\ req'[c].pc = "idle" /\ req'[c].kind = "none" /\ req'[c].new = 0
<1>1. req \in [Callers -> Requests] /\ NoRequest \in Requests
  BY NoneTyped DEF TypeOK
<1>2. NoRequest.pc = "idle" /\ NoRequest.kind = "none" /\ NoRequest.new = 0
  BY DEF NoRequest
<1> QED
  BY <1>1, <1>2 DEF done, Others

\* What is over is on no path.
LEMMA OverIsIdle ==
  ASSUME NEW r, r.pc = "idle"
  PROVE  Path(r) /\ ~Unspent(r) /\ Kept(r)
BY DEF Path, Unspent, Kept, Reserved

\* The credentials stay as they are.
LEMMA CredsSame ==
  ASSUME Inv, requests' \in Nat, requests <= requests', secrets' = secrets,
         \A n \in Names : row'[n].id = row[n].id /\ row'[n].ref = row[n].ref
  PROVE  Creds'
<1>1. Given \in Nat /\ Given' \in Nat /\ Given <= Given'
  BY Numbers DEF Given, Inv, TypeOK
<1>0. \A n \in Names : row[n].id \in Ids \cup {0}
  BY Typed DEF Inv
<1>2. \A n \in Names : row[n].id \in Nat
  BY <1>0, IdsAreNumbers
<1>3. Distinct'
  BY <1>1, <1>2 DEF Inv, Creds, Distinct
<1>4. NamesLive' /\ GoneRevoked'
  BY DEF Inv, Creds, NamesLive, GoneRevoked
<1> QED
  BY <1>3, <1>4 DEF Creds

\* A step that leaves the rows alone.
LEMMA RowsAlike ==
  ASSUME Inv, row' = row, account' = account, doubt' = doubt
  PROVE  /\ \A n \in Names : Alike(n)
         /\ \A n \in Names : row'[n].id = row[n].id /\ row'[n].ref = row[n].ref
BY DEF Alike, SameRow

\* A step of a request that leaves all names but its own alone, accounted for at its own.
LEMMA RequestKeeps ==
  ASSUME Inv, Notes, NEW c \in Callers, NEW m \in Names, m = req[c].name, TypeOK', Creds', Others(c),
         requests' = requests, pass' = pass, serving' = serving, req[c].pc \notin {"idle", "held"},
         req'[c].new = req[c].new \/ (req'[c].pc = "idle" /\ req'[c].new = 0),
         Path(req[c])', Unspent(req[c])' => Unspent(req[c]), Kept(req[c])',
         \A i \in Ids : 1 \in DOMAIN secrets[i] => 1 \in DOMAIN secrets'[i],
         \A n \in Names \ {m} : Alike(n),
         \/ row'[m].id \in {row[m].id, 0}
         \/ row'[m].id = req[c].new /\ Unspent(req[c]) /\ ~Unspent(req[c])',
         Wrong(m)' => Minds(c, m)' \/ (Wrong(m) /\ SameRow(m) /\ ~Minds(c, m)),
         Misread(m)' => Minds(c, m)' \/ (Misread(m) /\ SameRow(m) /\ ~Minds(c, m)),
         InHand(m)' => Mirrors(c, m)' \/ (InHand(m) /\ SameRow(m) /\ ~Mirrors(c, m)),
         \/ row'[m].observed \in {"pending", "missing"}
         \/ row'[m].id = row[m].id /\ row'[m].observed = row[m].observed
         \/ row'[m].id \in {0, req[c].new} /\ Unspent(req[c])
  PROVE  Inv' /\ Notes'
<1>1. \A n \in Names \ {m} :
        /\ (Wrong(n)' => Wrong(n)) /\ (Misread(n)' => Misread(n)) /\ (InHand(n)' => InHand(n)) /\ SameRow(n)
        /\ row'[n].id = row[n].id /\ row'[n].observed = row[n].observed
  BY AlikeKept DEF Alike, SameRow
<1>2. \A n \in Names \ {m} : ~Minds(c, n) /\ ~Mirrors(c, n)
  BY DEF Minds, Early, Mirrors, Late, Page
<1>3. \A n \in Names : \/ row'[n].id \in {row[n].id, 0}
                       \/ row'[n].id = req[c].new /\ Unspent(req[c]) /\ ~Unspent(req[c])'
  BY <1>1
<1>4. Asked' /\ Apart'
  BY <1>3, AskedKept
<1>5. /\ \A n \in Names : Wrong(n)' => Minds(c, n)' \/ (Wrong(n) /\ SameRow(n) /\ ~Minds(c, n))
      /\ \A n \in Names : Misread(n)' => Minds(c, n)' \/ (Misread(n) /\ SameRow(n) /\ ~Minds(c, n))
      /\ \A n \in Names : InHand(n)' => Mirrors(c, n)' \/ (InHand(n) /\ SameRow(n) /\ ~Mirrors(c, n))
  BY <1>1, <1>2
<1>6. \A n \in Names : \/ row'[n].observed \in {"pending", "missing"}
                       \/ row'[n].id = row[n].id /\ row'[n].observed = row[n].observed
                       \/ row'[n].id \in {0, req[c].new} /\ Unspent(req[c])
  BY <1>1
<1>7. Holding' /\ Notes'
  BY <1>5, <1>6, NotesKept
<1> QED
  BY <1>4, <1>7 DEF Inv

\* Find: the page of that name goes on to the row it found, or to make one.
LEMMA FindKeeps ==
  ASSUME Inv, Notes, NEW c \in Callers, Find(c)
  PROVE  Inv' /\ Notes'
<1> DEFINE r == req[c]
           g == row[r.name]
           found == CASE r.kind \in {"toggle", "page"} -> "mirror" [] r.kind = "rotate" -> "call"
                      [] r.kind = "pagerotate" -> "store" [] OTHER -> "forget"
           absent == CASE r.kind \in {"toggle", "page", "rotate"} -> "touch" [] r.kind \notin {"toggle", "page"} \cup Rotations -> "purge"
                       [] OTHER -> IF protocol[r.name] = "mieru" THEN "touch" ELSE "idle"
<1>0. TypeOK /\ Path(r) /\ r.pc = "find" /\ r.kind \in {"toggle", "page", "rotate", "pagerotate", "delete", "pagedelete"}
  BY DEF Inv, Asked, Find, at, Path
<1>1. r \in Requests /\ r.name \in Names /\ g \in Rows /\ g.id \in Ids \cup {0} /\ g.ref \in Nat
  BY <1>0, Typed
<1>2. /\ now' = now /\ protocol' = protocol /\ serving' = serving /\ requests' = requests /\ faults' = faults
      /\ account' = account /\ pass' = pass /\ doubt' = doubt /\ client' = client /\ row' = row /\ secrets' = secrets
  BY DEF Find, fine, quiet, idly, domain
<1>3. /\ r.kind \in {"toggle", "page"} => found = "mirror"
      /\ r.kind = "rotate" => found = "call"
      /\ r.kind = "pagerotate" => found = "store"
      /\ r.kind \in {"delete", "pagedelete"} => found = "forget"
  BY <1>0
<1>4. /\ r.kind \in {"toggle", "page", "rotate"} => absent = "touch"
      /\ r.kind \in {"delete", "pagedelete"} => absent = "purge"
      /\ r.kind = "pagerotate" => absent \in {"touch", "idle"}
  BY <1>0 DEF Rotations
<1>5. IF exists(r.name) THEN req' = [req EXCEPT ![c].pc = found, ![c].id = g.id, ![c].ref = g.ref]
      ELSE IF absent = "idle" THEN done(c) ELSE goes(c, absent)
  BY DEF Find
<1> HIDE DEF found, absent
<1>6. /\ req' \in [Callers -> Requests] /\ Others(c)
      /\ \/ exists(r.name) /\ req'[c].pc = found /\ req'[c].id = g.id /\ req'[c].kind = r.kind /\ req'[c].name = r.name
            /\ req'[c].new = r.new
         \/ ~exists(r.name) /\ absent # "idle" /\ req'[c].pc = absent /\ req'[c].kind = r.kind /\ req'[c].name = r.name
            /\ req'[c].new = r.new
         \/ ~exists(r.name) /\ absent = "idle" /\ req'[c].pc = "idle" /\ req'[c].new = 0 /\ req'[c].kind = "none"
  <2>1. CASE exists(r.name)
    <3> DEFINE s == [r EXCEPT !.pc = found, !.id = g.id, !.ref = g.ref]
    <3>1. found \in Points
      BY <1>0, <1>3 DEF Points
    <3>2. s \in Requests /\ s.pc = found /\ s.id = g.id /\ s.kind = r.kind /\ s.name = r.name /\ s.new = r.new
      BY <1>1, <3>1 DEF Requests
    <3>3. req' = [req EXCEPT ![c] = s]
      BY <1>5, <2>1
    <3> HIDE DEF s
    <3> QED
      BY <2>1, <3>2, <3>3, <1>0 DEF Others, TypeOK
  <2>2. CASE ~exists(r.name) /\ absent # "idle"
    <3>1. absent \in Points /\ goes(c, absent)
      BY <1>0, <1>4, <1>5, <2>2 DEF Points
    <3> QED
      BY <3>1, <2>2, <1>0, Goes
  <2>3. CASE ~exists(r.name) /\ absent = "idle"
    BY <2>3, <1>5, <1>0, Done
  <2> QED
    BY <2>1, <2>2, <2>3
<1>7. TypeOK'
  BY <1>0, <1>2, <1>6 DEF TypeOK
<1>8. \A n \in Names : Alike(n) /\ row'[n].id = row[n].id /\ row'[n].ref = row[n].ref
  BY <1>2, RowsAlike
<1>9. Creds'
  BY <1>2, <1>8, CredsSame, <1>0 DEF TypeOK
<1>10. Path(req[c])' /\ (Unspent(req[c])' => Unspent(req[c])) /\ Kept(req[c])'
  BY <1>0, <1>3, <1>4, <1>6 DEF Path, Unspent, Kept, Reserved
<1>11. req'[c].new \in {r.new, 0} /\ (req'[c].pc = "idle" \/ (req'[c].new = r.new /\ r.pc # "idle"))
  BY <1>0, <1>6
<1>13. \A n \in Names : (Minds(c, n) => Minds(c, n)') /\ ~Mirrors(c, n)
  <2> TAKE n \in Names
  <2>1. ~Mirrors(c, n)
    BY <1>0 DEF Mirrors
  <2>2. ASSUME Minds(c, n) PROVE Minds(c, n)'
    <3>1. r.kind \in {"page", "toggle"} /\ r.name = n
      BY <2>2 DEF Minds, Early, Mirrors, Late, Page
    <3> QED
      BY <3>1, <1>2, <1>3, <1>4, <1>6 DEF Minds, Early, Mirrors, Late, Page
  <2> QED
    BY <2>1, <2>2
<1>14. \A n \in Names : (Wrong(n)' => Wrong(n)) /\ (Misread(n)' => Misread(n)) /\ (InHand(n)' => InHand(n)) /\ SameRow(n)
  BY <1>2, <1>8, AlikeKept
<1>15. \A i \in Ids : 1 \in DOMAIN secrets[i] => 1 \in DOMAIN secrets'[i]
  BY <1>2
<1>16. row'[r.name].id = row[r.name].id /\ row'[r.name].observed = row[r.name].observed
  BY <1>2
<1> QED
  BY <1>0, <1>1, <1>2, <1>6, <1>7, <1>8, <1>9, <1>10, <1>11, <1>13, <1>14, <1>15, <1>16, RequestKeeps

\* Known: the Telemt page goes on when there is a grant, and there is no note otherwise.
LEMMA KnownKeeps ==
  ASSUME Inv, Notes, NEW c \in Callers, Known(c), NEW m \in Names, m = req[c].name
  PROVE  Inv' /\ Notes'
<1>0. TypeOK /\ req[c].pc = "known" /\ req[c].kind = "page" /\ m \in Names
  BY Typed DEF Inv, Asked, Known, at, Path
<1>2. /\ now' = now /\ protocol' = protocol /\ serving' = serving /\ requests' = requests /\ faults' = faults
      /\ account' = account /\ pass' = pass /\ doubt' = doubt /\ client' = client /\ row' = row /\ secrets' = secrets
  BY DEF Known, fine, quiet, idly, domain
<1>3. /\ req' \in [Callers -> Requests] /\ Others(c)
      /\ \/ exists(m) /\ req'[c].pc = "find" /\ req'[c].kind = "page" /\ req'[c].name = m /\ req'[c].new = req[c].new
         \/ ~exists(m) /\ req'[c].pc = "idle" /\ req'[c].new = 0 /\ req'[c].kind = "none"
  <2>1. CASE exists(m)
    BY <2>1, <1>0, Goes DEF Known, Points
  <2>2. CASE ~exists(m)
    BY <2>2, <1>0, Done DEF Known
  <2> QED
    BY <2>1, <2>2
<1>4. TypeOK'
  BY <1>0, <1>2, <1>3 DEF TypeOK
<1>5. \A n \in Names : Alike(n) /\ row'[n].id = row[n].id /\ row'[n].ref = row[n].ref
  BY <1>2, RowsAlike
<1>6. Creds'
  BY <1>2, <1>5, CredsSame, <1>0 DEF TypeOK
<1>7. Path(req[c])' /\ (Unspent(req[c])' => Unspent(req[c])) /\ Kept(req[c])'
  BY <1>0, <1>3 DEF Path, Unspent, Kept, Reserved
<1>8. (exists(m) => Minds(c, m)') /\ ~Mirrors(c, m)
  BY <1>0, <1>3 DEF Minds, Early, Mirrors, Page
<1>9. (Wrong(m)' => Wrong(m)) /\ (Misread(m)' => Misread(m)) /\ (InHand(m)' => InHand(m)) /\ SameRow(m)
  BY <1>0, <1>2, <1>5, AlikeKept
<1>10. (Wrong(m) => exists(m)) /\ (Misread(m) => exists(m))
  BY DEF Wrong, Misread, live
<1>11. /\ \A i \in Ids : 1 \in DOMAIN secrets[i] => 1 \in DOMAIN secrets'[i]
       /\ row'[m].id = row[m].id /\ row'[m].observed = row[m].observed
  BY <1>2
<1> QED
  BY <1>0, <1>2, <1>3, <1>4, <1>5, <1>6, <1>7, <1>8, <1>9, <1>10, <1>11, RequestKeeps

\* One row is put in the place of another.
LEMMA RowPut ==
  ASSUME TypeOK, NEW n \in Names, NEW g \in Rows, row' = [row EXCEPT ![n] = g]
  PROVE  row' \in [Names -> Rows] /\ row'[n] = g /\ \A m \in Names \ {n} : row'[m] = row[m]
BY DEF TypeOK

\* The names a step does not touch.
LEMMA Elsewhere ==
  ASSUME NEW n \in Names, \A m \in Names \ {n} : row'[m] = row[m], \A m \in Names \ {n} : account'[m] = account[m],
         \A m \in Names \ {n} : m \in doubt => m \in doubt'
  PROVE  \A m \in Names \ {n} : Alike(m)
BY DEF Alike, SameRow

\* Mirror: the note is pending, and the page that made it so has yet to force its pass.
LEMMA MirrorKeeps ==
  ASSUME Inv, Notes, NEW c \in Callers, Mirror(c), NEW m \in Names, m = req[c].name
  PROVE  Inv' /\ Notes'
<1> DEFINE g == intended(row[m], req[c].on)
<1>0. TypeOK /\ req[c].pc = "mirror" /\ req[c].kind \in {"page", "toggle"} /\ m \in Names /\ row[m] \in Rows /\ req[c] \in Requests
  BY Typed DEF Inv, Asked, Mirror, at, Path
<1>2. /\ now' = now /\ protocol' = protocol /\ serving' = serving /\ requests' = requests /\ faults' = faults
      /\ account' = account /\ pass' = pass /\ doubt' = doubt /\ client' = client /\ secrets' = secrets
  BY DEF Mirror, fine, quiet, idly, domain
<1>3. CASE holds(m, req[c].id)
  <2>1. g \in Rows /\ g.id = row[m].id /\ g.client = row[m].client /\ g.ref = row[m].ref /\ g.observed = "pending"
    BY <1>0 DEF intended, as_observed, Rows
  <2>2. row' \in [Names -> Rows] /\ row'[m] = g /\ \A n \in Names \ {m} : row'[n] = row[n]
    <3>1. row' = [row EXCEPT ![m] = g]
      BY <1>3 DEF Mirror
    <3> QED
      BY <3>1, <2>1, <1>0, RowPut
  <2> HIDE DEF g
  <2>3. /\ req' \in [Callers -> Requests] /\ Others(c)
        /\ req'[c].pc = "lock" /\ req'[c].kind = req[c].kind /\ req'[c].name = m /\ req'[c].new = req[c].new
        /\ req'[c].id = row[m].id /\ req'[c].whose = row[m].client
    <3> DEFINE s == [req[c] EXCEPT !.pc = "lock", !.whose = row[m].client]
    <3>1. req' = [req EXCEPT ![c] = s]
      BY <1>3 DEF Mirror
    <3>2. /\ s \in Requests /\ s.pc = "lock" /\ s.kind = req[c].kind /\ s.name = m /\ s.new = req[c].new /\ s.id = req[c].id
          /\ s.whose = row[m].client
      BY <1>0, Typed DEF Requests, Points
    <3> HIDE DEF s
    <3> QED
      BY <3>1, <3>2, <1>0, <1>3 DEF TypeOK, Others, holds
  <2>4. TypeOK'
    BY <1>0, <1>2, <2>2, <2>3 DEF TypeOK
  <2>5. \A n \in Names : row'[n].id = row[n].id /\ row'[n].ref = row[n].ref
    BY <2>1, <2>2
  <2>6. Creds'
    BY <1>2, <2>5, CredsSame, <1>0 DEF TypeOK
  <2>7. Path(req[c])' /\ (Unspent(req[c])' => Unspent(req[c])) /\ Kept(req[c])'
    BY <1>0, <2>3 DEF Path, Unspent, Kept, Reserved
  <2>8. Minds(c, m)' /\ ~InHand(m)' /\ ~Wrong(m)'
    BY <1>0, <2>1, <2>2, <2>3 DEF Minds, Late, Page, InHand, Wrong
  <2>9. \A n \in Names \ {m} : Alike(n)
    BY <1>0, <1>2, <2>2, Elsewhere
  <2>10. /\ \A i \in Ids : 1 \in DOMAIN secrets[i] => 1 \in DOMAIN secrets'[i]
         /\ row'[m].id = row[m].id /\ row'[m].observed = "pending"
    BY <1>2, <2>1, <2>2
  <2> QED
    BY <1>0, <1>2, <2>3, <2>4, <2>6, <2>7, <2>8, <2>9, <2>10, RequestKeeps
<1>4. CASE ~holds(m, req[c].id)
  <2>1. row' = row /\ done(c)
    BY <1>4 DEF Mirror
  <2>3. req' \in [Callers -> Requests] /\ Others(c) /\ req'[c].pc = "idle" /\ req'[c].new = 0 /\ req'[c].kind = "none"
    BY <1>0, <2>1, Done
  <2>4. TypeOK'
    BY <1>0, <1>2, <2>1, <2>3 DEF TypeOK
  <2>5. \A n \in Names : Alike(n) /\ row'[n].id = row[n].id /\ row'[n].ref = row[n].ref
    BY <1>2, <2>1, RowsAlike
  <2>6. Creds'
    BY <1>2, <2>5, CredsSame, <1>0 DEF TypeOK
  <2>7. Path(req[c])' /\ (Unspent(req[c])' => Unspent(req[c])) /\ Kept(req[c])'
    BY <1>0, <2>3 DEF Path, Unspent, Kept, Reserved
  <2>8. live(m) => ~Minds(c, m) /\ ~Mirrors(c, m)
    BY <1>0, <1>4 DEF Minds, Early, Mirrors, Late, holds, live, exists
  <2>9. (Wrong(m)' => Wrong(m)) /\ (Misread(m)' => Misread(m)) /\ (InHand(m)' => InHand(m)) /\ SameRow(m)
    BY <1>0, <1>2, <2>5, AlikeKept
  <2>10. (Wrong(m) => live(m)) /\ (Misread(m) => live(m)) /\ (InHand(m) => live(m))
    BY DEF Wrong, Misread, InHand
  <2>11. /\ \A i \in Ids : 1 \in DOMAIN secrets[i] => 1 \in DOMAIN secrets'[i]
         /\ row'[m].id = row[m].id /\ row'[m].observed = row[m].observed
    BY <1>2, <2>1
  <2> QED
    BY <1>0, <1>2, <2>3, <2>4, <2>5, <2>6, <2>7, <2>8, <2>9, <2>10, <2>11, RequestKeeps
<1> QED
  BY <1>3, <1>4

\* Forget: a grant that is deleted has no note to be wrong.
LEMMA ForgetKeeps ==
  ASSUME Inv, Notes, NEW c \in Callers, Forget(c), NEW m \in Names, m = req[c].name
  PROVE  Inv' /\ Notes'
<1> DEFINE g == [row[m] EXCEPT !.desired = "deleted", !.observed = "missing"]
<1>0. TypeOK /\ req[c].pc = "forget" /\ req[c].kind \in {"delete", "pagedelete"} /\ row[m] \in Rows /\ req[c] \in Requests
  BY Typed DEF Inv, Asked, Forget, at, Path
<1>1. ~Minds(c, m) /\ ~Mirrors(c, m)
  BY <1>0 DEF Minds, Early, Mirrors, Late
<1>2. /\ now' = now /\ protocol' = protocol /\ serving' = serving /\ requests' = requests /\ faults' = faults
      /\ account' = account /\ pass' = pass /\ doubt' = doubt /\ client' = client /\ secrets' = secrets
  BY DEF Forget, fine, quiet, idly, domain
<1>3. CASE holds(m, req[c].id)
  <2>1. g \in Rows /\ g.id = row[m].id /\ g.ref = row[m].ref /\ g.desired = "deleted" /\ g.observed = "missing"
    BY <1>0 DEF Rows
  <2>2. row' \in [Names -> Rows] /\ row'[m] = g /\ \A n \in Names \ {m} : row'[n] = row[n]
    <3>1. row' = [row EXCEPT ![m] = g]
      BY <1>3 DEF Forget
    <3> QED
      BY <3>1, <2>1, <1>0, RowPut
  <2> HIDE DEF g
  <2>3. /\ req' \in [Callers -> Requests] /\ Others(c) /\ req'[c].pc = "purge" /\ req'[c].kind = req[c].kind
        /\ req'[c].new = req[c].new
    BY <1>0, <1>3, Goes DEF Forget, Points
  <2>4. TypeOK'
    BY <1>0, <1>2, <2>2, <2>3 DEF TypeOK
  <2>5. \A n \in Names : row'[n].id = row[n].id /\ row'[n].ref = row[n].ref
    BY <2>1, <2>2
  <2>6. Creds'
    BY <1>2, <2>5, CredsSame, <1>0 DEF TypeOK
  <2>7. Path(req[c])' /\ (Unspent(req[c])' => Unspent(req[c])) /\ Kept(req[c])'
    BY <1>0, <2>3 DEF Path, Unspent, Kept, Reserved
  <2>8. ~InHand(m)' /\ ~Wrong(m)' /\ ~Misread(m)'
    BY <2>1, <2>2 DEF InHand, Wrong, Misread, live
  <2>9. \A n \in Names \ {m} : Alike(n)
    BY <1>2, <2>2, Elsewhere
  <2>10. /\ \A i \in Ids : 1 \in DOMAIN secrets[i] => 1 \in DOMAIN secrets'[i]
         /\ row'[m].id = row[m].id /\ row'[m].observed = "missing"
    BY <1>2, <2>1, <2>2
  <2> QED
    BY <1>0, <1>2, <2>3, <2>4, <2>6, <2>7, <2>8, <2>9, <2>10, RequestKeeps
<1>4. CASE ~holds(m, req[c].id)
  <2>1. row' = row /\ done(c)
    BY <1>4 DEF Forget
  <2>3. req' \in [Callers -> Requests] /\ Others(c) /\ req'[c].pc = "idle" /\ req'[c].new = 0 /\ req'[c].kind = "none"
    BY <1>0, <2>1, Done
  <2>4. TypeOK'
    BY <1>0, <1>2, <2>1, <2>3 DEF TypeOK
  <2>5. \A n \in Names : Alike(n) /\ row'[n].id = row[n].id /\ row'[n].ref = row[n].ref
    BY <1>2, <2>1, RowsAlike
  <2>6. Creds'
    BY <1>2, <2>5, CredsSame, <1>0 DEF TypeOK
  <2>7. Path(req[c])' /\ (Unspent(req[c])' => Unspent(req[c])) /\ Kept(req[c])'
    BY <1>0, <2>3 DEF Path, Unspent, Kept, Reserved
  <2>9. (Wrong(m)' => Wrong(m)) /\ (Misread(m)' => Misread(m)) /\ (InHand(m)' => InHand(m)) /\ SameRow(m)
    BY <1>2, <2>5, AlikeKept
  <2>11. /\ \A i \in Ids : 1 \in DOMAIN secrets[i] => 1 \in DOMAIN secrets'[i]
         /\ row'[m].id = row[m].id /\ row'[m].observed = row[m].observed
    BY <1>2, <2>1
  <2> QED
    BY <1>0, <1>1, <1>2, <2>3, <2>4, <2>5, <2>6, <2>7, <2>9, <2>11, RequestKeeps
<1> QED
  BY <1>3, <1>4

\* A fault is one more of them.
LEMMA Faults ==
  ASSUME TypeOK, fine \/ fault
  PROVE  faults' \in 0..MaxFaults
BY BoundsAssumption DEF TypeOK, fine, fault

\* Call: what the manager was told about an account is followed up by its page, or is in doubt.
LEMMA CallKeeps ==
  ASSUME Inv, Notes, NEW c \in Callers, Call(c), NEW m \in Names, m = req[c].name
  PROVE  Inv' /\ Notes'
<1> DEFINE r == req[c]
           pc == after_call(r)
<1>0. /\ TypeOK /\ r.pc = "call" /\ r \in Requests
      /\ r.kind \in {"page", "delete", "pagedelete", "rotate", "pagerotate", "adopt", "undo"}
  BY Typed DEF Inv, Asked, Call, at, Path
<1>1. ~Minds(c, m) /\ ~Mirrors(c, m)
  BY <1>0 DEF Minds, Early, Mirrors, Late
<1>2. /\ now' = now /\ protocol' = protocol /\ serving' = serving /\ requests' = requests
      /\ pass' = pass /\ client' = client /\ row' = row /\ secrets' = secrets
  BY DEF Call, quiet, domain
<1>3. PICK outcome \in Outcomes :
        /\ answers(m, outcome)
        /\ account' = IF outcome = "refused" THEN account ELSE [account EXCEPT ![m] = called(r)]
        /\ IF outcome = "ok" \/ (r.kind = "delete" /\ account[m] = "none") THEN goes_on(c, pc) ELSE done(c)
        /\ doubt' = IF outcome = "lost" /\ account' # account THEN doubt \cup {m} ELSE doubt
  BY DEF Call
<1>4. fine \/ fault
  BY <1>3 DEF answers, Outcomes
<1>5. faults' \in 0..MaxFaults
  BY <1>0, <1>4, Faults
<1>6. /\ r.kind = "page" => called(r) \in {"on", "off"} /\ pc \in {"known", "find"}
      /\ r.kind \in {"delete", "pagedelete", "undo"} => called(r) = "none"
      /\ r.kind = "delete" => pc = "find"
      /\ r.kind = "pagedelete" => pc \in {"idle", "find"}
      /\ r.kind = "undo" => pc = "purge"
      /\ r.kind = "rotate" => called(r) = account[m] /\ pc = "store"
      /\ r.kind = "pagerotate" => called(r) = account[m] /\ pc = "find"
      /\ r.kind = "adopt" => called(r) = account[m] /\ pc = "escrow"
  BY <1>0 DEF called, after_call, as_account
<1> HIDE DEF pc
<1>7. /\ req' \in [Callers -> Requests] /\ Others(c)
      /\ \/ pc # "idle" /\ req'[c].pc = pc /\ req'[c].kind = r.kind /\ req'[c].name = m /\ req'[c].new = r.new
         \/ req'[c].pc = "idle" /\ req'[c].new = 0 /\ req'[c].kind = "none"
      /\ \/ pc # "idle" /\ req'[c].pc = pc /\ req'[c].kind = r.kind /\ req'[c].name = m
         \/ outcome # "ok" \/ r.kind # "page"
  <2>1. pc \in Points
    BY <1>0, <1>6 DEF Points
  <2>2. CASE done(c) /\ (outcome # "ok" \/ pc = "idle")
    BY <2>2, <1>0, <1>6, Done
  <2>3. CASE goes(c, pc) /\ pc # "idle"
    BY <2>1, <2>3, <1>0, Goes
  <2> QED
    BY <2>2, <2>3, <1>3 DEF goes_on
<1>8. /\ account' \in [Names -> {"none", "on", "off"}] /\ \A n \in Names \ {m} : account'[n] = account[n]
      /\ \/ account' = account
         \/ account'[m] = "none"
         \/ r.kind = "page" /\ (outcome = "ok" \/ m \in doubt')
  <2>1. called(r) \in {"none", "on", "off"}
    BY <1>0, <1>6 DEF TypeOK
  <2>2. CASE outcome = "refused"
    BY <2>2, <1>3, <1>0 DEF TypeOK
  <2>3. CASE outcome # "refused"
    <3>1. account' = [account EXCEPT ![m] = called(r)]
      BY <2>3, <1>3
    <3>2. account \in [Names -> {"none", "on", "off"}]
      BY <1>0 DEF TypeOK
    <3>3. account' \in [Names -> {"none", "on", "off"}] /\ account'[m] = called(r) /\ \A n \in Names \ {m} : account'[n] = account[n]
      BY <3>1, <3>2, <2>1
    <3>4. called(r) = account[m] => account' = account
      BY <3>1, <3>2
    <3>5. outcome = "lost" \/ outcome = "ok"
      BY <2>3 DEF Outcomes
    <3> QED
      BY <3>3, <3>4, <3>5, <1>3, <1>6, <1>0
  <2> QED
    BY <2>2, <2>3
<1>9. doubt \subseteq doubt' /\ doubt' \subseteq Names
  BY <1>0, <1>3 DEF TypeOK
<1>10. TypeOK'
  BY <1>0, <1>2, <1>5, <1>7, <1>8, <1>9 DEF TypeOK
<1>11. \A n \in Names : row'[n].id = row[n].id /\ row'[n].ref = row[n].ref /\ row'[n].observed = row[n].observed
  BY <1>2
<1>12. Creds'
  BY <1>2, <1>11, CredsSame, <1>0 DEF TypeOK
<1>13. Path(req[c])' /\ (Unspent(req[c])' => Unspent(req[c])) /\ Kept(req[c])'
  BY <1>0, <1>6, <1>7 DEF Path, Unspent, Kept, Reserved
<1>14. \A n \in Names \ {m} : Alike(n)
  BY <1>2, <1>8, <1>9 DEF Alike, SameRow
<1>15. /\ (Wrong(m)' => Minds(c, m)' \/ (Wrong(m) /\ SameRow(m)))
       /\ (Misread(m)' => Minds(c, m)' \/ (Misread(m) /\ SameRow(m)))
  <2>1. CASE account' = account
    <3>1. Alike(m)
      BY <2>1, <1>2, <1>9 DEF Alike, SameRow
    <3> QED
      BY <3>1, <1>2, AlikeKept
  <2>2. CASE account'[m] = "none" \/ m \in doubt'
    BY <2>2 DEF Wrong, Misread
  <2>3. CASE r.kind = "page" /\ outcome = "ok"
    <3>1. Minds(c, m)'
      BY <2>3, <1>6, <1>7 DEF Minds, Early, Page
    <3> QED
      BY <3>1
  <2> QED
    BY <1>8, <2>1, <2>2, <2>3
<1>16. InHand(m)' => InHand(m) /\ SameRow(m)
  BY <1>2, <1>9 DEF InHand, SameRow, live, exists
<1>17. \A i \in Ids : 1 \in DOMAIN secrets[i] => 1 \in DOMAIN secrets'[i]
  BY <1>2
<1> QED
  BY <1>0, <1>1, <1>2, <1>7, <1>10, <1>11, <1>12, <1>13, <1>14, <1>15, <1>16, <1>17, RequestKeeps

---------------------------------------------------------------------------
(* The credentials *)

\* A function over the versions of a credential is one of the same length.
LEMMA Versions ==
  ASSUME NEW s \in Seq(States), NEW f \in [DOMAIN s -> States]
  PROVE  f \in Seq(States) /\ DOMAIN f = DOMAIN s
<1>1. Len(s) \in Nat /\ DOMAIN s = 1..Len(s)
  OBVIOUS
<1>2. f \in [1..Len(s) -> States]
  BY <1>1
<1>3. f \in Seq(States)
  BY <1>1, <1>2
<1> QED
  BY <1>3

\* A version more, after the others.
LEMMA OneMore ==
  ASSUME NEW s \in Seq(States), NEW a \in States
  PROVE  /\ Append(s, a) \in Seq(States) /\ Len(Append(s, a)) \in Nat \ {0} /\ Len(Append(s, a)) \in DOMAIN Append(s, a)
         /\ Append(s, a)[Len(Append(s, a))] = a /\ 1 \in DOMAIN Append(s, a)
OBVIOUS

\* A row for a name that has none, under a number nobody used.
LEMMA CredsNewRow ==
  ASSUME Inv, NEW m \in Names, NEW i \in Ids, requests' = requests, row[m].id = 0, row'[m].id = i, row'[m].ref = 0, i <= Given,
         \A n \in Names : row[n].id # i, \A n \in Names \ {m} : row'[n] = row[n], \A j \in Ids \ {i} : secrets'[j] = secrets[j]
  PROVE  Creds'
<1>1. Given' = Given /\ 0 \notin Ids /\ i # 0
  BY Numbers DEF Given
<1>2. \A n \in Names : row[n].id \in Ids \cup {0}
  BY Typed DEF Inv
<1>3. Distinct'
  BY <1>1, <1>2 DEF Inv, Creds, Distinct
<1>4. NamesLive'
  BY <1>1, <1>2 DEF Inv, Creds, NamesLive
<1>5. GoneRevoked'
  BY <1>1, <1>2 DEF Inv, Creds, GoneRevoked
<1> QED
  BY <1>3, <1>4, <1>5 DEF Creds

\* A row that is purged with its credential.
LEMMA CredsPurged ==
  ASSUME Inv, NEW m \in Names, NEW i \in Ids, requests' = requests, row[m].id = i, row'[m].id = 0,
         \A n \in Names \ {m} : row'[n] = row[n], \A j \in Ids \ {i} : secrets'[j] = secrets[j],
         \A v \in DOMAIN secrets'[i] : secrets'[i][v] = "revoked"
  PROVE  Creds'
<1>1. Given' = Given /\ 0 \notin Ids /\ i # 0 /\ Given \in Nat /\ 0 <= Given
  BY Numbers DEF Given, Inv, TypeOK
<1>2. \A n \in Names : row[n].id \in Ids \cup {0}
  BY Typed DEF Inv
<1>3. Distinct'
  BY <1>1, <1>2 DEF Inv, Creds, Distinct
<1>4. NamesLive'
  BY <1>1, <1>2 DEF Inv, Creds, NamesLive, Distinct
<1>5. GoneRevoked'
  BY <1>1, <1>2 DEF Inv, Creds, GoneRevoked
<1> QED
  BY <1>3, <1>4, <1>5 DEF Creds

\* A row that names another version of its credential.
LEMMA CredsNext ==
  ASSUME Inv, NEW m \in Names, NEW i \in Ids, requests' = requests, row[m].id = i,
         \A n \in Names : row'[n].id = row[n].id, \A n \in Names \ {m} : row'[n].ref = row[n].ref,
         \A j \in Ids \ {i} : secrets'[j] = secrets[j],
         row'[m].ref \in DOMAIN secrets'[i], secrets'[i][row'[m].ref] # "revoked"
  PROVE  Creds'
<1>1. Given' = Given /\ 0 \notin Ids /\ i # 0
  BY Numbers DEF Given
<1>2. \A n \in Names : row[n].id \in Ids \cup {0}
  BY Typed DEF Inv
<1>3. Distinct'
  BY <1>1 DEF Inv, Creds, Distinct
<1>4. NamesLive'
  <2> SUFFICES ASSUME NEW n \in Names, row'[n].id # 0, row'[n].ref # 0
               PROVE  row'[n].ref \in DOMAIN secrets'[row'[n].id] /\ secrets'[row'[n].id][row'[n].ref] # "revoked"
    BY DEF NamesLive
  <2>1. CASE n = m
    BY <2>1
  <2>2. CASE n # m
    <3>1. row[n].id \in Ids \ {i}
      BY <2>2, <1>1, <1>2 DEF Inv, Creds, Distinct
    <3> QED
      BY <2>2, <3>1 DEF Inv, Creds, NamesLive
  <2> QED
    BY <2>1, <2>2
<1>5. GoneRevoked'
  BY <1>1, <1>2 DEF Inv, Creds, GoneRevoked
<1> QED
  BY <1>3, <1>4, <1>5 DEF Creds

\* Touch: a page minds the row it made, and a rotation doubts one it cannot be sure of.
LEMMA TouchKeeps ==
  ASSUME Inv, Notes, NEW c \in Callers, Touch(c), NEW m \in Names, m = req[c].name
  PROVE  Inv' /\ Notes'
<1> DEFINE r == req[c]
           rotates == r.kind \in Rotations
           on == rotates \/ r.on
           adopted == [NoRow EXCEPT !.id = r.new, !.client = "named", !.desired = as_observed(on), !.observed = as_observed(on)]
           g == IF exists(m) THEN row[m] ELSE adopted
           pc == CASE r.kind = "rotate" -> "call" [] r.kind = "pagerotate" -> "store" [] OTHER -> "mirror"
<1>0. /\ TypeOK /\ r.pc = "touch" /\ r.kind \in {"toggle", "page", "rotate", "pagerotate"} /\ row[m] \in Rows /\ r \in Requests
      /\ Unspent(r) /\ r.new \in Ids /\ r.new # 0 /\ r.new <= Given /\ \A n \in Names : row[n].id # r.new
  BY Typed DEF Inv, Asked, Touch, at, Path, Unspent, Fresh
<1>2. /\ now' = now /\ protocol' = protocol /\ serving' = serving /\ requests' = requests /\ faults' = faults
      /\ account' = account /\ pass' = pass /\ client' = client /\ secrets' = secrets
  BY DEF Touch, fine, quiet
<1>3. /\ row' = [row EXCEPT ![m] = g]
      /\ req' = [req EXCEPT ![c].pc = pc, ![c].id = g.id, ![c].ref = g.ref]
      /\ doubt' = IF rotates /\ ~exists(m) /\ (account[m] = "off" \/ in_hand(m)) THEN doubt \cup {m} ELSE doubt
  BY DEF Touch
<1>4. adopted \in Rows /\ adopted.id = r.new /\ adopted.ref = 0 /\ (rotates => adopted.observed = "enabled")
  BY <1>0, NoneTyped DEF Rows, NoRow, as_observed
<1> HIDE DEF adopted
<1>5. g \in Rows /\ g.id \in Ids \cup {0} /\ g.ref \in Nat
  <2>1. g \in Rows
    BY <1>0, <1>4
  <2> HIDE DEF g
  <2> QED
    BY <2>1 DEF Rows
<1>6. pc \in {"call", "store", "mirror"} /\ (r.kind = "rotate" => pc = "call") /\ (r.kind = "pagerotate" => pc = "store")
      /\ (r.kind \in {"toggle", "page"} => pc = "mirror")
  BY <1>0
<1>7. row' \in [Names -> Rows] /\ row'[m] = g /\ \A n \in Names \ {m} : row'[n] = row[n]
  BY <1>0, <1>3, <1>5, RowPut
<1>8. /\ req' \in [Callers -> Requests] /\ Others(c) /\ req'[c].pc = pc /\ req'[c].kind = r.kind /\ req'[c].name = m
      /\ req'[c].new = r.new /\ req'[c].id = g.id
  <2> DEFINE s == [r EXCEPT !.pc = pc, !.id = g.id, !.ref = g.ref]
  <2>1. req' = [req EXCEPT ![c] = s]
    BY <1>3
  <2> HIDE DEF pc, g
  <2>2. s \in Requests /\ s.pc = pc /\ s.kind = r.kind /\ s.name = m /\ s.new = r.new /\ s.id = g.id
    BY <1>0, <1>5, <1>6 DEF Requests, Points
  <2> HIDE DEF s
  <2> QED
    BY <2>1, <2>2, <1>0 DEF TypeOK, Others
<1>9. doubt \subseteq doubt' /\ doubt' \subseteq Names
  BY <1>0, <1>3 DEF TypeOK
<1>10. TypeOK'
  BY <1>0, <1>2, <1>7, <1>8, <1>9 DEF TypeOK
<1>11. Creds'
  <2>1. CASE exists(m)
    <3>1. \A n \in Names : row'[n].id = row[n].id /\ row'[n].ref = row[n].ref
      BY <2>1, <1>7
    <3> QED
      BY <3>1, <1>2, <1>0, CredsSame DEF TypeOK
  <2>2. CASE ~exists(m)
    BY <2>2, <1>0, <1>2, <1>4, <1>7, CredsNewRow DEF exists
  <2> QED
    BY <2>1, <2>2
<1> HIDE DEF pc, g, on
<1>12. Path(req[c])' /\ ~Unspent(req[c])' /\ Kept(req[c])'
  BY <1>0, <1>6, <1>8 DEF Path, Unspent, Kept, Reserved
<1>13. \A n \in Names \ {m} : Alike(n)
  BY <1>2, <1>7, <1>9 DEF Alike, SameRow
<1>14. \/ row'[m].id = row[m].id /\ row'[m].observed = row[m].observed
       \/ row'[m].id = r.new
  BY <1>4, <1>7 DEF g
<1>15. r.kind \in {"toggle", "page"} => Mirrors(c, m)' /\ Minds(c, m)'
  BY <1>6, <1>7, <1>8 DEF Minds, Mirrors, Page
<1>16. CASE r.kind \in {"toggle", "page"}
  BY <1>0, <1>2, <1>8, <1>10, <1>11, <1>12, <1>13, <1>14, <1>15, <1>16, RequestKeeps
<1>17. CASE rotates
  <2>1. ~Minds(c, m) /\ ~Mirrors(c, m)
    BY <1>17 DEF Rotations, Minds, Early, Mirrors, Late, Page
  <2>2. CASE exists(m)
    <3>1. Alike(m)
      BY <2>2, <1>2, <1>7, <1>9 DEF Alike, SameRow, g
    <3>2. (Wrong(m)' => Wrong(m)) /\ (Misread(m)' => Misread(m)) /\ (InHand(m)' => InHand(m)) /\ SameRow(m)
      BY <3>1, <1>2, AlikeKept
    <3> QED
      BY <1>0, <1>2, <1>8, <1>10, <1>11, <1>12, <1>13, <1>14, <2>1, <3>2, RequestKeeps
  <2>3. CASE ~exists(m)
    <3>1. row'[m] = adopted
      BY <2>3, <1>7 DEF g
    <3>2. account[m] = "off" \/ in_hand(m) => m \in doubt'
      BY <2>3, <1>3, <1>17
    <3>3. account[m] \in {"none", "on", "off"}
      BY <1>0 DEF TypeOK
    <3>4. ~Wrong(m)'
      BY <3>1, <3>2, <3>3, <1>2, <1>4, <1>17 DEF Wrong, as_account
    <3>5. ~InHand(m)'
      BY <3>2, <1>2 DEF InHand, in_hand
    <3>6. ~Misread(m)'
      <4>1. r.new # pass.id
        BY <1>0 DEF Notes, Working
      <4> QED
        BY <4>1, <3>1, <1>2, <1>4 DEF Misread, holds
    <3> QED
      BY <1>0, <1>2, <1>8, <1>10, <1>11, <1>12, <1>13, <1>14, <3>4, <3>5, <3>6, RequestKeeps
  <2> QED
    BY <2>2, <2>3
<1> QED
  BY <1>0, <1>16, <1>17 DEF Rotations

\* Purge: with the row go its note and all its versions.
LEMMA PurgeKeeps ==
  ASSUME Inv, Notes, NEW c \in Callers, Purge(c), NEW m \in Names, m = req[c].name
  PROVE  Inv' /\ Notes'
<1> DEFINE i == req[c].own
<1>0. TypeOK /\ req[c].pc = "purge" /\ row[m] \in Rows /\ req[c] \in Requests /\ i \in Ids \cup {0}
  BY Typed DEF Inv, Purge, at
<1>1. ~Minds(c, m) /\ ~Mirrors(c, m)
  BY <1>0 DEF Minds, Early, Mirrors, Late
<1>2. /\ now' = now /\ protocol' = protocol /\ serving' = serving /\ requests' = requests /\ faults' = faults
      /\ account' = account /\ pass' = pass /\ doubt' = doubt /\ client' = client
  BY DEF Purge, fine, quiet, idly
<1>3. /\ req' \in [Callers -> Requests] /\ Others(c) /\ req'[c].pc = "idle" /\ req'[c].new = 0 /\ req'[c].kind = "none"
  BY <1>0, Done DEF Purge
<1>4. Path(req[c])' /\ ~Unspent(req[c])' /\ Kept(req[c])'
  BY <1>3 DEF Path, Unspent, Kept, Reserved
<1>5. CASE holds(m, i)
  <2>0. i \in Ids /\ row[m].id = i /\ NoRow \in Rows /\ NoRow.id = 0 /\ NoRow.observed = "missing"
    BY <1>0, <1>5, NoneTyped DEF holds, NoRow
  <2>1. row' \in [Names -> Rows] /\ row'[m] = NoRow /\ \A n \in Names \ {m} : row'[n] = row[n]
    BY <1>0, <1>5, <2>0, RowPut DEF Purge
  <2>2. secrets' = [secrets EXCEPT ![i] = revoked(secrets[i])]
    BY <1>5 DEF Purge
  <2>3. secrets \in [Ids -> Seq(States)]
    BY <1>0 DEF TypeOK, States
  <2>4. revoked(secrets[i]) \in [DOMAIN secrets[i] -> States] /\ \A v \in DOMAIN secrets[i] : revoked(secrets[i])[v] = "revoked"
    BY DEF revoked, States
  <2>5. revoked(secrets[i]) \in Seq(States) /\ DOMAIN revoked(secrets[i]) = DOMAIN secrets[i]
    BY <2>0, <2>3, <2>4, Versions
  <2>6. /\ secrets' \in [Ids -> Seq(States)] /\ \A j \in Ids \ {i} : secrets'[j] = secrets[j]
        /\ secrets'[i] = revoked(secrets[i])
    BY <2>0, <2>2, <2>3, <2>5
  <2>7. TypeOK'
    BY <1>0, <1>2, <1>3, <2>1, <2>6 DEF TypeOK, States
  <2>8. \A v \in DOMAIN secrets'[i] : secrets'[i][v] = "revoked"
    BY <2>4, <2>5, <2>6
  <2>9. Creds'
    BY <1>2, <2>0, <2>1, <2>6, <2>8, CredsPurged
  <2>10. \A j \in Ids : 1 \in DOMAIN secrets[j] => 1 \in DOMAIN secrets'[j]
    BY <2>5, <2>6
  <2>11. \A n \in Names \ {m} : Alike(n)
    BY <1>2, <2>1 DEF Alike, SameRow
  <2>12. ~Wrong(m)' /\ ~Misread(m)' /\ ~InHand(m)'
    BY <2>0, <2>1 DEF Wrong, Misread, InHand, live, exists
  <2>13. row'[m].id = 0 /\ row'[m].observed = "missing"
    BY <2>0, <2>1
  <2> QED
    BY <1>0, <1>2, <1>3, <1>4, <2>7, <2>9, <2>10, <2>11, <2>12, <2>13, RequestKeeps
<1>6. CASE ~holds(m, i)
  <2>1. row' = row /\ secrets' = secrets
    BY <1>6 DEF Purge
  <2>2. TypeOK'
    BY <1>0, <1>2, <1>3, <2>1 DEF TypeOK
  <2>3. \A n \in Names : Alike(n) /\ row'[n].id = row[n].id /\ row'[n].ref = row[n].ref
    BY <1>2, <2>1, RowsAlike
  <2>4. Creds'
    BY <1>0, <1>2, <2>1, <2>3, CredsSame DEF TypeOK
  <2>5. (Wrong(m)' => Wrong(m)) /\ (Misread(m)' => Misread(m)) /\ (InHand(m)' => InHand(m)) /\ SameRow(m)
    BY <1>2, <2>3, AlikeKept
  <2>6. /\ \A j \in Ids : 1 \in DOMAIN secrets[j] => 1 \in DOMAIN secrets'[j]
        /\ row'[m].id = row[m].id /\ row'[m].observed = row[m].observed
    BY <2>1
  <2> QED
    BY <1>0, <1>1, <1>2, <1>3, <1>4, <2>2, <2>3, <2>4, <2>5, <2>6, RequestKeeps
<1> QED
  BY <1>5, <1>6

\* A version of a credential changes: what the notes speak of does not.
LEMMA VersionsKeep ==
  ASSUME Inv, Notes, NEW c \in Callers, NEW m \in Names, m = req[c].name, TypeOK', Creds',
         req[c].pc \in {"store", "escrow", "confirm"}, Others(c), Path(req[c])', ~Unspent(req[c])', Kept(req[c])',
         req'[c].new = req[c].new \/ (req'[c].pc = "idle" /\ req'[c].new = 0),
         requests' = requests, pass' = pass, serving' = serving, account' = account, doubt' = doubt,
         \A j \in Ids : 1 \in DOMAIN secrets[j] => 1 \in DOMAIN secrets'[j],
         \A n \in Names : /\ row'[n].id = row[n].id /\ row'[n].client = row[n].client /\ row'[n].desired = row[n].desired
                          /\ row'[n].observed = row[n].observed
  PROVE  Inv' /\ Notes'
<1>1. \A n \in Names : Alike(n)
  BY DEF Alike, SameRow
<1>2. (Wrong(m)' => Wrong(m)) /\ (Misread(m)' => Misread(m)) /\ (InHand(m)' => InHand(m)) /\ SameRow(m)
  BY <1>1, AlikeKept
<1>3. ~Minds(c, m) /\ ~Mirrors(c, m)
  BY DEF Minds, Early, Mirrors, Late
<1>4. row'[m].id = row[m].id /\ row'[m].observed = row[m].observed
  OBVIOUS
<1> QED
  BY <1>1, <1>2, <1>3, <1>4, RequestKeeps

\* Only the reference of one row changes.
LEMMA RefPut ==
  ASSUME TypeOK, NEW m \in Names, NEW v \in Nat, row' = [row EXCEPT ![m].ref = v]
  PROVE  /\ row' \in [Names -> Rows] /\ row'[m].ref = v /\ \A n \in Names \ {m} : row'[n].ref = row[n].ref
         /\ \A n \in Names : /\ row'[n].id = row[n].id /\ row'[n].client = row[n].client /\ row'[n].desired = row[n].desired
                             /\ row'[n].observed = row[n].observed
<1> DEFINE g == [row[m] EXCEPT !.ref = v]
<1>1. row[m] \in Rows
  BY Typed
<1>2. /\ g \in Rows /\ g.ref = v /\ g.id = row[m].id /\ g.client = row[m].client /\ g.desired = row[m].desired
      /\ g.observed = row[m].observed
  BY <1>1 DEF Rows
<1>3. row' = [row EXCEPT ![m] = g]
  OBVIOUS
<1> HIDE DEF g
<1> QED
  BY <1>2, <1>3, RowPut

\* Store: the row names the version that was added last, which is active.
LEMMA StoreKeeps ==
  ASSUME Inv, Notes, NEW c \in Callers, Store(c), NEW m \in Names, m = req[c].name
  PROVE  Inv' /\ Notes'
<1> DEFINE i == req[c].id
           old == secrets[i]
           rest == [v \in DOMAIN old |-> IF v = req[c].ref THEN "revoked" ELSE old[v]]
           next == Append(rest, "active")
<1>0. TypeOK /\ req[c].pc = "store" /\ row[m] \in Rows /\ req[c] \in Requests /\ i \in Ids \cup {0}
  BY Typed DEF Inv, Store, at
<1>2. /\ now' = now /\ protocol' = protocol /\ serving' = serving /\ requests' = requests /\ faults' = faults
      /\ account' = account /\ pass' = pass /\ doubt' = doubt /\ client' = client
  BY DEF Store, fine, quiet, idly
<1>3. /\ req' \in [Callers -> Requests] /\ Others(c) /\ req'[c].pc = "idle" /\ req'[c].new = 0 /\ req'[c].kind = "none"
  BY <1>0, Done DEF Store
<1>4. Path(req[c])' /\ ~Unspent(req[c])' /\ Kept(req[c])'
  BY <1>3 DEF Path, Unspent, Kept, Reserved
<1>5. CASE holds(m, i)
  <2>0. i \in Ids /\ row[m].id = i
    BY <1>0, <1>5 DEF holds
  <2>1. secrets' = [secrets EXCEPT ![i] = next] /\ row' = [row EXCEPT ![m].ref = Len(next)]
    BY <1>5 DEF Store, stored
  <2>2. secrets \in [Ids -> Seq(States)] /\ old \in Seq(States)
    BY <1>0, <2>0 DEF TypeOK, States
  <2>3. rest \in Seq(States)
    <3>1. \A v \in DOMAIN old : old[v] \in States
      BY <2>2
    <3>2. rest \in [DOMAIN old -> States]
      BY <3>1 DEF States
    <3> QED
      BY <2>2, <3>2, Versions
  <2>4. /\ next \in Seq(States) /\ Len(next) \in Nat \ {0} /\ Len(next) \in DOMAIN next /\ next[Len(next)] = "active"
        /\ 1 \in DOMAIN next
    <3> HIDE DEF rest
    <3>1. "active" \in States
      BY DEF States
    <3> QED
      BY <2>3, <3>1, OneMore
  <2> HIDE DEF next, rest
  <2>5. /\ secrets' \in [Ids -> Seq(States)] /\ secrets'[i] = next /\ \A j \in Ids \ {i} : secrets'[j] = secrets[j]
    BY <2>0, <2>1, <2>2, <2>4
  <2>6. /\ row' \in [Names -> Rows] /\ row'[m].ref = Len(next) /\ \A n \in Names \ {m} : row'[n].ref = row[n].ref
        /\ \A n \in Names : /\ row'[n].id = row[n].id /\ row'[n].client = row[n].client /\ row'[n].desired = row[n].desired
                            /\ row'[n].observed = row[n].observed
    BY <1>0, <2>1, <2>4, RefPut
  <2>7. TypeOK'
    BY <1>0, <1>2, <1>3, <2>5, <2>6 DEF TypeOK, States
  <2>8. Creds'
    BY <1>2, <2>0, <2>4, <2>5, <2>6, CredsNext
  <2>9. \A j \in Ids : 1 \in DOMAIN secrets[j] => 1 \in DOMAIN secrets'[j]
    BY <2>4, <2>5
  <2> QED
    BY <1>0, <1>2, <1>3, <1>4, <2>6, <2>7, <2>8, <2>9, VersionsKeep
<1>6. CASE ~holds(m, i)
  <2>1. row' = row /\ secrets' = secrets
    BY <1>6 DEF Store, stored
  <2>2. TypeOK'
    BY <1>0, <1>2, <1>3, <2>1 DEF TypeOK
  <2>3. Creds'
    BY <1>0, <1>2, <2>1, CredsSame DEF TypeOK
  <2> QED
    BY <1>0, <1>2, <1>3, <1>4, <2>1, <2>2, <2>3, VersionsKeep
<1> QED
  BY <1>5, <1>6

\* Escrow: the first version, of a grant that has none.
LEMMA EscrowKeeps ==
  ASSUME Inv, Notes, NEW c \in Callers, Escrow(c), NEW m \in Names, m = req[c].name
  PROVE  Inv' /\ Notes'
<1> DEFINE i == req[c].own
           free == holds(m, i) /\ row[m].ref = 0 /\ secrets[i] = <<>>
<1>0. TypeOK /\ req[c].pc = "escrow" /\ row[m] \in Rows /\ req[c] \in Requests /\ i \in Ids \cup {0}
  BY Typed DEF Inv, Escrow, at
<1>2. /\ now' = now /\ protocol' = protocol /\ serving' = serving /\ requests' = requests /\ faults' = faults
      /\ account' = account /\ pass' = pass /\ doubt' = doubt /\ client' = client
  BY DEF Escrow, fine, quiet, idly
<1>3. /\ req' \in [Callers -> Requests] /\ Others(c) /\ req'[c].pc = "idle" /\ req'[c].new = 0 /\ req'[c].kind = "none"
  BY <1>0, Done DEF Escrow
<1>4. Path(req[c])' /\ ~Unspent(req[c])' /\ Kept(req[c])'
  BY <1>3 DEF Path, Unspent, Kept, Reserved
<1>5. CASE free
  <2>0. i \in Ids /\ row[m].id = i
    BY <1>0, <1>5 DEF holds
  <2>1. secrets' = [secrets EXCEPT ![i] = <<"active">>] /\ row' = [row EXCEPT ![m].ref = 1]
    BY <1>5 DEF Escrow
  <2>2. secrets \in [Ids -> Seq(States)] /\ <<"active">> \in Seq(States) /\ 1 \in DOMAIN <<"active">> /\ <<"active">>[1] = "active"
    BY <1>0 DEF TypeOK, States
  <2>5. /\ secrets' \in [Ids -> Seq(States)] /\ secrets'[i] = <<"active">> /\ \A j \in Ids \ {i} : secrets'[j] = secrets[j]
    BY <2>0, <2>1, <2>2
  <2>6. /\ row' \in [Names -> Rows] /\ row'[m].ref = 1 /\ \A n \in Names \ {m} : row'[n].ref = row[n].ref
        /\ \A n \in Names : /\ row'[n].id = row[n].id /\ row'[n].client = row[n].client /\ row'[n].desired = row[n].desired
                            /\ row'[n].observed = row[n].observed
    BY <1>0, <2>1, RefPut
  <2>7. TypeOK'
    BY <1>0, <1>2, <1>3, <2>5, <2>6 DEF TypeOK, States
  <2>8. Creds'
    BY <1>2, <2>0, <2>2, <2>5, <2>6, CredsNext
  <2>9. \A j \in Ids : 1 \in DOMAIN secrets[j] => 1 \in DOMAIN secrets'[j]
    BY <2>2, <2>5
  <2> QED
    BY <1>0, <1>2, <1>3, <1>4, <2>6, <2>7, <2>8, <2>9, VersionsKeep
<1>6. CASE ~free
  <2>1. row' = row /\ secrets' = secrets
    BY <1>6 DEF Escrow
  <2>2. TypeOK'
    BY <1>0, <1>2, <1>3, <2>1 DEF TypeOK
  <2>3. Creds'
    BY <1>0, <1>2, <2>1, CredsSame DEF TypeOK
  <2> QED
    BY <1>0, <1>2, <1>3, <1>4, <2>1, <2>2, <2>3, VersionsKeep
<1> QED
  BY <1>5, <1>6

\* Reserve: the row of an issue waits for its account, with its first version.
LEMMA ReserveKeeps ==
  ASSUME Inv, Notes, NEW c \in Callers, Reserve(c), NEW m \in Names, m = req[c].name
  PROVE  Inv' /\ Notes'
<1> DEFINE i == req[c].new
<1>0. /\ TypeOK /\ req[c].pc = "reserve" /\ req[c].kind = "issue" /\ row[m] \in Rows /\ req[c] \in Requests
      /\ Unspent(req[c]) /\ i \in Ids /\ i # 0 /\ i <= Given /\ \A n \in Names : row[n].id # i
  BY Typed DEF Inv, Asked, Reserve, at, Path, Unspent, Fresh
<1>1. ~Minds(c, m) /\ ~Mirrors(c, m)
  BY <1>0 DEF Minds, Early, Mirrors, Late
<1>2. /\ now' = now /\ protocol' = protocol /\ serving' = serving /\ requests' = requests /\ faults' = faults
      /\ account' = account /\ pass' = pass /\ doubt' = doubt /\ client' = client
  BY DEF Reserve, fine, quiet, idly
<1>3. CASE exists(m)
  <2>1. row' = row /\ secrets' = secrets /\ done(c)
    BY <1>3 DEF Reserve
  <2>2. req' \in [Callers -> Requests] /\ Others(c) /\ req'[c].pc = "idle" /\ req'[c].new = 0 /\ req'[c].kind = "none"
    BY <1>0, <2>1, Done
  <2>3. TypeOK'
    BY <1>0, <1>2, <2>1, <2>2 DEF TypeOK
  <2>4. \A n \in Names : Alike(n) /\ row'[n].id = row[n].id /\ row'[n].ref = row[n].ref
    BY <1>2, <2>1, RowsAlike
  <2>5. Creds'
    BY <1>0, <1>2, <2>1, <2>4, CredsSame DEF TypeOK
  <2>6. (Wrong(m)' => Wrong(m)) /\ (Misread(m)' => Misread(m)) /\ (InHand(m)' => InHand(m)) /\ SameRow(m)
    BY <1>2, <2>4, AlikeKept
  <2>7. /\ \A j \in Ids : 1 \in DOMAIN secrets[j] => 1 \in DOMAIN secrets'[j]
        /\ row'[m].id = row[m].id /\ row'[m].observed = row[m].observed
    BY <2>1
  <2>8. Path(req[c])' /\ ~Unspent(req[c])' /\ Kept(req[c])'
    BY <2>2 DEF Path, Unspent, Kept, Reserved
  <2> QED
    BY <1>0, <1>1, <1>2, <2>2, <2>3, <2>4, <2>5, <2>6, <2>7, <2>8, RequestKeeps
<1>4. CASE ~exists(m)
  <2>1. PICK from \in 0..1 :
          row' = [row EXCEPT ![m] = [NoRow EXCEPT !.id = i, !.desired = "enabled", !.observed = "pending", !.from = from]]
    BY <1>4 DEF Reserve
  <2> DEFINE g == [NoRow EXCEPT !.id = i, !.desired = "enabled", !.observed = "pending", !.from = from]
  <2>2. g \in Rows /\ g.id = i /\ g.ref = 0 /\ g.observed = "pending"
    <3>1. from \in 0..Never /\ NoRow \in Rows /\ NoRow.ref = 0
      BY Numbers, NoneTyped DEF NoRow
    <3> QED
      BY <1>0, <3>1 DEF Rows
  <2>3. row' \in [Names -> Rows] /\ row'[m] = g /\ \A n \in Names \ {m} : row'[n] = row[n]
    BY <1>0, <2>1, <2>2, RowPut
  <2> HIDE DEF g
  <2>4. secrets' = [secrets EXCEPT ![i] = <<"pending">>] /\ req' = [req EXCEPT ![c].pc = "create", ![c].own = i]
    BY <1>4 DEF Reserve
  <2>5. secrets \in [Ids -> Seq(States)] /\ <<"pending">> \in Seq(States) /\ 1 \in DOMAIN <<"pending">>
    BY <1>0 DEF TypeOK, States
  <2>6. /\ secrets' \in [Ids -> Seq(States)] /\ secrets'[i] = <<"pending">> /\ \A j \in Ids \ {i} : secrets'[j] = secrets[j]
    BY <1>0, <2>4, <2>5
  <2>7. /\ req' \in [Callers -> Requests] /\ Others(c) /\ req'[c].pc = "create" /\ req'[c].kind = "issue" /\ req'[c].new = i
        /\ req'[c].own = i
    <3> DEFINE s == [req[c] EXCEPT !.pc = "create", !.own = i]
    <3>1. req' = [req EXCEPT ![c] = s]
      BY <2>4
    <3>2. s \in Requests /\ s.pc = "create" /\ s.kind = "issue" /\ s.new = i /\ s.own = i
      BY <1>0 DEF Requests, Points
    <3> HIDE DEF s
    <3> QED
      BY <3>1, <3>2, <1>0 DEF TypeOK, Others
  <2>8. TypeOK'
    BY <1>0, <1>2, <2>3, <2>6, <2>7 DEF TypeOK, States
  <2>9. Creds'
    BY <1>0, <1>2, <1>4, <2>2, <2>3, <2>6, CredsNewRow DEF exists
  <2>10. \A j \in Ids : 1 \in DOMAIN secrets[j] => 1 \in DOMAIN secrets'[j]
    BY <2>5, <2>6
  <2>11. Path(req[c])' /\ ~Unspent(req[c])' /\ Kept(req[c])'
    BY <1>0, <2>5, <2>6, <2>7 DEF Path, Unspent, Kept, Reserved
  <2>12. \A n \in Names \ {m} : Alike(n)
    BY <1>2, <2>3 DEF Alike, SameRow
  <2>13. ~Wrong(m)' /\ ~InHand(m)'
    BY <2>2, <2>3 DEF Wrong, InHand
  <2>14. ~Misread(m)'
    <3>1. i # pass.id
      BY <1>0 DEF Notes, Working
    <3> QED
      BY <3>1, <1>2, <2>2, <2>3 DEF Misread, holds
  <2>15. row'[m].id = i /\ row'[m].observed = "pending"
    BY <2>2, <2>3
  <2> QED
    BY <1>0, <1>2, <2>7, <2>8, <2>9, <2>10, <2>11, <2>12, <2>13, <2>14, <2>15, RequestKeeps
<1> QED
  BY <1>3, <1>4

\* Create: the grant waits for the account, or there is doubt about it.
LEMMA CreateKeeps ==
  ASSUME Inv, Notes, NEW c \in Callers, Create(c), NEW m \in Names, m = req[c].name
  PROVE  Inv' /\ Notes'
<1>0. /\ TypeOK /\ req[c].pc = "create" /\ req[c].kind = "issue" /\ row[m] \in Rows /\ req[c] \in Requests
      /\ req[c].own \in Ids \cup {0} /\ req[c].own # 0 /\ 1 \in DOMAIN secrets[req[c].own]
  BY Typed DEF Inv, Asked, Create, at, Path, Kept, Reserved
<1>1. ~Minds(c, m) /\ ~Mirrors(c, m)
  BY <1>0 DEF Minds, Early, Mirrors, Late
<1>2. /\ now' = now /\ protocol' = protocol /\ serving' = serving /\ requests' = requests
      /\ pass' = pass /\ client' = client /\ row' = row /\ secrets' = secrets
  BY DEF Create, quiet, domain
<1>3. /\ fine \/ fault
      /\ \/ /\ account[m] = "none" /\ account' = [account EXCEPT ![m] = "on"] /\ goes(c, "lock")
            /\ doubt' = IF awaited(m, req[c].own) THEN doubt ELSE doubt \cup {m}
         \/ account' = account /\ goes(c, "purge") /\ doubt' = doubt
  BY DEF Create
<1>4. faults' \in 0..MaxFaults
  BY <1>0, <1>3, Faults
<1>5. /\ req' \in [Callers -> Requests] /\ Others(c) /\ req'[c].pc \in {"lock", "purge"} /\ req'[c].kind = "issue"
      /\ req'[c].new = req[c].new /\ req'[c].own = req[c].own
  <2>1. CASE goes(c, "lock")
    BY <2>1, <1>0, Goes DEF Points
  <2>2. CASE goes(c, "purge")
    BY <2>2, <1>0, Goes DEF Points
  <2> QED
    BY <1>3, <2>1, <2>2
<1>6. /\ account' \in [Names -> {"none", "on", "off"}] /\ \A n \in Names \ {m} : account'[n] = account[n]
      /\ doubt \subseteq doubt' /\ doubt' \subseteq Names
  BY <1>0, <1>3 DEF TypeOK
<1>7. TypeOK'
  BY <1>0, <1>2, <1>4, <1>5, <1>6 DEF TypeOK
<1>8. \A n \in Names : row'[n].id = row[n].id /\ row'[n].ref = row[n].ref /\ row'[n].observed = row[n].observed
  BY <1>2
<1>9. Creds'
  BY <1>0, <1>2, <1>8, CredsSame DEF TypeOK
<1>10. Path(req[c])' /\ ~Unspent(req[c])' /\ Kept(req[c])'
  BY <1>0, <1>2, <1>5 DEF Path, Unspent, Kept, Reserved
<1>11. \A n \in Names \ {m} : Alike(n)
  BY <1>2, <1>6 DEF Alike, SameRow
<1>12. (Wrong(m)' => Wrong(m)) /\ (Misread(m)' => Misread(m)) /\ (InHand(m)' => InHand(m)) /\ SameRow(m)
  <2>1. CASE account' = account
    <3>1. Alike(m)
      BY <2>1, <1>2, <1>6 DEF Alike, SameRow
    <3> QED
      BY <3>1, <1>2, AlikeKept
  <2>2. CASE doubt' = doubt /\ awaited(m, req[c].own)
    BY <2>2, <1>2 DEF awaited, Wrong, Misread, InHand, SameRow
  <2>3. CASE m \in doubt'
    BY <2>3, <1>2 DEF Wrong, Misread, InHand, SameRow
  <2> QED
    BY <1>3, <2>1, <2>2, <2>3
<1>13. \A j \in Ids : 1 \in DOMAIN secrets[j] => 1 \in DOMAIN secrets'[j]
  BY <1>2
<1> QED
  BY <1>0, <1>1, <1>2, <1>5, <1>7, <1>8, <1>9, <1>10, <1>11, <1>12, <1>13, RequestKeeps

\* Activate: the first version, which is there since the reservation; an issue that is not sure undoes itself.
LEMMA ActivateKeeps ==
  ASSUME Inv, Notes, NEW c \in Callers, Activate(c), NEW m \in Names, m = req[c].name
  PROVE  Inv' /\ Notes'
<1> DEFINE i == req[c].own
           found == holds(m, i)
           unsure == found /\ row[m].observed = "pending"
<1>0. /\ TypeOK /\ req[c].pc = "confirm" /\ req[c].kind = "issue" /\ row[m] \in Rows /\ req[c] \in Requests
      /\ i \in Ids /\ 1 \in DOMAIN secrets[i]
  BY Typed DEF Inv, Asked, Activate, at, Path, Kept, Reserved
<1>2. /\ now' = now /\ protocol' = protocol /\ serving' = serving /\ requests' = requests /\ faults' = faults
      /\ account' = account /\ pass' = pass /\ doubt' = doubt /\ client' = client
  BY DEF Activate, fine, quiet, idly
<1>3. /\ IF unsure THEN req' = [req EXCEPT ![c].pc = "call", ![c].kind = "undo"] ELSE done(c)
      /\ row' = IF found /\ ~unsure THEN [row EXCEPT ![m].ref = 1] ELSE row
      /\ secrets' = IF found /\ ~unsure THEN [secrets EXCEPT ![i][1] = "active"] ELSE secrets
  BY DEF Activate
<1>4. /\ req' \in [Callers -> Requests] /\ Others(c)
      /\ \/ req'[c].pc = "call" /\ req'[c].kind = "undo" /\ req'[c].new = req[c].new
         \/ req'[c].pc = "idle" /\ req'[c].kind = "none" /\ req'[c].new = 0
  <2>1. CASE unsure
    <3> DEFINE s == [req[c] EXCEPT !.pc = "call", !.kind = "undo"]
    <3>1. req' = [req EXCEPT ![c] = s]
      BY <1>3, <2>1
    <3>2. s \in Requests /\ s.pc = "call" /\ s.kind = "undo" /\ s.new = req[c].new
      BY <1>0 DEF Requests, Points, Kinds
    <3> HIDE DEF s
    <3> QED
      BY <3>1, <3>2, <1>0 DEF TypeOK, Others
  <2>2. CASE ~unsure
    BY <2>2, <1>0, <1>3, Done
  <2> QED
    BY <2>1, <2>2
<1>5. Path(req[c])' /\ ~Unspent(req[c])' /\ Kept(req[c])'
  BY <1>4 DEF Path, Unspent, Kept, Reserved
<1>6. CASE found /\ ~unsure
  <2>0. row[m].id = i
    BY <1>6 DEF holds
  <2> DEFINE next == [secrets[i] EXCEPT ![1] = "active"]
  <2>1. secrets' = [secrets EXCEPT ![i] = next] /\ row' = [row EXCEPT ![m].ref = 1]
    BY <1>3, <1>6
  <2>2. secrets \in [Ids -> Seq(States)] /\ secrets[i] \in Seq(States)
    BY <1>0 DEF TypeOK, States
  <2>3. next \in Seq(States) /\ DOMAIN next = DOMAIN secrets[i] /\ next[1] = "active"
    <3>1. \A v \in DOMAIN secrets[i] : secrets[i][v] \in States
      BY <2>2
    <3>2. next = [v \in DOMAIN secrets[i] |-> IF v = 1 THEN "active" ELSE secrets[i][v]]
      BY <2>2
    <3>3. next \in [DOMAIN secrets[i] -> States]
      BY <3>1, <3>2 DEF States
    <3> QED
      BY <2>2, <3>2, <3>3, <1>0, Versions
  <2> HIDE DEF next
  <2>5. /\ secrets' \in [Ids -> Seq(States)] /\ secrets'[i] = next /\ \A j \in Ids \ {i} : secrets'[j] = secrets[j]
    BY <1>0, <2>1, <2>2, <2>3
  <2>6. /\ row' \in [Names -> Rows] /\ row'[m].ref = 1 /\ \A n \in Names \ {m} : row'[n].ref = row[n].ref
        /\ \A n \in Names : /\ row'[n].id = row[n].id /\ row'[n].client = row[n].client /\ row'[n].desired = row[n].desired
                            /\ row'[n].observed = row[n].observed
    BY <1>0, <2>1, RefPut
  <2>7. TypeOK'
    BY <1>0, <1>2, <1>4, <2>5, <2>6 DEF TypeOK, States
  <2>8. Creds'
    BY <1>0, <1>2, <2>0, <2>3, <2>5, <2>6, CredsNext
  <2>9. \A j \in Ids : 1 \in DOMAIN secrets[j] => 1 \in DOMAIN secrets'[j]
    BY <2>3, <2>5
  <2> QED
    BY <1>0, <1>2, <1>4, <1>5, <2>6, <2>7, <2>8, <2>9, VersionsKeep
<1>7. CASE ~(found /\ ~unsure)
  <2>1. row' = row /\ secrets' = secrets
    BY <1>3, <1>7
  <2>2. TypeOK'
    BY <1>0, <1>2, <1>4, <2>1 DEF TypeOK
  <2>3. Creds'
    BY <1>0, <1>2, <2>1, CredsSame DEF TypeOK
  <2> QED
    BY <1>0, <1>2, <1>4, <1>5, <2>1, <2>2, <2>3, VersionsKeep
<1> QED
  BY <1>6, <1>7

---------------------------------------------------------------------------
(* New requests *)

\* A request is given a number nobody has, and notes are at most set to pending with it.
LEMMA AskKeeps ==
  ASSUME Inv, Notes, NEW c \in Callers, NEW r \in Requests, asks(c, r), Path(r), ~Reserved(r),
         pass' = pass, account' = account, doubt' = doubt, secrets' = secrets,
         client' \in {"active", "suspended", "archived"}, row' \in [Names -> Rows],
         \A n \in Names : /\ row'[n].id = row[n].id /\ row'[n].ref = row[n].ref /\ row'[n].client = row[n].client
                          /\ row'[n].desired = row[n].desired /\ row'[n].observed \in {row[n].observed, "pending"}
  PROVE  Inv' /\ Notes'
<1> DEFINE new == Cardinality(Names) + requests + 1
           s == [r EXCEPT !.new = new]
<1>0. TypeOK /\ serving /\ req[c].pc = "idle" /\ requests \in Nat /\ requests < MaxRequests /\ requests' = requests + 1
  BY DEF Inv, TypeOK, asks, at
<1>1. now' = now /\ protocol' = protocol /\ serving' = serving /\ faults' = faults /\ req' = [req EXCEPT ![c] = s]
  BY DEF asks, fine
<1>2. new \in Ids /\ new # 0 /\ new \in Nat /\ Given \in Nat /\ new = Given + 1 /\ Given' = Given + 1
  BY <1>0, Numbers, BoundsAssumption DEF Ids, Given
<1> HIDE DEF new
<1>3. s \in Requests /\ s.pc = r.pc /\ s.kind = r.kind /\ s.new = new
  BY <1>2 DEF Requests
<1> HIDE DEF s
<1>4. req' \in [Callers -> Requests] /\ req'[c] = s /\ \A d \in Callers \ {c} : req'[d] = req[d]
  BY <1>0, <1>1, <1>3 DEF TypeOK
<1>5. TypeOK'
  BY <1>0, <1>1, <1>4, BoundsAssumption DEF TypeOK
<1>6. Creds'
  <2>1. requests' \in Nat /\ requests <= requests'
    BY <1>0
  <2> QED
    BY <2>1, CredsSame
<1>7. \A n \in Names : row[n].id \in Nat /\ row[n].id <= Given /\ row[n].id # new
  <2>1. \A n \in Names : row[n].id \in Ids \cup {0}
    BY Typed DEF Inv
  <2>2. \A n \in Names : row[n].id \in Nat
    BY <2>1, IdsAreNumbers
  <2> QED
    BY <2>2, <1>2 DEF Inv, Creds, Distinct
<1>8. \A d \in Callers : req[d].new \in Nat /\ req[d].new <= Given /\ req[d].new # new
  <2>1. \A d \in Callers : req[d].new \in Ids \cup {0}
    BY Typed DEF Inv
  <2>2. \A d \in Callers : req[d].new \in Nat
    BY <2>1, IdsAreNumbers
  <2> QED
    BY <2>2, <1>2 DEF Inv, Asked
<1>9. Asked'
  <2> SUFFICES ASSUME NEW d \in Callers PROVE Path(req[d])' /\ req'[d].new <= Given' /\ Fresh(req[d])' /\ Kept(req[d])'
    BY DEF Asked
  <2>1. CASE d = c
    <3>1. Path(req[c])' /\ Kept(req[c])'
      BY <1>3, <1>4 DEF Path, Kept, Reserved
    <3>2. Fresh(req[c])'
      BY <1>2, <1>3, <1>4, <1>7 DEF Fresh
    <3> QED
      BY <2>1, <3>1, <3>2, <1>2, <1>3, <1>4
  <2>2. CASE d # c
    <3>1. req'[d] = req[d]
      BY <2>2, <1>4
    <3>2. Path(req[d]) /\ req[d].new <= Given /\ Fresh(req[d]) /\ Kept(req[d])
      BY DEF Inv, Asked
    <3>3. req'[d].new <= Given'
      BY <3>1, <1>2, <1>8
    <3> QED
      BY <3>1, <3>2, <3>3 DEF Fresh, Kept
  <2> QED
    BY <2>1, <2>2
<1>10. Apart'
  BY <1>3, <1>4, <1>8 DEF Inv, Apart
<1>11. pass.by # c
  BY <1>0 DEF Inv, Holding
<1>12. Holding'
  BY <1>4, <1>11 DEF Inv, Holding
<1>13. \A n \in Names : SameRow(n) /\ (Wrong(n)' => Wrong(n)) /\ (Misread(n)' => Misread(n)) /\ (InHand(n)' => InHand(n))
  BY DEF SameRow, Wrong, Misread, InHand, live, exists, holds
<1>14. \A n \in Names : ~Minds(c, n) /\ ~Awaits(c, n) /\ ~Mirrors(c, n)
  BY <1>0 DEF Minds, Early, Mirrors, Late, Awaits
<1>15. \A d \in Callers \ {c}, n \in Names :
        (Minds(d, n)' <=> Minds(d, n)) /\ (Mirrors(d, n)' <=> Mirrors(d, n)) /\ (Awaits(d, n)' <=> Awaits(d, n))
  BY <1>4 DEF Minds, Early, Mirrors, Late, Page, Awaits, Due
<1>16. Minded'
  BY <1>0, <1>13, <1>14, <1>15 DEF Notes, Minded
<1>17. ReadAgain'
  BY <1>13, <1>14, <1>15 DEF Notes, ReadAgain
<1>18. Switched'
  BY <1>0, <1>13, <1>14, <1>15 DEF Notes, Switched
<1>19. Starting'
  BY <1>0, <1>1 DEF Starting
<1>20. Working'
  <2>1. pass.id \in Ids \cup {0} /\ pass.name \in Names
    BY Typed DEF Inv
  <2>2. pass.id \in Nat /\ pass.id <= Given
    BY <2>1, IdsAreNumbers DEF Notes, Working
  <2>3. pass.id # new /\ pass.id <= Given'
    BY <2>2, <1>2
  <2>4. \A d \in Callers : Unspent(req[d])' => req'[d].new # pass.id
    BY <2>3, <1>3, <1>4 DEF Notes, Working, Unspent
  <2>5. ASSUME pass.pc # "next", holds(pass.name, pass.id)' PROVE row'[pass.name].observed \in {"pending", "missing"}
    BY <2>1, <2>5 DEF Notes, Working, holds
  <2> QED
    BY <2>3, <2>4, <2>5 DEF Notes, Working, holds
<1> QED
  BY <1>5, <1>6, <1>9, <1>10, <1>12, <1>16, <1>17, <1>18, <1>19, <1>20 DEF Inv, Notes

\* Every request that can be made.
LEMMA AnyAskKeeps ==
  ASSUME Inv, Notes, NEW c \in Callers, Ask(c)
  PROVE  Inv' /\ Notes'
<1>0. TypeOK /\ row \in [Names -> Rows] /\ client \in {"active", "suspended", "archived"} /\ NoRequest \in Requests
      /\ NoRequest.kind = "none" /\ NoRequest.pc = "idle"
  BY NoneTyped DEF Inv, TypeOK, NoRequest
<1>1. ASSUME NEW state \in {"active", "suspended", "archived"}, AskState(c, state) PROVE Inv' /\ Notes'
  <2> DEFINE differs(n) == live(n) /\ row[n].client = "given" /\ row[n].desired = "enabled" /\ row[n].from <= now /\ now < row[n].until
                           /\ (client = "active") # (state = "active")
             r == [NoRequest EXCEPT !.kind = "state", !.pc = "lock"]
  <2>1. /\ asks(c, r) /\ client' = state /\ account' = account /\ pass' = pass /\ doubt' = doubt /\ secrets' = secrets
        /\ row' = [n \in Names |-> IF differs(n) THEN [row[n] EXCEPT !.observed = "pending"] ELSE row[n]]
    BY <1>1 DEF AskState, idly
  <2>2. r \in Requests /\ r.kind = "state" /\ r.pc = "lock"
    BY <1>0 DEF Requests, Points, Kinds
  <2>3. Path(r) /\ ~Reserved(r)
    <3> HIDE DEF r
    <3> QED
      BY <2>2 DEF Path, Reserved
  <2> HIDE DEF r, differs
  <2>4. ASSUME NEW n \in Names
        PROVE  /\ row'[n] \in Rows /\ row'[n].id = row[n].id /\ row'[n].ref = row[n].ref /\ row'[n].client = row[n].client
               /\ row'[n].desired = row[n].desired /\ row'[n].observed \in {row[n].observed, "pending"}
    <3>1. row[n] \in Rows /\ (row'[n] = row[n] \/ row'[n] = [row[n] EXCEPT !.observed = "pending"])
      BY <1>0, <2>1
    <3> QED
      BY <3>1 DEF Rows
  <2>5. row' \in [Names -> Rows]
    BY <2>1, <2>4
  <2> QED
    BY <1>1, <2>1, <2>2, <2>3, <2>4, <2>5, AskKeeps
<1>2. ASSUME NEW n \in Names, NEW until \in {1, Never}, AskValidity(c, n, until) PROVE Inv' /\ Notes'
  <2> DEFINE r == [NoRequest EXCEPT !.kind = "validity", !.pc = "lock", !.whose = row[n].client]
             g == [row[n] EXCEPT !.until = until]
  <2>1. /\ asks(c, r) /\ client' = client /\ account' = account /\ pass' = pass /\ doubt' = doubt /\ secrets' = secrets
        /\ row' = [row EXCEPT ![n] = g]
    BY <1>2 DEF AskValidity, idly
  <2>2. r \in Requests /\ r.kind = "validity" /\ r.pc = "lock"
    BY <1>0, Typed DEF Requests, Points, Kinds
  <2>3. Path(r) /\ ~Reserved(r)
    <3> HIDE DEF r
    <3> QED
      BY <2>2 DEF Path, Reserved
  <2>4. /\ g \in Rows /\ g.id = row[n].id /\ g.ref = row[n].ref /\ g.client = row[n].client
        /\ g.desired = row[n].desired /\ g.observed = row[n].observed
    <3>1. until \in 0..Never /\ row[n] \in Rows
      BY <1>0, Numbers
    <3> QED
      BY <3>1 DEF Rows
  <2>5. row' \in [Names -> Rows] /\ row'[n] = g /\ \A m \in Names \ {n} : row'[m] = row[m]
    BY <1>0, <2>1, <2>4, RowPut
  <2> HIDE DEF r, g
  <2>6. \A m \in Names : /\ row'[m].id = row[m].id /\ row'[m].ref = row[m].ref /\ row'[m].client = row[m].client
                         /\ row'[m].desired = row[m].desired /\ row'[m].observed \in {row[m].observed, "pending"}
    BY <2>4, <2>5
  <2> QED
    BY <1>0, <2>1, <2>2, <2>3, <2>5, <2>6, AskKeeps
<1>3. ASSUME NEW r \in Requests, asks(c, r), Path(r), ~Reserved(r), idly, UNCHANGED domain PROVE Inv' /\ Notes'
  <2>1. account' = account /\ pass' = pass /\ doubt' = doubt /\ secrets' = secrets /\ row' = row /\ client' = client
    BY <1>3 DEF idly, domain
  <2>2. row' \in [Names -> Rows]
    BY <1>0, <2>1
  <2> QED
    BY <1>0, <1>3, <2>1, <2>2, AskKeeps
<1>4. ASSUME NEW n \in Names, NEW kind \in {"toggle", "rotate", "delete", "adopt"}, NEW on \in BOOLEAN, AskGrant(c, n, kind, on)
      PROVE  Inv' /\ Notes'
  <2> DEFINE pc == IF kind \in {"toggle", "rotate"} THEN "find" ELSE "call"
             r == [NoRequest EXCEPT !.kind = kind, !.name = n, !.own = row[n].id, !.on = on, !.pc = pc]
  <2>1. asks(c, r) /\ idly /\ UNCHANGED domain
    BY <1>4 DEF AskGrant
  <2>2. row[n].id \in Ids \cup {0}
    BY <1>0, Typed
  <2>3. r \in Requests /\ r.kind = kind /\ r.pc = pc
    BY <1>0, <2>2 DEF Requests, Points, Kinds
  <2>4. Path(r) /\ ~Reserved(r)
    <3> HIDE DEF r
    <3> QED
      BY <2>3 DEF Path, Reserved
  <2> HIDE DEF r, pc
  <2> QED
    BY <1>3, <2>1, <2>3, <2>4
<1>5. ASSUME NEW n \in Names, NEW kind \in {"page", "rotate", "pagerotate", "pagedelete"}, NEW on \in BOOLEAN, AskPage(c, n, kind, on)
      PROVE  Inv' /\ Notes'
  <2> DEFINE pc == IF kind = "rotate" THEN "find" ELSE "call"
             e == effective_operation(n, on)
             r == [NoRequest EXCEPT !.kind = kind, !.name = n, !.own = row[n].id, !.on = on, !.effective = e, !.pc = pc]
  <2>1. asks(c, r) /\ idly /\ UNCHANGED domain
    BY <1>5 DEF AskPage
  <2>2. row[n].id \in Ids \cup {0} /\ e \in BOOLEAN
    BY <1>0, Typed DEF effective_operation, effective_enabled
  <2> HIDE DEF e
  <2>3. r \in Requests /\ r.kind = kind /\ r.pc = pc
    BY <1>0, <2>2 DEF Requests, Points, Kinds
  <2>4. Path(r) /\ ~Reserved(r)
    <3> HIDE DEF r
    <3> QED
      BY <2>3 DEF Path, Reserved
  <2> HIDE DEF r, pc
  <2> QED
    BY <1>3, <2>1, <2>3, <2>4
<1>6. ASSUME NEW n \in Names, AskIssue(c, n) PROVE Inv' /\ Notes'
  <2> DEFINE r == [NoRequest EXCEPT !.kind = "issue", !.name = n, !.pc = "reserve"]
  <2>1. asks(c, r) /\ idly /\ UNCHANGED domain
    BY <1>6 DEF AskIssue
  <2>3. r \in Requests /\ r.kind = "issue" /\ r.pc = "reserve"
    BY <1>0 DEF Requests, Points, Kinds
  <2>4. Path(r) /\ ~Reserved(r)
    <3> HIDE DEF r
    <3> QED
      BY <2>3 DEF Path, Reserved
  <2> HIDE DEF r
  <2> QED
    BY <1>3, <2>1, <2>3, <2>4
<1>7. CASE \E state \in {"active", "suspended", "archived"} : AskState(c, state)
  BY <1>1, <1>7
<1>8. CASE \E n \in Names, until \in {1, Never} : AskValidity(c, n, until)
  BY <1>2, <1>8
<1>9. CASE \E n \in Names, on \in BOOLEAN : AskGrant(c, n, "toggle", on) \/ AskPage(c, n, "page", on)
  BY <1>4, <1>5, <1>9
<1>10. CASE \E n \in Names : \E kind \in {"rotate", "delete", "adopt"} : AskGrant(c, n, kind, FALSE)
  BY <1>4, <1>10
<1>11. CASE \E n \in Names : \E kind \in {IF protocol[n] = "mtproxy" THEN "rotate" ELSE "pagerotate", "pagedelete"} :
              AskPage(c, n, kind, FALSE)
  BY <1>5, <1>11
<1>12. CASE \E n \in Names : AskIssue(c, n)
  BY <1>6, <1>12
<1> QED
  BY <1>7, <1>8, <1>9, <1>10, <1>11, <1>12 DEF Ask

---------------------------------------------------------------------------
(* The passes *)

\* A pass leaves the requests and the numbers alone.
LEMMA PassLeaves ==
  ASSUME Inv, req' = req, requests' = requests, secrets' = secrets, pass'.by = pass.by,
         \A n \in Names : row'[n].id = row[n].id /\ row'[n].ref = row[n].ref
  PROVE  Creds' /\ Asked' /\ Apart' /\ Holding'
<1>1. Creds'
  BY CredsSame DEF Inv, TypeOK
<1>2. Given' = Given
  BY DEF Given
<1>3. Asked'
  BY <1>2 DEF Inv, Asked, Path, Fresh, Unspent, Kept, Reserved
<1>4. Apart' /\ Holding'
  BY DEF Inv, Apart, Holding
<1> QED
  BY <1>1, <1>3, <1>4

\* Who minds a note goes on minding it.
LEMMA MindsOn ==
  ASSUME req' = req, NEW c \in Callers, NEW n \in Names, SameRow(n)
  PROVE  (Minds(c, n)' <=> Minds(c, n)) /\ (Mirrors(c, n)' <=> Mirrors(c, n))
BY DEF SameRow, Minds, Early, Mirrors, Late, Page

\* A pass that goes on with what is left keeps its holder and what it has to do.
LEMMA Skips ==
  ASSUME TypeOK, skips
  PROVE  /\ pass' \in Passes /\ pass'.by = pass.by /\ pass'.todo = pass.todo /\ pass'.pc = "next" /\ pass'.id = 0
         /\ pass'.name \in Names
<1>1. pass \in Passes /\ NoPass \in Passes
  BY NoneTyped DEF TypeOK
<1>2. NoPass.pc = "next" /\ NoPass.id = 0
  BY DEF NoPass
<1> QED
  BY <1>1, <1>2 DEF skips, Passes

\* A pass between two grants has no note in its hands.
LEMMA BetweenGrants ==
  ASSUME Inv, Notes, pass'.pc = "next", pass'.id = 0, pass'.by # "nobody", req' = req, requests' = requests
  PROVE  ReadAgain' /\ Switched' /\ Working'
<1>1. Given' = Given /\ 0 <= Given
  BY Numbers DEF Given, Inv, TypeOK
<1>2. \A c \in Callers : Unspent(req[c])' => req'[c].new # 0
  BY DEF Inv, Asked, Fresh, Unspent
<1> QED
  BY <1>1, <1>2 DEF ReadAgain, Misread, Switched, InHand, Working

\* The notes stay minded in a step that makes none of them wrong and leaves what is to be done.
LEMMA MindedOn ==
  ASSUME Inv, Notes, req' = req, serving' = serving, pass'.by = pass.by, \A n \in Names : SameRow(n),
         \A n \in Names : Wrong(n)' => \/ Wrong(n) /\ (Due(n) => Due(n)')
                                       \/ \E c \in Callers : Minds(c, n)
  PROVE  Minded' /\ (~serving => \A c \in Callers : req'[c].pc = "idle")
         /\ (~serving => (pass'.by = "nobody" \/ (pass'.by = "enforcer" /\ \A n \in Names : Wrong(n)' => Due(n)')))
<1>1. \A c \in Callers, n \in Names : Minds(c, n)' <=> Minds(c, n)
  BY MindsOn
<1>2. \A c \in Callers, n \in Names : (Awaits(c, n) /\ (Due(n) => Due(n)')) => Awaits(c, n)'
  BY DEF Awaits, Page
<1>3. Minded'
  BY <1>1, <1>2 DEF Notes, Minded
<1>4. ~serving => \A c \in Callers, n \in Names : ~Minds(c, n)
  BY DEF Notes, Starting, Minds, Early, Mirrors, Late
<1> QED
  BY <1>3, <1>4 DEF Notes, Starting

\* Discover and Switch are about a grant in hand, whose note is pending if it is still there.
LEMMA DiscoverKeeps ==
  ASSUME Inv, Notes, Discover
  PROVE  Inv' /\ Notes'
<1>0. TypeOK /\ pass.pc = "discover" /\ pass \in Passes
  BY DEF Inv, TypeOK, Discover
<1>1. /\ now' = now /\ protocol' = protocol /\ serving' = serving /\ requests' = requests /\ account' = account
      /\ req' = req /\ doubt' = doubt /\ client' = client /\ row' = row /\ secrets' = secrets
  BY DEF Discover, quiet, domain
<1>2. /\ fine \/ fault
      /\ \/ pass' = [pass EXCEPT !.pc = IF account[pass.name] \in {"none", as_account(pass.wanted)} THEN "confirm" ELSE "switch"]
         \/ skips
  BY DEF Discover
<1>3. \/ /\ pass' \in Passes /\ pass'.by = pass.by /\ pass'.todo = pass.todo /\ pass'.name = pass.name /\ pass'.id = pass.id
         /\ pass'.pc \in {"switch", "confirm"}
      \/ pass' \in Passes /\ pass'.by = pass.by /\ pass'.todo = pass.todo /\ pass'.pc = "next" /\ pass'.id = 0
  <2>1. CASE skips
    BY <1>0, <2>1, Skips
  <2>2. CASE pass' = [pass EXCEPT !.pc = "confirm"] \/ pass' = [pass EXCEPT !.pc = "switch"]
    BY <1>0, <2>2 DEF Passes
  <2> QED
    BY <1>2, <2>1, <2>2
<1>4. TypeOK'
  <2>1. faults' \in 0..MaxFaults
    BY <1>0, <1>2, Faults
  <2> QED
    BY <2>1, <1>0, <1>1, <1>3 DEF TypeOK
<1>5. Creds' /\ Asked' /\ Apart' /\ Holding'
  BY <1>1, <1>3, PassLeaves
<1>6. \A n \in Names : SameRow(n) /\ (Wrong(n)' <=> Wrong(n)) /\ (Due(n)' <=> Due(n))
  BY <1>1, <1>3 DEF SameRow, Wrong, Due, live, exists
<1>7. Minded' /\ (~serving => \A c \in Callers : req'[c].pc = "idle")
      /\ (~serving => (pass'.by = "nobody" \/ (pass'.by = "enforcer" /\ \A n \in Names : Wrong(n)' => Due(n)')))
  BY <1>1, <1>3, <1>6, MindedOn
<1>8. pass.by # "nobody"
  BY <1>0 DEF Notes, Working, NoPass
<1>9. CASE pass'.pc = "next" /\ pass'.id = 0
  <2>1. ReadAgain' /\ Switched' /\ Working'
    BY <1>1, <1>3, <1>8, <1>9, BetweenGrants
  <2>2. Starting'
    BY <1>1, <1>7, <1>9 DEF Starting
  <2> QED
    BY <1>4, <1>5, <1>7, <2>1, <2>2 DEF Inv, Notes
<1>10. CASE pass'.name = pass.name /\ pass'.id = pass.id /\ pass'.pc \in {"switch", "confirm"}
  <2>1. ReadAgain'
    BY <1>10 DEF ReadAgain, Misread
  <2>2. Switched'
    <3>1. \A n \in Names : InHand(n)' => InHand(n)
      BY <1>0, <1>1, <1>10 DEF InHand, live, exists
    <3>2. \A c \in Callers, n \in Names : Mirrors(c, n)' <=> Mirrors(c, n)
      BY <1>1, <1>6, MindsOn
    <3> QED
      BY <1>1, <3>1, <3>2 DEF Notes, Switched
  <2>3. Starting'
    BY <1>0, <1>1, <1>7, <1>10 DEF Notes, Starting, holds
  <2>4. Given' = Given
    BY <1>1 DEF Given
  <2>5. Working'
    BY <1>0, <1>1, <1>3, <1>8, <1>10, <2>4 DEF Notes, Working, holds, Unspent
  <2> QED
    BY <1>4, <1>5, <1>7, <2>1, <2>2, <2>3, <2>5 DEF Inv, Notes
<1> QED
  BY <1>3, <1>9, <1>10

\* Switch: an account that changes under a note is one a page has in its hands.
LEMMA SwitchKeeps ==
  ASSUME Inv, Notes, Switch
  PROVE  Inv' /\ Notes'
<1> DEFINE m == pass.name
<1>0. TypeOK /\ pass.pc = "switch" /\ pass \in Passes /\ m \in Names /\ pass.wanted \in BOOLEAN
  BY DEF Inv, TypeOK, Switch, Passes
<1>1. /\ now' = now /\ protocol' = protocol /\ serving' = serving /\ requests' = requests
      /\ req' = req /\ doubt' = doubt /\ client' = client /\ row' = row /\ secrets' = secrets
  BY DEF Switch, quiet, domain
<1>2. PICK outcome \in Outcomes :
        /\ answers(m, outcome)
        /\ account' = IF outcome = "refused" THEN account ELSE [account EXCEPT ![m] = as_account(pass.wanted)]
  BY DEF Switch
<1>3. faults' \in 0..MaxFaults
  <2>1. fine \/ fault
    BY <1>2 DEF answers, Outcomes
  <2> QED
    BY <1>0, <2>1, Faults
<1>4. account' \in [Names -> {"none", "on", "off"}] /\ \A n \in Names \ {m} : account'[n] = account[n]
  BY <1>0, <1>2 DEF TypeOK, as_account
<1>5. /\ pass' \in Passes /\ pass'.by = pass.by /\ pass'.todo = pass.todo /\ pass'.name = m /\ pass'.id = pass.id
      /\ pass'.pc = "confirm"
  <2>1. pass' = [pass EXCEPT !.pc = "confirm"]
    BY DEF Switch, moves
  <2> QED
    BY <1>0, <2>1 DEF Passes
<1>6. TypeOK'
  BY <1>0, <1>1, <1>3, <1>4, <1>5 DEF TypeOK
<1>7. Creds' /\ Asked' /\ Apart' /\ Holding'
  BY <1>1, <1>5, PassLeaves
<1>8. \A n \in Names : SameRow(n) /\ (Due(n)' <=> Due(n))
  BY <1>1, <1>5 DEF SameRow, Due
<1>9. ASSUME NEW n \in Names, Wrong(n)' PROVE Wrong(n) \/ \E c \in Callers : Minds(c, n)
  <2>1. CASE n # m
    BY <1>1, <1>4, <1>9, <2>1 DEF Wrong, live, exists
  <2>2. CASE n = m
    <3>1. InHand(n)
      BY <1>0, <1>1, <1>9, <2>2 DEF Wrong, InHand, live, exists
    <3>2. serving
      BY <1>0, <2>2, <3>1 DEF Notes, Starting, Working, InHand
    <3>3. PICK c \in Callers : Mirrors(c, n)
      BY <3>1, <3>2 DEF Notes, Switched
    <3> QED
      BY <3>3 DEF Minds
  <2> QED
    BY <2>1, <2>2
<1>10. Minded' /\ (~serving => \A c \in Callers : req'[c].pc = "idle")
       /\ (~serving => (pass'.by = "nobody" \/ (pass'.by = "enforcer" /\ \A n \in Names : Wrong(n)' => Due(n)')))
  BY <1>1, <1>5, <1>8, <1>9, MindedOn
<1>11. ReadAgain' /\ Switched'
  BY <1>5 DEF ReadAgain, Misread, Switched, InHand
<1>12. Starting'
  BY <1>0, <1>1, <1>5, <1>10 DEF Notes, Starting, holds
<1>13. Given' = Given
  BY <1>1 DEF Given
<1>14. pass.by # "nobody"
  BY <1>0 DEF Notes, Working, NoPass
<1>15. Working'
  BY <1>0, <1>1, <1>5, <1>13, <1>14 DEF Notes, Working, holds, Unspent
<1> QED
  BY <1>6, <1>7, <1>10, <1>11, <1>12, <1>15 DEF Inv, Notes

\* Confirm: what was read is so, and the note of what is no longer in doubt is pending.
LEMMA ConfirmKeeps ==
  ASSUME Inv, Notes, Confirm
  PROVE  Inv' /\ Notes'
<1> DEFINE m == pass.name
<1>0. TypeOK /\ pass.pc = "confirm" /\ pass \in Passes /\ m \in Names
  BY DEF Inv, TypeOK, Confirm, Passes
<1>1. /\ now' = now /\ protocol' = protocol /\ serving' = serving /\ requests' = requests /\ account' = account
      /\ req' = req /\ client' = client /\ row' = row /\ secrets' = secrets
  BY DEF Confirm, quiet, domain
<1>2. /\ fine \/ fault
      /\ \/ /\ pass' = [pass EXCEPT !.pc = "record", !.seen = account[m]]
            /\ doubt' = IF holds(m, pass.id) /\ live(m) THEN doubt \ {m} ELSE doubt
         \/ skips /\ doubt' = doubt
  BY DEF Confirm
<1>3. \/ /\ pass' \in Passes /\ pass'.by = pass.by /\ pass'.todo = pass.todo /\ pass'.name = m /\ pass'.id = pass.id
         /\ pass'.pc = "record" /\ pass'.seen = account[m]
         /\ doubt' = IF holds(m, pass.id) /\ live(m) THEN doubt \ {m} ELSE doubt
      \/ /\ pass' \in Passes /\ pass'.by = pass.by /\ pass'.todo = pass.todo /\ pass'.pc = "next" /\ pass'.id = 0
         /\ doubt' = doubt
  <2>1. CASE skips /\ doubt' = doubt
    BY <1>0, <2>1, Skips
  <2>2. CASE /\ pass' = [pass EXCEPT !.pc = "record", !.seen = account[m]]
             /\ doubt' = IF holds(m, pass.id) /\ live(m) THEN doubt \ {m} ELSE doubt
    <3>1. account[m] \in {"none", "on", "off"}
      BY <1>0 DEF TypeOK
    <3>2. /\ pass' \in Passes /\ pass'.by = pass.by /\ pass'.todo = pass.todo /\ pass'.name = m /\ pass'.id = pass.id
          /\ pass'.pc = "record" /\ pass'.seen = account[m]
      BY <1>0, <2>2, <3>1 DEF Passes
    <3> QED
      BY <2>2, <3>2
  <2> QED
    BY <1>2, <2>1, <2>2
<1>4. TypeOK'
  <2>1. faults' \in 0..MaxFaults
    BY <1>0, <1>2, Faults
  <2>2. doubt' \subseteq Names
    BY <1>0, <1>3 DEF TypeOK
  <2> QED
    BY <2>1, <2>2, <1>0, <1>1, <1>3 DEF TypeOK
<1>5. Creds' /\ Asked' /\ Apart' /\ Holding'
  BY <1>1, <1>3, PassLeaves
<1>6. \A n \in Names : SameRow(n) /\ (Due(n)' <=> Due(n))
  BY <1>1, <1>3 DEF SameRow, Due
<1>7. ASSUME NEW n \in Names, Wrong(n)' PROVE Wrong(n)
  <2>1. CASE n = m /\ holds(m, pass.id)
    BY <1>0, <1>1, <1>7, <2>1 DEF Notes, Working, Wrong
  <2>2. CASE ~(n = m /\ holds(m, pass.id))
    <3>1. n \notin doubt
      BY <1>3, <1>7, <2>2 DEF Wrong
    <3> QED
      BY <1>1, <1>7, <3>1 DEF Wrong, live, exists
  <2> QED
    BY <2>1, <2>2
<1>8. Minded' /\ (~serving => \A c \in Callers : req'[c].pc = "idle")
      /\ (~serving => (pass'.by = "nobody" \/ (pass'.by = "enforcer" /\ \A n \in Names : Wrong(n)' => Due(n)')))
  BY <1>1, <1>3, <1>6, <1>7, MindedOn
<1>9. pass.by # "nobody"
  BY <1>0 DEF Notes, Working, NoPass
<1>10. CASE pass'.pc = "next" /\ pass'.id = 0
  <2>1. ReadAgain' /\ Switched' /\ Working'
    BY <1>1, <1>3, <1>9, <1>10, BetweenGrants
  <2>2. Starting'
    BY <1>1, <1>8, <1>10 DEF Starting
  <2> QED
    BY <1>4, <1>5, <1>8, <2>1, <2>2 DEF Inv, Notes
<1>11. CASE pass'.name = m /\ pass'.id = pass.id /\ pass'.pc = "record" /\ pass'.seen = account[m]
  <2>1. ReadAgain' /\ Switched'
    BY <1>1, <1>11 DEF ReadAgain, Misread, Switched, InHand
  <2>3. Starting'
    BY <1>0, <1>1, <1>8, <1>11 DEF Notes, Starting, holds
  <2>4. Given' = Given
    BY <1>1 DEF Given
  <2>5. Working'
    BY <1>0, <1>1, <1>3, <1>9, <1>11, <2>4 DEF Notes, Working, holds, Unspent
  <2> QED
    BY <1>4, <1>5, <1>8, <2>1, <2>3, <2>5 DEF Inv, Notes
<1> QED
  BY <1>3, <1>10, <1>11

\* Record: a note is taken of what was read, and when it is not so any more a page is at it.
LEMMA RecordKeeps ==
  ASSUME Inv, Notes, Record
  PROVE  Inv' /\ Notes'
<1> DEFINE m == pass.name
           w == wanted_of(m)
           o == confirmed(m)
           found == holds(m, pass.id) /\ live(m)
<1>0. TypeOK /\ pass.pc = "record" /\ pass \in Passes /\ m \in Names /\ row[m] \in Rows
  BY DEF Inv, TypeOK, Record, Passes
<1>1. /\ now' = now /\ protocol' = protocol /\ serving' = serving /\ requests' = requests /\ account' = account /\ doubt' = doubt
      /\ req' = req /\ client' = client /\ secrets' = secrets /\ faults' = faults
      /\ skips /\ row' = IF found THEN [row EXCEPT ![m].observed = o] ELSE row
  BY DEF Record, quiet, fine
<1>2. pass' \in Passes /\ pass'.by = pass.by /\ pass'.todo = pass.todo /\ pass'.pc = "next" /\ pass'.id = 0
  BY <1>0, <1>1, Skips
<1>3. w \in BOOLEAN /\ row[m].observed \in {"pending", "enabled", "disabled", "missing"}
  BY <1>0 DEF wanted_of, effective_enabled, Rows
<1>4. \/ pass.seen = as_account(w) /\ o = as_observed(w)
      \/ o = row[m].observed
  BY DEF confirmed
<1> HIDE DEF w, o
<1>5. o \in {"pending", "enabled", "disabled", "missing"}
  BY <1>3, <1>4 DEF as_observed
<1>6. /\ row' \in [Names -> Rows] /\ \A n \in Names \ {m} : row'[n] = row[n]
      /\ row'[m].id = row[m].id /\ row'[m].ref = row[m].ref /\ row'[m].client = row[m].client /\ row'[m].desired = row[m].desired
      /\ (row'[m].observed = row[m].observed \/ (found /\ row'[m].observed = o))
  <2>1. CASE found
    <3> DEFINE g == [row[m] EXCEPT !.observed = o]
    <3>1. /\ g \in Rows /\ g.id = row[m].id /\ g.ref = row[m].ref /\ g.client = row[m].client /\ g.desired = row[m].desired
          /\ g.observed = o
      BY <1>0, <1>5 DEF Rows
    <3>2. row' = [row EXCEPT ![m] = g]
      BY <1>1, <2>1
    <3> HIDE DEF g
    <3>3. row' \in [Names -> Rows] /\ row'[m] = g /\ \A n \in Names \ {m} : row'[n] = row[n]
      BY <1>0, <3>1, <3>2, RowPut
    <3> QED
      BY <2>1, <3>1, <3>3
  <2>2. CASE ~found
    BY <1>0, <1>1, <2>2 DEF TypeOK
  <2> QED
    BY <2>1, <2>2
<1>7. TypeOK'
  BY <1>0, <1>1, <1>2, <1>6 DEF TypeOK
<1>8. \A n \in Names : row'[n].id = row[n].id /\ row'[n].ref = row[n].ref /\ SameRow(n) /\ (Due(n)' <=> Due(n))
  BY <1>2, <1>6 DEF SameRow, Due
<1>9. Creds' /\ Asked' /\ Apart' /\ Holding'
  BY <1>1, <1>2, <1>8, PassLeaves
<1>10. ASSUME NEW n \in Names, Wrong(n)' PROVE Wrong(n) \/ \E c \in Callers : Minds(c, n)
  <2>1. CASE row'[n].observed = row[n].observed
    BY <1>1, <1>6, <1>10, <2>1 DEF Wrong, live, exists
  <2>2. CASE n = m /\ found /\ row'[m].observed = as_observed(w) /\ pass.seen = as_account(w)
    <3>1. pass.seen = as_account(row'[m].observed = "enabled") /\ pass.seen # "none"
      BY <1>3, <2>2 DEF as_observed, as_account
    <3>2. Misread(n)
      BY <1>0, <1>1, <1>10, <2>2, <3>1 DEF Wrong, Misread
    <3> QED
      BY <3>2 DEF Notes, ReadAgain
  <2> QED
    BY <1>4, <1>6, <2>1, <2>2
<1>11. Minded' /\ (~serving => \A c \in Callers : req'[c].pc = "idle")
       /\ (~serving => (pass'.by = "nobody" \/ (pass'.by = "enforcer" /\ \A n \in Names : Wrong(n)' => Due(n)')))
  BY <1>1, <1>2, <1>8, <1>10, MindedOn
<1>12. pass.by # "nobody"
  BY <1>0 DEF Notes, Working, NoPass
<1>13. ReadAgain' /\ Switched' /\ Working'
  BY <1>1, <1>2, <1>12, BetweenGrants
<1>14. Starting'
  BY <1>1, <1>2, <1>11 DEF Starting
<1> QED
  BY <1>7, <1>9, <1>11, <1>13, <1>14 DEF Inv, Notes

\* Plan: the note of the grant in hand is pending, and the others are still to be done.
LEMMA PlanKeeps ==
  ASSUME Inv, Notes, NEW m \in Names, NEW id \in Ids, Plan(m, id)
  PROVE  Inv' /\ Notes'
<1> DEFINE w == wanted_of(m)
           rest == pass.todo \ {<<m, id>>}
<1>0. TypeOK /\ pass.pc = "next" /\ pass.by # "nobody" /\ pass \in Passes /\ row[m] \in Rows /\ rest \in SUBSET (Names \X Ids)
  BY DEF Inv, TypeOK, Plan, Passes
<1>1. /\ now' = now /\ protocol' = protocol /\ serving' = serving /\ requests' = requests /\ account' = account /\ doubt' = doubt
      /\ req' = req /\ client' = client /\ secrets' = secrets /\ faults' = faults
  BY DEF Plan, quiet, fine
<1>2. id # 0
  BY Numbers
<1>3. CASE holds(m, id) /\ live(m)
  <2>1. w \in BOOLEAN
    BY DEF wanted_of, effective_enabled
  <2>2. /\ row' = [row EXCEPT ![m].observed = "pending"]
        /\ pass' = [pass EXCEPT !.pc = "discover", !.todo = rest, !.name = m, !.id = id, !.wanted = w]
    BY <1>3 DEF Plan
  <2> DEFINE g == [row[m] EXCEPT !.observed = "pending"]
  <2>3. /\ g \in Rows /\ g.id = row[m].id /\ g.ref = row[m].ref /\ g.client = row[m].client /\ g.desired = row[m].desired
        /\ g.observed = "pending"
    BY <1>0 DEF Rows
  <2>4. row' \in [Names -> Rows] /\ row'[m] = g /\ \A n \in Names \ {m} : row'[n] = row[n]
    <3>1. row' = [row EXCEPT ![m] = g]
      BY <2>2
    <3> HIDE DEF g
    <3> QED
      BY <3>1, <2>3, <1>0, RowPut
  <2> HIDE DEF g, w, rest
  <2>5. pass' \in Passes /\ pass'.by = pass.by /\ pass'.todo = rest /\ pass'.pc = "discover" /\ pass'.id = id /\ pass'.name = m
    BY <1>0, <2>1, <2>2 DEF Passes
  <2>6. TypeOK'
    BY <1>0, <1>1, <2>4, <2>5 DEF TypeOK
  <2>7. \A n \in Names : row'[n].id = row[n].id /\ row'[n].ref = row[n].ref /\ SameRow(n)
    BY <2>3, <2>4 DEF SameRow
  <2>8. Creds' /\ Asked' /\ Apart' /\ Holding'
    BY <1>1, <2>5, <2>7, PassLeaves
  <2>9. ASSUME NEW n \in Names, Wrong(n)' PROVE Wrong(n) /\ (Due(n) => Due(n)')
    <3>1. n # m
      BY <2>3, <2>4, <2>9 DEF Wrong
    <3> QED
      BY <1>1, <2>4, <2>5, <2>9, <3>1 DEF Wrong, live, exists, Due, rest
  <2>10. Minded' /\ (~serving => \A c \in Callers : req'[c].pc = "idle")
         /\ (~serving => (pass'.by = "nobody" \/ (pass'.by = "enforcer" /\ \A n \in Names : Wrong(n)' => Due(n)')))
    BY <1>1, <2>5, <2>7, <2>9, MindedOn
  <2>11. ReadAgain' /\ Switched'
    BY <2>3, <2>4, <2>5 DEF ReadAgain, Misread, Switched, InHand
  <2>12. Starting'
    BY <1>1, <1>2, <1>3, <2>3, <2>4, <2>5, <2>10 DEF Starting, holds
  <2>13. Working'
    <3>1. Given' = Given /\ id = row[m].id
      BY <1>1, <1>3 DEF Given, holds
    <3>2. id <= Given
      BY <3>1 DEF Inv, Creds, Distinct
    <3>3. \A c \in Callers : Unspent(req[c])' => req'[c].new # id
      BY <1>1, <3>1 DEF Inv, Asked, Fresh, Unspent
    <3> QED
      BY <1>0, <2>3, <2>4, <2>5, <3>1, <3>2, <3>3 DEF Working
  <2> QED
    BY <2>6, <2>8, <2>10, <2>11, <2>12, <2>13 DEF Inv, Notes
<1>4. CASE ~(holds(m, id) /\ live(m))
  <2>1. row' = row /\ pass' = [pass EXCEPT !.todo = rest]
    BY <1>4 DEF Plan
  <2>2. /\ pass' \in Passes /\ pass'.by = pass.by /\ pass'.todo = rest /\ pass'.pc = "next" /\ pass'.id = pass.id
        /\ pass'.name = pass.name
    <3> HIDE DEF rest
    <3> QED
      BY <1>0, <2>1 DEF Passes
  <2>3. TypeOK'
    BY <1>0, <1>1, <2>1, <2>2 DEF TypeOK
  <2>4. \A n \in Names : row'[n].id = row[n].id /\ row'[n].ref = row[n].ref /\ SameRow(n)
    BY <2>1 DEF SameRow
  <2>5. Creds' /\ Asked' /\ Apart' /\ Holding'
    BY <1>1, <2>2, <2>4, PassLeaves
  <2>6. ASSUME NEW n \in Names, Wrong(n)' PROVE Wrong(n) /\ (Due(n) => Due(n)')
    <3>1. Wrong(n) /\ live(n)
      BY <1>1, <2>1, <2>6 DEF Wrong, live, exists
    <3>2. <<n, row[n].id>> # <<m, id>>
      BY <1>2, <1>4, <3>1 DEF holds
    <3> QED
      BY <2>1, <2>2, <3>1, <3>2 DEF Due
  <2>7. Minded' /\ (~serving => \A c \in Callers : req'[c].pc = "idle")
        /\ (~serving => (pass'.by = "nobody" \/ (pass'.by = "enforcer" /\ \A n \in Names : Wrong(n)' => Due(n)')))
    BY <1>1, <2>2, <2>4, <2>6, MindedOn
  <2>8. ReadAgain' /\ Switched'
    BY <2>2 DEF ReadAgain, Misread, Switched, InHand
  <2>9. Starting'
    BY <1>1, <2>2, <2>7 DEF Starting
  <2>10. Given' = Given
    BY <1>1 DEF Given
  <2>11. Working'
    BY <1>0, <1>1, <2>2, <2>10 DEF Notes, Working, Unspent
  <2> QED
    BY <2>3, <2>5, <2>7, <2>8, <2>9, <2>11 DEF Inv, Notes
<1> QED
  BY <1>3, <1>4

\* A pass that begins has yet to come to its candidates.
LEMMA Begins ==
  ASSUME TypeOK, NEW by \in Callers \cup {"enforcer"}, NEW whose, NEW force \in BOOLEAN, takes_lock(by, whose, force)
  PROVE  /\ pass = NoPass /\ pass.by = "nobody" /\ pass' \in Passes /\ pass'.pc = "next" /\ pass'.id = 0
         /\ \/ candidates(whose, force) = {} /\ pass' = NoPass /\ pass'.by = "nobody"
            \/ /\ candidates(whose, force) # {} /\ pass'.by = by /\ by # "nobody" /\ pass' # NoPass
               /\ \A n \in candidates(whose, force) : <<n, row[n].id>> \in pass'.todo
<1> DEFINE C == candidates(whose, force)
           todo == {<<n, row[n].id>> : n \in C}
<1>1. C \subseteq Names /\ \A n \in C : row[n].id \in Ids \cup {0} /\ row[n].id # 0
  BY Typed DEF candidates, live, exists
<1>2. todo \in SUBSET (Names \X Ids)
  <2> HIDE DEF C
  <2> QED
    BY <1>1
<1>3. NoPass \in Passes /\ NoPass.by = "nobody" /\ NoPass.pc = "next" /\ NoPass.id = 0
  BY NoneTyped DEF NoPass
<1>4. pass = NoPass /\ pass' = IF C = {} THEN NoPass ELSE [NoPass EXCEPT !.by = by, !.force = force, !.todo = todo]
  BY DEF takes_lock
<1>5. by # "nobody"
  BY CallersAssumption
<1>6. CASE C = {}
  BY <1>3, <1>4, <1>6
<1>7. CASE C # {}
  <2>1. pass' = [NoPass EXCEPT !.by = by, !.force = force, !.todo = todo]
    BY <1>4, <1>7
  <2>2. \A n \in C : <<n, row[n].id>> \in todo
    OBVIOUS
  <2> HIDE DEF C, todo
  <2>3. pass' \in Passes /\ pass'.by = by /\ pass'.pc = "next" /\ pass'.id = 0 /\ pass'.todo = todo
    BY <1>2, <1>3, <2>1 DEF Passes
  <2>4. pass' # NoPass
    BY <1>3, <1>5, <2>3
  <2> QED
    BY <1>3, <1>4, <1>5, <1>7, <2>2, <2>3, <2>4 DEF C
<1> QED
  BY <1>6, <1>7

\* A pass without a grant in hand.
LEMMA NothingInHand ==
  ASSUME Inv, pass'.pc = "next", pass'.id = 0, pass'.by = "nobody" => pass' = NoPass, requests' = requests,
         \A c \in Callers : Unspent(req[c])' => Unspent(req[c]) /\ req'[c].new = req[c].new
  PROVE  ReadAgain' /\ Switched' /\ Working'
<1>1. Given' = Given /\ 0 <= Given
  BY Numbers DEF Given, Inv, TypeOK
<1>2. \A c \in Callers : Unspent(req[c])' => req'[c].new # 0
  BY DEF Inv, Asked, Fresh
<1> QED
  BY <1>1, <1>2 DEF ReadAgain, Misread, Switched, InHand, Working

\* PassBegins: a page whose grant is there finds it among its candidates.
LEMMA PassBeginsKeeps ==
  ASSUME Inv, Notes, NEW c \in Callers, PassBegins(c), NEW m \in Names, m = req[c].name
  PROVE  Inv' /\ Notes'
<1> DEFINE whose == {req[c].whose}
           force == forced(req[c])
<1>0. /\ TypeOK /\ req[c].pc = "lock" /\ req[c] \in Requests /\ Path(req[c]) /\ Kept(req[c])
      /\ req[c].kind \in {"state", "validity", "toggle", "page", "issue"}
  BY Typed DEF Inv, Asked, PassBegins, at, Path
<1>1. /\ now' = now /\ protocol' = protocol /\ serving' = serving /\ requests' = requests /\ faults' = faults
      /\ account' = account /\ doubt' = doubt /\ client' = client /\ row' = row /\ secrets' = secrets
  BY DEF PassBegins, fine, quiet, domain
<1>2. takes_lock(c, whose, force) /\ (IF pass' = NoPass THEN returns(c) ELSE goes(c, "held")) /\ force \in BOOLEAN
  BY DEF PassBegins, forced
<1>3. /\ pass = NoPass /\ pass.by = "nobody" /\ pass' \in Passes /\ pass'.pc = "next" /\ pass'.id = 0
      /\ \/ candidates(whose, force) = {} /\ pass' = NoPass /\ pass'.by = "nobody"
         \/ /\ candidates(whose, force) # {} /\ pass'.by = c /\ c # "nobody" /\ pass' # NoPass
            /\ \A n \in candidates(whose, force) : <<n, row[n].id>> \in pass'.todo
  <2> HIDE DEF whose, force
  <2> QED
    BY <1>0, <1>2, Begins
<1>4. \A n \in Names : (live(n) /\ Minds(c, n)) => n \in candidates(whose, force)
  BY <1>0 DEF Minds, Early, Mirrors, Late, Page, candidates, forced
<1> HIDE DEF whose, force
<1>5. /\ req' \in [Callers -> Requests] /\ Others(c)
      /\ \/ pass' # NoPass /\ req'[c].pc = "held" /\ req'[c].kind = req[c].kind /\ req'[c].new = req[c].new
            /\ req'[c].own = req[c].own /\ req'[c].name = m
         \/ /\ pass' = NoPass /\ req[c].kind = "issue" /\ req'[c].pc = "confirm" /\ req'[c].kind = "issue"
            /\ req'[c].new = req[c].new /\ req'[c].own = req[c].own
         \/ pass' = NoPass /\ req'[c].pc = "idle" /\ req'[c].new = 0 /\ req'[c].kind = "none"
  <2>1. CASE pass' # NoPass
    BY <1>0, <1>2, <2>1, Goes DEF Points
  <2>2. CASE pass' = NoPass /\ goes(c, "confirm") /\ req[c].kind = "issue"
    BY <1>0, <2>2, Goes DEF Points
  <2>3. CASE pass' = NoPass /\ done(c)
    BY <1>0, <2>3, Done
  <2> QED
    BY <1>2, <2>1, <2>2, <2>3 DEF returns, after_pass
<1>6. TypeOK'
  BY <1>0, <1>1, <1>3, <1>5 DEF TypeOK
<1>7. \A n \in Names : Alike(n) /\ row'[n].id = row[n].id /\ row'[n].ref = row[n].ref /\ row'[n].observed = row[n].observed
  BY <1>1, RowsAlike
<1>8. Creds'
  BY <1>0, <1>1, <1>7, CredsSame DEF TypeOK
<1>9. Path(req[c])' /\ ~Unspent(req[c])' /\ Kept(req[c])'
  BY <1>0, <1>1, <1>5 DEF Path, Unspent, Kept, Reserved
<1>10. \A j \in Ids : 1 \in DOMAIN secrets[j] => 1 \in DOMAIN secrets'[j]
  BY <1>1
<1>11. CASE pass' = NoPass
  <2>0. pass' = pass /\ candidates(whose, force) = {}
    BY <1>3, <1>11
  <2>1. (Wrong(m)' => Wrong(m)) /\ (Misread(m)' => Misread(m)) /\ (InHand(m)' => InHand(m)) /\ SameRow(m)
    BY <1>7, <2>0, AlikeKept
  <2>2. (Wrong(m) => ~Minds(c, m)) /\ ~Misread(m) /\ ~InHand(m)
    BY <1>3, <1>4, <2>0 DEF Wrong, Misread, InHand, NoPass
  <2> QED
    BY <1>0, <1>1, <1>5, <1>6, <1>7, <1>8, <1>9, <1>10, <2>0, <2>1, <2>2, RequestKeeps
<1>12. CASE pass' # NoPass
  <2>1. Asked' /\ Apart'
    BY <1>0, <1>1, <1>5, <1>7, <1>9, <1>10, <1>12, AskedKept
  <2>2. Holding'
    BY <1>3, <1>5, <1>12 DEF Holding
  <2>3. serving
    BY <1>0 DEF Notes, Starting
  <2>4. \A d \in Callers \ {c} : req'[d] = req[d]
    BY <1>5 DEF Others
  <2>5. Minded'
    <3> SUFFICES ASSUME NEW n \in Names, Wrong(n)' PROVE \E d \in Callers : Minds(d, n)' \/ Awaits(d, n)'
      BY DEF Minded
    <3>1. Wrong(n) /\ live(n)
      BY <1>1 DEF Wrong, live, exists
    <3>2. PICK d \in Callers : Minds(d, n) \/ Awaits(d, n)
      BY <2>3, <3>1 DEF Notes, Minded
    <3>3. Minds(d, n)
      BY <1>3, <3>2, CallersAssumption DEF Awaits
    <3>4. CASE d # c
      <4>1. Minds(d, n)'
        BY <1>1, <2>4, <3>3, <3>4 DEF Minds, Early, Mirrors, Late, Page
      <4> QED
        BY <4>1
    <3>5. CASE d = c
      <4>1. <<n, row[n].id>> \in pass'.todo
        BY <1>3, <1>4, <1>12, <3>1, <3>3, <3>5
      <4>2. req[c].kind \in {"page", "toggle"} /\ n = m
        BY <3>3, <3>5 DEF Minds, Early, Mirrors, Late, Page
      <4>3. Awaits(c, n)'
        BY <1>1, <1>3, <1>5, <1>12, <4>1, <4>2 DEF Awaits, Due, Page
      <4> QED
        BY <4>3
    <3> QED
      BY <3>4, <3>5
  <2>6. \A d \in Callers : Unspent(req[d])' => Unspent(req[d]) /\ req'[d].new = req[d].new
    BY <1>9, <2>4 DEF Unspent
  <2>7. ReadAgain' /\ Switched' /\ Working'
    BY <1>1, <1>3, <1>12, <2>6, NothingInHand
  <2>8. Starting'
    BY <1>1, <2>3 DEF Starting
  <2> QED
    BY <1>6, <1>8, <2>1, <2>2, <2>5, <2>7, <2>8 DEF Inv, Notes
<1> QED
  BY <1>11, <1>12

\* A pass of the enforcer, and the one before the panel serves, which comes to every grant.
LEMMA TicksKeep ==
  ASSUME Inv, Notes, Tick \/ FirstTick
  PROVE  Inv' /\ Notes'
<1> DEFINE whose == {"given", "named"}
<1>0. TypeOK /\ "enforcer" \in Callers \cup {"enforcer"}
  BY DEF Inv
<1>1. /\ now' = now /\ protocol' = protocol /\ requests' = requests /\ faults' = faults /\ req' = req
      /\ account' = account /\ doubt' = doubt /\ client' = client /\ row' = row /\ secrets' = secrets
      /\ \/ serving /\ serving' = serving /\ takes_lock("enforcer", whose, FALSE)
         \/ ~serving /\ serving' = (pass' = NoPass) /\ takes_lock("enforcer", whose, TRUE)
  BY DEF Tick, FirstTick, fine, quiet, domain
<1>2. /\ pass = NoPass /\ pass.by = "nobody" /\ pass' \in Passes /\ pass'.pc = "next" /\ pass'.id = 0
      /\ pass'.by \in {"nobody", "enforcer"} /\ (pass'.by = "nobody" => pass' = NoPass)
      /\ ~serving => /\ pass' = NoPass => candidates(whose, TRUE) = {}
                     /\ pass' # NoPass => pass'.by = "enforcer"
                     /\ \A n \in candidates(whose, TRUE) : <<n, row[n].id>> \in pass'.todo
  <2> HIDE DEF whose
  <2>1. CASE serving /\ takes_lock("enforcer", whose, FALSE)
    BY <1>0, <2>1, Begins
  <2>2. CASE ~serving /\ takes_lock("enforcer", whose, TRUE)
    BY <1>0, <2>2, Begins
  <2> QED
    BY <1>1, <2>1, <2>2
<1>3. TypeOK'
  BY <1>0, <1>1, <1>2 DEF TypeOK
<1>4. \A n \in Names : live(n) => n \in candidates(whose, TRUE)
  BY <1>0, Typed DEF candidates
<1> HIDE DEF whose
<1>5. Creds' /\ Asked' /\ Apart'
  <2>1. Creds'
    BY <1>0, <1>1, CredsSame DEF TypeOK
  <2>2. Given' = Given
    BY <1>1 DEF Given
  <2>3. Asked' /\ Apart'
    BY <1>1, <2>2 DEF Inv, Asked, Apart, Path, Fresh, Unspent, Kept, Reserved
  <2> QED
    BY <2>1, <2>3
<1>6. Holding'
  BY <1>2, CallersAssumption DEF Holding
<1>7. ReadAgain' /\ Switched' /\ Working'
  <2>1. \A d \in Callers : Unspent(req[d])' => Unspent(req[d]) /\ req'[d].new = req[d].new
    BY <1>1 DEF Unspent
  <2> QED
    BY <1>1, <1>2, <2>1, NothingInHand
<1>8. \A n \in Names : (Wrong(n)' <=> Wrong(n)) /\ (Wrong(n) => live(n)) /\ SameRow(n)
  BY <1>1 DEF Wrong, live, exists, SameRow
<1>9. CASE serving
  <2>1. \A c \in Callers, n \in Names : (Minds(c, n) => Minds(c, n)') /\ ~Awaits(c, n)
    BY <1>1, <1>2, <1>8, MindsOn, CallersAssumption DEF Awaits
  <2>2. Minded'
    BY <1>8, <1>9, <2>1 DEF Notes, Minded
  <2>3. Starting'
    BY <1>1, <1>9 DEF Starting
  <2> QED
    BY <1>3, <1>5, <1>6, <1>7, <2>2, <2>3 DEF Inv, Notes
<1>10. CASE ~serving /\ pass' = NoPass
  <2>1. \A n \in Names : ~Wrong(n)'
    BY <1>2, <1>4, <1>8, <1>10
  <2>2. Minded' /\ Starting'
    BY <1>1, <1>10, <2>1 DEF Minded, Starting
  <2> QED
    BY <1>3, <1>5, <1>6, <1>7, <2>2 DEF Inv, Notes
<1>11. CASE ~serving /\ pass' # NoPass
  <2>1. ~serving'
    BY <1>1, <1>11
  <2>2. \A n \in Names : Wrong(n)' => Due(n)'
    BY <1>1, <1>2, <1>4, <1>8, <1>11 DEF Due
  <2>3. Minded' /\ Starting'
    BY <1>1, <1>2, <1>11, <2>1, <2>2 DEF Minded, Starting, Notes
  <2> QED
    BY <1>3, <1>5, <1>6, <1>7, <2>3 DEF Inv, Notes
<1> QED
  BY <1>9, <1>10, <1>11

\* PassEnds: nothing was left to do, so nobody's note was still to come.
LEMMA PassEndsKeeps ==
  ASSUME Inv, Notes, PassEnds
  PROVE  Inv' /\ Notes'
<1>0. TypeOK /\ pass.by # "nobody" /\ pass.pc = "next" /\ pass.todo = {} /\ pass' = NoPass /\ pass \in Passes
  BY DEF Inv, TypeOK, PassEnds
<1>1. /\ now' = now /\ protocol' = protocol /\ requests' = requests /\ faults' = faults /\ serving' = TRUE
      /\ account' = account /\ doubt' = doubt /\ client' = client /\ row' = row /\ secrets' = secrets
      /\ IF pass.by \in Callers THEN returns(pass.by) ELSE req' = req
  BY DEF PassEnds, fine, domain
<1>2. NoPass \in Passes /\ NoPass.by = "nobody" /\ NoPass.pc = "next" /\ NoPass.id = 0 /\ "nobody" \notin Callers
  BY NoneTyped, CallersAssumption DEF NoPass
<1>3. Holding'
  BY <1>0, <1>2 DEF Holding
<1>4. \A n \in Names : /\ (Wrong(n)' <=> Wrong(n)) /\ SameRow(n) /\ ~Due(n)
                       /\ row'[n].id = row[n].id /\ row'[n].ref = row[n].ref
  BY <1>0, <1>1 DEF Wrong, live, exists, SameRow, Due
<1>5. Creds'
  BY <1>0, <1>1, <1>4, CredsSame DEF TypeOK
<1>6. Starting'
  BY <1>1 DEF Starting
<1>7. CASE pass.by \notin Callers
  <2>1. req' = req /\ pass.by = "enforcer"
    BY <1>0, <1>1, <1>7 DEF Passes
  <2>2. TypeOK'
    BY <1>0, <1>1, <1>2, <2>1 DEF TypeOK
  <2>3. Given' = Given
    BY <1>1 DEF Given
  <2>4. Asked' /\ Apart'
    BY <1>1, <2>1, <2>3 DEF Inv, Asked, Apart, Path, Fresh, Unspent, Kept, Reserved
  <2>5. \A d \in Callers : Unspent(req[d])' => Unspent(req[d]) /\ req'[d].new = req[d].new
    BY <2>1 DEF Unspent
  <2>6. ReadAgain' /\ Switched' /\ Working'
    BY <1>0, <1>1, <1>2, <2>5, NothingInHand
  <2>7. Minded'
    <3>1. \A c \in Callers, n \in Names : (Minds(c, n) => Minds(c, n)') /\ ~Awaits(c, n)
      BY <1>4, <2>1, MindsOn DEF Awaits
    <3>2. ~serving => \A n \in Names : ~Wrong(n)
      BY <1>0, <1>4 DEF Notes, Starting
    <3> QED
      BY <1>4, <3>1, <3>2 DEF Notes, Minded
  <2> QED
    BY <1>3, <1>5, <1>6, <2>2, <2>4, <2>6, <2>7 DEF Inv, Notes
<1>8. ASSUME NEW c \in Callers, pass.by = c PROVE Inv' /\ Notes'
  <2>0. /\ req[c].pc = "held" /\ req[c] \in Requests /\ Path(req[c]) /\ Kept(req[c])
        /\ req[c].kind \in {"state", "validity", "toggle", "page", "issue"} /\ serving
    BY <1>8, Typed DEF Inv, Asked, Holding, Path, Notes, Starting
  <2>1. /\ req' \in [Callers -> Requests] /\ Others(c)
        /\ \/ /\ req[c].kind = "issue" /\ req'[c].pc = "confirm" /\ req'[c].kind = "issue"
              /\ req'[c].new = req[c].new /\ req'[c].own = req[c].own
           \/ req'[c].pc = "idle" /\ req'[c].new = 0 /\ req'[c].kind = "none"
    <3>1. CASE goes(c, "confirm") /\ req[c].kind = "issue"
      BY <1>0, <3>1, Goes DEF Points
    <3>2. CASE done(c)
      BY <1>0, <3>2, Done
    <3> QED
      BY <1>1, <1>8, <3>1, <3>2 DEF returns, after_pass
  <2>2. TypeOK'
    BY <1>0, <1>1, <1>2, <2>1 DEF TypeOK
  <2>3. Path(req[c])' /\ ~Unspent(req[c])' /\ Kept(req[c])'
    BY <1>1, <2>0, <2>1 DEF Path, Unspent, Kept, Reserved
  <2>4. \A j \in Ids : 1 \in DOMAIN secrets[j] => 1 \in DOMAIN secrets'[j]
    BY <1>1
  <2>5. Asked' /\ Apart'
    BY <1>1, <1>4, <2>0, <2>1, <2>3, <2>4, AskedKept
  <2>6. \A d \in Callers \ {c} : req'[d] = req[d]
    BY <2>1 DEF Others
  <2>7. \A d \in Callers : Unspent(req[d])' => Unspent(req[d]) /\ req'[d].new = req[d].new
    BY <2>3, <2>6 DEF Unspent
  <2>8. ReadAgain' /\ Switched' /\ Working'
    BY <1>0, <1>1, <1>2, <2>7, NothingInHand
  <2>9. Minded'
    <3>1. \A d \in Callers \ {c}, n \in Names : Minds(d, n) => Minds(d, n)'
      BY <1>1, <2>6 DEF Minds, Early, Mirrors, Late, Page
    <3>2. \A n \in Names : ~Minds(c, n)
      BY <2>0 DEF Minds, Early, Mirrors, Late
    <3>3. \A d \in Callers, n \in Names : ~Awaits(d, n)
      BY <1>4 DEF Awaits
    <3> QED
      BY <1>4, <2>0, <3>1, <3>2, <3>3 DEF Notes, Minded
  <2> QED
    BY <1>3, <1>5, <1>6, <2>2, <2>5, <2>8, <2>9 DEF Inv, Notes
<1> QED
  BY <1>7, <1>8

\* The clock changes what is wanted, not what is noted.
LEMMA ClockKeeps ==
  ASSUME Inv, Notes, Clock \/ UNCHANGED vars
  PROVE  Inv' /\ Notes'
<1>1. /\ protocol' = protocol /\ requests' = requests /\ faults' = faults /\ serving' = serving /\ pass' = pass /\ req' = req
      /\ account' = account /\ doubt' = doubt /\ client' = client /\ row' = row /\ secrets' = secrets
      /\ now' \in 0..MaxTime
  BY BoundsAssumption DEF Clock, vars, domain, bounds, Inv, TypeOK
<1>2. TypeOK'
  BY <1>1 DEF Inv, TypeOK
<1>3. Creds' /\ Asked' /\ Apart' /\ Holding'
  BY <1>1, PassLeaves
<1>4. \A n \in Names : (Wrong(n)' <=> Wrong(n)) /\ (Misread(n)' <=> Misread(n)) /\ (InHand(n)' <=> InHand(n)) /\ (Due(n)' <=> Due(n))
  BY <1>1 DEF Wrong, Misread, InHand, Due, live, exists, holds
<1>5. \A c \in Callers, n \in Names :
        (Minds(c, n)' <=> Minds(c, n)) /\ (Mirrors(c, n)' <=> Mirrors(c, n)) /\ (Awaits(c, n)' <=> Awaits(c, n))
  BY <1>1 DEF Minds, Early, Mirrors, Late, Page, Awaits, Due
<1>6. Minded' /\ ReadAgain' /\ Switched'
  BY <1>1, <1>4, <1>5 DEF Notes, Minded, ReadAgain, Switched
<1>7. Starting'
  BY <1>1, <1>4 DEF Notes, Starting, holds
<1>8. Given' = Given
  BY <1>1 DEF Given
<1>9. Working'
  BY <1>1, <1>8 DEF Notes, Working, holds, Unspent
<1> QED
  BY <1>2, <1>3, <1>6, <1>7, <1>9 DEF Inv, Notes

\* A restart leaves no request and no pass behind.
LEMMA RestartKeeps ==
  ASSUME Inv, Notes, Restart
  PROVE  Inv' /\ Notes'
<1>0. TypeOK
  BY DEF Inv
<1>1. /\ now' = now /\ protocol' = protocol /\ requests' = requests /\ serving' = FALSE /\ pass' = NoPass
      /\ account' = account /\ doubt' = doubt /\ client' = client /\ row' = row /\ secrets' = secrets
      /\ req' = [c \in Callers |-> NoRequest] /\ fault
  BY DEF Restart, domain
<1>2. /\ NoPass \in Passes /\ NoPass.by = "nobody" /\ NoPass.pc = "next" /\ NoPass.id = 0 /\ "nobody" \notin Callers
      /\ NoRequest \in Requests /\ NoRequest.pc = "idle" /\ NoRequest.new = 0
  BY NoneTyped, CallersAssumption DEF NoPass, NoRequest
<1>3. TypeOK'
  <2>1. faults' \in 0..MaxFaults
    BY <1>0, <1>1, Faults
  <2> QED
    BY <1>0, <1>1, <1>2, <2>1 DEF TypeOK
<1>4. Creds'
  BY <1>0, <1>1, CredsSame DEF TypeOK
<1>5. \A c \in Callers : req'[c].pc = "idle" /\ req'[c].new = 0
  BY <1>1, <1>2
<1>6. \A c \in Callers : Path(req[c])' /\ ~Unspent(req[c])' /\ Kept(req[c])'
  BY <1>5, OverIsIdle DEF Path, Unspent, Kept, Reserved
<1>7. Asked' /\ Apart'
  <2>1. 0 <= Given'
    BY <1>0, <1>1, Numbers DEF Given, TypeOK
  <2> QED
    BY <1>5, <1>6, <2>1 DEF Asked, Apart, Fresh
<1>8. Holding'
  BY <1>1, <1>2 DEF Holding
<1>9. ReadAgain' /\ Switched' /\ Working'
  BY <1>1, <1>2, <1>6, NothingInHand
<1>10. Minded' /\ Starting'
  BY <1>1, <1>2, <1>5 DEF Minded, Starting
<1> QED
  BY <1>3, <1>4, <1>7, <1>8, <1>9, <1>10 DEF Inv, Notes

---------------------------------------------------------------------------
(* The theorems *)

\* Every step keeps the invariant.
LEMMA NextKeeps == Inv /\ Notes /\ [Next]_vars => Inv' /\ Notes'
<1> SUFFICES ASSUME Inv, Notes, [Next]_vars PROVE Inv' /\ Notes'
  OBVIOUS
<1>0. \A c \in Callers : req[c].name \in Names
  BY Typed DEF Inv
<1>1. ASSUME NEW c \in Callers, Continue(c) PROVE Inv' /\ Notes'
  BY <1>0, <1>1, FindKeeps, KnownKeeps, TouchKeeps, MirrorKeeps, CallKeeps, ForgetKeeps, PurgeKeeps, StoreKeeps, EscrowKeeps,
     ReserveKeeps, CreateKeeps, ActivateKeeps DEF Continue
<1>2. ASSUME NEW c \in Callers, Ask(c) \/ PassBegins(c) PROVE Inv' /\ Notes'
  BY <1>0, <1>2, AnyAskKeeps, PassBeginsKeeps
<1>3. ASSUME PassStep PROVE Inv' /\ Notes'
  BY <1>3, PlanKeeps, DiscoverKeeps, SwitchKeeps, ConfirmKeeps, RecordKeeps, PassEndsKeeps DEF PassStep
<1> QED
  BY <1>1, <1>2, <1>3, TicksKeep, ClockKeeps, RestartKeeps DEF Next

\* The invariant of the proofs: the credentials, the requests and the notes.
THEOREM Consistent == Spec => [](Inv /\ Notes)
<1>1. Init => Inv /\ Notes
  BY InitInv, InitNotes
<1> QED
  BY <1>1, NextKeeps, PTL DEF Spec

\* Every variable keeps its type.
THEOREM TypeCorrect == Spec => []TypeOK
<1>1. Inv /\ Notes => TypeOK
  BY DEF Inv
<1> QED
  BY <1>1, Consistent, PTL

\* For any names, callers and bounds: a grant never names a revoked credential, and a grant that is gone
\* leaves none that is not (store_credential, escrow, activate and purge_grant interleaved).
THEOREM GrantsNameLiveCredentials == Spec => []LiveNamesLive
<1>1. Inv /\ Notes => LiveNamesLive
  <2> SUFFICES ASSUME Inv PROVE LiveNamesLive
    OBVIOUS
  <2>1. NamesLive /\ GoneRevoked
    BY DEF Inv, Creds
  <2> QED
    BY <2>1 DEF LiveNamesLive, NamesLive, GoneRevoked, exists
<1> QED
  BY <1>1, Consistent, PTL

\* For any names, callers and bounds: while the panel serves, the note on a grant is what its account is,
\* but for an account in doubt and one a page has in its hands (reconcile_protocol, set_enabled, touch_import).
THEOREM NotesAreTrue == Spec => []ObservedIsReal
<1>1. Inv /\ Notes => ObservedIsReal
  <2> SUFFICES ASSUME Notes, NEW n \in Names, live(n), account[n] # "none", n \notin doubt, ~under_way(n), serving,
                      row[n].observed \in {"enabled", "disabled"}
               PROVE  account[n] = as_account(row[n].observed = "enabled")
    BY DEF ObservedIsReal
  <2>1. \A c \in Callers : ~Minds(c, n) /\ ~Awaits(c, n)
    BY DEF under_way, Minds, Early, Mirrors, Late, Awaits, Page
  <2> QED
    BY <2>1 DEF Notes, Minded, Wrong
<1> QED
  BY <1>1, Consistent, PTL

=============================================================================
