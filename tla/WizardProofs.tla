---------------------------- MODULE WizardProofs ----------------------------
(***************************************************************************)
(* Proofs about Wizard: its types, and what saving, hydrating, submitting  *)
(* and uploading keep true of the draft and of the server's rows.          *)
(***************************************************************************)
EXTENDS Wizard, SequenceTheorems, FiniteSetTheorems, TLAPS

\* The records of the server's rows, of the stores and of a save.
Calling == {"primary", "co"}
Request == {"figures", "primary", "co", "property"}

Person == [loan : Loans, who : Borrower, text : 0..limit.edits]
Place == [loan : Loans, by : Loans, text : 0..limit.edits]
Server == [status : [Loans -> {"none", "new_draft", "submitted"}],
           figures : [Loans -> Text], people : Seq(Person), places : Seq(Place)]
IdMap == [who : [Client -> Nat], place : Nat]
Then == [go : {"stay", "form", "documents", "review", "submit"}, loan : Ids]
Save == [on : BOOLEAN, draft : Draft, ids : IdMap, todo : Seq(Request), then : Then]

\* Ids are those of rows the server has, each a row of its loan and borrower.
Points(i, v) ==
  /\ i.place <= Len(v.places)
  /\ \A l \in Ids, who \in Borrower :
       i.who[<<l, who>>] = 0
         \/ /\ i.who[<<l, who>>] \in 1..Len(v.people)
            /\ v.people[i.who[<<l, who>>]].loan = l
            /\ v.people[i.who[<<l, who>>]].who = who

\* The stores and the server: the part of the types that the page cannot disturb.
StoreTypes ==
  /\ limit \in Limits
  /\ edits \in 0..limit.edits
  /\ cos \in Borrower
  /\ starting \in [loan : Ids, edit : 0..limit.edits]
  /\ starting # NoStart => starting.loan \in Loans
  /\ draft \in Draft
  /\ saveStatus \in {"idle", "saving", "saved", "error"}
  /\ result \in Ids
  /\ kept \in [Ids -> SUBSET Draft]
  /\ server \in Server
  /\ ids \in IdMap
  /\ saves \in [Savers -> Save]
  /\ faults \in [Ids -> SUBSET Causes]

\* The ids of the store and of every save in flight are those of rows.
Pointing ==
  /\ Points(ids, server)
  /\ \A s \in Savers : /\ Points(saves[s].ids, server)
                       /\ saves[s].todo # <<>> => saves[s].draft.loan \in Loans

\* The page, and what is done on it.
PageTypes ==
  /\ step \in {"closed", "form", "documents", "review"}
  /\ route \in Ids
  /\ timer \in BOOLEAN
  /\ busy \in BOOLEAN
  /\ notice \in {"none", "failed", "done"}
  /\ submit \in [stage : {"no", "sending", "sent"}, loan : Ids]
  /\ next \in [go : {"stay", "form", "documents", "review"}, loan : Ids]
  /\ next.go = "stay" => next = Stay
  /\ docLoan \in Ids
  /\ DOMAIN checklist \subseteq D!Types

TypeInv == StoreTypes /\ Pointing /\ PageTypes

---------------------------------------------------------------------------
(* What the operators on drafts return.                                    *)

\* The bounds of a behaviour are numbers and sets of the right kind.
LEMMA LimitTypes ==
  ASSUME limit \in Limits
  PROVE  /\ limit.edits \in Nat
         /\ \A ps \in limit.typing : ps \subseteq Parts
         /\ limit.programs \subseteq Products
         /\ limit.cos \in Borrower /\ limit.loans \in 0..MaxLoans
BY SubmissionAssumption DEF Parts, Borrower

\* An empty draft is a draft.
LEMMA EmptyTyped ==
  ASSUME limit \in Limits, NEW l \in Ids
  PROVE  EmptyDraft(l) \in Draft
<1>1. Blank \in Text BY LimitTypes DEF Blank, Text
<1>2. 0 \in Borrower BY SubmissionAssumption DEF Borrower
<1> QED BY <1>1, <1>2 DEF EmptyDraft, Draft

\* Refreshing the errors leaves the rest of a draft alone.
LEMMA ValidatedTyped ==
  ASSUME NEW d \in Draft
  PROVE  /\ Validated(d) \in Draft
         /\ Validated(d).loan = d.loan
         /\ Validated(d).text = d.text
         /\ Validated(d).empty = d.empty
         /\ Validated(d).product = d.product
         /\ Validated(d).co = d.co
<1>1. Blocking(d) \in SUBSET (Parts \cup {"ssn"}) BY DEF Blocking
<1> HIDE DEF Blocking
<1> QED BY <1>1 DEF Validated, Draft

\* So does dropping the SSN.
LEMMA StripTyped ==
  ASSUME NEW d \in Draft
  PROVE  /\ StripSsn(d) \in Draft
         /\ StripSsn(d).loan = d.loan
         /\ StripSsn(d).text = d.text
         /\ StripSsn(d).empty = d.empty
         /\ StripSsn(d).product = d.product
         /\ StripSsn(d).co = d.co
BY DEF StripSsn, Draft

\* An imported draft is a draft of its loan.
LEMMA ImportTyped ==
  ASSUME limit \in Limits, NEW e \in 0..limit.edits, NEW l \in Ids
  PROVE  /\ HydrateFromMismo(l, e) \in Draft
         /\ HydrateFromMismo(l, e).loan = l
         /\ HydrateFromMismo(l, e).text = [p \in Parts |-> IF p = "co" THEN 0 ELSE e]
         /\ HydrateFromMismo(l, e).empty = {}
         /\ HydrateFromMismo(l, e).co = 0
<1> DEFINE t == [p \in Parts |-> IF p = "co" THEN 0 ELSE e]
<1>1. t \in Text BY LimitTypes DEF Text
<1>2. PICK d : d = [EmptyDraft(l) EXCEPT !.text = t, !.product = Imported, !.ssn = TRUE] OBVIOUS
<1> HIDE DEF t
<1>3. 0 \in Borrower BY SubmissionAssumption DEF Borrower
<1>4. d \in Draft /\ d.loan = l /\ d.text = t /\ d.empty = {} /\ d.co = 0
  BY <1>1, <1>2, <1>3, SubmissionAssumption DEF Draft, EmptyDraft
<1>5. HydrateFromMismo(l, e) = Validated(d) BY <1>2 DEF HydrateFromMismo, t
<1> QED BY <1>4, <1>5, ValidatedTyped DEF t

\* What is autosaved is one draft, of its loan.
LEMMA KeptTyped ==
  ASSUME kept \in [Ids -> SUBSET Draft], NEW d \in Draft
  PROVE  /\ KeepLocally(d) \in [Ids -> SUBSET Draft]
         /\ KeepLocally(d)[d.loan] = {StripSsn(d)}
         /\ \A l \in Ids : l # d.loan => KeepLocally(d)[l] = kept[l]
<1>1. d.loan \in Ids BY DEF Draft
<1>2. StripSsn(d) \in Draft BY StripTyped
<1> QED BY <1>1, <1>2 DEF KeepLocally

\* The draft the store takes up for a loan is a draft: its own, the autosave or
\* an empty one.
LEMMA HydratedTyped ==
  ASSUME limit \in Limits, draft \in Draft, kept \in [Ids -> SUBSET Draft], NEW l \in Ids
  PROVE  /\ Hydrated(l) \in Draft
         /\ draft.loan = l => Hydrated(l) = draft
         /\ draft.loan # l =>
              \/ kept[l] = {} /\ Hydrated(l) = Validated(EmptyDraft(l))
              \/ \E d \in kept[l] : Hydrated(l) = Validated(d)
<1>1. CASE draft.loan = l BY <1>1 DEF Hydrated
<1>2. CASE draft.loan # l /\ kept[l] = {}
  BY <1>2, EmptyTyped, ValidatedTyped DEF Hydrated, NoDraft
<1>3. CASE draft.loan # l /\ kept[l] # {}
  <2>1. (CHOOSE d \in kept[l] : TRUE) \in kept[l] BY <1>3, Zenon
  <2>2. PICK d \in kept[l] : Hydrated(l) = Validated(d)
    BY <1>3, <2>1, Zenon DEF Hydrated, NoDraft
  <2>3. d \in Draft OBVIOUS
  <2> QED BY <1>3, <2>2, <2>3, ValidatedTyped
<1> QED BY <1>1, <1>2, <1>3

\* Causes only gather.
LEMMA BlameTyped ==
  ASSUME faults \in [Ids -> SUBSET Causes], NEW ls, NEW cause \in Causes
  PROVE  /\ Blame(ls, cause) \in [Ids -> SUBSET Causes]
         /\ \A l \in Ids : faults[l] \subseteq Blame(ls, cause)[l]
         /\ \A l \in Ids : l \in ls => cause \in Blame(ls, cause)[l]
BY DEF Blame

---------------------------------------------------------------------------
(* What the requests of a save do to the server's rows.                    *)

\* Rows stay, and stay those of their loan and borrower.
GrowsTo(v, w) ==
  /\ Len(v.people) <= Len(w.people)
  /\ Len(v.places) <= Len(w.places)
  /\ \A n \in 1..Len(v.people) : /\ w.people[n].loan = v.people[n].loan
                                 /\ w.people[n].who = v.people[n].who
  /\ \A n \in 1..Len(v.places) : w.places[n].loan = v.places[n].loan

\* So ids go on pointing to rows.
LEMMA PointsGrow ==
  ASSUME NEW v \in Server, NEW w \in Server, NEW i \in IdMap, Points(i, v), GrowsTo(v, w)
  PROVE  Points(i, w)
<1>1. /\ Len(v.people) \in Nat /\ Len(w.people) \in Nat
      /\ Len(v.places) \in Nat /\ Len(w.places) \in Nat
  BY DEF Server
<1>2. i.place \in Nat BY DEF IdMap
<1>3. i.place <= Len(w.places) BY <1>1, <1>2 DEF Points, GrowsTo
<1>4. ASSUME NEW l \in Ids, NEW who \in Borrower, i.who[<<l, who>>] # 0
      PROVE  /\ i.who[<<l, who>>] \in 1..Len(w.people)
             /\ w.people[i.who[<<l, who>>]].loan = l
             /\ w.people[i.who[<<l, who>>]].who = who
  <2>1. PICK n : n = i.who[<<l, who>>] OBVIOUS
  <2>2. n \in 1..Len(v.people) /\ v.people[n].loan = l /\ v.people[n].who = who
    BY <1>4, <2>1 DEF Points
  <2>3. n \in 1..Len(w.people) BY <1>1, <2>2 DEF GrowsTo
  <2>4. w.people[n].loan = l /\ w.people[n].who = who BY <2>2 DEF GrowsTo
  <2> QED BY <2>1, <2>3, <2>4
<1> QED BY <1>3, <1>4 DEF Points

\* The figures of a draft are text.
LEMMA FiguresTyped ==
  ASSUME NEW d \in Draft, limit \in Limits
  PROVE  Figures(d) \in Text
BY LimitTypes DEF Figures, Draft, Text, Parts

\* A request for the figures leaves the rows alone.
LEMMA ServedFigures ==
  ASSUME StoreTypes, NEW d \in Draft, NEW i, d.loan \in Loans
  PROVE  LET w == Served("figures", d, i)
         IN  /\ w \in Server /\ GrowsTo(server, w)
             /\ w.status = server.status /\ w.people = server.people /\ w.places = server.places
             /\ \A l \in Loans : l # d.loan => w.figures[l] = server.figures[l]
             /\ HasFigures(d) => w.figures[d.loan] = Figures(d)
             /\ HasFigures(d) \/ w.figures = server.figures
             /\ Learned("figures", d, i) = i
<1>1. Learned("figures", d, i) = i BY DEF Learned
<1>2. Served("figures", d, i) = PutFigures(server, d) BY DEF Served
<1>3. PICK f : f = Figures(d) OBVIOUS
<1>4. f \in Text BY <1>3, FiguresTyped DEF StoreTypes
<1>5. PICK w : w = PutFigures(server, d) OBVIOUS
<1>6. w = IF HasFigures(d) THEN [server EXCEPT !.figures[d.loan] = f] ELSE server
  BY <1>3, <1>5 DEF PutFigures
<1>7. server \in Server BY DEF StoreTypes
<1>8. /\ w \in Server
      /\ w.status = server.status /\ w.people = server.people /\ w.places = server.places
      /\ \A l \in Loans : l # d.loan => w.figures[l] = server.figures[l]
      /\ HasFigures(d) => w.figures[d.loan] = f
      /\ HasFigures(d) \/ w.figures = server.figures
  BY <1>4, <1>6, <1>7 DEF Server
<1>9. GrowsTo(server, w) BY <1>7, <1>8 DEF GrowsTo, Server
<1> QED BY <1>1, <1>2, <1>3, <1>5, <1>8, <1>9

\* One row is written, a new last one or one there is, and the others stay.
RowPut(rows, new, n, row) ==
  /\ n \in 1..Len(new)
  /\ new[n] = row
  /\ Len(new) \in {Len(rows), Len(rows) + 1}
  /\ \A m \in 1..Len(rows) : m # n => new[m] = rows[m]
  /\ \A m \in 1..Len(new) : m # n => m \in 1..Len(rows)

\* A row appended is a row put.
LEMMA AppendPuts ==
  ASSUME NEW S, NEW rows \in Seq(S), NEW row \in S
  PROVE  /\ Append(rows, row) \in Seq(S)
         /\ Len(Append(rows, row)) = Len(rows) + 1
         /\ RowPut(rows, Append(rows, row), Len(rows) + 1, row)
<1>1. Len(rows) \in Nat OBVIOUS
<1>2. PICK new : new = Append(rows, row) OBVIOUS
<1>3. /\ new \in Seq(S) /\ Len(new) = Len(rows) + 1
      /\ \A m \in 1..Len(rows) : new[m] = rows[m]
      /\ new[Len(rows) + 1] = row
  BY <1>2, AppendProperties
<1> QED BY <1>1, <1>2, <1>3 DEF RowPut

\* A request for a borrower writes that borrower's row, and the save knows it.
LEMMA ServedBorrower ==
  ASSUME StoreTypes, NEW d \in Draft, NEW i \in IdMap, Points(i, server), NEW call \in Calling,
         NEW who, who = Who(d, call), d.loan \in Loans
  PROVE  LET w == Served(call, d, i)
             j == Learned(call, d, i)
             n == j.who[<<d.loan, who>>]
         IN  /\ w \in Server /\ GrowsTo(server, w) /\ j \in IdMap /\ Points(j, w)
             /\ w.status = server.status /\ w.figures = server.figures /\ w.places = server.places
             /\ j.place = i.place
             /\ \A c \in Client : c # <<d.loan, who>> => j.who[c] = i.who[c]
             /\ n # 0
             /\ i.who[<<d.loan, who>>] \in {0, n}
             /\ RowPut(server.people, w.people, n, [loan |-> d.loan, who |-> who, text |-> d.text[call]])
<1> DEFINE c == <<d.loan, who>>
<1>1. PICK row : row = [loan |-> d.loan, who |-> who, text |-> d.text[call]] OBVIOUS
<1>2. PICK at : at = i.who[c] OBVIOUS
<1>3. d.loan \in Ids /\ d.text[call] \in 0..limit.edits /\ who \in Borrower
  BY SubmissionAssumption DEF Draft, Text, Calling, Parts, Who, Primary, Borrower
<1>4. row \in Person BY <1>1, <1>3 DEF Person
<1>5. /\ server \in Server /\ server.people \in Seq(Person) /\ server.places \in Seq(Place)
      /\ Len(server.people) \in Nat /\ Len(server.places) \in Nat
  BY DEF StoreTypes, Server
<1>6. c \in Client BY <1>3 DEF Client
<1>7. i.who \in [Client -> Nat] /\ i.place \in Nat /\ i = [who |-> i.who, place |-> i.place]
  BY DEF IdMap
<1>8. call \notin {"figures", "property"} BY DEF Calling
<1>9. Served(call, d, i) = IF at = 0 THEN PostBorrower(server, row) ELSE PatchBorrower(server, at, row)
  BY <1>1, <1>2, <1>8 DEF Served, SyncBorrower, PersonRow
<1>10. Learned(call, d, i) = IF at = 0 THEN [i EXCEPT !.who[c] = Len(server.people) + 1] ELSE i
  BY <1>2, <1>8 DEF Learned
<1>11. CASE at = 0
  <2>1. PICK new : new = Append(server.people, row) OBVIOUS
  <2>2. /\ new \in Seq(Person) /\ Len(new) = Len(server.people) + 1
        /\ RowPut(server.people, new, Len(server.people) + 1, row)
    BY <1>4, <1>5, <2>1, AppendPuts
  <2>3. PICK w : w = [server EXCEPT !.people = new] OBVIOUS
  <2>4. /\ w \in Server /\ w.people = new /\ w.status = server.status /\ w.figures = server.figures
        /\ w.places = server.places
    BY <1>5, <2>2, <2>3 DEF Server
  <2>5. Served(call, d, i) = w BY <1>9, <1>11, <2>1, <2>3 DEF PostBorrower
  <2>6. PICK j : j = [i EXCEPT !.who[c] = Len(server.people) + 1] OBVIOUS
  <2>7. /\ j \in IdMap /\ j.place = i.place /\ j.who[c] = Len(server.people) + 1
        /\ \A e \in Client : e # c => j.who[e] = i.who[e]
    <3>1. PICK key : key = c OBVIOUS
    <3>2. PICK f : f = [i.who EXCEPT ![key] = Len(server.people) + 1] OBVIOUS
    <3>3. /\ f \in [Client -> Nat] /\ f[key] = Len(server.people) + 1
          /\ \A e \in Client : e # key => f[e] = i.who[e]
      BY <1>5, <1>6, <1>7, <3>1, <3>2
    <3>4. j = [i EXCEPT !.who = f] BY <2>6, <3>1, <3>2
    <3>5. j \in IdMap /\ j.place = i.place /\ j.who = f BY <3>3, <3>4 DEF IdMap
    <3> QED BY <3>1, <3>3, <3>5
  <2>8. GrowsTo(server, w)
    BY <1>5, <2>2, <2>4 DEF GrowsTo, RowPut
  <2>9. Points(i, w) BY <1>5, <2>4, <2>8, PointsGrow
  <2>10. Points(j, w)
    <3>1. j.place <= Len(w.places) BY <2>7, <2>9 DEF Points
    <3>2. ASSUME NEW l \in Ids, NEW b \in Borrower
          PROVE  j.who[<<l, b>>] = 0
                   \/ /\ j.who[<<l, b>>] \in 1..Len(w.people)
                      /\ w.people[j.who[<<l, b>>]].loan = l
                      /\ w.people[j.who[<<l, b>>]].who = b
      <4>1. <<l, b>> \in Client BY DEF Client
      <4>2. CASE <<l, b>> = c
        <5>1. l = d.loan /\ b = who BY <4>2
        <5>2. j.who[<<l, b>>] = Len(server.people) + 1 BY <2>7, <4>2
        <5>3. w.people[Len(server.people) + 1] = row BY <2>2, <2>4 DEF RowPut
        <5> QED BY <1>1, <1>5, <2>2, <2>4, <5>1, <5>2, <5>3
      <4>3. CASE <<l, b>> # c
        <5>1. j.who[<<l, b>>] = i.who[<<l, b>>] BY <2>7, <4>1, <4>3
        <5> QED BY <2>9, <5>1 DEF Points
      <4> QED BY <4>2, <4>3
    <3> QED BY <3>1, <3>2 DEF Points
  <2>11. Learned(call, d, i) = j BY <1>10, <1>11, <2>6
  <2>12. j.who[c] # 0 BY <1>5, <2>7
  <2> QED BY <1>1, <1>2, <1>11, <2>2, <2>4, <2>5, <2>7, <2>8, <2>10, <2>11, <2>12
<1>12. CASE at # 0
  <2>1. /\ at \in 1..Len(server.people) /\ server.people[at].loan = d.loan
        /\ server.people[at].who = who
    BY <1>2, <1>3, <1>12 DEF Points
  <2>2. PICK old : old = server.people[at] OBVIOUS
  <2>3. old \in Person BY <1>5, <2>1, <2>2, ElementOfSeq
  <2>4. [old EXCEPT !.text = row.text] = row
    BY <1>1, <2>1, <2>2, <2>3 DEF Person
  <2>5. PICK new : new = [server.people EXCEPT ![at] = row] OBVIOUS
  <2>6. /\ new \in Seq(Person) /\ Len(new) = Len(server.people)
        /\ new[at] = row
        /\ \A m \in 1..Len(server.people) : m # at => new[m] = server.people[m]
    BY <1>4, <1>5, <2>1, <2>5, ExceptSeq
  <2>7. RowPut(server.people, new, at, row) BY <1>5, <2>1, <2>6 DEF RowPut
  <2>8. PICK w : w = [server EXCEPT !.people = new] OBVIOUS
  <2>9. /\ w \in Server /\ w.people = new /\ w.status = server.status /\ w.figures = server.figures
        /\ w.places = server.places
    BY <1>5, <2>6, <2>8 DEF Server
  <2>10. Served(call, d, i) = w
    <3>1. Served(call, d, i) = [server EXCEPT !.people[at].text = row.text]
      BY <1>9, <1>12 DEF PatchBorrower
    <3>2. [server.people EXCEPT ![at].text = row.text] = [server.people EXCEPT ![at] = row]
      BY <2>2, <2>4
    <3>3. [server EXCEPT !.people[at].text = row.text]
            = [server EXCEPT !.people = [server.people EXCEPT ![at].text = row.text]]
      OBVIOUS
    <3> QED BY <3>1, <3>2, <3>3, <2>5, <2>8
  <2>11. Learned(call, d, i) = i BY <1>10, <1>12
  <2>12. GrowsTo(server, w)
    <3>1. Len(w.people) = Len(server.people) /\ Len(w.places) = Len(server.places) BY <2>6, <2>9
    <3>2. ASSUME NEW m \in 1..Len(server.people)
          PROVE  w.people[m].loan = server.people[m].loan /\ w.people[m].who = server.people[m].who
      <4>1. CASE m = at BY <1>1, <2>1, <2>6, <2>9, <4>1
      <4>2. CASE m # at BY <2>6, <2>9, <4>2
      <4> QED BY <4>1, <4>2
    <3> QED BY <1>5, <2>9, <3>1, <3>2 DEF GrowsTo
  <2>13. Points(i, w) BY <1>5, <2>9, <2>12, PointsGrow
  <2> QED BY <1>1, <1>2, <1>12, <2>7, <2>9, <2>10, <2>11, <2>12, <2>13
<1> QED BY <1>11, <1>12

\* A request for the property writes a row of it, and the save knows it.
LEMMA ServedProperty ==
  ASSUME StoreTypes, NEW d \in Draft, NEW i \in IdMap, Points(i, server), d.loan \in Loans
  PROVE  LET w == Served("property", d, i)
             j == Learned("property", d, i)
         IN  /\ w \in Server /\ GrowsTo(server, w) /\ j \in IdMap /\ Points(j, w)
             /\ w.status = server.status /\ w.figures = server.figures /\ w.people = server.people
             /\ j.who = i.who /\ j.place # 0 /\ i.place \in {0, j.place}
             /\ RowPut(server.places, w.places, j.place,
                       [loan |-> w.places[j.place].loan, by |-> d.loan, text |-> d.text["property"]])
             /\ i.place = 0 => w.places[j.place].loan = d.loan
<1>1. PICK row : row = [loan |-> d.loan, by |-> d.loan, text |-> d.text["property"]] OBVIOUS
<1>2. d.text["property"] \in 0..limit.edits BY DEF Draft, Text, Parts
<1>3. row \in Place BY <1>1, <1>2 DEF Place
<1>4. /\ server \in Server /\ server.people \in Seq(Person) /\ server.places \in Seq(Place)
      /\ Len(server.people) \in Nat /\ Len(server.places) \in Nat
  BY DEF StoreTypes, Server
<1>5. i.who \in [Client -> Nat] /\ i.place \in Nat BY DEF IdMap
<1>6. Served("property", d, i) =
        IF i.place = 0 THEN PostProperty(server, row) ELSE PatchProperty(server, i.place, row)
  BY <1>1 DEF Served, SyncProperty, PlaceRow
<1>7. Learned("property", d, i) = IF i.place = 0 THEN [i EXCEPT !.place = Len(server.places) + 1] ELSE i
  BY DEF Learned
<1>8. CASE i.place = 0
  <2>1. PICK new : new = Append(server.places, row) OBVIOUS
  <2>2. /\ new \in Seq(Place) /\ Len(new) = Len(server.places) + 1
        /\ RowPut(server.places, new, Len(server.places) + 1, row)
    BY <1>3, <1>4, <2>1, AppendPuts
  <2>3. PICK w : w = [server EXCEPT !.places = new] OBVIOUS
  <2>4. /\ w \in Server /\ w.places = new /\ w.status = server.status /\ w.figures = server.figures
        /\ w.people = server.people
    BY <1>4, <2>2, <2>3 DEF Server
  <2>5. Served("property", d, i) = w BY <1>6, <1>8, <2>1, <2>3 DEF PostProperty
  <2>6. PICK j : j = [i EXCEPT !.place = Len(server.places) + 1] OBVIOUS
  <2>7. j \in IdMap /\ j.who = i.who /\ j.place = Len(server.places) + 1
    BY <1>4, <1>5, <2>6 DEF IdMap
  <2>8. GrowsTo(server, w) BY <1>4, <2>2, <2>4 DEF GrowsTo, RowPut
  <2>9. Points(i, w) BY <1>4, <2>4, <2>8, PointsGrow
  <2>10. Points(j, w)
    <3>1. j.place <= Len(w.places) BY <1>4, <2>2, <2>4, <2>7
    <3> QED BY <2>7, <2>9, <3>1 DEF Points
  <2>11. Learned("property", d, i) = j BY <1>7, <1>8, <2>6
  <2>12. w.places[j.place] = row BY <2>2, <2>4, <2>7 DEF RowPut
  <2>13. row = [loan |-> w.places[j.place].loan, by |-> d.loan, text |-> d.text["property"]]
    BY <1>1, <2>12
  <2>14. RowPut(server.places, w.places, j.place, row) BY <2>2, <2>4, <2>7
  <2>15. j.place # 0 /\ w.places[j.place].loan = d.loan BY <1>1, <1>4, <2>7, <2>12
  <2> QED BY <1>8, <2>4, <2>5, <2>7, <2>8, <2>10, <2>11, <2>13, <2>14, <2>15
<1>9. CASE i.place # 0
  <2>1. PICK at : at = i.place OBVIOUS
  <2>2. at \in 1..Len(server.places) BY <1>4, <1>5, <1>9, <2>1 DEF Points
  <2>3. PICK old : old = server.places[at] OBVIOUS
  <2>4. old \in Place BY <1>4, <2>2, <2>3, ElementOfSeq
  <2>5. PICK put : put = [old EXCEPT !.by = row.by, !.text = row.text] OBVIOUS
  <2>6. put \in Place /\ put = [loan |-> old.loan, by |-> d.loan, text |-> d.text["property"]]
    BY <1>1, <1>3, <2>4, <2>5 DEF Place
  <2>7. PICK new : new = [server.places EXCEPT ![at] = put] OBVIOUS
  <2>8. /\ new \in Seq(Place) /\ Len(new) = Len(server.places)
        /\ new[at] = put
        /\ \A m \in 1..Len(server.places) : m # at => new[m] = server.places[m]
    BY <1>4, <2>2, <2>6, <2>7, ExceptSeq
  <2>9. RowPut(server.places, new, at, put) BY <1>4, <2>2, <2>8 DEF RowPut
  <2>10. PICK w : w = [server EXCEPT !.places = new] OBVIOUS
  <2>11. /\ w \in Server /\ w.places = new /\ w.status = server.status /\ w.figures = server.figures
         /\ w.people = server.people
    BY <1>4, <2>8, <2>10 DEF Server
  <2>12. Served("property", d, i) = w
    <3>1. Served("property", d, i) = [server EXCEPT !.places[at].by = row.by, !.places[at].text = row.text]
      BY <1>6, <1>9, <2>1 DEF PatchProperty
    <3>2. [server EXCEPT !.places[at].by = row.by, !.places[at].text = row.text]
            = [server EXCEPT !.places = [server.places EXCEPT ![at].by = row.by, ![at].text = row.text]]
      <4>1. PICK q : q = [server.places EXCEPT ![at].by = row.by] OBVIOUS
      <4>2. PICK v : v = [server EXCEPT !.places = q] OBVIOUS
      <4>3. v.places = q BY <1>4, <4>2 DEF Server
      <4>4. [server EXCEPT !.places[at].by = row.by, !.places[at].text = row.text]
              = [v EXCEPT !.places[at].text = row.text]
        BY <4>1, <4>2
      <4>5. [v EXCEPT !.places[at].text = row.text] = [v EXCEPT !.places = [q EXCEPT ![at].text = row.text]]
        BY <4>3
      <4>6. [v EXCEPT !.places = [q EXCEPT ![at].text = row.text]]
              = [server EXCEPT !.places = [q EXCEPT ![at].text = row.text]]
        BY <4>2
      <4> QED BY <4>1, <4>4, <4>5, <4>6
    <3>3. [server.places EXCEPT ![at].by = row.by, ![at].text = row.text]
            = [server.places EXCEPT ![at] = put]
      BY <1>4, <2>2, <2>3, <2>4, <2>5 DEF Place
    <3> QED BY <3>1, <3>2, <3>3, <2>7, <2>10
  <2>13. Learned("property", d, i) = i BY <1>7, <1>9
  <2>14. GrowsTo(server, w)
    <3>1. Len(w.people) = Len(server.people) /\ Len(w.places) = Len(server.places) BY <2>8, <2>11
    <3>2. ASSUME NEW m \in 1..Len(server.places)
          PROVE  w.places[m].loan = server.places[m].loan
      <4>1. CASE m = at BY <2>3, <2>6, <2>8, <2>11, <4>1
      <4>2. CASE m # at BY <2>8, <2>11, <4>2
      <4> QED BY <4>1, <4>2
    <3> QED BY <1>4, <2>11, <3>1, <3>2 DEF GrowsTo
  <2>15. Points(i, w) BY <1>4, <2>11, <2>14, PointsGrow
  <2>16. w.places[at] = put BY <2>8, <2>11
  <2>17. put = [loan |-> w.places[at].loan, by |-> d.loan, text |-> d.text["property"]]
    BY <2>6, <2>16
  <2> QED BY <1>9, <2>1, <2>9, <2>11, <2>12, <2>13, <2>14, <2>15, <2>17
<1> QED BY <1>8, <1>9

\* Any request of a save keeps the server's types, its rows and the save's ids.
LEMMA ServedTyped ==
  ASSUME StoreTypes, NEW d \in Draft, NEW i \in IdMap, Points(i, server), NEW call \in Request,
         d.loan \in Loans
  PROVE  LET w == Served(call, d, i)
             j == Learned(call, d, i)
         IN  /\ w \in Server /\ GrowsTo(server, w) /\ j \in IdMap /\ Points(j, w)
             /\ w.status = server.status
<1>1. CASE call = "figures"
  <2>1. PICK w : w = Served("figures", d, i) OBVIOUS
  <2>2. w \in Server /\ GrowsTo(server, w) /\ w.status = server.status /\ Learned("figures", d, i) = i
    BY <2>1, ServedFigures
  <2>3. server \in Server BY DEF StoreTypes
  <2>4. Points(i, w) BY <2>2, <2>3, PointsGrow
  <2> QED BY <1>1, <2>1, <2>2, <2>4
<1>2. CASE call = "property"
  <2>1. LET w == Served("property", d, i)
            j == Learned("property", d, i)
        IN  /\ w \in Server /\ GrowsTo(server, w) /\ j \in IdMap /\ Points(j, w)
            /\ w.status = server.status
    BY ServedProperty, Zenon
  <2> QED BY <1>2, <2>1
<1>3. CASE call \in Calling
  <2>1. LET w == Served(call, d, i)
            j == Learned(call, d, i)
        IN  /\ w \in Server /\ GrowsTo(server, w) /\ j \in IdMap /\ Points(j, w)
            /\ w.status = server.status
    BY <1>3, ServedBorrower, Zenon
  <2> QED BY <2>1
<1> QED BY <1>1, <1>2, <1>3 DEF Request, Calling

---------------------------------------------------------------------------
(* Each step of the store keeps its types.                                 *)

\* The part of the type invariant that the stores keep by themselves.
StoreInv == StoreTypes /\ Pointing

\* What happened to a loan is not forgotten.
FaultsGrow == \A l \in Ids : faults[l] \subseteq faults'[l]

\* The bounds of a behaviour stay, and with them the sets of values.
LEMMA SameBounds ==
  ASSUME limit' = limit
  PROVE  /\ Draft' = Draft /\ Text' = Text /\ Server' = Server /\ Save' = Save
         /\ Person' = Person /\ Place' = Place
BY DEF Draft, Text, Server, Save, Person, Place

\* What neither saves nor writes rows keeps the ids pointing.
LEMMA PointingKept ==
  ASSUME StoreTypes, Pointing, UNCHANGED <<saves, limit>>, server' \in Server, GrowsTo(server, server'),
         ids' = ids \/ ids' = [who |-> NoIds, place |-> 0]
  PROVE  Pointing'
<1>1. server \in Server /\ ids \in IdMap /\ saves \in [Savers -> Save] BY DEF StoreTypes
<1>2. Points(ids', server')
  <2>1. CASE ids' = ids BY <1>1, <2>1, PointsGrow DEF Pointing
  <2>2. CASE ids' = [who |-> NoIds, place |-> 0]
    <3>1. Len(server'.places) \in Nat BY DEF Server
    <3>2. \A l \in Ids, who \in Borrower : <<l, who>> \in Client BY DEF Client
    <3> QED BY <2>2, <3>1, <3>2 DEF Points, NoIds
  <2> QED BY <2>1, <2>2
<1>3. ASSUME NEW s \in Savers
      PROVE  /\ Points(saves'[s].ids, server')
             /\ saves'[s].todo # <<>> => saves'[s].draft.loan \in Loans
  <2>1. saves[s].ids \in IdMap BY <1>1 DEF Save
  <2> QED BY <1>1, <2>1, PointsGrow DEF Pointing
<1> QED BY <1>2, <1>3 DEF Pointing

\* The server as it is has the rows it has.
LEMMA GrowsSame ==
  ASSUME NEW v \in Server, NEW w \in Server, w.people = v.people, w.places = v.places
  PROVE  GrowsTo(v, w)
BY DEF GrowsTo, Server

\* Asking for a draft.
LEMMA AskTypes ==
  ASSUME StoreTypes, Pointing, NEW e \in 0..limit.edits, AskDraft(e), edits' \in 0..limit.edits
  PROVE  /\ StoreTypes' /\ Pointing' /\ FaultsGrow /\ limit' = limit
         /\ GrowsTo(server, server')
<1> USE DEF StoreTypes
<1>1. UNCHANGED <<draft, saveStatus, ids, result, kept, saves, limit, cos, faults>> BY DEF AskDraft
<1>2. Draft' = Draft /\ Server' = Server /\ Save' = Save BY <1>1, SameBounds
<1>3. PICK l \in 1..limit.loans : /\ server' = [server EXCEPT !.status[l] = "new_draft"]
                                  /\ starting' = [loan |-> l, edit |-> e]
  BY DEF AskDraft
<1>4. l \in Loans
  <2>1. limit.loans \in 0..MaxLoans BY LimitTypes
  <2> QED BY <2>1, SubmissionAssumption DEF Loans
<1>5. server' \in Server /\ server'.people = server.people /\ server'.places = server.places
  BY <1>3, <1>4 DEF Server
<1>6. starting' \in [loan : Ids, edit : 0..limit.edits] /\ starting'.loan \in Loans
  BY <1>3, <1>4 DEF Ids
<1>7. FaultsGrow BY <1>1 DEF FaultsGrow
<1>8. StoreTypes' BY <1>1, <1>2, <1>5, <1>6
<1>9. Pointing' BY <1>1, <1>5, GrowsSame, PointingKept
<1> QED BY <1>1, <1>5, <1>7, <1>8, <1>9, GrowsSame

\* Hydrating.
LEMMA HydrateTypes ==
  ASSUME StoreTypes, Pointing, NEW l \in Ids, HydrateFromApi(l)
  PROVE  StoreTypes' /\ Pointing' /\ FaultsGrow /\ limit' = limit
<1> USE DEF StoreTypes
<1>1. UNCHANGED <<saveStatus, ids, result, starting, kept, saves, server, edits, cos, limit>>
  BY DEF HydrateFromApi
<1>2. Draft' = Draft /\ Server' = Server /\ Save' = Save BY <1>1, SameBounds
<1>3. draft' \in Draft BY HydratedTyped DEF HydrateFromApi
<1>4. faults' \in [Ids -> SUBSET Causes] /\ FaultsGrow
  BY BlameTyped DEF HydrateFromApi, Causes, FaultsGrow
<1>5. StoreTypes' BY <1>1, <1>2, <1>3, <1>4
<1>6. Pointing' BY <1>1, GrowsSame, PointingKept
<1> QED BY <1>1, <1>4, <1>5, <1>6

\* The set of text typed, and the text of the draft.
LEMMA TypedTyped ==
  ASSUME StoreTypes, edits < limit.edits, NEW ps, NEW product
  PROVE  Typed(ps, product) \in Text
<1>1. limit.edits \in Nat /\ draft.text \in Text BY LimitTypes DEF StoreTypes, Draft
<1> QED BY <1>1 DEF StoreTypes, Typed, Text

\* Typing and the co-borrower change the draft.
LEMMA TypeTypes ==
  ASSUME StoreTypes, Pointing,
         (\E ps \in limit.typing, gone \in SUBSET Parts : Type(ps, gone)) \/ AddCoBorrower \/ RemoveBorrower
  PROVE  /\ StoreTypes' /\ Pointing' /\ FaultsGrow /\ limit' = limit
         /\ draft'.loan = draft.loan
<1> USE DEF StoreTypes
<1>1. UNCHANGED <<saveStatus, ids, result, starting, kept, saves, server, limit, faults>>
  BY DEF Type, AddCoBorrower, RemoveBorrower
<1>2. Draft' = Draft /\ Server' = Server /\ Save' = Save BY <1>1, SameBounds
<1>3. draft' \in Draft /\ draft'.loan = draft.loan /\ edits' \in 0..limit.edits /\ cos' \in Borrower
  <2>1. ASSUME NEW ps \in limit.typing, NEW gone \in SUBSET Parts, Type(ps, gone)
        PROVE  /\ draft' \in Draft /\ draft'.loan = draft.loan /\ edits' \in 0..limit.edits
               /\ cos' \in Borrower
    <3>1. edits < limit.edits /\ edits' = edits + 1 /\ cos' = cos BY <2>1 DEF Type
    <3>2. PICK product \in IF "setup" \in ps THEN limit.programs ELSE {draft.product} :
            draft' = Validated([draft EXCEPT
                        !.text = Typed(ps, product), !.product = product,
                        !.empty = gone \cup {p \in @ \ ps : Typed(ps, product)[p] > 0},
                        !.ssn = IF "primary" \in ps THEN "primary" \notin gone ELSE @])
      BY <2>1 DEF Type
    <3>3. product \in Products \cup {NoProduct} BY <3>2, LimitTypes DEF Draft
    <3>4. PICK t : t = Typed(ps, product) OBVIOUS
    <3>5. t \in Text BY <3>1, <3>4, TypedTyped
    <3>6. PICK b \in BOOLEAN : b = IF "primary" \in ps THEN "primary" \notin gone ELSE draft.ssn
      BY DEF Draft
    <3>7. PICK e : e = gone \cup {p \in draft.empty \ ps : t[p] > 0} OBVIOUS
    <3>8. e \in SUBSET Parts BY <3>7 DEF Draft
    <3>9. PICK d : d = [draft EXCEPT !.text = t, !.product = product, !.empty = e, !.ssn = b] OBVIOUS
    <3>10. d \in Draft /\ d.loan = draft.loan BY <3>3, <3>5, <3>8, <3>9 DEF Draft
    <3>11. draft' = Validated(d) BY <3>2, <3>4, <3>6, <3>7, <3>9
    <3> QED BY <3>1, <3>10, <3>11, ValidatedTyped, LimitTypes
  <2>2. CASE AddCoBorrower
    <3>1. cos' = cos + 1 /\ cos < limit.cos /\ edits' = edits /\ draft' = [draft EXCEPT !.co = cos + 1]
      BY <2>2 DEF AddCoBorrower
    <3>2. cos + 1 \in Borrower BY <3>1, LimitTypes, SubmissionAssumption DEF Borrower
    <3> QED BY <3>1, <3>2 DEF Draft
  <2>3. CASE RemoveBorrower
    <3>1. PICK t : t = [draft.text EXCEPT !["co"] = 0] OBVIOUS
    <3>2. t \in Text
      <4>1. draft.text \in Text BY DEF Draft
      <4>2. 0 \in 0..limit.edits BY LimitTypes
      <4> QED BY <3>1, <4>1, <4>2 DEF Text
    <3>3. PICK e : e = draft.empty \ {"co"} OBVIOUS
    <3>4. draft' = [draft EXCEPT !.co = 0, !.text = t, !.empty = e]
      BY <2>3, <3>1, <3>3 DEF RemoveBorrower, Draft
    <3>5. edits' = edits /\ cos' = cos BY <2>3 DEF RemoveBorrower
    <3>6. 0 \in Borrower BY SubmissionAssumption DEF Borrower
    <3> QED BY <3>2, <3>3, <3>4, <3>5, <3>6 DEF Draft
  <2> QED BY <2>1, <2>2, <2>3
<1>4. FaultsGrow BY <1>1 DEF FaultsGrow
<1>5. StoreTypes' BY <1>1, <1>2, <1>3
<1>6. Pointing' BY <1>1, GrowsSame, PointingKept
<1> QED BY <1>1, <1>3, <1>4, <1>5, <1>6

\* The requests of a save are requests, and a draft without a server loan has
\* none.
LEMMA CallsTyped ==
  ASSUME NEW d \in Draft
  PROVE  Calls(d) \in Seq(Request) /\ (Calls(d) # <<>> => d.loan \in Loans)
<1>1. CASE d.loan \notin Loans BY <1>1 DEF Calls
<1>2. CASE d.loan \in Loans
  <2>1. <<"figures", "primary">> \in Seq(Request)
    <3>1. "figures" \in Request /\ "primary" \in Request BY DEF Request
    <3> QED BY <3>1
  <2>2. PICK co : co = IF d.co > 0 THEN <<"co">> ELSE <<>> OBVIOUS
  <2>3. PICK pr : pr = IF Filled(d, "property") THEN <<"property">> ELSE <<>> OBVIOUS
  <2>4. co \in Seq(Request) /\ pr \in Seq(Request)
    <3>1. "co" \in Request /\ "property" \in Request BY DEF Request
    <3>2. <<"co">> \in Seq(Request) /\ <<"property">> \in Seq(Request) BY <3>1
    <3>3. <<>> \in Seq(Request) OBVIOUS
    <3> QED BY <2>2, <2>3, <3>2, <3>3
  <2>5. PICK two : two = <<"figures", "primary">> OBVIOUS
  <2>6. Calls(d) = two \o co \o pr BY <1>2, <2>2, <2>3, <2>5 DEF Calls
  <2> QED BY <1>2, <2>1, <2>4, <2>5, <2>6, ConcatProperties
<1> QED BY <1>1, <1>2

\* A save that begins takes a draft and ids that point to rows.
LEMMA BeginTypes ==
  ASSUME StoreTypes, Pointing, NEW s \in Savers, NEW d \in Draft, NEW i \in IdMap, Points(i, server),
         NEW then \in Then, SaveBegins(s, d, i, then), server' = server
  PROVE  /\ saves' \in [Savers -> Save] /\ kept' \in [Ids -> SUBSET Draft] /\ saveStatus' = "saving"
         /\ cos' = cos /\ limit' = limit
         /\ ~saves[s].on
         /\ saves'[s] = [on |-> TRUE, draft |-> d, ids |-> i, todo |-> Calls(d), then |-> then]
         /\ \A t \in Savers : t # s => saves'[t] = saves[t]
         /\ \A t \in Savers : /\ Points(saves'[t].ids, server')
                              /\ saves'[t].todo # <<>> => saves'[t].draft.loan \in Loans
<1> USE DEF StoreTypes
<1>1. PICK v : v = [on |-> TRUE, draft |-> d, ids |-> i, todo |-> Calls(d), then |-> then]
  OBVIOUS
<1>2. v \in Save /\ v.ids = i /\ v.draft = d /\ (v.todo # <<>> => v.draft.loan \in Loans)
  BY <1>1, CallsTyped DEF Save
<1>3. saves' = [saves EXCEPT ![s] = v] BY <1>1 DEF SaveBegins
<1>4. saves' \in [Savers -> Save] /\ saves'[s] = v /\ \A t \in Savers : t # s => saves'[t] = saves[t]
  BY <1>2, <1>3
<1>5. PICK e : e = [d EXCEPT !.isDraft = TRUE] OBVIOUS
<1>6. e \in Draft BY <1>5 DEF Draft
<1>7. kept' \in [Ids -> SUBSET Draft] BY <1>5, <1>6, KeptTyped DEF SaveBegins
<1>8. saveStatus' = "saving" /\ cos' = cos /\ limit' = limit /\ ~saves[s].on BY DEF SaveBegins
<1>9. ASSUME NEW t \in Savers
      PROVE  /\ Points(saves'[t].ids, server')
             /\ saves'[t].todo # <<>> => saves'[t].draft.loan \in Loans
  <2>1. CASE t = s BY <1>2, <1>4, <2>1
  <2>2. CASE t # s BY <1>4, <2>2 DEF Pointing
  <2> QED BY <2>1, <2>2
<1> QED BY <1>1, <1>4, <1>7, <1>8, <1>9

\* A save starts with the draft and the ids of the store.
LEMMA SaveStartTypes ==
  ASSUME StoreTypes, Pointing, NEW s \in Savers, NEW then \in Then, StartSave(s, then)
  PROVE  StoreTypes' /\ Pointing' /\ FaultsGrow /\ limit' = limit
<1> USE DEF StoreTypes
<1>1. UNCHANGED <<draft, ids, result, starting, server, edits>> BY DEF StartSave
<1>2. SaveBegins(s, draft, ids, then) /\ Points(ids, server) BY DEF StartSave, Pointing
<1>3. /\ saves' \in [Savers -> Save] /\ kept' \in [Ids -> SUBSET Draft] /\ saveStatus' = "saving"
      /\ cos' = cos /\ limit' = limit
      /\ \A t \in Savers : /\ Points(saves'[t].ids, server')
                           /\ saves'[t].todo # <<>> => saves'[t].draft.loan \in Loans
  BY <1>1, <1>2, BeginTypes
<1>4. Draft' = Draft /\ Server' = Server /\ Save' = Save BY <1>3, SameBounds
<1>5. faults' \in [Ids -> SUBSET Causes] /\ FaultsGrow
  BY BlameTyped DEF StartSave, Causes, FaultsGrow
<1>6. StoreTypes' BY <1>1, <1>3, <1>4, <1>5
<1>7. Pointing' BY <1>1, <1>3 DEF Pointing
<1> QED BY <1>3, <1>5, <1>6, <1>7

\* The ids of a new draft point nowhere.
LEMMA FreshPoints ==
  ASSUME NEW v \in Server
  PROVE  FreshIds \in IdMap /\ Points(FreshIds, v)
<1>1. Len(v.places) \in Nat BY DEF Server
<1>2. \A l \in Ids, who \in Borrower : <<l, who>> \in Client BY DEF Client
<1> QED BY <1>1, <1>2 DEF FreshIds, NoIds, IdMap, Points

\* A draft is started, empty or with the text of a file.
Begins(l, d) ==
  /\ d \in Draft /\ d.loan = l
  /\ draft' = d /\ ids' = FreshIds /\ result' = Local
  /\ UNCHANGED <<server, edits, cos, limit>>
  /\ \/ starting # NoStart /\ starting' = NoStart /\ l = starting.loan
     \/ starting' = starting /\ l = Local /\ kept[Local] = {} /\ d = EmptyDraft(Local)
  /\ d.empty = {} /\ \A p \in Parts : d.text[p] <= starting.edit
  /\ faults' \in [Ids -> SUBSET Causes]
  /\ \A k \in Ids : Replaced(l, Open)[k] \subseteq faults'[k]
  /\ \/ /\ d = EmptyDraft(l) /\ saves' = saves /\ saveStatus' = "saved"
        /\ kept' = KeepLocally(EmptyDraft(l))
     \/ /\ \E s \in Savers : SaveBegins(s, d, FreshIds, [go |-> "form", loan |-> l])
        /\ \A k \in Overlapping(l) : k \in Ids => "overlap" \in faults'[k]
        /\ d.co = 0

\* Starting a draft.
LEMMA StartTypes ==
  ASSUME StoreTypes, Pointing, NEW l \in Ids, NEW d, Begins(l, d)
  PROVE  StoreTypes' /\ Pointing' /\ FaultsGrow /\ limit' = limit
<1> USE DEF StoreTypes
<1>1. UNCHANGED <<server, edits, cos, limit>> /\ draft' = d /\ d \in Draft /\ ids' = FreshIds
      /\ result' = Local /\ starting' \in {starting, NoStart} /\ faults' \in [Ids -> SUBSET Causes]
  BY DEF Begins
<1>2. Draft' = Draft /\ Server' = Server /\ Save' = Save BY <1>1, SameBounds
<1>3. ids' \in IdMap /\ Points(ids', server') BY <1>1, FreshPoints
<1>4. FaultsGrow BY DEF Begins, Replaced, FaultsGrow
<1>5. /\ saves' \in [Savers -> Save] /\ kept' \in [Ids -> SUBSET Draft]
      /\ saveStatus' \in {"saved", "saving"}
      /\ \A t \in Savers : /\ Points(saves'[t].ids, server')
                           /\ saves'[t].todo # <<>> => saves'[t].draft.loan \in Loans
  <2>1. CASE /\ saves' = saves /\ saveStatus' = "saved" /\ kept' = KeepLocally(EmptyDraft(l))
    BY <1>1, <2>1, EmptyTyped, KeptTyped DEF Pointing
  <2>2. ASSUME NEW s \in Savers, SaveBegins(s, d, FreshIds, [go |-> "form", loan |-> l])
        PROVE  /\ saves' \in [Savers -> Save] /\ kept' \in [Ids -> SUBSET Draft]
               /\ saveStatus' \in {"saved", "saving"}
               /\ \A t \in Savers : /\ Points(saves'[t].ids, server')
                                    /\ saves'[t].todo # <<>> => saves'[t].draft.loan \in Loans
    <3>1. FreshIds \in IdMap /\ Points(FreshIds, server) BY FreshPoints
    <3>2. [go |-> "form", loan |-> l] \in Then BY DEF Then
    <3> QED BY <1>1, <2>2, <3>1, <3>2, BeginTypes
  <2> QED BY <2>1, <2>2 DEF Begins
<1>6. starting' \in [loan : Ids, edit : 0..limit.edits] /\ (starting' # NoStart => starting'.loan \in Loans)
  <2>1. 0 \in 0..limit.edits BY LimitTypes
  <2> QED BY <1>1, <2>1 DEF NoStart, Ids
<1>7. Local \in Ids BY DEF Ids
<1>8. StoreTypes' BY <1>1, <1>2, <1>3, <1>5, <1>6, <1>7
<1>9. Pointing' BY <1>3, <1>5 DEF Pointing
<1> QED BY <1>1, <1>4, <1>8, <1>9

\* Nothing has been learned by a slot that is free.
LEMMA IdleTyped ==
  ASSUME limit \in Limits, NEW v \in Server
  PROVE  Idle \in Save /\ Points(Idle.ids, v) /\ Idle.todo = <<>>
<1>1. Idle \in Save
  <2>1. EmptyDraft(Local) \in Draft BY EmptyTyped DEF Ids
  <2>2. Stay \in Then BY DEF Stay, Then, Ids
  <2>3. [who |-> NoIds, place |-> 0] \in IdMap BY DEF NoIds, IdMap
  <2>4. <<>> \in Seq(Request) OBVIOUS
  <2> QED BY <2>1, <2>2, <2>3, <2>4 DEF Idle, Save
<1>2. Idle.ids = [who |-> NoIds, place |-> 0] /\ Idle.todo = <<>> BY DEF Idle
<1>3. Len(v.places) \in Nat BY DEF Server
<1>4. \A l \in Ids, who \in Borrower : <<l, who>> \in Client BY DEF Client
<1> QED BY <1>1, <1>2, <1>3, <1>4 DEF Points, NoIds

\* What a request of a save does: the server takes it and the save learns of the
\* rows, or, without a token, nothing is sent.
LEMMA CallSteps ==
  ASSUME StoreTypes, Pointing, NEW s \in Savers, SaveCall(s)
  PROVE  LET v == saves[s]
             u == saves'[s]
             call == Head(v.todo)
         IN  /\ v.todo # <<>> /\ v.on /\ u.on /\ v.draft.loan \in Loans
             /\ call \in Request
             /\ u.draft = v.draft /\ u.then = v.then /\ u.todo = Tail(v.todo) /\ u \in Save
             /\ saves' \in [Savers -> Save]
             /\ \A t \in Savers : t # s => saves'[t] = saves[t]
             /\ \/ /\ signedIn
                   /\ server' = Served(call, v.draft, v.ids)
                   /\ u.ids = Learned(call, v.draft, v.ids)
                   /\ faults' = faults
                \/ /\ ~signedIn
                   /\ server' = server /\ u.ids = v.ids
                   /\ faults' = Blame({v.draft.loan}, "signed out")
             /\ UNCHANGED <<draft, saveStatus, ids, result, starting, kept, signedIn, edits, fails, cos, limit>>
<1>1. PICK v : v = saves[s] OBVIOUS
<1>2. PICK call : call = Head(v.todo) OBVIOUS
<1>3. saves \in [Savers -> Save] BY DEF StoreTypes
<1>4. v \in Save BY <1>1, <1>3
<1>5. v.on /\ v.todo # <<>> /\ v.draft.loan \in Loans BY <1>1 DEF SaveCall, Pointing
<1>6. v.todo \in Seq(Request) /\ v.ids \in IdMap /\ v.draft \in Draft BY <1>4 DEF Save
<1>7. call \in Request /\ Tail(v.todo) \in Seq(Request) BY <1>2, <1>5, <1>6, HeadTailProperties
<1>8. UNCHANGED <<draft, saveStatus, ids, result, starting, kept, signedIn, edits, fails, cos, limit>> BY DEF SaveCall
<1>9. CASE signedIn
  <2>1. /\ server' = Served(call, v.draft, v.ids)
        /\ saves' = [saves EXCEPT ![s].todo = Tail(@), ![s].ids = Learned(call, v.draft, v.ids)]
        /\ faults' = faults
    BY <1>1, <1>2, <1>9, Zenon DEF SaveCall
  <2>2. PICK i : i = Learned(call, v.draft, v.ids) OBVIOUS
  <2>3. i \in IdMap
    <3>1. Points(v.ids, server) BY <1>1 DEF Pointing
    <3> QED BY <1>5, <1>6, <1>7, <2>2, <3>1, ServedTyped
  <2>4. PICK u : u = [v EXCEPT !.todo = Tail(@), !.ids = i] OBVIOUS
  <2>5. /\ u \in Save /\ u.on /\ u.draft = v.draft /\ u.then = v.then /\ u.todo = Tail(v.todo)
        /\ u.ids = i
    BY <1>4, <1>5, <1>7, <2>3, <2>4 DEF Save
  <2>6. saves' = [saves EXCEPT ![s] = u] BY <1>1, <1>3, <2>1, <2>2, <2>4
  <2>7. /\ saves' \in [Savers -> Save] /\ saves'[s] = u
        /\ \A t \in Savers : t # s => saves'[t] = saves[t]
    BY <1>3, <2>5, <2>6
  <2> QED BY <1>1, <1>2, <1>5, <1>7, <1>8, <1>9, <2>1, <2>2, <2>5, <2>7
<1>10. CASE ~signedIn
  <2>1. /\ server' = server
        /\ saves' = [saves EXCEPT ![s].todo = Tail(@)]
        /\ faults' = Blame({v.draft.loan}, "signed out")
    BY <1>1, <1>10, Zenon DEF SaveCall
  <2>2. PICK u : u = [v EXCEPT !.todo = Tail(@)] OBVIOUS
  <2>3. /\ u \in Save /\ u.on /\ u.draft = v.draft /\ u.then = v.then /\ u.todo = Tail(v.todo)
        /\ u.ids = v.ids
    BY <1>4, <1>5, <1>7, <2>2 DEF Save
  <2>4. saves' = [saves EXCEPT ![s] = u] BY <1>1, <1>3, <2>1, <2>2
  <2>5. /\ saves' \in [Savers -> Save] /\ saves'[s] = u
        /\ \A t \in Savers : t # s => saves'[t] = saves[t]
    BY <1>3, <2>3, <2>4
  <2> QED BY <1>1, <1>2, <1>5, <1>7, <1>8, <1>10, <2>1, <2>3, <2>5
<1> QED BY <1>9, <1>10

\* A request of a save keeps the types.
LEMMA CallTypes ==
  ASSUME StoreTypes, Pointing, NEW s \in Savers, SaveCall(s)
  PROVE  /\ StoreTypes' /\ Pointing' /\ FaultsGrow /\ limit' = limit
         /\ GrowsTo(server, server') /\ server'.status = server.status
<1>1. PICK v : v = saves[s] OBVIOUS
<1>2. PICK u : u = saves'[s] OBVIOUS
<1>3. PICK call : call = Head(v.todo) OBVIOUS
<1>4. /\ v.todo # <<>> /\ v.draft.loan \in Loans
      /\ call \in Request
      /\ u.draft = v.draft /\ u.then = v.then /\ u.todo = Tail(v.todo) /\ u \in Save
      /\ saves' \in [Savers -> Save]
      /\ \A t \in Savers : t # s => saves'[t] = saves[t]
      /\ UNCHANGED <<draft, saveStatus, ids, result, starting, kept, signedIn, edits, fails, cos, limit>>
  BY <1>1, <1>2, <1>3, CallSteps
<1>5. \/ /\ server' = Served(call, v.draft, v.ids)
         /\ u.ids = Learned(call, v.draft, v.ids)
         /\ faults' = faults
      \/ /\ server' = server /\ u.ids = v.ids
         /\ faults' = Blame({v.draft.loan}, "signed out")
  BY <1>1, <1>2, <1>3, CallSteps
<1>6. server \in Server /\ saves \in [Savers -> Save] /\ faults \in [Ids -> SUBSET Causes]
  BY DEF StoreTypes
<1>7. v \in Save /\ v.ids \in IdMap /\ v.draft \in Draft /\ Points(v.ids, server)
  BY <1>1, <1>6 DEF Save, Pointing
<1>8. /\ server' \in Server /\ GrowsTo(server, server') /\ Points(u.ids, server')
      /\ server'.status = server.status
  <2>1. CASE server' = server /\ u.ids = v.ids
    BY <1>6, <1>7, <2>1, GrowsSame
  <2>2. CASE server' = Served(call, v.draft, v.ids) /\ u.ids = Learned(call, v.draft, v.ids)
    BY <1>4, <1>7, <2>2, ServedTyped
  <2> QED BY <1>5, <2>1, <2>2
<1>9. faults' \in [Ids -> SUBSET Causes] /\ FaultsGrow
  <2>1. CASE faults' = faults BY <1>6, <2>1 DEF FaultsGrow
  <2>2. CASE faults' = Blame({v.draft.loan}, "signed out")
    <3>1. "signed out" \in Causes BY DEF Causes
    <3> QED BY <1>6, <2>2, <3>1, BlameTyped DEF FaultsGrow
  <2> QED BY <1>5, <2>1, <2>2
<1>10. Draft' = Draft /\ Server' = Server /\ Save' = Save BY <1>4, SameBounds
<1>11. StoreTypes' BY <1>4, <1>8, <1>9, <1>10 DEF StoreTypes
<1>12. Points(ids', server')
  <2>1. ids \in IdMap BY DEF StoreTypes
  <2> QED BY <1>4, <1>6, <1>8, <2>1, PointsGrow DEF Pointing
<1>13. ASSUME NEW t \in Savers
       PROVE  /\ Points(saves'[t].ids, server')
              /\ saves'[t].todo # <<>> => saves'[t].draft.loan \in Loans
  <2>1. CASE t = s BY <1>2, <1>4, <1>8, <2>1
  <2>2. CASE t # s
    <3>1. saves'[t] = saves[t] BY <1>4, <2>2
    <3>2. saves[t].ids \in IdMap BY <1>6 DEF Save
    <3>3. Points(saves[t].ids, server') BY <1>6, <1>8, <3>2, PointsGrow DEF Pointing
    <3> QED BY <3>1, <3>3 DEF Pointing
  <2> QED BY <2>1, <2>2
<1>14. Pointing' BY <1>12, <1>13 DEF Pointing
<1> QED BY <1>4, <1>8, <1>9, <1>11, <1>14

\* A save that ends, saved or not, and a reload, free slots: what they leave of
\* the server and of the ids points to rows.
LEMMA FreeTypes ==
  ASSUME StoreTypes, Pointing, limit' = limit,
         server' \in Server, GrowsTo(server, server'), ids' \in IdMap, Points(ids', server'),
         draft' \in Draft, saveStatus' \in {"idle", "saving", "saved", "error"}, result' \in Ids,
         kept' = kept, edits' = edits, cos' = cos, faults' \in [Ids -> SUBSET Causes],
         starting' \in {starting, NoStart},
         saves' \in [Savers -> Save], \A t \in Savers : saves'[t] \in {saves[t], Idle}
  PROVE  StoreTypes' /\ Pointing'
<1>1. Draft' = Draft /\ Server' = Server /\ Save' = Save BY SameBounds
<1>0. NoStart \in [loan : Ids, edit : 0..limit.edits]
  <2>1. 0 \in 0..limit.edits BY LimitTypes DEF StoreTypes
  <2> QED BY <2>1 DEF NoStart, Ids
<1>2. StoreTypes' BY <1>0, <1>1 DEF StoreTypes
<1>3. ASSUME NEW t \in Savers
      PROVE  /\ Points(saves'[t].ids, server')
             /\ saves'[t].todo # <<>> => saves'[t].draft.loan \in Loans
  <2>1. CASE saves'[t] = Idle BY <2>1, IdleTyped DEF StoreTypes
  <2>2. CASE saves'[t] = saves[t]
    <3>1. saves[t].ids \in IdMap /\ server \in Server BY DEF StoreTypes, Save
    <3>2. Points(saves[t].ids, server') BY <3>1, PointsGrow DEF Pointing
    <3> QED BY <2>2, <3>2 DEF Pointing
  <2> QED BY <2>1, <2>2
<1>4. Pointing' BY <1>3 DEF Pointing
<1> QED BY <1>2, <1>4

\* Freeing a slot, or all of them.
LEMMA FreedSlots ==
  ASSUME StoreTypes,
         (\E s \in Savers : saves' = [saves EXCEPT ![s] = Idle]) \/ saves' = [s \in Savers |-> Idle]
  PROVE  saves' \in [Savers -> Save] /\ \A t \in Savers : saves'[t] \in {saves[t], Idle}
<1>1. Idle \in Save BY IdleTyped DEF StoreTypes
<1> QED BY <1>1 DEF StoreTypes

\* A save that ends keeps the types.
LEMMA EndTypes ==
  ASSUME StoreTypes, Pointing, NEW s \in Savers, SaveDone(s) \/ SaveFails(s)
  PROVE  /\ StoreTypes' /\ Pointing' /\ FaultsGrow /\ limit' = limit
         /\ draft'.loan = draft.loan /\ GrowsTo(server, server') /\ server'.status = server.status
<1> USE DEF StoreTypes
<1>1. PICK v : v = saves[s] OBVIOUS
<1>2. v \in Save /\ v.ids \in IdMap /\ v.draft \in Draft /\ v.todo \in Seq(Request)
      /\ Points(v.ids, server)
  BY <1>1 DEF Save, Pointing
<1>3. UNCHANGED <<result, starting, kept, edits, cos, limit>> BY DEF SaveDone, SaveFails
<1>4. saves' = [saves EXCEPT ![s] = Idle] BY DEF SaveDone, SaveFails
<1>5. saves' \in [Savers -> Save] /\ \A t \in Savers : saves'[t] \in {saves[t], Idle}
  BY <1>4, FreedSlots
<1>6. /\ server' \in Server /\ GrowsTo(server, server') /\ server'.status = server.status
      /\ ids' \in IdMap /\ Points(ids', server')
      /\ draft' \in Draft /\ draft'.loan = draft.loan /\ saveStatus' \in {"saved", "error"}
      /\ faults' \in [Ids -> SUBSET Causes] /\ FaultsGrow
  <2>1. CASE SaveDone(s)
    <3>1. server' = server /\ ids' \in {v.ids, ids} /\ draft' = [draft EXCEPT !.isDraft = TRUE]
          /\ saveStatus' = "saved"
      BY <1>1, <2>1 DEF SaveDone
    <3>2. faults' \in [Ids -> SUBSET Causes] /\ FaultsGrow
      BY <2>1, BlameTyped DEF SaveDone, Causes, FaultsGrow
    <3>3. draft' \in Draft /\ draft'.loan = draft.loan BY <3>1 DEF Draft
    <3>4. ids' \in IdMap /\ Points(ids', server') BY <1>2, <3>1 DEF Pointing
    <3> QED BY <3>1, <3>2, <3>3, <3>4, GrowsSame
  <2>2. CASE SaveFails(s)
    <3>1. /\ v.todo # <<>> /\ draft' = draft /\ ids' = ids /\ saveStatus' = "error"
          /\ server' \in {server, Served(Head(v.todo), v.draft, v.ids)}
      BY <1>1, <2>2 DEF SaveFails
    <3>2. v.draft.loan \in Loans BY <1>1, <3>1 DEF Pointing
    <3>3. PICK call : call = Head(v.todo) OBVIOUS
    <3>4. call \in Request BY <1>2, <3>1, <3>3, HeadTailProperties
    <3>5. server' \in Server /\ GrowsTo(server, server') /\ server'.status = server.status
      <4>1. CASE server' = server BY <4>1, GrowsSame
      <4>2. CASE server' = Served(call, v.draft, v.ids) BY <1>2, <3>2, <3>4, <4>2, ServedTyped
      <4> QED BY <3>1, <3>3, <4>1, <4>2
    <3>6. faults' \in [Ids -> SUBSET Causes] /\ FaultsGrow
      BY <2>2, BlameTyped DEF SaveFails, Causes, FaultsGrow
    <3>7. Points(ids', server') BY <3>1, <3>5, PointsGrow DEF Pointing
    <3> QED BY <3>1, <3>5, <3>6, <3>7
  <2> QED BY <2>1, <2>2
<1>7. StoreTypes' /\ Pointing' BY <1>3, <1>5, <1>6, FreeTypes
<1> QED BY <1>3, <1>6, <1>7

\* A reload keeps the types.
LEMMA ReloadTypes ==
  ASSUME StoreTypes, Pointing, Reload,
         faults' = Blame({saves[s].draft.loan : s \in InFlight} \cup {draft.loan}, "reload")
  PROVE  StoreTypes' /\ Pointing' /\ FaultsGrow /\ limit' = limit /\ draft'.loan = draft.loan
<1>1. UNCHANGED <<ids, kept, server, edits, cos, limit>> /\ saveStatus' = "idle" /\ result' = Local
      /\ starting' = NoStart
      /\ draft' = StripSsn(draft) /\ saves' = [s \in Savers |-> Idle]
  BY DEF Reload
<1>2. draft' \in Draft /\ draft'.loan = draft.loan BY <1>1, StripTyped DEF StoreTypes
<1>3. faults' \in [Ids -> SUBSET Causes] /\ FaultsGrow
  BY BlameTyped DEF StoreTypes, Causes, FaultsGrow
<1>4. saves' \in [Savers -> Save] /\ \A t \in Savers : saves'[t] \in {saves[t], Idle}
  BY <1>1, FreedSlots
<1>5. GrowsTo(server, server') BY <1>1, GrowsSame DEF StoreTypes
<1>6. StoreTypes' /\ Pointing'
  BY <1>1, <1>2, <1>3, <1>4, <1>5, FreeTypes DEF StoreTypes, Pointing, Ids
<1> QED BY <1>1, <1>2, <1>3, <1>6

\* Submitting changes the draft's errors and flags, and a status.
LEMMA SubmitTypes ==
  ASSUME StoreTypes, Pointing,
         SubmitTaken \/ SubmitRefused \/ SubmitFails \/ SubmitUnanswered
           \/ \E l \in Ids : SubmitAnswered(l)
  PROVE  /\ StoreTypes' /\ Pointing' /\ FaultsGrow /\ limit' = limit
         /\ draft'.loan = draft.loan
<1> USE DEF StoreTypes
<1>1. UNCHANGED <<saveStatus, ids, starting, kept, saves, edits, cos, limit, faults>>
  BY DEF SubmitTaken, SubmitRefused, SubmitFails, SubmitUnanswered, SubmitAnswered
<1>2. Draft' = Draft /\ Server' = Server /\ Save' = Save BY <1>1, SameBounds
<1>3. draft' \in Draft /\ draft'.loan = draft.loan /\ result' \in Ids
  <2>1. CASE SubmitRefused BY <2>1, ValidatedTyped DEF SubmitRefused
  <2>2. ASSUME NEW l \in Ids, SubmitAnswered(l)
        PROVE  draft' \in Draft /\ draft'.loan = draft.loan /\ result' \in Ids
    BY <2>2 DEF SubmitAnswered, Draft
  <2>3. CASE SubmitTaken \/ SubmitFails \/ SubmitUnanswered
    BY <2>3 DEF SubmitTaken, SubmitFails, SubmitUnanswered
  <2> QED BY <2>1, <2>2, <2>3
<1>4. server' \in Server /\ server'.people = server.people /\ server'.places = server.places
  <2>1. CASE server' = server BY <2>1
  <2>2. CASE SubmitTaken /\ server' # server
    <3>1. /\ draft.loan \in Loans
          /\ server' = [server EXCEPT !.status[draft.loan] = "submitted"]
      BY <2>2 DEF SubmitTaken, Sends
    <3> QED BY <3>1 DEF Server
  <2>3. SubmitTaken \/ server' = server
    BY DEF SubmitRefused, SubmitFails, SubmitUnanswered, SubmitAnswered
  <2> QED BY <2>1, <2>2, <2>3
<1>5. FaultsGrow BY <1>1 DEF FaultsGrow
<1>6. StoreTypes' BY <1>1, <1>2, <1>3, <1>4
<1>7. Pointing' BY <1>1, <1>4, GrowsSame, PointingKept
<1> QED BY <1>1, <1>3, <1>5, <1>6, <1>7

\* What changes neither the draft nor the rows.
LEMMA QuietTypes ==
  ASSUME StoreTypes, Pointing,
         UNCHANGED <<draft, saveStatus, ids, result, kept, saves, server, edits, cos, limit>>,
         starting' \in {starting, NoStart}, faults' \in [Ids -> SUBSET Causes]
  PROVE  StoreTypes' /\ Pointing'
<1>1. Draft' = Draft /\ Server' = Server /\ Save' = Save BY SameBounds
<1>2. NoStart \in [loan : Ids, edit : 0..limit.edits]
  <2>1. 0 \in 0..limit.edits BY LimitTypes DEF StoreTypes
  <2> QED BY <2>1 DEF NoStart, Ids
<1> QED BY <1>1, <1>2 DEF StoreTypes, Pointing

---------------------------------------------------------------------------
(* The steps of the wizard, as the store sees them.                        *)

\* The draft and the rows stay; of the causes more may be known.
Quiet ==
  /\ UNCHANGED <<draft, saveStatus, ids, result, kept, saves, server, edits, cos, limit>>
  /\ starting' \in {starting, NoStart}
  /\ faults' \in [Ids -> SUBSET Causes]
  /\ FaultsGrow

\* The steps of submitting a loan.
Submitting ==
  SubmitTaken \/ SubmitRefused \/ SubmitFails \/ SubmitUnanswered \/ \E l \in Ids : SubmitAnswered(l)

\* A loan is asked for, with the text of a file or without.
Asking == \E e \in 0..limit.edits : AskDraft(e) /\ edits' \in {edits, edits + 1} /\ e <= edits' /\ edits' <= limit.edits

\* A page mounts on a loan: one of the server's, one with an autosave, or the one
\* the router was sent to.
Opening(l) ==
  /\ HydrateFromApi(l) /\ ~Open
  /\ l # Local \/ kept[l] # {} \/ (next.go # "stay" /\ next.loan = l)

\* What is done to the draft on the form.
Typing ==
  /\ Open
  /\ (\E ps \in limit.typing : \E gone \in SUBSET ps : Type(ps, gone)) \/ AddCoBorrower \/ RemoveBorrower

\* What a step of the wizard does to its stores and the server.
StoreStep ==
  \/ Asking
  \/ \E l \in Ids, d \in Draft : Begins(l, d)
  \/ \E l \in Ids : Opening(l)
  \/ Typing
  \/ \E s \in Savers, then \in Then : StartSave(s, then)
  \/ \E s \in Savers : SaveCall(s) \/ SaveDone(s) \/ SaveFails(s)
  \/ Reload /\ faults' = Blame({saves[s].draft.loan : s \in InFlight} \cup {draft.loan}, "reload")
  \/ Submitting
  \/ Quiet

\* A page that is left blames only a timer that ran.
LEMMA UnmountGrows ==
  ASSUME StoreTypes, Unmount
  PROVE  faults' \in [Ids -> SUBSET Causes] /\ FaultsGrow
<1>1. faults' = faults \/ faults' = Blame({draft.loan}, "left") BY DEF Unmount
<1>2. "left" \in Causes BY DEF Causes
<1> QED BY <1>1, <1>2, BlameTyped DEF FaultsGrow, StoreTypes

\* A draft that takes another's place is known to.
LEMMA ReplacedTyped ==
  ASSUME faults \in [Ids -> SUBSET Causes], NEW l
  PROVE  Replaced(l, Open) \in [Ids -> SUBSET Causes]
<1>1. "switched" \in Causes /\ "replaced" \in Causes BY DEF Causes
<1> QED BY <1>1 DEF Replaced

\* An empty draft begins for a loan.
LEMMA ManualBegins ==
  ASSUME StoreTypes, NEW l \in Ids, StartManual(l, Open), UNCHANGED <<server, edits>>,
         \/ starting # NoStart /\ starting' = NoStart /\ l = starting.loan
         \/ starting' = starting /\ l = Local /\ kept[Local] = {}
  PROVE  EmptyDraft(l) \in Draft /\ Begins(l, EmptyDraft(l))
<1>1. EmptyDraft(l) \in Draft BY EmptyTyped DEF StoreTypes
<1>2. EmptyDraft(l).loan = l /\ EmptyDraft(l).text = Blank /\ EmptyDraft(l).empty = {} BY DEF EmptyDraft
<1>3. \A p \in Parts : EmptyDraft(l).text[p] <= starting.edit
  <2>1. starting.edit \in 0..limit.edits BY DEF StoreTypes
  <2> QED BY <1>2, <2>1, LimitTypes DEF Blank, StoreTypes
<1>4. faults' = Replaced(l, Open) /\ UNCHANGED <<saves, cos, limit>> BY DEF StartManual
<1>5. faults' \in [Ids -> SUBSET Causes] BY <1>4, ReplacedTyped DEF StoreTypes
<1>6. \A k \in Ids : Replaced(l, Open)[k] \subseteq faults'[k] BY <1>4
<1> QED BY <1>1, <1>2, <1>3, <1>4, <1>5, <1>6 DEF StartManual, Begins

\* The draft of a file begins for a loan.
LEMMA ImportBegins ==
  ASSUME StoreTypes, NEW l \in Ids, NEW e, e = starting.edit, NEW s \in Savers,
         StartImport(l, e, s, Open), UNCHANGED <<server, edits>>,
         starting # NoStart, starting' = NoStart, l = starting.loan
  PROVE  HydrateFromMismo(l, e) \in Draft /\ Begins(l, HydrateFromMismo(l, e))
<1>0. e \in 0..limit.edits BY DEF StoreTypes
<1>1. PICK d : d = HydrateFromMismo(l, e) OBVIOUS
<1>2. /\ d \in Draft /\ d.loan = l /\ d.co = 0 /\ d.empty = {}
      /\ d.text = [p \in Parts |-> IF p = "co" THEN 0 ELSE e]
  BY <1>0, <1>1, ImportTyped DEF StoreTypes
<1>3. \A p \in Parts : d.text[p] <= starting.edit BY <1>0, <1>2, LimitTypes DEF StoreTypes
<1>4. /\ draft' = d /\ ids' = FreshIds /\ result' = Local
      /\ SaveBegins(s, d, FreshIds, [go |-> "form", loan |-> l])
      /\ faults' = [k \in Ids |-> Replaced(l, Open)[k]
                                    \cup IF k \in Overlapping(l) THEN {"overlap"} ELSE {}]
  BY <1>1 DEF StartImport
<1>5. PICK r : r = Replaced(l, Open) OBVIOUS
<1>6. r \in [Ids -> SUBSET Causes] BY <1>5, ReplacedTyped DEF StoreTypes
<1>7. "overlap" \in Causes BY DEF Causes
<1>8. PICK o : o = Overlapping(l) OBVIOUS
<1>9. faults' = [k \in Ids |-> r[k] \cup IF k \in o THEN {"overlap"} ELSE {}] BY <1>4, <1>5, <1>8
<1>10. /\ faults' \in [Ids -> SUBSET Causes]
       /\ \A k \in Ids : r[k] \subseteq faults'[k]
       /\ \A k \in o : k \in Ids => "overlap" \in faults'[k]
  BY <1>6, <1>7, <1>9
<1>11. cos' = cos /\ limit' = limit BY <1>4 DEF SaveBegins
<1>12. Begins(l, d) BY <1>2, <1>3, <1>4, <1>5, <1>8, <1>10, <1>11 DEF Begins
<1> QED BY <1>1, <1>2, <1>12

\* The answer that starts a loan begins its draft.
LEMMA AnswerBegins ==
  ASSUME StoreTypes, StartAnswers
  PROVE  \E d \in Draft : Begins(starting.loan, d)
<1>1. PICK l : l = starting.loan OBVIOUS
<1>2. PICK e : e = starting.edit OBVIOUS
<1>3. l \in Ids /\ e \in 0..limit.edits BY <1>1, <1>2 DEF StoreTypes
<1>4. UNCHANGED <<server, edits>> /\ starting # NoStart /\ starting' = NoStart BY DEF StartAnswers
<1>5. CASE StartManual(l, Open) BY <1>1, <1>3, <1>4, <1>5, ManualBegins
<1>6. ASSUME NEW s \in Savers, StartImport(l, e, s, Open) PROVE \E d \in Draft : Begins(l, d)
  BY <1>1, <1>2, <1>3, <1>4, <1>6, ImportBegins
<1> QED BY <1>1, <1>2, <1>5, <1>6 DEF StartAnswers

\* Each step of the wizard is one of the store's.
LEMMA StoreSteps ==
  ASSUME TypeInv, [Next]_vars
  PROVE  StoreStep
<1> USE DEF TypeInv
<1>0. faults \in [Ids -> SUBSET Causes] /\ limit.edits \in Nat /\ edits \in 0..limit.edits
  BY LimitTypes DEF StoreTypes
<1>1. CASE StartLoan
  <2>1. CASE AskDraft(0) /\ UNCHANGED edits BY <1>0, <2>1 DEF StoreStep, Asking
  <2>2. CASE edits < limit.edits /\ edits' = edits + 1 /\ AskDraft(edits + 1)
    <3>1. PICK e : e = edits + 1 OBVIOUS
    <3>2. e \in 0..limit.edits /\ e <= edits' /\ edits' <= limit.edits BY <1>0, <2>2, <3>1
    <3> QED BY <2>2, <3>1, <3>2 DEF StoreStep, Asking
  <2> QED BY <1>1, <2>1, <2>2 DEF StartLoan
<1>2. ASSUME NEW l \in Ids, OpenLoan(l) PROVE StoreStep
  BY <1>2 DEF OpenLoan, Mount, StoreStep, Opening, NoDraft
<1>3. ASSUME NEW ps \in limit.typing, TypeOnPage(ps) PROVE StoreStep
  <2>1. PICK gone \in {{}, ps} : Type(ps, gone) BY <1>3 DEF TypeOnPage
  <2>2. gone \in SUBSET ps OBVIOUS
  <2> QED BY <1>3, <2>1, <2>2 DEF TypeOnPage, StoreStep, Typing
<1>4. ASSUME NEW at, GoToStep(at) PROVE StoreStep
  BY <1>0, <1>4 DEF GoToStep, StoreStep, Quiet, FaultsGrow, subVars
<1>5. ASSUME NEW s \in Savers,
             ClickSave(s) \/ Continue(s) \/ ClickSubmit(s) \/ RetrySubmit(s) \/ Autosave(s)
      PROVE  StoreStep
  <2>1. \E then \in Then : StartSave(s, then)
    <3>1. Stay \in Then BY DEF Stay, Then, Ids
    <3>2. CASE ClickSave(s) \/ Autosave(s) BY <3>1, <3>2 DEF ClickSave, Autosave
    <3>3. CASE Continue(s)
      <4>1. PICK at \in NextSteps : StartSave(s, [go |-> at, loan |-> route]) BY <3>3 DEF Continue
      <4>2. [go |-> at, loan |-> route] \in Then BY DEF NextSteps, Then, PageTypes
      <4> QED BY <4>1, <4>2
    <3>4. CASE ClickSubmit(s) \/ RetrySubmit(s)
      <4>1. [go |-> "submit", loan |-> route] \in Then BY DEF Then, PageTypes
      <4> QED BY <3>4, <4>1 DEF ClickSubmit, RetrySubmit, RunSubmit
    <3> QED BY <1>5, <3>2, <3>3, <3>4
  <2> QED BY <2>1 DEF StoreStep
<1>6. ASSUME NEW t, Upload(t) \/ RemoveUpload(t) PROVE StoreStep
  BY <1>0, <1>6 DEF Upload, RemoveUpload, StoreStep, Quiet, FaultsGrow, subVars
<1>7. CASE ChangeCoBorrower BY <1>7 DEF ChangeCoBorrower, StoreStep, Typing
<1>8. CASE Leave
  <2>1. faults' \in [Ids -> SUBSET Causes] /\ FaultsGrow BY <1>8, UnmountGrows DEF Leave
  <2> QED BY <1>8, <2>1 DEF Leave, StoreStep, Quiet
<1>9. CASE ReloadTab BY <1>9 DEF ReloadTab, StoreStep
<1>10. CASE LoseToken
  <2>1. faults' \in [Ids -> SUBSET Causes] /\ FaultsGrow BY <1>10, UnmountGrows DEF LoseToken
  <2> QED BY <1>10, <2>1 DEF LoseToken, SignOut, StoreStep, Quiet
<1>11. CASE ReturnToken
  BY <1>0, <1>11 DEF ReturnToken, SignIn, StoreStep, Quiet, FaultsGrow
<1>12. ASSUME NEW s \in Savers, Saving(s) PROVE StoreStep
  BY <1>12 DEF Saving, StoreStep
<1>13. ASSUME NEW s \in Savers, SaveEnds(s) PROVE StoreStep
  BY <1>13 DEF SaveEnds, StoreStep
<1>14. CASE Navigate
  <2>1. CASE Open
    <3>1. faults' = faults \/ faults' = Blame({draft.loan}, "dragged") BY <1>14, <2>1 DEF Navigate
    <3>2. "dragged" \in Causes BY DEF Causes
    <3>3. faults' \in [Ids -> SUBSET Causes] /\ FaultsGrow
      BY <1>0, <3>1, <3>2, BlameTyped DEF FaultsGrow
    <3>4. UNCHANGED <<draft, saveStatus, ids, result, starting, kept, saves, server, edits, cos, limit>>
      BY <1>14, <2>1 DEF Navigate
    <3> QED BY <3>3, <3>4 DEF StoreStep, Quiet
  <2>2. CASE ~Open
    <3>1. next.loan \in Ids BY DEF PageTypes
    <3>2. HydrateFromApi(next.loan) /\ next # Stay BY <1>14, <2>2 DEF Navigate, Mount
    <3>3. next.go # "stay" BY <3>2 DEF PageTypes
    <3> QED BY <2>2, <3>1, <3>2, <3>3 DEF StoreStep, Opening
  <2> QED BY <2>1, <2>2
<1>15. CASE SendSubmit
  BY <1>15 DEF SendSubmit, StoreStep, Submitting
<1>16. CASE AnswerSubmit
  <2>1. submit.loan \in Ids BY DEF PageTypes
  <2> QED BY <1>16, <2>1 DEF AnswerSubmit, StoreStep, Submitting
<1>17. CASE DocumentAnswers \/ ArchiveElsewhere
  BY <1>0, <1>17 DEF DocumentAnswers, ArchiveElsewhere, StoreStep, Quiet, FaultsGrow, subVars
<1>18. CASE UNCHANGED vars
  BY <1>0, <1>18 DEF vars, subVars, StoreStep, Quiet, FaultsGrow
<1>19. CASE StartLocal
  <2>1. Local \in Ids BY DEF Ids
  <2>2. StartManual(Local, Open) /\ UNCHANGED <<starting, server, edits>> /\ kept[Local] = {}
    BY <1>19 DEF StartLocal, NoDraft
  <2>3. EmptyDraft(Local) \in Draft /\ Begins(Local, EmptyDraft(Local)) BY <2>1, <2>2, ManualBegins
  <2> QED BY <2>1, <2>3 DEF StoreStep
<1>20. CASE StartAnswers
  <2>1. starting.loan \in Ids BY DEF StoreTypes
  <2>2. \E d \in Draft : Begins(starting.loan, d) BY <1>20, AnswerBegins
  <2> QED BY <2>1, <2>2 DEF StoreStep
<1>21. CASE StartUnanswered
  BY <1>0, <1>21 DEF StartUnanswered, StartFails, StoreStep, Quiet, FaultsGrow
<1>22. ASSUME UserMove PROVE StoreStep
  BY <1>22, <1>1, <1>2, <1>3, <1>4, <1>5, <1>6, <1>7, <1>8, <1>9, <1>10, <1>11, <1>19 DEF UserMove
<1>23. ASSUME NEW s \in Savers, Background(s) PROVE StoreStep
  BY <1>23, <1>5, <1>12, <1>13 DEF Background
<1> QED BY <1>14, <1>15, <1>16, <1>17, <1>18, <1>20, <1>21, <1>22, <1>23 DEF Next

\* Steps of the store keep its types, its bounds, and the causes it knows.
LEMMA StoreStepTypes ==
  ASSUME StoreTypes, Pointing, StoreStep
  PROVE  StoreTypes' /\ Pointing' /\ FaultsGrow /\ limit' = limit
<1>1. CASE Asking
  <2>1. PICK e \in 0..limit.edits : /\ AskDraft(e) /\ edits' \in {edits, edits + 1}
                                    /\ e <= edits' /\ edits' <= limit.edits
    BY <1>1 DEF Asking
  <2>2. edits' \in 0..limit.edits BY <2>1, LimitTypes DEF StoreTypes
  <2> QED BY <2>1, <2>2, AskTypes
<1>2. ASSUME NEW l \in Ids, NEW d \in Draft, Begins(l, d)
      PROVE  StoreTypes' /\ Pointing' /\ FaultsGrow /\ limit' = limit
  BY <1>2, StartTypes
<1>3. ASSUME NEW l \in Ids, Opening(l)
      PROVE  StoreTypes' /\ Pointing' /\ FaultsGrow /\ limit' = limit
  BY <1>3, HydrateTypes DEF Opening
<1>4. CASE Typing
  <2>1. \A ps \in limit.typing : SUBSET ps \subseteq SUBSET Parts BY LimitTypes DEF StoreTypes
  <2>2. (\E ps \in limit.typing, gone \in SUBSET Parts : Type(ps, gone)) \/ AddCoBorrower \/ RemoveBorrower
    BY <1>4, <2>1 DEF Typing
  <2> QED BY <2>2, TypeTypes
<1>5. ASSUME NEW s \in Savers, NEW then \in Then, StartSave(s, then)
      PROVE  StoreTypes' /\ Pointing' /\ FaultsGrow /\ limit' = limit
  BY <1>5, SaveStartTypes
<1>6. ASSUME NEW s \in Savers, SaveCall(s)
      PROVE  StoreTypes' /\ Pointing' /\ FaultsGrow /\ limit' = limit
  BY <1>6, CallTypes
<1>7. ASSUME NEW s \in Savers, SaveDone(s) \/ SaveFails(s)
      PROVE  StoreTypes' /\ Pointing' /\ FaultsGrow /\ limit' = limit
  BY <1>7, EndTypes
<1>8. CASE Reload /\ faults' = Blame({saves[s].draft.loan : s \in InFlight} \cup {draft.loan}, "reload")
  BY <1>8, ReloadTypes
<1>9. CASE Submitting BY <1>9, SubmitTypes DEF Submitting
<1>10. CASE Quiet BY <1>10, QuietTypes DEF Quiet
<1> QED BY <1>1, <1>2, <1>3, <1>4, <1>5, <1>6, <1>7, <1>8, <1>9, <1>10 DEF StoreStep

---------------------------------------------------------------------------
(* The types of the page, and the first invariant: the types of everything. *)

\* A program's checklist is a list of types.
LEMMA ChecklistTyped ==
  ASSUME NEW d \in Draft
  PROVE  d.loan \in Ids /\ Required[d.product] \subseteq D!Types
<1>1. d.loan \in Ids /\ d.product \in DOMAIN Required BY WizardAssumption DEF Draft
<1> QED BY <1>1 DEF D!Types

\* The documents step keeps a checklist of types, and of the draft's loan.
LEMMA ShowTypes ==
  ASSUME docLoan \in Ids, DOMAIN checklist \subseteq D!Types, draft' \in Draft, ShowDocuments
  PROVE  docLoan' \in Ids /\ DOMAIN checklist' \subseteq D!Types
<1>1. draft'.loan \in Ids /\ Required[draft'.product] \subseteq D!Types BY ChecklistTyped
<1>2. CASE step' = "documents"
  <2>1. D!GenerateChecklist(draft'.product, draft'.loan) BY <1>2 DEF ShowDocuments
  <2>2. docLoan' = draft'.loan /\ DOMAIN checklist' = Required[draft'.product]
    BY <2>1 DEF D!GenerateChecklist, D!Made
  <2> QED BY <1>1, <2>2
<1>3. CASE step' # "documents" BY <1>3 DEF ShowDocuments, docVars
<1> QED BY <1>2, <1>3

\* So does the page that is entered at it.
LEMMA MountTypes ==
  ASSUME docLoan \in Ids, DOMAIN checklist \subseteq D!Types, draft' \in Draft,
         NEW l \in Ids, NEW at \in {"form", "documents", "review"}, Mount(l, at)
  PROVE  /\ docLoan' \in Ids /\ DOMAIN checklist' \subseteq D!Types
         /\ step' = at /\ route' = l /\ busy' = FALSE /\ notice' = "none" /\ timer' \in BOOLEAN
<1>1. draft'.loan \in Ids /\ Required[draft'.product] \subseteq D!Types BY ChecklistTyped
<1>2. CASE at = "documents"
  <2>1. D!GenerateTwice(draft.product, draft.loan, draft'.product, draft'.loan) BY <1>2 DEF Mount
  <2>2. docLoan' = draft'.loan /\ DOMAIN checklist' = Required[draft'.product]
    BY <2>1 DEF D!GenerateTwice, D!Made
  <2> QED BY <1>1, <2>2 DEF Mount
<1>3. CASE at # "documents" BY <1>3 DEF Mount, docVars
<1> QED BY <1>2, <1>3

\* So do marks and uploads.
LEMMA DocumentTypes ==
  ASSUME docLoan \in Ids, DOMAIN checklist \subseteq D!Types,
         \/ \E t, l : D!StartUpload(t, l) \/ D!ArchiveDocument(l, t)
         \/ \E t : D!RemoveDocument(t) \/ D!Uploaded(t) \/ D!UploadFails(t)
         \/ \E l : D!DocumentsLoaded(l)
         \/ D!DocReload
  PROVE  docLoan' \in Ids /\ DOMAIN checklist' \subseteq D!Types
BY DEF D!StartUpload, D!RemoveDocument, D!Uploaded, D!UploadFails, D!DocumentsLoaded,
       D!ArchiveDocument, D!DocReload, D!Marked

\* Each step of the wizard keeps the types of its page.
LEMMA PageStep ==
  ASSUME TypeInv, Next, draft' \in Draft
  PROVE  PageTypes'
<1> USE DEF TypeInv, PageTypes
<1>0. draft.loan \in Ids /\ Local \in Ids BY DEF StoreTypes, Draft, Ids
<1>1. CASE StartLoan BY <1>1 DEF StartLoan, docVars
<1>2. ASSUME NEW l \in Ids, OpenLoan(l) PROVE PageTypes'
  <2>1. Mount(l, "form") /\ UNCHANGED <<submit, next>> BY <1>2 DEF OpenLoan
  <2>2. /\ docLoan' \in Ids /\ DOMAIN checklist' \subseteq D!Types
        /\ step' = "form" /\ route' = l /\ busy' = FALSE /\ notice' = "none" /\ timer' \in BOOLEAN
    BY <2>1, MountTypes
  <2> QED BY <2>1, <2>2
<1>3. ASSUME NEW ps \in limit.typing, TypeOnPage(ps) PROVE PageTypes'
  BY <1>3 DEF TypeOnPage, Retime, docVars
<1>4. ASSUME NEW at \in {"form", "documents", "review"}, GoToStep(at) PROVE PageTypes'
  <2>1. ShowDocuments BY <1>4 DEF GoToStep
  <2>2. docLoan' \in Ids /\ DOMAIN checklist' \subseteq D!Types BY <2>1, ShowTypes
  <2> QED BY <1>4, <2>2 DEF GoToStep
<1>5. ASSUME NEW s \in Savers,
             ClickSave(s) \/ Continue(s) \/ ClickSubmit(s) \/ RetrySubmit(s) \/ Autosave(s)
      PROVE  PageTypes'
  <2>1. UNCHANGED <<docVars, step, route, submit, next>>
    BY <1>5 DEF ClickSave, Continue, ClickSubmit, RetrySubmit, RunSubmit, Autosave
  <2>2. timer' \in BOOLEAN /\ busy' \in BOOLEAN /\ notice' \in {notice, "none"}
    BY <1>5 DEF ClickSave, Continue, ClickSubmit, RetrySubmit, RunSubmit, Autosave
  <2> QED BY <2>1, <2>2 DEF docVars
<1>6. ASSUME NEW t, Upload(t) \/ RemoveUpload(t) PROVE PageTypes'
  <2>1. (\E u, l : D!StartUpload(u, l)) \/ (\E u : D!RemoveDocument(u))
    BY <1>6, Zenon DEF Upload, RemoveUpload
  <2>2. docLoan' \in Ids /\ DOMAIN checklist' \subseteq D!Types BY <2>1, DocumentTypes
  <2> QED BY <1>6, <2>2 DEF Upload, RemoveUpload, pageVars
<1>7. CASE ChangeCoBorrower BY <1>7 DEF ChangeCoBorrower, Retime, docVars
<1>8. CASE Leave BY <1>8 DEF Leave, Unmount, docVars
<1>9. CASE ReloadTab
  <2>1. docLoan' \in Ids /\ DOMAIN checklist' \subseteq D!Types
    BY <1>9, DocumentTypes DEF ReloadTab
  <2> QED BY <1>0, <1>9, <2>1 DEF ReloadTab, NotSending, Stay
<1>10. CASE LoseToken BY <1>10 DEF LoseToken, Unmount, docVars
<1>11. CASE ReturnToken BY <1>11 DEF ReturnToken, docVars, pageVars
<1>12. ASSUME NEW s \in Savers, Saving(s) PROVE PageTypes'
  BY <1>12 DEF Saving, docVars, pageVars
<1>13. ASSUME NEW s \in Savers, SaveEnds(s) PROVE PageTypes'
  <2>1. PICK then : then = saves[s].then OBVIOUS
  <2>2. then \in Then BY <2>1 DEF StoreTypes, Save
  <2>3. Resume(then) /\ Retime /\ UNCHANGED <<docVars, step, route, busy, notice>>
    BY <1>13, <2>1 DEF SaveEnds
  <2>4. submit' \in [stage : {"no", "sending", "sent"}, loan : Ids]
    BY <1>0, <2>3 DEF Resume
  <2>5. /\ next' \in [go : {"stay", "form", "documents", "review"}, loan : Ids]
        /\ next'.go = "stay" => next' = Stay
    BY <2>2, <2>3 DEF Resume, Then
  <2> QED BY <2>3, <2>4, <2>5 DEF Retime, docVars
<1>14. CASE Navigate
  <2>1. next.loan \in Ids /\ next.go \in {"form", "documents", "review"} BY <1>14 DEF Navigate
  <2>2. next' = Stay /\ submit' = submit BY <1>14 DEF Navigate
  <2>3. CASE Open
    <3>1. /\ ShowDocuments /\ step' = next.go /\ route' = next.loan /\ timer' \in {timer, TRUE}
          /\ UNCHANGED <<busy, notice>>
      BY <1>14, <2>3 DEF Navigate
    <3>2. docLoan' \in Ids /\ DOMAIN checklist' \subseteq D!Types BY <3>1, ShowTypes
    <3> QED BY <1>0, <2>1, <2>2, <3>1, <3>2 DEF Stay
  <2>4. CASE ~Open
    <3>1. Mount(next.loan, next.go) BY <1>14, <2>4 DEF Navigate
    <3>2. /\ docLoan' \in Ids /\ DOMAIN checklist' \subseteq D!Types
          /\ step' = next.go /\ route' = next.loan /\ busy' = FALSE /\ notice' = "none" /\ timer' \in BOOLEAN
      BY <2>1, <3>1, MountTypes
    <3> QED BY <1>0, <2>1, <2>2, <3>2 DEF Stay
  <2> QED BY <2>3, <2>4
<1>15. CASE SendSubmit
  <2>1. UNCHANGED <<docVars, step, route, next>> /\ timer' \in BOOLEAN /\ busy' \in BOOLEAN
        /\ notice' \in {notice, "failed"}
    BY <1>15 DEF SendSubmit, EndSubmit, Retime
  <2>2. submit' \in {NotSending, [stage |-> "sent", loan |-> draft.loan]}
    BY <1>15 DEF SendSubmit, EndSubmit
  <2>3. submit' \in [stage : {"no", "sending", "sent"}, loan : Ids]
    BY <1>0, <2>2 DEF NotSending
  <2> QED BY <2>1, <2>3 DEF docVars
<1>16. CASE AnswerSubmit
  <2>1. UNCHANGED <<docVars, step, route, next>> /\ timer' \in BOOLEAN /\ busy' = FALSE
        /\ submit' = NotSending /\ notice' \in {notice, "failed", "done"}
    BY <1>16 DEF AnswerSubmit, EndSubmit, Retime
  <2> QED BY <1>0, <2>1 DEF NotSending, docVars
<1>17. CASE DocumentAnswers \/ ArchiveElsewhere
  <2>1. docLoan' \in Ids /\ DOMAIN checklist' \subseteq D!Types
    BY <1>17, DocumentTypes DEF DocumentAnswers, ArchiveElsewhere
  <2> QED BY <1>17, <2>1 DEF DocumentAnswers, ArchiveElsewhere, pageVars
<1>18. CASE StartLocal BY <1>0, <1>18 DEF StartLocal, docVars
<1>19. CASE StartAnswers
  <2>1. starting.loan \in Ids BY DEF StoreTypes
  <2>2. ShowDocuments /\ UNCHANGED <<step, route, busy, notice, submit>> BY <1>19 DEF StartAnswers
  <2>3. docLoan' \in Ids /\ DOMAIN checklist' \subseteq D!Types BY <2>2, ShowTypes
  <2>4. next' \in {next, [go |-> "form", loan |-> starting.loan]} BY <1>19 DEF StartAnswers
  <2>5. timer' \in BOOLEAN BY <1>19 DEF StartAnswers, Retime
  <2> QED BY <2>1, <2>2, <2>3, <2>4, <2>5
<1>20. CASE StartUnanswered BY <1>20 DEF StartUnanswered, docVars, pageVars
<1>21. ASSUME UserMove PROVE PageTypes'
  BY <1>21, <1>1, <1>2, <1>3, <1>4, <1>5, <1>6, <1>7, <1>8, <1>9, <1>10, <1>11, <1>18 DEF UserMove
<1>22. ASSUME NEW s \in Savers, Background(s) PROVE PageTypes'
  BY <1>22, <1>5, <1>12, <1>13 DEF Background
<1> QED BY <1>14, <1>15, <1>16, <1>17, <1>19, <1>20, <1>21, <1>22 DEF Next

\* At the start nothing is typed, and no row is there.
LEMMA InitTypes ==
  ASSUME WizardInit
  PROVE  TypeInv
<1> USE DEF WizardInit, SubInit
<1>0. /\ limit \in Limits /\ Local \in Ids /\ NoProduct \in DOMAIN Required /\ limit.edits \in Nat
      /\ 0 \in Borrower
  BY LimitTypes, WizardAssumption, SubmissionAssumption DEF Ids, Borrower
<1>1. server \in Server
  <2>1. Blank \in Text BY <1>0 DEF Blank, Text
  <2>2. <<>> \in Seq(Person) /\ <<>> \in Seq(Place) OBVIOUS
  <2> QED BY <2>1, <2>2 DEF EmptyServer, Server
<1>2. Idle \in Save /\ Points(Idle.ids, server) /\ Idle.todo = <<>> BY <1>0, <1>1, IdleTyped
<1>3. ids = Idle.ids /\ ids \in IdMap BY <1>2 DEF Idle, Save
<1>4. draft \in Draft BY <1>0, EmptyTyped
<1>5. starting \in [loan : Ids, edit : 0..limit.edits] /\ starting = NoStart
  BY <1>0 DEF NoStart
<1>6. StoreTypes BY <1>0, <1>1, <1>2, <1>3, <1>4, <1>5 DEF StoreTypes, NoDraft
<1>7. Pointing BY <1>2, <1>3 DEF Pointing
<1>8. PageTypes
  <2>1. docLoan = Local /\ checklist = [t \in Required[NoProduct] |-> "not_started"]
    BY DEF D!DocInit, D!Fresh
  <2>2. DOMAIN checklist \subseteq D!Types BY <1>0, <2>1 DEF D!Types
  <2> QED BY <1>0, <2>1, <2>2 DEF PageTypes, NotSending, Stay
<1> QED BY <1>6, <1>7, <1>8 DEF TypeInv

\* The types are kept by every step, and causes are never forgotten.
LEMMA TypeStep ==
  ASSUME TypeInv, [Next]_vars
  PROVE  TypeInv' /\ StoreStep /\ FaultsGrow /\ limit' = limit
<1>1. StoreStep BY StoreSteps
<1>2. StoreTypes' /\ Pointing' /\ FaultsGrow /\ limit' = limit BY <1>1, StoreStepTypes DEF TypeInv
<1>3. Draft' = Draft BY <1>2, SameBounds
<1>4. draft' \in Draft BY <1>2, <1>3 DEF StoreTypes
<1>5. PageTypes'
  <2>1. CASE Next BY <1>4, <2>1, PageStep
  <2>2. CASE UNCHANGED vars BY <2>2 DEF vars, docVars, pageVars, PageTypes, TypeInv
  <2> QED BY <2>1, <2>2
<1> QED BY <1>1, <1>2, <1>5 DEF TypeInv

\* The draft is a draft of a known loan, with text that was typed, and the ids
\* that the store holds are those of rows the server has: rows created by saves
\* (submissionStore.ts 203-213) and never those a save only meant to create.
THEOREM TypeCorrect == Spec => []TypeOK
<1>1. WizardInit => TypeInv BY InitTypes
<1>2. TypeInv /\ [Next]_vars => TypeInv' BY TypeStep
<1>3. TypeInv => TypeOK
  <2> SUFFICES ASSUME TypeInv PROVE TypeOK OBVIOUS
  <2>1. ids.place \in 0..Len(server.places)
    <3>1. ids.place \in Nat /\ Len(server.places) \in Nat /\ ids.place <= Len(server.places)
      BY DEF TypeInv, StoreTypes, IdMap, Server, Pointing, Points
    <3> QED BY <3>1
  <2>2. ASSUME NEW c \in Client PROVE ids.who[c] \in 0..Len(server.people)
    <3>1. PICK l \in Ids, who \in Borrower : c = <<l, who>> BY DEF Client
    <3>2. Len(server.people) \in Nat BY DEF TypeInv, StoreTypes, Server
    <3>3. ids.who[<<l, who>>] = 0 \/ ids.who[<<l, who>>] \in 1..Len(server.people)
      BY DEF TypeInv, Pointing, Points
    <3> QED BY <3>1, <3>2, <3>3
  <2>3. \A l \in Ids : kept[l] \subseteq Draft BY DEF TypeInv, StoreTypes
  <2> QED BY <2>1, <2>2, <2>3 DEF TypeOK, TypeInv, StoreTypes, PageTypes
<1> QED BY <1>1, <1>2, <1>3, PTL DEF Spec

---------------------------------------------------------------------------
(* The words of the draft, and of the autosaves.                           *)

\* Drafts that say the same of the same loan.
SameWords(d, e) ==
  d.loan = e.loan /\ d.text = e.text /\ d.empty = e.empty /\ d.product = e.product /\ d.co = e.co

\* Requests, saves, reloads and submissions leave the words of the draft alone, and keep
\* in the browser nothing but the draft.
Wordless ==
  /\ SameWords(draft', draft)
  /\ edits' \in {edits, edits + 1}
  /\ starting' \in {starting, NoStart} \/ starting'.edit <= edits'
  /\ kept' = kept \/ \E d \in Draft : SameWords(d, draft) /\ kept' = KeepLocally(d)

\* A step of the stores begins a draft, takes one from the server while no page of
\* it is open, types, changes the co-borrower, or leaves the words alone.
LEMMA Words ==
  ASSUME StoreTypes, StoreStep
  PROVE  \/ \E l \in Ids, d \in Draft : Begins(l, d)
         \/ \E l \in Ids : Opening(l)
         \/ Typing
         \/ Wordless
<1> DEFINE G == Wordless
<1>0. draft \in Draft BY DEF StoreTypes
<1>1. ASSUME NEW s \in Savers, NEW then \in Then, StartSave(s, then) PROVE G
  <2>1. PICK d : d = [draft EXCEPT !.isDraft = TRUE] OBVIOUS
  <2>2. d \in Draft /\ SameWords(d, draft) BY <1>0, <2>1 DEF Draft, SameWords
  <2>3. kept' = KeepLocally(d) /\ UNCHANGED <<draft, edits, starting>>
    BY <1>1, <2>1 DEF StartSave, SaveBegins
  <2> QED BY <2>2, <2>3 DEF Wordless, SameWords
<1>2. ASSUME NEW s \in Savers, SaveCall(s) PROVE G
  BY <1>2 DEF SaveCall, Wordless, SameWords
<1>3. ASSUME NEW s \in Savers, SaveDone(s) \/ SaveFails(s) PROVE G
  BY <1>0, <1>3 DEF SaveDone, SaveFails, Wordless, SameWords, Draft
<1>4. CASE Reload BY <1>0, <1>4, StripTyped DEF Reload, Wordless, SameWords
<1>5. CASE Submitting
  <2>1. CASE SubmitRefused BY <1>0, <2>1, ValidatedTyped DEF SubmitRefused, Wordless, SameWords
  <2>2. ASSUME NEW l \in Ids, SubmitAnswered(l) PROVE G
    BY <1>0, <2>2 DEF SubmitAnswered, Wordless, SameWords, Draft
  <2>3. CASE SubmitTaken \/ SubmitFails \/ SubmitUnanswered
    BY <2>3 DEF SubmitTaken, SubmitFails, SubmitUnanswered, Wordless, SameWords
  <2> QED BY <1>5, <2>1, <2>2, <2>3 DEF Submitting
<1>6. CASE Quiet BY <1>6 DEF Quiet, Wordless, SameWords
<1>7. CASE Asking
  <2>1. PICK e \in 0..limit.edits : AskDraft(e) /\ edits' \in {edits, edits + 1} /\ e <= edits'
    BY <1>7 DEF Asking
  <2>2. UNCHANGED <<draft, kept>> /\ starting'.edit = e BY <2>1 DEF AskDraft
  <2> QED BY <2>1, <2>2 DEF Wordless, SameWords
<1> QED BY <1>1, <1>2, <1>3, <1>4, <1>5, <1>6, <1>7 DEF StoreStep

\* A draft that begins is kept in the browser as it is.
LEMMA BeginsKept ==
  ASSUME StoreTypes, NEW l \in Ids, NEW d \in Draft, Begins(l, d)
  PROVE  \E e \in Draft : SameWords(e, d) /\ kept' = KeepLocally(e)
<1>1. CASE d = EmptyDraft(l) /\ kept' = KeepLocally(EmptyDraft(l)) BY <1>1 DEF SameWords
<1>2. ASSUME NEW s \in Savers, SaveBegins(s, d, FreshIds, [go |-> "form", loan |-> l])
      PROVE  \E e \in Draft : SameWords(e, d) /\ kept' = KeepLocally(e)
  <2>1. PICK e : e = [d EXCEPT !.isDraft = TRUE] OBVIOUS
  <2>2. e \in Draft /\ SameWords(e, d) BY <2>1 DEF Draft, SameWords
  <2> QED BY <1>2, <2>1, <2>2 DEF SaveBegins
<1> QED BY <1>1, <1>2 DEF Begins

\* Text carries the number of an edit that was made; what was cleared was typed.
WrittenBy(d, n) == \A p \in Parts : d.text[p] <= n /\ (p \in d.empty => d.text[p] > 0)

\* The draft and the autosaves are dated by edits that were made, and an autosave
\* is one of its own loan.
Timely ==
  /\ WrittenBy(draft, edits) /\ starting.edit <= edits
  /\ \A l \in Ids : \A d \in kept[l] : d.loan = l /\ WrittenBy(d, edits)

\* What is kept in the browser of a draft is that draft.
LEMMA KeepTimely ==
  ASSUME StoreTypes, NEW d \in Draft, NEW n \in Nat, WrittenBy(d, n), edits <= n,
         \A l \in Ids : \A e \in kept[l] : e.loan = l /\ WrittenBy(e, edits)
  PROVE  \A l \in Ids : \A e \in KeepLocally(d)[l] : e.loan = l /\ WrittenBy(e, n)
<1> SUFFICES ASSUME NEW l \in Ids, NEW e \in KeepLocally(d)[l]
             PROVE  e.loan = l /\ WrittenBy(e, n)
  OBVIOUS
<1>1. CASE l = d.loan
  <2>1. e = StripSsn(d) BY <1>1, KeptTyped DEF StoreTypes
  <2> QED BY <1>1, <2>1, StripTyped DEF WrittenBy
<1>2. CASE l # d.loan
  <2>1. e \in kept[l] BY <1>2, KeptTyped DEF StoreTypes
  <2>2. e \in Draft /\ limit.edits \in Nat BY <2>1, LimitTypes DEF StoreTypes
  <2>3. \A p \in Parts : e.text[p] \in Nat /\ edits \in Nat BY <2>2 DEF Draft, Text, StoreTypes
  <2> QED BY <2>1, <2>3 DEF WrittenBy
<1> QED BY <1>1, <1>2

\* Edits only get later.
LEMMA WrittenLater ==
  ASSUME StoreTypes, NEW d \in Draft, NEW n \in Nat, WrittenBy(d, edits), edits <= n
  PROVE  WrittenBy(d, n)
<1>1. \A p \in Parts : d.text[p] \in Nat BY LimitTypes DEF Draft, Text, StoreTypes
<1> QED BY <1>1, LimitTypes DEF WrittenBy, StoreTypes

\* Every step keeps the text dated by edits that were made.
LEMMA TimelyStep ==
  ASSUME StoreTypes, StoreTypes', StoreStep, Timely
  PROVE  Timely'
<1>0. /\ limit.edits \in Nat /\ edits \in Nat /\ draft \in Draft /\ kept \in [Ids -> SUBSET Draft]
      /\ draft.text \in Text
  BY LimitTypes DEF StoreTypes, Draft
<1>1. ASSUME NEW l \in Ids, NEW d \in Draft, Begins(l, d) PROVE Timely'
  <2>1. edits' = edits /\ draft' = d /\ starting' \in {starting, NoStart}
        /\ d.empty = {} /\ \A p \in Parts : d.text[p] <= starting.edit
    BY <1>1 DEF Begins
  <2>2. starting.edit \in Nat /\ \A p \in Parts : d.text[p] \in Nat
    BY <1>0 DEF StoreTypes, Draft, Text
  <2>3. WrittenBy(d, edits) BY <1>0, <2>1, <2>2 DEF Timely, WrittenBy
  <2>4. PICK e \in Draft : SameWords(e, d) /\ kept' = KeepLocally(e) BY <1>1, BeginsKept
  <2>5. WrittenBy(e, edits) BY <2>3, <2>4 DEF WrittenBy, SameWords
  <2>6. \A k \in Ids : \A f \in kept'[k] : f.loan = k /\ WrittenBy(f, edits)
    BY <1>0, <2>4, <2>5, KeepTimely DEF Timely
  <2>7. starting'.edit <= edits BY <1>0, <2>1 DEF Timely, NoStart
  <2> QED BY <2>1, <2>3, <2>6, <2>7 DEF Timely
<1>2. ASSUME NEW l \in Ids, Opening(l) PROVE Timely'
  <2>0. HydrateFromApi(l) BY <1>2 DEF Opening
  <2>1. draft' = Hydrated(l) /\ UNCHANGED <<edits, kept, starting>> BY <2>0 DEF HydrateFromApi
  <2>2. WrittenBy(draft', edits)
    <3>1. CASE draft.loan = l BY <2>1, <3>1, HydratedTyped DEF StoreTypes, Timely
    <3>2. CASE draft.loan # l /\ kept[l] = {} /\ Hydrated(l) = Validated(EmptyDraft(l))
      <4>1. EmptyDraft(l) \in Draft BY EmptyTyped DEF StoreTypes
      <4>2. draft'.text = Blank /\ draft'.empty = {}
        BY <2>1, <3>2, <4>1, ValidatedTyped DEF EmptyDraft
      <4> QED BY <1>0, <4>2 DEF WrittenBy, Blank
    <3>3. ASSUME NEW d \in kept[l], Hydrated(l) = Validated(d) PROVE WrittenBy(draft', edits)
      <4>1. d \in Draft BY <1>0
      <4>2. draft'.text = d.text /\ draft'.empty = d.empty BY <2>1, <3>3, <4>1, ValidatedTyped
      <4> QED BY <4>2 DEF WrittenBy, Timely
    <3> QED BY <3>1, <3>2, <3>3, HydratedTyped DEF StoreTypes
  <2> QED BY <2>1, <2>2 DEF Timely
<1>3. ASSUME NEW ps, NEW gone \in SUBSET ps, Type(ps, gone) PROVE Timely'
  <2>1. edits' = edits + 1 /\ UNCHANGED <<kept, starting>> BY <1>3 DEF Type
  <2>2. PICK product : draft' = Validated([draft EXCEPT
                    !.text = Typed(ps, product), !.product = product,
                    !.empty = gone \cup {p \in @ \ ps : Typed(ps, product)[p] > 0},
                    !.ssn = IF "primary" \in ps THEN "primary" \notin gone ELSE @])
    BY <1>3 DEF Type
  <2>3. /\ draft'.text = Typed(ps, product)
        /\ draft'.empty = gone \cup {p \in draft.empty \ ps : Typed(ps, product)[p] > 0}
    BY <1>0, <2>2 DEF Validated, Draft
  <2>4. ASSUME NEW p \in Parts PROVE draft'.text[p] <= edits + 1 /\ (p \in draft'.empty => draft'.text[p] > 0)
    <3>1. draft'.text[p] \in {edits + 1, 0, draft.text[p]} /\ (p \in ps => draft'.text[p] = edits + 1)
      BY <2>3 DEF Typed
    <3>2. draft.text[p] \in Nat /\ draft.text[p] <= edits
      BY <1>0 DEF Text, Timely, WrittenBy
    <3>3. p \in draft'.empty => p \in ps \/ draft'.text[p] > 0 BY <2>3
    <3> QED BY <1>0, <3>1, <3>2, <3>3
  <2>5. ASSUME NEW l \in Ids, NEW d \in kept[l] PROVE d.loan = l /\ WrittenBy(d, edits + 1)
    <3>1. d \in Draft /\ d.loan = l /\ WrittenBy(d, edits) BY <1>0 DEF Timely
    <3> QED BY <1>0, <3>1, WrittenLater
  <2>6. starting.edit \in Nat BY <1>0 DEF StoreTypes
  <2>7. starting'.edit <= edits + 1 BY <1>0, <2>1, <2>6 DEF Timely
  <2> QED BY <2>1, <2>4, <2>5, <2>7 DEF Timely, WrittenBy
<1>4. CASE AddCoBorrower \/ RemoveBorrower
  <2>1. UNCHANGED <<edits, kept, starting>> BY <1>4 DEF AddCoBorrower, RemoveBorrower
  <2>2. \/ draft'.text = draft.text /\ draft'.empty = draft.empty
        \/ draft'.text = [draft.text EXCEPT !["co"] = 0] /\ draft'.empty = draft.empty \ {"co"}
    BY <1>0, <1>4 DEF AddCoBorrower, RemoveBorrower, Draft
  <2>3. WrittenBy(draft', edits) BY <1>0, <2>2 DEF WrittenBy, Timely, Text
  <2> QED BY <2>1, <2>3 DEF Timely
<1>5. CASE Wordless
  <2>1. edits' \in Nat /\ edits <= edits' BY <1>0, <1>5 DEF Wordless
  <2>2. WrittenBy(draft, edits') BY <1>0, <2>1, WrittenLater DEF Timely
  <2>3. WrittenBy(draft', edits') BY <1>5, <2>2 DEF Wordless, SameWords, WrittenBy
  <2>4. starting'.edit <= edits'
    <3>1. starting.edit \in Nat BY <1>0 DEF StoreTypes
    <3> QED BY <1>0, <1>5, <2>1, <3>1 DEF Wordless, Timely, NoStart
  <2>5. CASE kept' = kept
    <3>1. ASSUME NEW l \in Ids, NEW d \in kept[l] PROVE d.loan = l /\ WrittenBy(d, edits')
      <4>1. d \in Draft /\ d.loan = l /\ WrittenBy(d, edits) BY <1>0 DEF Timely
      <4> QED BY <2>1, <4>1, WrittenLater
    <3> QED BY <2>3, <2>4, <2>5, <3>1 DEF Timely
  <2>6. ASSUME NEW d \in Draft, SameWords(d, draft), kept' = KeepLocally(d) PROVE Timely'
    <3>1. PICK n : n = edits' OBVIOUS
    <3>2. n \in Nat /\ edits <= n /\ WrittenBy(d, n)
      BY <2>1, <2>2, <2>6, <3>1 DEF SameWords, WrittenBy
    <3>3. \A k \in Ids : \A e \in KeepLocally(d)[k] : e.loan = k /\ WrittenBy(e, n)
      BY <3>2, KeepTimely DEF Timely
    <3> QED BY <2>3, <2>4, <2>6, <3>1, <3>3 DEF Timely
  <2> QED BY <1>5, <2>5, <2>6 DEF Wordless
<1> QED BY <1>1, <1>2, <1>3, <1>4, <1>5, Words DEF Typing

\* The draft taken up for a loan is of that loan.
LEMMA HydratedLoan ==
  ASSUME StoreTypes, Timely, NEW l \in Ids, HydrateFromApi(l)
  PROVE  draft'.loan = l
<1>1. draft' = Hydrated(l) /\ kept \in [Ids -> SUBSET Draft] /\ draft \in Draft
  BY DEF HydrateFromApi, StoreTypes
<1>2. CASE draft.loan = l BY <1>1, <1>2, HydratedTyped DEF StoreTypes
<1>3. CASE draft.loan # l /\ kept[l] = {} /\ Hydrated(l) = Validated(EmptyDraft(l))
  <2>1. EmptyDraft(l) \in Draft /\ EmptyDraft(l).loan = l
    BY EmptyTyped DEF StoreTypes, EmptyDraft
  <2> QED BY <1>1, <1>3, <2>1, ValidatedTyped
<1>4. ASSUME NEW d \in kept[l], Hydrated(l) = Validated(d) PROVE draft'.loan = l
  <2>1. d \in Draft /\ d.loan = l BY <1>1 DEF Timely
  <2> QED BY <1>1, <1>4, <2>1, ValidatedTyped
<1> QED BY <1>2, <1>3, <1>4, HydratedTyped DEF StoreTypes

\* What is done on the form leaves the draft with its loan, and so does what else happens.
LEMMA TypedLoan ==
  ASSUME StoreTypes, Typing
  PROVE  draft'.loan = draft.loan
<1>1. ASSUME NEW ps, NEW gone, Type(ps, gone) PROVE draft'.loan = draft.loan
  <2>1. PICK product : draft' = Validated([draft EXCEPT
                    !.text = Typed(ps, product), !.product = product,
                    !.empty = gone \cup {p \in @ \ ps : Typed(ps, product)[p] > 0},
                    !.ssn = IF "primary" \in ps THEN "primary" \notin gone ELSE @])
    BY <1>1 DEF Type
  <2> QED BY <2>1 DEF Validated, StoreTypes, Draft
<1>2. CASE AddCoBorrower \/ RemoveBorrower
  BY <1>2 DEF AddCoBorrower, RemoveBorrower, StoreTypes, Draft
<1> QED BY <1>1, <1>2 DEF Typing

LEMMA LoanStays ==
  ASSUME StoreTypes, StoreStep
  PROVE  \/ draft'.loan = draft.loan
         \/ \E l \in Ids, d \in Draft : Begins(l, d)
         \/ \E l \in Ids : Opening(l)
BY TypedLoan, Words DEF Wordless, SameWords

---------------------------------------------------------------------------
(* The loan of the address.                                                *)

\* The address and the page change together: a page is left or stays, mounts and
\* hydrates, or goes with the router to another loan under the open wizard.
LEMMA Routes ==
  ASSUME TypeInv, [Next]_vars
  PROVE  \/ route' = route /\ (Open' => Open)
         \/ /\ ~Open
            /\ \E l \in Ids : /\ HydrateFromApi(l) /\ route' = l
                              /\ OpenLoan(l) \/ (next.go # "stay" /\ l = next.loan)
         \/ /\ Open /\ next.go # "stay" /\ route' = next.loan /\ draft' = draft
            /\ next.loan \in {route, draft.loan} \/ faults' = Blame({draft.loan}, "dragged")
<1> USE DEF Open
<1>1. ASSUME StartLoan \/ StartLocal \/ StartAnswers \/ StartUnanswered \/ ArchiveElsewhere
      PROVE  route' = route /\ (Open' => Open)
  BY <1>1 DEF StartLoan, StartLocal, StartAnswers, StartUnanswered, ArchiveElsewhere, pageVars
<1>2. ASSUME NEW l \in Ids, OpenLoan(l) PROVE ~Open /\ HydrateFromApi(l) /\ route' = l
  BY <1>2 DEF OpenLoan, Mount
<1>3. ASSUME NEW ps, TypeOnPage(ps) PROVE route' = route /\ (Open' => Open)
  BY <1>3 DEF TypeOnPage
<1>4. ASSUME NEW at, GoToStep(at) PROVE route' = route /\ (Open' => Open)
  BY <1>4 DEF GoToStep
<1>5. ASSUME NEW s \in Savers, ClickSave(s) \/ Continue(s) \/ ClickSubmit(s) \/ RetrySubmit(s) \/ Background(s)
      PROVE  route' = route /\ (Open' => Open)
  BY <1>5 DEF ClickSave, Continue, ClickSubmit, RetrySubmit, Background, Autosave, Saving, SaveEnds, pageVars
<1>6. ASSUME NEW t, Upload(t) \/ RemoveUpload(t) PROVE route' = route /\ (Open' => Open)
  BY <1>6 DEF Upload, RemoveUpload, pageVars
<1>7. ASSUME ChangeCoBorrower \/ Leave \/ ReloadTab \/ LoseToken \/ ReturnToken
      PROVE  route' = route /\ (Open' => Open)
  BY <1>7 DEF ChangeCoBorrower, Leave, ReloadTab, LoseToken, ReturnToken, Unmount, pageVars
<1>8. ASSUME SendSubmit \/ AnswerSubmit \/ DocumentAnswers \/ UNCHANGED vars
      PROVE  route' = route /\ (Open' => Open)
  BY <1>8 DEF SendSubmit, AnswerSubmit, DocumentAnswers, pageVars, vars
<1>9. CASE Navigate /\ ~Open
  <2>0. next.go # "stay" BY <1>9 DEF Navigate, TypeInv, PageTypes
  <2>1. HydrateFromApi(next.loan) /\ route' = next.loan
    BY <1>9 DEF Navigate, Mount
  <2>2. next.loan \in Ids BY DEF TypeInv, PageTypes
  <2> QED BY <1>9, <2>0, <2>1, <2>2
<1>10. CASE Navigate /\ Open
  BY <1>10 DEF Navigate, TypeInv, PageTypes
<1> HIDE DEF Open
<1> QED BY <1>1, <1>2, <1>3, <1>4, <1>5, <1>6, <1>7, <1>8, <1>9, <1>10 DEF Next, UserMove

\* Every step keeps the page on the draft of the loan of its address.
LEMMA EditsStep ==
  ASSUME TypeInv, Timely, EditsLoanShown, [Next]_vars
  PROVE  EditsLoanShown'
<1>1. TypeInv' /\ StoreStep /\ FaultsGrow BY TypeStep
<1>2. draft.loan \in Ids /\ StoreTypes BY DEF TypeInv, StoreTypes, Draft
<1> DEFINE Excuse == {"dragged", "replaced"}
<1> SUFFICES ASSUME Open' PROVE route' = draft'.loan \/ faults'[draft'.loan] \cap Excuse # {}
  BY DEF EditsLoanShown
<1>3. CASE route' = route /\ Open /\ draft'.loan = draft.loan
  BY <1>1, <1>2, <1>3 DEF EditsLoanShown, FaultsGrow
<1>4. ASSUME NEW l \in Ids, HydrateFromApi(l), route' = l PROVE route' = draft'.loan
  BY <1>2, <1>4, HydratedLoan
<1>5. ASSUME Open, route' = next.loan, draft' = draft,
             next.loan \in {route, draft.loan} \/ faults' = Blame({draft.loan}, "dragged")
      PROVE  route' = draft'.loan \/ faults'[draft'.loan] \cap Excuse # {}
  <2>1. CASE next.loan = route BY <1>3, <1>5, <2>1
  <2>2. CASE faults' = Blame({draft.loan}, "dragged")
    <3>1. "dragged" \in Causes BY DEF Causes
    <3>2. "dragged" \in faults'[draft.loan] BY <1>2, <2>2, <3>1, BlameTyped DEF StoreTypes
    <3> QED BY <1>5, <3>2
  <2>3. CASE next.loan = draft.loan BY <1>5, <2>3
  <2> QED BY <1>5, <2>1, <2>2, <2>3
<1>6. ASSUME NEW l \in Ids, NEW d \in Draft, Begins(l, d), Open
      PROVE  "replaced" \in faults'[draft'.loan]
  <2>1. draft'.loan = l /\ Replaced(l, Open)[l] \subseteq faults'[l] BY <1>6 DEF Begins
  <2> QED BY <1>6, <2>1 DEF Replaced
<1>7. CASE route' = route /\ Open
  BY <1>2, <1>1, <1>3, <1>6, <1>7, LoanStays DEF Opening
<1> QED BY <1>4, <1>5, <1>7, Routes

\* Nothing is typed, opened or kept at the start.
LEMMA InitTimely ==
  ASSUME WizardInit
  PROVE  Timely /\ EditsLoanShown
<1>1. /\ draft = EmptyDraft(Local) /\ edits = 0 /\ kept = [l \in Ids |-> {}] /\ step = "closed"
      /\ starting.edit = 0
  BY DEF WizardInit, SubInit, NoDraft, NoStart
<1> QED BY <1>1 DEF Timely, WrittenBy, EmptyDraft, Blank, EditsLoanShown, Open

\* The wizard edits the loan in its address, unless the address changed under an
\* open page (SubmissionWizard.tsx hydrates only when it mounts) or the answer that
\* starts a loan replaced the draft under it (submissionStore.ts 75-76).
THEOREM EditsShown == Spec => []EditsLoanShown
<1>1. WizardInit => TypeInv /\ Timely /\ EditsLoanShown BY InitTypes, InitTimely
<1>2. TypeInv /\ Timely /\ EditsLoanShown /\ [Next]_vars => (TypeInv /\ Timely /\ EditsLoanShown)'
  <2> SUFFICES ASSUME TypeInv, Timely, EditsLoanShown, [Next]_vars
               PROVE  TypeInv' /\ Timely' /\ EditsLoanShown'
    OBVIOUS
  <2>1. TypeInv' /\ StoreStep BY TypeStep
  <2>2. Timely' BY <2>1, TimelyStep DEF TypeInv
  <2> QED BY <2>1, <2>2, EditsStep
<1> QED BY <1>1, <1>2, PTL DEF Spec

---------------------------------------------------------------------------
(* Typing is kept.                                                         *)

\* A page shown, and a page to come, of the draft without a loan is of one that
\* is kept in the browser.
Led ==
  kept[Local] = {} =>
    /\ ~(Open /\ route = Local)
    /\ ~(next.go # "stay" /\ next.loan = Local)
    /\ \A s \in Savers : ~(saves[s].then.go # "stay" /\ saves[s].then.loan = Local)

\* A draft without a loan that is not kept is the one the store begins with.
Drafted ==
  draft.loan = Local /\ kept[Local] = {} =>
    draft.text = Blank /\ draft.empty = {} /\ ~Open

\* Autosaves are only replaced, and a draft that begins is kept.
LEMMA KeptStays ==
  ASSUME StoreTypes, StoreStep
  PROVE  /\ kept[Local] # {} => kept'[Local] # {}
         /\ \A l \in Ids, d \in Draft : Begins(l, d) => kept'[l] # {}
<1>0. kept \in [Ids -> SUBSET Draft] /\ Local \in Ids BY DEF StoreTypes, Ids
<1>1. ASSUME NEW d \in Draft, kept' = KeepLocally(d)
      PROVE  kept'[d.loan] # {} /\ (kept[Local] # {} => kept'[Local] # {})
  <2>1. CASE d.loan = Local BY <1>0, <1>1, <2>1, KeptTyped
  <2>2. CASE d.loan # Local BY <1>0, <1>1, <2>2, KeptTyped
  <2> QED BY <2>1, <2>2
<1>2. ASSUME NEW l \in Ids, NEW d \in Draft, Begins(l, d)
      PROVE  kept'[l] # {} /\ (kept[Local] # {} => kept'[Local] # {})
  <2>1. PICK e \in Draft : SameWords(e, d) /\ kept' = KeepLocally(e) BY <1>2, BeginsKept
  <2>2. e.loan = l BY <1>2, <2>1 DEF SameWords, Begins
  <2> QED BY <1>1, <2>1, <2>2
<1>3. (\E l \in Ids : Opening(l)) \/ Typing => kept' = kept
  BY DEF Opening, HydrateFromApi, Typing, Type, AddCoBorrower, RemoveBorrower
<1>4. Wordless => (kept[Local] # {} => kept'[Local] # {}) BY <1>1 DEF Wordless
<1> QED BY <1>2, <1>3, <1>4, Words

\* A save has nothing to go on with, or the loan of the page, or of its import.
LEMMA Thens ==
  ASSUME TypeInv, [Next]_vars, NEW t \in Savers
  PROVE  \/ saves'[t].then \in {saves[t].then, Stay}
         \/ Open /\ saves'[t].then.loan = route
         \/ \E l \in Ids, d \in Draft : Begins(l, d) /\ saves'[t].then.loan = l
<1> USE DEF TypeInv
<1>0. saves \in [Savers -> Save] BY DEF StoreTypes
<1> DEFINE G == \/ saves'[t].then \in {saves[t].then, Stay}
                \/ Open /\ saves'[t].then.loan = route
                \/ \E l \in Ids, d \in Draft : Begins(l, d) /\ saves'[t].then.loan = l
<1>1. ASSUME saves' = saves PROVE G BY <1>1
<1>2. ASSUME NEW s \in Savers, NEW d, NEW i, NEW to, SaveBegins(s, d, i, to)
      PROVE  saves'[t].then \in {saves[t].then, to}
  BY <1>0, <1>2 DEF SaveBegins
<1>3. ASSUME NEW s \in Savers, ClickSave(s) \/ Autosave(s) PROVE G
  BY <1>2, <1>3 DEF ClickSave, Autosave, StartSave
<1>4. ASSUME NEW s \in Savers, Continue(s) \/ ClickSubmit(s) \/ RetrySubmit(s) PROVE G
  <2>1. PICK at : StartSave(s, [go |-> at, loan |-> route])
    BY <1>4 DEF Continue, ClickSubmit, RetrySubmit, RunSubmit
  <2>2. Open BY <1>4 DEF Continue, ClickSubmit, RetrySubmit
  <2> QED BY <1>2, <2>1, <2>2 DEF StartSave
<1>5. ASSUME NEW l \in Ids, NEW d \in Draft, Begins(l, d) PROVE G
  <2>1. CASE saves' = saves BY <1>1, <2>1
  <2>2. ASSUME NEW s \in Savers, SaveBegins(s, d, FreshIds, [go |-> "form", loan |-> l]) PROVE G
    <3>1. saves'[t].then \in {saves[t].then, [go |-> "form", loan |-> l]} BY <1>2, <2>2
    <3> QED BY <1>5, <3>1
  <2> QED BY <1>5, <2>1, <2>2 DEF Begins
<1>6. ASSUME StartAnswers \/ StartLocal PROVE G
  <2>1. Local \in Ids /\ starting.loan \in Ids BY DEF Ids, StoreTypes
  <2>2. CASE StartAnswers BY <1>5, <2>1, <2>2, AnswerBegins
  <2>3. CASE StartLocal BY <1>1, <2>3 DEF StartLocal, StartManual
  <2> QED BY <1>6, <2>2, <2>3
<1>7. ASSUME NEW s \in Savers, Saving(s) \/ SaveEnds(s) PROVE G
  <2>1. CASE SaveCall(s)
    <3>1. saves'[t].then = saves[t].then BY <2>1, CallSteps
    <3> QED BY <3>1
  <2>2. CASE SaveDone(s) \/ SaveFails(s)
    <3>1. saves' = [saves EXCEPT ![s] = Idle] BY <2>2 DEF SaveDone, SaveFails
    <3>2. Idle.then = Stay BY DEF Idle
    <3> QED BY <1>0, <3>1, <3>2
  <2> QED BY <1>7, <2>1, <2>2 DEF Saving, SaveEnds
<1>8. CASE ReloadTab
  <2>1. saves'[t] = Idle BY <1>8 DEF ReloadTab, Reload
  <2> QED BY <2>1 DEF Idle
<1>9. ASSUME NEW l \in Ids, OpenLoan(l) PROVE G
  BY <1>1, <1>9 DEF OpenLoan, Mount, HydrateFromApi
<1>10. ASSUME NEW ps, TypeOnPage(ps) PROVE G BY <1>1, <1>10 DEF TypeOnPage, Type
<1>11. ASSUME NEW at, GoToStep(at) PROVE G BY <1>1, <1>11 DEF GoToStep, subVars
<1>12. ASSUME NEW u, Upload(u) \/ RemoveUpload(u) PROVE G BY <1>1, <1>12 DEF Upload, RemoveUpload, subVars
<1>13. ASSUME ChangeCoBorrower \/ Leave \/ LoseToken \/ ReturnToken \/ StartLoan \/ StartUnanswered PROVE G
  BY <1>1, <1>13 DEF ChangeCoBorrower, AddCoBorrower, RemoveBorrower, Leave, LoseToken, SignOut, ReturnToken,
         SignIn, StartLoan, AskDraft, StartUnanswered, StartFails
<1>14. ASSUME Navigate PROVE G
  BY <1>1, <1>14 DEF Navigate, Mount, HydrateFromApi
<1>15. ASSUME SendSubmit \/ AnswerSubmit PROVE G
  BY <1>1, <1>15 DEF SendSubmit, SubmitTaken, SubmitRefused, SubmitFails, AnswerSubmit, SubmitAnswered,
         SubmitUnanswered
<1>16. ASSUME DocumentAnswers \/ ArchiveElsewhere \/ UNCHANGED vars PROVE G
  BY <1>1, <1>16 DEF DocumentAnswers, ArchiveElsewhere, subVars, vars
<1> HIDE DEF G
<1> QED BY <1>3, <1>4, <1>6, <1>7, <1>8, <1>9, <1>10, <1>11, <1>12, <1>13, <1>14, <1>15, <1>16
        DEF Next, UserMove, Background, G

\* A push not yet followed was there, or is that of a loan just started, or of a
\* save that ended.
LEMMA Pushes ==
  ASSUME TypeInv, [Next]_vars
  PROVE  \/ next' \in {next, Stay}
         \/ \E l \in Ids, d \in Draft : Begins(l, d) /\ next'.loan = l
         \/ \E s \in Savers : next' = saves[s].then /\ saves[s].then.go # "stay"
<1> DEFINE G == \/ next' \in {next, Stay}
                \/ \E l \in Ids, d \in Draft : Begins(l, d) /\ next'.loan = l
                \/ \E s \in Savers : next' = saves[s].then /\ saves[s].then.go # "stay"
<1>1. ASSUME StartAnswers PROVE G
  <2>1. next' \in {next, [go |-> "form", loan |-> starting.loan]} BY <1>1 DEF StartAnswers
  <2>2. starting.loan \in Ids BY DEF TypeInv, StoreTypes
  <2>3. \E d \in Draft : Begins(starting.loan, d) BY <1>1, AnswerBegins DEF TypeInv
  <2> QED BY <2>1, <2>2, <2>3
<1>2. ASSUME StartLocal PROVE G
  <2>1. Local \in Ids BY DEF Ids
  <2>2. /\ StartManual(Local, Open) /\ UNCHANGED <<starting, server, edits>> /\ kept[Local] = {}
        /\ next' = [go |-> "form", loan |-> Local]
    BY <1>2 DEF StartLocal, NoDraft
  <2>3. EmptyDraft(Local) \in Draft /\ Begins(Local, EmptyDraft(Local))
    BY <2>1, <2>2, ManualBegins DEF TypeInv
  <2> QED BY <2>1, <2>2, <2>3
<1>3. ASSUME NEW s \in Savers, SaveEnds(s)
      PROVE  G
  BY <1>3 DEF SaveEnds, Resume
<1>4. ASSUME NEW l \in Ids, OpenLoan(l) PROVE G BY <1>4 DEF OpenLoan
<1>5. ASSUME NEW ps, TypeOnPage(ps) PROVE G BY <1>5 DEF TypeOnPage
<1>6. ASSUME NEW at, GoToStep(at) PROVE G BY <1>6 DEF GoToStep
<1>7. ASSUME NEW s \in Savers,
             ClickSave(s) \/ Continue(s) \/ ClickSubmit(s) \/ RetrySubmit(s) \/ Autosave(s) \/ Saving(s)
      PROVE  G
  BY <1>7 DEF ClickSave, Continue, ClickSubmit, RetrySubmit, Autosave, Saving, pageVars
<1>8. ASSUME NEW t, Upload(t) \/ RemoveUpload(t) PROVE G
  BY <1>8 DEF Upload, RemoveUpload, pageVars
<1>9. ASSUME ChangeCoBorrower \/ Leave \/ ReloadTab \/ LoseToken \/ ReturnToken PROVE G
  BY <1>9 DEF ChangeCoBorrower, Leave, ReloadTab, LoseToken, ReturnToken, pageVars
<1>10. ASSUME \/ Navigate \/ SendSubmit \/ AnswerSubmit \/ DocumentAnswers \/ ArchiveElsewhere \/ StartLoan
              \/ StartUnanswered \/ UNCHANGED vars
       PROVE  G
  BY <1>10 DEF Navigate, SendSubmit, AnswerSubmit, DocumentAnswers, ArchiveElsewhere, StartLoan,
         StartUnanswered, vars, pageVars
<1> HIDE DEF G
<1>11. G
  BY <1>1, <1>2, <1>3, <1>4, <1>5, <1>6, <1>7, <1>8, <1>9, <1>10 DEF Next, UserMove, Background
<1> QED BY <1>11 DEF G

\* Every step leads only to drafts that are kept.
LEMMA LedStep ==
  ASSUME TypeInv, [Next]_vars, Led
  PROVE  Led'
<1> SUFFICES ASSUME kept'[Local] = {}
             PROVE  /\ ~(Open' /\ route' = Local)
                    /\ ~(next'.go # "stay" /\ next'.loan = Local)
                    /\ \A s \in Savers : ~(saves'[s].then.go # "stay" /\ saves'[s].then.loan = Local)
  BY DEF Led
<1>1. StoreStep BY TypeStep
<1>2. /\ kept[Local] = {}
      /\ \A l \in Ids, d \in Draft : Begins(l, d) => l # Local
  BY <1>1, KeptStays DEF TypeInv
<1>3. ~(Open' /\ route' = Local)
  <2>1. ASSUME NEW l \in Ids, OpenLoan(l) PROVE l # Local BY <1>2, <2>1 DEF OpenLoan, NoDraft
  <2> QED BY <1>2, <2>1, Routes DEF Led
<1>4. ~(next'.go # "stay" /\ next'.loan = Local) BY <1>2, Pushes DEF Led, Stay
<1>5. ASSUME NEW s \in Savers PROVE ~(saves'[s].then.go # "stay" /\ saves'[s].then.loan = Local)
  BY <1>2, Thens DEF Led, Stay
<1> QED BY <1>3, <1>4, <1>5

\* Every step leaves the first draft as it is, or keeps it, or takes another.
LEMMA DraftedStep ==
  ASSUME TypeInv, Timely, [Next]_vars, Led, Drafted
  PROVE  Drafted'
<1> SUFFICES ASSUME draft'.loan = Local, kept'[Local] = {}
             PROVE  draft'.text = Blank /\ draft'.empty = {} /\ ~Open'
  BY DEF Drafted
<1>1. StoreStep /\ StoreTypes BY TypeStep DEF TypeInv
<1>2. /\ kept[Local] = {}
      /\ \A l \in Ids, d \in Draft : Begins(l, d) => l # Local
  BY <1>1, KeptStays
<1>3. ASSUME NEW l \in Ids, Opening(l) PROVE FALSE
  <2>1. l = Local BY <1>1, <1>3, HydratedLoan DEF Opening
  <2> QED BY <1>2, <1>3, <2>1 DEF Opening, Led
<1>4. ~\E l \in Ids, d \in Draft : Begins(l, d) BY <1>2 DEF Begins
<1>5. draft.loan = Local BY <1>1, <1>3, <1>4, LoanStays
<1>6. draft.text = Blank /\ draft.empty = {} /\ ~Open BY <1>2, <1>5 DEF Drafted
<1>7. Wordless BY <1>1, <1>3, <1>4, <1>6, Words DEF Typing
<1>8. ~Open'
  <2>1. ASSUME NEW l \in Ids, HydrateFromApi(l), OpenLoan(l) \/ (next.go # "stay" /\ l = next.loan)
        PROVE  FALSE
    <3>1. l = Local BY <1>1, <2>1, HydratedLoan
    <3> QED BY <1>2, <2>1, <3>1 DEF OpenLoan, NoDraft, Led
  <2> QED BY <1>6, <2>1, Routes
<1> QED BY <1>6, <1>7, <1>8 DEF Wordless, SameWords

\* What a step may do to the text.
Kept(p) ==
  \/ draft'.text[p] > draft.text[p]
  \/ draft'.text[p] = draft.text[p] /\ (p \in draft'.empty <=> p \in draft.empty)
  \/ p = "income" /\ draft'.product # draft.product
  \/ p = "co" /\ draft'.co # draft.co
  \/ starting # NoStart /\ starting' = NoStart /\ draft.loan = starting.loan

\* A step that stays on the draft's loan keeps what was typed in every part.
LEMMA TypingStep ==
  ASSUME TypeInv, Timely, Drafted, [Next]_vars, draft'.loan = draft.loan, NEW p \in Parts
  PROVE  Kept(p)
<1>1. StoreStep BY TypeStep
<1>2. /\ draft \in Draft /\ draft.text \in Text /\ draft.text[p] \in Nat /\ draft.text[p] <= edits
      /\ edits \in Nat /\ StoreTypes /\ (p \in draft.empty => draft.text[p] > 0)
  BY LimitTypes DEF TypeInv, StoreTypes, Draft, Text, Timely, WrittenBy
<1>3. ASSUME draft'.text = draft.text, draft'.empty = draft.empty PROVE Kept(p) BY <1>3 DEF Kept
<1>4. ASSUME NEW l \in Ids, NEW d \in Draft, Begins(l, d) PROVE Kept(p)
  <2>1. draft' = d /\ d.loan = l BY <1>4 DEF Begins
  <2>2. CASE starting # NoStart /\ starting' = NoStart /\ l = starting.loan
    BY <2>1, <2>2 DEF Kept
  <2>3. CASE l = Local /\ kept[Local] = {} /\ d = EmptyDraft(Local)
    <3>1. draft.text = Blank /\ draft.empty = {} BY <2>1, <2>3 DEF Drafted
    <3>2. draft'.text = Blank /\ draft'.empty = {} BY <2>1, <2>3 DEF EmptyDraft
    <3> QED BY <1>3, <3>1, <3>2
  <2> QED BY <1>4, <2>2, <2>3 DEF Begins
<1>5. ASSUME NEW l \in Ids, Opening(l) PROVE Kept(p)
  <2>1. HydrateFromApi(l) BY <1>5 DEF Opening
  <2>2. draft'.loan = l BY <1>2, <2>1, HydratedLoan
  <2>3. draft' = draft BY <2>1, <2>2, HydratedTyped DEF HydrateFromApi, TypeInv, StoreTypes
  <2> QED BY <1>3, <2>3
<1>6. ASSUME NEW ps, NEW gone \in SUBSET ps, Type(ps, gone) PROVE Kept(p)
  <2>1. PICK product : draft' = Validated([draft EXCEPT
                    !.text = Typed(ps, product), !.product = product,
                    !.empty = gone \cup {q \in @ \ ps : Typed(ps, product)[q] > 0},
                    !.ssn = IF "primary" \in ps THEN "primary" \notin gone ELSE @])
    BY <1>6 DEF Type
  <2>2. /\ draft'.text = Typed(ps, product) /\ draft'.product = product
        /\ draft'.empty = gone \cup {q \in draft.empty \ ps : Typed(ps, product)[q] > 0}
    BY <1>2, <2>1 DEF Validated, Draft
  <2>3. \/ p \in ps /\ draft'.text[p] = edits + 1
        \/ p = "income" /\ draft'.product # draft.product
        \/ p \notin ps /\ draft'.text[p] = draft.text[p]
    BY <2>2 DEF Typed
  <2>4. p \notin ps /\ draft'.text[p] = draft.text[p] => (p \in draft'.empty <=> p \in draft.empty)
    BY <1>2, <2>2
  <2> QED BY <1>2, <2>3, <2>4 DEF Kept
<1>7. CASE AddCoBorrower \/ RemoveBorrower
  <2>1. \/ draft'.text = draft.text /\ draft'.empty = draft.empty
        \/ /\ draft'.co = 0 /\ draft.co > 0 /\ draft'.text = [draft.text EXCEPT !["co"] = 0]
           /\ draft'.empty = draft.empty \ {"co"}
    BY <1>2, <1>7 DEF AddCoBorrower, RemoveBorrower, Draft
  <2>2. CASE /\ draft'.co = 0 /\ draft.co > 0 /\ draft'.text = [draft.text EXCEPT !["co"] = 0]
             /\ draft'.empty = draft.empty \ {"co"}
    <3>1. CASE p = "co" BY <2>2, <3>1 DEF Kept
    <3>2. CASE p # "co"
      <4>1. draft'.text[p] = draft.text[p] BY <1>2, <2>2, <3>2 DEF Text
      <4> QED BY <2>2, <3>2, <4>1 DEF Kept
    <3> QED BY <3>1, <3>2
  <2> QED BY <1>3, <2>1, <2>2
<1>8. CASE Wordless BY <1>3, <1>8 DEF Wordless, SameWords
<1> QED BY <1>1, <1>2, <1>4, <1>5, <1>6, <1>7, <1>8, Words DEF Typing

\* Typing is never reverted: while the store keeps to one loan no step puts back
\* an older text or what was cleared, whether a save ends or a page mounts
\* (submissionStore.ts 167-171, 270-272), but for the income of another program, a
\* co-borrower who goes, and the answer that starts the loan.
THEOREM NothingReverted == Spec => TypingKept
<1> DEFINE Inv == TypeInv /\ Timely /\ Led /\ Drafted
<1>1. WizardInit => Inv
  <2> SUFFICES ASSUME WizardInit PROVE Inv OBVIOUS
  <2>1. TypeInv /\ Timely BY InitTypes, InitTimely
  <2>2. /\ draft = EmptyDraft(Local) /\ step = "closed" /\ next = Stay
        /\ saves = [s \in Savers |-> Idle]
    BY DEF WizardInit, SubInit
  <2>3. Led BY <2>2 DEF Led, Open, Stay, Idle
  <2>4. Drafted BY <2>2 DEF Drafted, EmptyDraft, Open
  <2> QED BY <2>1, <2>3, <2>4
<1>2. Inv /\ [Next]_vars => Inv'
  <2> SUFFICES ASSUME Inv, [Next]_vars PROVE Inv' OBVIOUS
  <2>1. TypeInv' /\ StoreStep BY TypeStep
  <2>2. Timely' BY <2>1, TimelyStep DEF TypeInv
  <2>3. Led' BY LedStep
  <2>4. Drafted' BY DraftedStep
  <2> QED BY <2>1, <2>2, <2>3, <2>4
<1>3. Inv /\ [Next]_vars => [draft'.loan = draft.loan =>
        \A p \in Parts :
            \/ draft'.text[p] > draft.text[p]
            \/ draft'.text[p] = draft.text[p] /\ (p \in draft'.empty <=> p \in draft.empty)
            \/ p = "income" /\ draft'.product # draft.product
            \/ p = "co" /\ draft'.co # draft.co
            \/ starting # NoStart /\ starting' = NoStart /\ draft.loan = starting.loan]_vars
  BY TypingStep DEF Kept
<1> QED BY <1>1, <1>2, <1>3, PTL DEF Spec, TypingKept

---------------------------------------------------------------------------
(* Documents.                                                              *)

\* What the server has, or had before it was archived.
Had == held \cup archived

\* A mark on the checklist was earned by the loan it is for, unless that loan's
\* checklist took a stray one.
Marks ==
  \A t \in DOMAIN checklist :
    checklist[t] = "uploaded" => docLoan \in stray \/ docLoan \notin Loans \/ <<docLoan, t>> \in Had

\* A loan that passed its checklist has, or had, the documents.
Passed ==
  \A g \in gated :
    g[1] \in stray \/ g[1] \notin Loans \/ \A t \in Required[g[2]] : <<g[1], t>> \in Had

\* The steps of the document store.
DocStep ==
  \/ UNCHANGED docVars
  \/ \E p, l : D!GenerateChecklist(p, l)
  \/ \E t, l : D!StartUpload(t, l)
  \/ \E t : D!RemoveDocument(t) \/ D!Uploaded(t) \/ D!UploadFails(t)
  \/ \E p, k, q, l : D!GenerateTwice(p, k, q, l)
  \/ \E l, t : D!DocumentsLoaded(l) \/ D!ArchiveDocument(l, t)
  \/ D!DocReload

\* A step of the wizard is one of the documents, and passes the check of missing
\* documents only where the user submits.
LEMMA DocSteps ==
  ASSUME [Next]_vars
  PROVE  DocStep /\ (gated' = gated \/ \E s \in Savers : ClickSubmit(s) /\ UNCHANGED docVars)
<1> DEFINE G == DocStep /\ gated' = gated
<1>1. ASSUME ShowDocuments PROVE DocStep BY <1>1 DEF ShowDocuments, DocStep
<1>2. ASSUME UNCHANGED docVars PROVE DocStep BY <1>2 DEF DocStep
<1>3. CASE StartLoan \/ StartLocal \/ StartAnswers \/ StartUnanswered
  BY <1>1, <1>2, <1>3 DEF StartLoan, StartLocal, StartAnswers, StartUnanswered, pageVars
<1>4. ASSUME NEW l, NEW at, Mount(l, at) PROVE DocStep BY <1>2, <1>4 DEF Mount, DocStep
<1>5. ASSUME NEW ps, TypeOnPage(ps) PROVE G BY <1>2, <1>5 DEF TypeOnPage
<1>6. ASSUME NEW at, GoToStep(at) PROVE G BY <1>1, <1>6 DEF GoToStep
<1>7. ASSUME NEW s \in Savers, ClickSave(s) \/ Continue(s) \/ RetrySubmit(s) \/ Background(s) PROVE G
  BY <1>2, <1>7 DEF ClickSave, Continue, RetrySubmit, Background, Autosave, Saving, SaveEnds, pageVars
<1>8. ASSUME NEW s \in Savers, ClickSubmit(s) PROVE UNCHANGED docVars /\ DocStep
  BY <1>2, <1>8 DEF ClickSubmit
<1>9. ASSUME NEW t, Upload(t) \/ RemoveUpload(t) PROVE G
  BY <1>9 DEF Upload, RemoveUpload, pageVars, DocStep
<1>10. CASE ChangeCoBorrower \/ Leave \/ LoseToken \/ ReturnToken
  BY <1>2, <1>10 DEF ChangeCoBorrower, Leave, LoseToken, ReturnToken, pageVars
<1>11. CASE ReloadTab BY <1>11 DEF ReloadTab, DocStep
<1>12. CASE Navigate BY <1>1, <1>4, <1>12 DEF Navigate
<1>13. CASE SendSubmit \/ AnswerSubmit BY <1>2, <1>13 DEF SendSubmit, AnswerSubmit
<1>14. CASE DocumentAnswers \/ ArchiveElsewhere
  BY <1>14 DEF DocumentAnswers, ArchiveElsewhere, pageVars, DocStep
<1>15. CASE UNCHANGED vars BY <1>2, <1>15 DEF vars, pageVars
<1>16. ASSUME NEW l, OpenLoan(l) PROVE G BY <1>4, <1>16 DEF OpenLoan
<1> QED BY <1>3, <1>5, <1>6, <1>7, <1>8, <1>9, <1>10, <1>11, <1>12, <1>13, <1>14, <1>15, <1>16
        DEF Next, UserMove

\* Marks made for the loan l, which has the documents.
LEMMA MarksMade ==
  ASSUME Marks, NEW l, NEW ts, checklist' = D!Marked(ts), stray' = D!Strays(l, ts),
         docLoan' = docLoan, Had \subseteq Had',
         l = docLoan => docLoan \notin Loans \/ \A t \in ts : <<docLoan, t>> \in Had'
  PROVE  Marks' /\ stray \subseteq stray'
<1>1. stray \subseteq stray' BY DEF D!Strays
<1>2. DOMAIN checklist' = DOMAIN checklist
      /\ \A t \in DOMAIN checklist : checklist'[t] = IF t \in ts THEN "uploaded" ELSE checklist[t]
  BY DEF D!Marked
<1>3. ASSUME NEW t \in DOMAIN checklist', checklist'[t] = "uploaded"
      PROVE  docLoan' \in stray' \/ docLoan' \notin Loans \/ <<docLoan', t>> \in Had'
  <2>1. CASE t \notin ts BY <1>1, <1>2, <1>3, <2>1 DEF Marks
  <2>2. CASE t \in ts /\ l # docLoan
    <3>1. ts \cap DOMAIN checklist # {} BY <1>2, <2>2
    <3> QED BY <2>2, <3>1 DEF D!Strays
  <2>3. CASE t \in ts /\ l = docLoan BY <2>3
  <2> QED BY <2>1, <2>2, <2>3
<1> QED BY <1>1, <1>3 DEF Marks

\* A document marked uploaded was received for some loan: no step breaks that, nor
\* forgets a document received.
LEMMA MarksStep ==
  ASSUME Marks, DocStep
  PROVE  Marks' /\ Had \subseteq Had' /\ stray \subseteq stray'
<1> DEFINE G == Marks' /\ Had \subseteq Had' /\ stray \subseteq stray'
<1>1. CASE UNCHANGED docVars BY <1>1 DEF docVars, Marks, Had
<1>2. ASSUME NEW p, NEW l, D!GenerateChecklist(p, l) PROVE G
  <2>1. /\ docLoan' = l /\ UNCHANGED <<held, archived, stray>> /\ DOMAIN checklist' = Required[p]
        /\ \A t \in Required[p] : checklist'[t] =
             IF l = docLoan /\ t \in DOMAIN checklist THEN checklist[t] ELSE "not_started"
    BY <1>2 DEF D!GenerateChecklist, D!Made
  <2> QED BY <2>1 DEF Marks, Had
<1>3. ASSUME NEW t, NEW l, D!StartUpload(t, l) PROVE G
  <2>1. docLoan' = docLoan /\ Had' = Had BY <1>3 DEF D!StartUpload, Had
  <2>2. CASE l \in Loans
    <3>1. UNCHANGED <<checklist, stray>> BY <1>3, <2>2 DEF D!StartUpload
    <3> QED BY <2>1, <3>1 DEF Marks
  <2>3. CASE l \notin Loans
    <3>1. checklist' = D!Marked({t}) /\ stray' = D!Strays(l, {t}) BY <1>3, <2>3 DEF D!StartUpload
    <3> QED BY <2>1, <2>3, <3>1, MarksMade
  <2> QED BY <2>2, <2>3
<1>4. ASSUME NEW t, D!RemoveDocument(t) PROVE G
  <2>1. checklist' = [checklist EXCEPT ![t] = "not_started"] /\ UNCHANGED <<docLoan, stray>> /\ Had' = Had
    BY <1>4 DEF D!RemoveDocument, Had
  <2> QED BY <2>1 DEF Marks
<1>5. ASSUME NEW t, D!Uploaded(t) PROVE G
  <2>1. PICK l : l = uploading[t] OBVIOUS
  <2>2. /\ Had' = Had \cup {<<l, t>>} /\ docLoan' = docLoan
        /\ checklist' = D!Marked({t}) /\ stray' = D!Strays(l, {t})
    BY <1>5, <2>1 DEF D!Uploaded, Had
  <2> QED BY <2>2, MarksMade
<1>6. ASSUME NEW t, D!UploadFails(t) PROVE G
  <2>1. UNCHANGED <<docLoan, checklist, stray>> /\ Had \subseteq Had' BY <1>6 DEF D!UploadFails, Had
  <2> QED BY <2>1 DEF Marks
<1>7. ASSUME NEW l, D!DocumentsLoaded(l) PROVE G
  <2>1. PICK ts \in SUBSET {t \in D!Types : <<l, t>> \in held \cup archived} :
          checklist' = D!Marked(ts) /\ stray' = D!Strays(l, ts)
    BY <1>7 DEF D!DocumentsLoaded
  <2>2. docLoan' = docLoan /\ Had' = Had /\ \A t \in ts : <<l, t>> \in Had
    BY <1>7 DEF D!DocumentsLoaded, Had
  <2> QED BY <2>1, <2>2, MarksMade
<1>8. ASSUME NEW p, NEW k, NEW q, NEW l, D!GenerateTwice(p, k, q, l) PROVE G
  <2>1. /\ docLoan' = l /\ stray' = stray /\ Had' = Had /\ DOMAIN checklist' = Required[q]
        /\ \A t \in Required[q] : checklist'[t] =
             IF l = k /\ t \in Required[p] /\ k = docLoan /\ t \in DOMAIN checklist
             THEN checklist[t] ELSE "not_started"
    BY <1>8 DEF D!GenerateTwice, D!Made, Had
  <2> QED BY <2>1 DEF Marks
<1>9. CASE D!DocReload BY <1>9 DEF D!DocReload, Marks, Had
<1>10. ASSUME NEW l, NEW t, D!ArchiveDocument(l, t) PROVE G
  <2>1. UNCHANGED <<docLoan, checklist, stray>> /\ Had' = Had BY <1>10 DEF D!ArchiveDocument, Had
  <2> QED BY <2>1 DEF Marks
<1> QED BY <1>1, <1>2, <1>3, <1>4, <1>5, <1>6, <1>7, <1>8, <1>9, <1>10 DEF DocStep

\* What passed the check of missing documents had each of them.
LEMMA PassedStep ==
  ASSUME Marks, Passed, [Next]_vars
  PROVE  Marks' /\ Passed'
<1>1. DocStep /\ (gated' = gated \/ \E s \in Savers : ClickSubmit(s) /\ UNCHANGED docVars) BY DocSteps
<1>2. Marks' /\ Had \subseteq Had' /\ stray \subseteq stray' BY <1>1, MarksStep
<1>3. CASE gated' = gated BY <1>2, <1>3 DEF Passed
<1>4. ASSUME NEW s \in Savers, ClickSubmit(s) PROVE Passed'
  <2>1. D!MissingDocs = {} BY <1>4 DEF ClickSubmit, ReviewErrors
  <2>2. \A t \in DOMAIN checklist : checklist[t] = "uploaded" BY <2>1 DEF D!MissingDocs
  <2>3. \/ gated' = gated
        \/ /\ docLoan = draft.loan /\ DOMAIN checklist = Required[draft.product]
           /\ gated' = gated \cup {<<draft.loan, draft.product>>}
    BY <1>4 DEF ClickSubmit
  <2>4. ASSUME NEW g \in gated'
        PROVE  g[1] \in stray' \/ g[1] \notin Loans \/ \A t \in Required[g[2]] : <<g[1], t>> \in Had'
    <3>1. CASE g \in gated BY <1>2, <3>1 DEF Passed
    <3>2. CASE g = <<draft.loan, draft.product>> /\ docLoan = draft.loan
               /\ DOMAIN checklist = Required[draft.product]
      <4>1. g[1] = docLoan /\ Required[g[2]] = DOMAIN checklist BY <3>2
      <4>2. ASSUME NEW t \in DOMAIN checklist
            PROVE  docLoan \in stray \/ docLoan \notin Loans \/ <<docLoan, t>> \in Had
        BY <2>2 DEF Marks
      <4> QED BY <1>2, <4>1, <4>2
    <3> QED BY <2>3, <3>1, <3>2
  <2> QED BY <2>4 DEF Passed
<1> QED BY <1>1, <1>2, <1>3, <1>4

\* A loan submitted past its own checklist has had the documents of its program,
\* though some may be archived since, unless the checklist took a mark that
\* another loan earned, as it can when an answer comes after the loan on show has
\* changed (documentStore.ts).
THEOREM DocumentsFirst == Spec => []DocumentsBeforeSubmission
<1>1. WizardInit => Marks /\ Passed
  BY DEF WizardInit, D!DocInit, D!Fresh, Marks, Passed
<1>2. Marks /\ Passed /\ [Next]_vars => Marks' /\ Passed' BY PassedStep
<1>3. Passed => DocumentsBeforeSubmission BY DEF Passed, DocumentsBeforeSubmission, Had
<1> QED BY <1>1, <1>2, <1>3, PTL DEF Spec

---------------------------------------------------------------------------
(* The property's row.                                                     *)

\* The row n is of the loan l, unless what happened to l says otherwise.
PlaceOf(n, l, v, f) ==
  n = 0 \/ v.places[n].loan = l \/ f[l] \cap {"switched", "late"} # {}

\* Every property row of the server is that of the loan which sent it, or was
\* sent after its loan was switched or answered late.
RowsPlaced(v, f) == \A n \in 1..Len(v.places) : PlaceOf(n, v.places[n].by, v, f)

\* The property id of the store, and of each save, is of a row of its loan.
Placed ==
  /\ PlaceOf(ids.place, draft.loan, server, faults)
  /\ \A s \in Savers : PlaceOf(saves[s].ids.place, saves[s].draft.loan, server, faults)
  /\ RowsPlaced(server, faults)

\* Rows and causes gather, and ids stay those of rows of their loan.
LEMMA PlaceStays ==
  ASSUME NEW v \in Server, NEW w \in Server, GrowsTo(v, w), NEW n \in Nat, n <= Len(v.places),
         NEW f \in [Ids -> SUBSET Causes], NEW g \in [Ids -> SUBSET Causes],
         \A l \in Ids : f[l] \subseteq g[l], NEW l \in Ids, PlaceOf(n, l, v, f)
  PROVE  PlaceOf(n, l, w, g)
<1>1. n = 0 \/ n \in 1..Len(v.places) BY DEF Server
<1>2. CASE n = 0 BY <1>2 DEF PlaceOf
<1>3. CASE n \in 1..Len(v.places) /\ v.places[n].loan = l BY <1>3 DEF PlaceOf, GrowsTo
<1>4. CASE f[l] \cap {"switched", "late"} # {} BY <1>4 DEF PlaceOf
<1> QED BY <1>1, <1>2, <1>3, <1>4 DEF PlaceOf

\* A request writes the row of its loan, or the one its id is of.
LEMMA ServedPlaced ==
  ASSUME StoreTypes, NEW d \in Draft, NEW i \in IdMap, Points(i, server), NEW call \in Request,
         d.loan \in Loans, PlaceOf(i.place, d.loan, server, faults), RowsPlaced(server, faults)
  PROVE  /\ PlaceOf(Learned(call, d, i).place, d.loan, Served(call, d, i), faults)
         /\ RowsPlaced(Served(call, d, i), faults)
<1>1. PICK w : w = Served(call, d, i) OBVIOUS
<1>2. PICK j : j = Learned(call, d, i) OBVIOUS
<1>3. server \in Server /\ Len(server.places) \in Nat BY DEF StoreTypes, Server
<1>4. CASE call # "property"
  <2>1. w.places = server.places /\ j.place = i.place
    <3>1. CASE call = "figures" BY <1>1, <1>2, <3>1, ServedFigures
    <3>2. CASE call \in Calling
      <4>1. PICK who : who = Who(d, call) OBVIOUS
      <4> QED BY <1>1, <1>2, <3>2, <4>1, ServedBorrower
    <3> QED BY <1>4, <3>1, <3>2 DEF Request, Calling
  <2> QED BY <1>1, <1>2, <2>1 DEF PlaceOf, RowsPlaced
<1>5. CASE call = "property"
  <2>1. /\ w \in Server /\ GrowsTo(server, w)
        /\ j.place # 0 /\ i.place \in {0, j.place}
        /\ RowPut(server.places, w.places, j.place,
                  [loan |-> w.places[j.place].loan, by |-> d.loan, text |-> d.text["property"]])
        /\ i.place = 0 => w.places[j.place].loan = d.loan
    BY <1>1, <1>2, <1>5, ServedProperty
  <2>2. PICK n : n = j.place OBVIOUS
  <2>3. PICK row : row = w.places[n] OBVIOUS
  <2>4. row.by = d.loan
    <3>1. row = [loan |-> w.places[n].loan, by |-> d.loan, text |-> d.text["property"]]
      BY <2>1, <2>2, <2>3 DEF RowPut
    <3> QED BY <3>1
  <2>5. row.loan = d.loan \/ faults[d.loan] \cap {"switched", "late"} # {}
    <3>1. CASE i.place = 0 BY <2>1, <2>2, <2>3, <3>1
    <3>2. CASE i.place = n /\ n # 0
      <4>1. n \in 1..Len(server.places) BY <1>3, <3>2 DEF Points, IdMap
      <4>2. w.places[n].loan = server.places[n].loan BY <2>1, <4>1 DEF GrowsTo
      <4> QED BY <2>3, <3>2, <4>2 DEF PlaceOf
    <3> QED BY <2>1, <2>2, <3>1, <3>2
  <2>6. PlaceOf(n, d.loan, w, faults) BY <2>3, <2>5 DEF PlaceOf
  <2>7. ASSUME NEW m \in 1..Len(w.places) PROVE PlaceOf(m, w.places[m].by, w, faults)
    <3>1. CASE m = n BY <2>3, <2>4, <2>6, <3>1
    <3>2. CASE m # n
      <4>1. m \in 1..Len(server.places) /\ w.places[m] = server.places[m]
        BY <2>1, <2>2, <3>2 DEF RowPut
      <4> QED BY <4>1 DEF RowsPlaced, PlaceOf
    <3> QED BY <3>1, <3>2
  <2> QED BY <1>1, <1>2, <2>2, <2>6, <2>7 DEF RowsPlaced
<1> QED BY <1>4, <1>5

\* Rows stay where they are while the places do.
LEMMA PlacedKept ==
  ASSUME StoreTypes, Placed, server'.places = server.places, faults' \in [Ids -> SUBSET Causes],
         FaultsGrow,
         \/ ids'.place = 0
         \/ ids' = ids /\ draft'.loan = draft.loan
         \/ draft'.loan \in Ids /\ faults'[draft'.loan] \cap {"switched", "late"} # {}
         \/ \E s \in Savers : ids' = saves[s].ids /\ draft'.loan = saves[s].draft.loan,
         \A s \in Savers : \/ saves'[s].ids.place = 0
                           \/ saves'[s].ids = saves[s].ids /\ saves'[s].draft.loan = saves[s].draft.loan
                           \/ saves'[s].ids = ids /\ saves'[s].draft.loan = draft.loan
  PROVE  Placed'
<1>1. /\ draft.loan \in Ids /\ \A s \in Savers : saves[s].draft.loan \in Ids
      /\ server \in Server /\ \A n \in 1..Len(server.places) : server.places[n].by \in Ids
  <2>1. server \in Server /\ server.places \in Seq(Place) BY DEF StoreTypes, Server
  <2>2. \A n \in 1..Len(server.places) : server.places[n] \in Place BY <2>1, ElementOfSeq
  <2> QED BY <2>1, <2>2 DEF StoreTypes, Draft, Save, Place, Ids
<1>2. ASSUME NEW l \in Ids, NEW n, PlaceOf(n, l, server, faults) PROVE PlaceOf(n, l, server', faults')
  BY <1>2 DEF PlaceOf, FaultsGrow
<1>3. PlaceOf(ids'.place, draft'.loan, server', faults')
  <2>1. CASE ids'.place = 0 \/ faults'[draft'.loan] \cap {"switched", "late"} # {}
    BY <2>1 DEF PlaceOf
  <2>2. CASE ids' = ids /\ draft'.loan = draft.loan BY <1>1, <1>2, <2>2 DEF Placed
  <2>3. ASSUME NEW s \in Savers, ids' = saves[s].ids, draft'.loan = saves[s].draft.loan
        PROVE  PlaceOf(ids'.place, draft'.loan, server', faults')
    BY <1>1, <1>2, <2>3 DEF Placed
  <2> QED BY <2>1, <2>2, <2>3
<1>4. ASSUME NEW s \in Savers PROVE PlaceOf(saves'[s].ids.place, saves'[s].draft.loan, server', faults')
  <2>1. CASE saves'[s].ids.place = 0 BY <2>1 DEF PlaceOf
  <2>2. CASE saves'[s].ids = saves[s].ids /\ saves'[s].draft.loan = saves[s].draft.loan
    BY <1>1, <1>2, <2>2 DEF Placed
  <2>3. CASE saves'[s].ids = ids /\ saves'[s].draft.loan = draft.loan
    BY <1>1, <1>2, <2>3 DEF Placed
  <2> QED BY <2>1, <2>2, <2>3
<1>5. RowsPlaced(server', faults')
  <2>1. ASSUME NEW n \in 1..Len(server.places)
        PROVE  PlaceOf(n, server.places[n].by, server', faults')
    BY <1>1, <1>2 DEF Placed, RowsPlaced
  <2> QED BY <2>1 DEF RowsPlaced
<1> QED BY <1>3, <1>4, <1>5 DEF Placed

\* Every step keeps the property a draft points to one of its loan.
LEMMA PlacedStep ==
  ASSUME StoreTypes, Pointing, Timely, Placed, StoreStep
  PROVE  Placed'
<1>0. /\ StoreTypes' /\ Pointing' /\ FaultsGrow /\ limit' = limit
      /\ server \in Server /\ saves \in [Savers -> Save] /\ faults \in [Ids -> SUBSET Causes]
      /\ ids \in IdMap /\ draft \in Draft
  BY StoreStepTypes DEF StoreTypes
<1>1. Server' = Server /\ Draft' = Draft BY <1>0, SameBounds
<1>2. faults' \in [Ids -> SUBSET Causes] /\ server' \in Server /\ draft'.loan \in Ids
  BY <1>0, <1>1 DEF StoreTypes, Draft
<1>3. ASSUME server'.places = server.places, ids'.place = 0 \/ (ids' = ids /\ draft'.loan = draft.loan),
             \A t \in Savers : saves'[t] \in {saves[t], Idle}
      PROVE  Placed'
  <2>1. Idle.ids.place = 0 BY DEF Idle
  <2> QED BY <1>0, <1>2, <1>3, <2>1, PlacedKept
<1>4. ASSUME NEW l \in Ids, NEW d \in Draft, Begins(l, d) PROVE Placed'
  <2>1. ids' = FreshIds /\ server' = server /\ FreshIds.place = 0 BY <1>4 DEF Begins, FreshIds
  <2>2. CASE saves' = saves BY <1>3, <2>1, <2>2
  <2>3. ASSUME NEW s \in Savers, SaveBegins(s, d, FreshIds, [go |-> "form", loan |-> l])
        PROVE  Placed'
    <3>1. saves' = [saves EXCEPT ![s] = [on |-> TRUE, draft |-> d, ids |-> FreshIds, todo |-> Calls(d),
                                         then |-> [go |-> "form", loan |-> l]]]
      BY <2>3 DEF SaveBegins
    <3>2. \A t \in Savers : saves'[t] = saves[t] \/ saves'[t].ids.place = 0
      BY <1>0, <2>1, <3>1
    <3> QED BY <1>0, <1>2, <2>1, <3>2, PlacedKept
  <2> QED BY <1>4, <2>2, <2>3 DEF Begins
<1>5. ASSUME NEW l \in Ids, Opening(l) PROVE Placed'
  <2>0. HydrateFromApi(l) BY <1>5 DEF Opening
  <2>1. saves' = saves /\ ids' = ids /\ server' = server BY <2>0 DEF HydrateFromApi
  <2>2. draft'.loan = l BY <2>0, HydratedLoan
  <2>3. CASE draft.loan = l BY <1>3, <2>1, <2>2, <2>3
  <2>4. CASE draft.loan # l
    <3>1. faults' = Blame({draft.loan, l}, "switched") BY <2>0, <2>4 DEF HydrateFromApi
    <3>2. "switched" \in Causes BY DEF Causes
    <3>3. "switched" \in faults'[l] BY <1>0, <3>1, <3>2, BlameTyped
    <3> QED BY <1>0, <1>2, <2>1, <2>2, <3>3, PlacedKept
  <2> QED BY <2>3, <2>4
<1>6. CASE Typing
  <2>1. saves' = saves /\ ids' = ids /\ server' = server
    BY <1>6 DEF Typing, Type, AddCoBorrower, RemoveBorrower
  <2>2. draft'.loan = draft.loan BY <1>6, TypedLoan
  <2> QED BY <1>3, <2>1, <2>2
<1>7. ASSUME NEW s \in Savers, NEW then \in Then, StartSave(s, then) PROVE Placed'
  <2>1. UNCHANGED <<draft, ids, server>> BY <1>7 DEF StartSave
  <2>2. saves' = [saves EXCEPT ![s] = [on |-> TRUE, draft |-> draft, ids |-> ids,
                                       todo |-> Calls(draft), then |-> then]]
    BY <1>7 DEF StartSave, SaveBegins
  <2>3. \A t \in Savers : saves'[t] = saves[t]
                            \/ (saves'[t].ids = ids /\ saves'[t].draft.loan = draft.loan)
    BY <1>0, <2>2
  <2> QED BY <1>0, <1>2, <2>1, <2>3, PlacedKept
<1>8. ASSUME NEW s \in Savers, SaveCall(s) \/ SaveFails(s) PROVE Placed'
  <2>1. PICK v : v = saves[s] OBVIOUS
  <2>2. PICK call : call = Head(v.todo) OBVIOUS
  <2>3. PICK u : u = saves'[s] OBVIOUS
  <2>4. v.todo # <<>> BY <1>8, <2>1 DEF SaveCall, SaveFails
  <2>5. /\ v.draft \in Draft /\ v.ids \in IdMap /\ v.todo \in Seq(Request) /\ Points(v.ids, server)
        /\ v.draft.loan \in Loans
    BY <1>0, <2>1, <2>4 DEF Save, Pointing
  <2>6. call \in Request BY <2>2, <2>4, <2>5, HeadTailProperties
  <2>7. PICK w : w = Served(call, v.draft, v.ids) OBVIOUS
  <2>8. PICK j : j = Learned(call, v.draft, v.ids) OBVIOUS
  <2>9. PlaceOf(j.place, v.draft.loan, w, faults) /\ RowsPlaced(w, faults)
    BY <2>1, <2>5, <2>6, <2>7, <2>8, ServedPlaced DEF Placed
  <2>10. w \in Server /\ GrowsTo(server, w) BY <2>5, <2>6, <2>7, ServedTyped
  <2>11. ids' = ids /\ draft' = draft BY <1>8 DEF SaveCall, SaveFails
  <2>12. server' \in {server, w}
    <3>1. CASE SaveCall(s) BY <2>1, <2>2, <2>7, <3>1, CallSteps
    <3>2. CASE SaveFails(s) BY <2>1, <2>2, <2>7, <3>2 DEF SaveFails
    <3> QED BY <1>8, <3>1, <3>2
  <2>13. GrowsTo(server, server') BY <1>0, <2>10, <2>12, GrowsSame
  <2>14. \A t \in Savers : t # s => saves'[t] = saves[t]
    <3>1. CASE SaveCall(s) BY <3>1, CallSteps
    <3>2. CASE SaveFails(s) BY <1>0, <3>2 DEF SaveFails
    <3> QED BY <1>8, <3>1, <3>2
  <2>15. \/ u.ids.place = 0
         \/ u.ids = v.ids /\ u.draft.loan = v.draft.loan
         \/ u.ids = j /\ u.draft.loan = v.draft.loan /\ server' = w
    <3>1. CASE SaveCall(s) BY <2>1, <2>2, <2>3, <2>7, <2>8, <3>1, CallSteps
    <3>2. CASE SaveFails(s)
      <4>1. u = Idle BY <1>0, <2>3, <3>2 DEF SaveFails
      <4> QED BY <4>1 DEF Idle
    <3> QED BY <1>8, <3>1, <3>2
  <2>16. ASSUME NEW n \in Nat, n <= Len(server.places), NEW l \in Ids, PlaceOf(n, l, server, faults)
         PROVE  PlaceOf(n, l, server', faults')
    BY <1>0, <1>2, <2>13, <2>16, PlaceStays DEF FaultsGrow
  <2>17. ASSUME NEW n, NEW l \in Ids, PlaceOf(n, l, server', faults) PROVE PlaceOf(n, l, server', faults')
    BY <1>0, <2>17 DEF PlaceOf, FaultsGrow
  <2>18. PlaceOf(ids'.place, draft'.loan, server', faults')
    BY <1>0, <2>11, <2>16 DEF Placed, Pointing, Points, IdMap, Draft
  <2>19. ASSUME NEW t \in Savers PROVE PlaceOf(saves'[t].ids.place, saves'[t].draft.loan, server', faults')
    <3>1. PlaceOf(saves[t].ids.place, saves[t].draft.loan, server', faults')
      <4>1. saves[t].ids \in IdMap /\ saves[t].draft.loan \in Ids BY <1>0 DEF Save, Draft
      <4>2. saves[t].ids.place \in Nat /\ saves[t].ids.place <= Len(server.places)
        BY <1>0, <4>1 DEF Pointing, Points, IdMap
      <4>3. PlaceOf(saves[t].ids.place, saves[t].draft.loan, server, faults) BY DEF Placed
      <4> QED BY <2>16, <4>1, <4>2, <4>3
    <3>2. CASE t # s BY <2>14, <3>1, <3>2
    <3>3. CASE t = s
      <4>1. CASE u.ids.place = 0 BY <2>3, <3>3, <4>1 DEF PlaceOf
      <4>2. CASE u.ids = v.ids /\ u.draft.loan = v.draft.loan BY <2>1, <2>3, <3>1, <3>3, <4>2
      <4>3. CASE u.ids = j /\ u.draft.loan = v.draft.loan /\ server' = w
        BY <2>3, <2>5, <2>9, <2>17, <3>3, <4>3 DEF Ids
      <4> QED BY <2>15, <4>1, <4>2, <4>3
    <3> QED BY <3>2, <3>3
  <2>20. RowsPlaced(server', faults')
    <3>1. RowsPlaced(server', faults) BY <2>9, <2>12 DEF Placed
    <3>2. server'.places \in Seq(Place) BY <1>2 DEF Server
    <3>3. ASSUME NEW n \in 1..Len(server'.places)
          PROVE  PlaceOf(n, server'.places[n].by, server', faults')
      <4>1. server'.places[n].by \in Ids
        <5>1. server'.places[n] \in Place BY <3>2, ElementOfSeq
        <5> QED BY <5>1 DEF Place, Ids
      <4> QED BY <2>17, <3>1, <4>1 DEF RowsPlaced
    <3> QED BY <3>3 DEF RowsPlaced
  <2> QED BY <2>18, <2>19, <2>20 DEF Placed
<1>9. ASSUME NEW s \in Savers, SaveDone(s) PROVE Placed'
  <2>1. server' = server /\ saves' = [saves EXCEPT ![s] = Idle] /\ draft'.loan = draft.loan
    BY <1>0, <1>9 DEF SaveDone, Draft
  <2>2. ids' = ids \/ ids' = saves[s].ids BY <1>9 DEF SaveDone
  <2>3. \A t \in Savers : saves'[t] \in {saves[t], Idle} BY <2>1, FreedSlots
  <2>4. CASE saves[s].draft.loan = draft.loan
    <3>1. Idle.ids.place = 0 BY DEF Idle
    <3> QED BY <1>0, <1>2, <2>1, <2>2, <2>3, <2>4, <3>1, PlacedKept
  <2>5. CASE saves[s].draft.loan # draft.loan
    <3>1. faults' = Blame({draft.loan}, "late") BY <1>9, <2>5 DEF SaveDone
    <3>2. "late" \in Causes BY DEF Causes
    <3>3. "late" \in faults'[draft.loan] BY <1>0, <3>1, <3>2, BlameTyped DEF Draft
    <3>4. Idle.ids.place = 0 BY DEF Idle
    <3> QED BY <1>0, <1>2, <2>1, <2>3, <3>3, <3>4, PlacedKept
  <2> QED BY <2>4, <2>5
<1>10. CASE Reload
  <2>1. server' = server /\ ids' = ids /\ draft'.loan = draft.loan
    BY <1>0, <1>10, StripTyped DEF Reload
  <2>2. \A t \in Savers : saves'[t] \in {saves[t], Idle} BY <1>10, FreedSlots DEF Reload
  <2> QED BY <1>3, <2>1, <2>2
<1>11. CASE Submitting
  <2>1. saves' = saves /\ ids' = ids
    BY <1>11 DEF Submitting, SubmitTaken, SubmitRefused, SubmitFails, SubmitUnanswered, SubmitAnswered
  <2>2. draft'.loan = draft.loan BY <1>11, SubmitTypes DEF Submitting
  <2>3. server'.places = server.places
    <3>1. \/ server' = server
          \/ draft.loan \in Loans /\ server' = [server EXCEPT !.status[draft.loan] = "submitted"]
      BY <1>11 DEF Submitting, SubmitTaken, Sends, SubmitRefused, SubmitFails, SubmitUnanswered, SubmitAnswered
    <3> QED BY <1>0, <3>1 DEF Server
  <2> QED BY <1>3, <2>1, <2>2, <2>3
<1>12. CASE Quiet BY <1>3, <1>12 DEF Quiet
<1>13. CASE Asking
  <2>1. PICK e \in 0..limit.edits : AskDraft(e) BY <1>13 DEF Asking
  <2>2. UNCHANGED <<draft, ids, saves>> BY <2>1 DEF AskDraft
  <2>3. server'.places = server.places BY <1>0, <2>1 DEF AskDraft, Server
  <2> QED BY <1>3, <2>2, <2>3
<1> QED BY <1>4, <1>5, <1>6, <1>7, <1>8, <1>9, <1>10, <1>11, <1>12, <1>13 DEF StoreStep

\* A property's row holds what was typed for its own loan, unless the store took
\* up a loan with the property id of another: by going from one to the other, or
\* by a save of the former that ended late (submissionStore.ts 203-228).
THEOREM PropertyKept == Spec => []PropertyOfItsLoan
<1> DEFINE Inv == TypeInv /\ Timely /\ Placed
<1>1. WizardInit => Inv
  <2> SUFFICES ASSUME WizardInit PROVE Inv OBVIOUS
  <2>1. /\ ids = [who |-> NoIds, place |-> 0] /\ saves = [s \in Savers |-> Idle]
        /\ server.places = <<>>
    BY DEF WizardInit, SubInit, EmptyServer
  <2>2. Placed BY <2>1 DEF Placed, PlaceOf, RowsPlaced, Idle
  <2> QED BY <2>2, InitTypes, InitTimely
<1>2. Inv /\ [Next]_vars => Inv'
  <2> SUFFICES ASSUME Inv, [Next]_vars PROVE Inv' OBVIOUS
  <2>1. TypeInv' /\ StoreStep BY TypeStep
  <2>2. Timely' BY <2>1, TimelyStep DEF TypeInv
  <2>3. Placed' BY <2>1, PlacedStep DEF TypeInv
  <2> QED BY <2>1, <2>2, <2>3
<1>3. Inv => PropertyOfItsLoan
  <2> SUFFICES ASSUME Inv, NEW n \in DOMAIN server.places
               PROVE  \/ server.places[n].by = server.places[n].loan
                      \/ faults[server.places[n].by] \cap {"switched", "late"} # {}
    BY DEF PropertyOfItsLoan
  <2>1. server.places \in Seq(Place) BY DEF TypeInv, StoreTypes, Server
  <2>2. n \in 1..Len(server.places) /\ n # 0 BY <2>1
  <2> QED BY <2>2 DEF Placed, RowsPlaced, PlaceOf
<1> QED BY <1>1, <1>2, <1>3, PTL DEF Spec

---------------------------------------------------------------------------
(* The borrowers' rows.                                                    *)

\* The server's rows of a borrower of a loan.
Rows(v, l, who) == {n \in 1..Len(v.people) : v.people[n].loan = l /\ v.people[n].who = who}

\* Nothing happened to the loan that its saves do not survive.
Sound(l) == faults[l] \cap {"overlap", "failed", "reload", "switched"} = {}

\* A save of the loan in flight is alone, and the loan is still the draft's.
Alone(l) ==
  \A s \in Savers : saves[s].on /\ saves[s].draft.loan = l =>
    draft.loan = l /\ \A t \in Savers : saves[t].on => t = s

\* A loan with rows is the draft's, and what is in flight is a save of it.
RowsOwn(l) ==
  \A who \in Borrower : Rows(server, l, who) # {} =>
    draft.loan = l /\ \A t \in Savers : saves[t].on => saves[t].draft.loan = l

\* The save in flight, or else the store, knows the row of each borrower.
RowsKnown(l) ==
  \A who \in Borrower :
    /\ \A s \in Savers : saves[s].on /\ saves[s].draft.loan = l =>
         Rows(server, l, who) \subseteq {saves[s].ids.who[<<l, who>>]}
    /\ (\A s \in Savers : saves[s].on => saves[s].draft.loan # l) =>
         Rows(server, l, who) \subseteq {ids.who[<<l, who>>]}

\* No borrower of the loan is there twice or about to be.
Single(l) == Alone(l) /\ RowsOwn(l) /\ RowsKnown(l)

\* A loan that has no rows and no save in flight.
Untouched(l) ==
  /\ \A s \in Savers : saves[s].on => saves[s].draft.loan # l
  /\ \A who \in Borrower : Rows(server, l, who) = {}

\* A loan without rows or saves has no borrower twice.
LEMMA UntouchedSingle ==
  ASSUME NEW l, Untouched(l)
  PROVE  Single(l)
BY DEF Untouched, Single, Alone, RowsOwn, RowsKnown

\* A loan other than the draft's is untouched, and so is one with another's save
\* in flight.
LEMMA OtherUntouched ==
  ASSUME NEW l, Single(l),
         draft.loan # l \/ \E s \in Savers : saves[s].on /\ saves[s].draft.loan # l
  PROVE  Untouched(l)
BY DEF Untouched, Single, Alone, RowsOwn

\* It stays so while others' requests are served.
LEMMA UntouchedStays ==
  ASSUME NEW l, Untouched(l),
         \A who \in Borrower : Rows(server', l, who) \subseteq Rows(server, l, who),
         \A s \in Savers : saves'[s].on => saves'[s].draft.loan # l
                                             \/ (saves[s].on /\ saves'[s].draft.loan = saves[s].draft.loan)
  PROVE  Single(l)'
<1>1. Untouched(l)' BY DEF Untouched
<1> QED BY <1>1 DEF Untouched, Single, Alone, RowsOwn, RowsKnown

\* A request of a save leaves the rows of other loans alone; if the save knew the
\* rows of its borrowers it goes on knowing them.
LEMMA ServedRows ==
  ASSUME StoreTypes, NEW d \in Draft, NEW i \in IdMap, Points(i, server), NEW call \in Request,
         d.loan \in Loans, NEW who \in Borrower
  PROVE  LET w == Served(call, d, i)
             j == Learned(call, d, i)
         IN  /\ \A l \in Loans : l # d.loan => Rows(w, l, who) \subseteq Rows(server, l, who)
             /\ Rows(server, d.loan, who) \subseteq {i.who[<<d.loan, who>>]} =>
                  Rows(w, d.loan, who) \subseteq {j.who[<<d.loan, who>>]}
<1>1. PICK w : w = Served(call, d, i) OBVIOUS
<1>2. PICK j : j = Learned(call, d, i) OBVIOUS
<1>3. CASE call \in {"figures", "property"}
  <2>1. w.people = server.people /\ j.who = i.who
    <3>1. CASE call = "figures" BY <1>1, <1>2, <3>1, ServedFigures
    <3>2. CASE call = "property" BY <1>1, <1>2, <3>2, ServedProperty
    <3> QED BY <1>3, <3>1, <3>2
  <2> QED BY <1>1, <1>2, <2>1 DEF Rows
<1>4. CASE call \in Calling
  <2>0. PICK c : c = Who(d, call) OBVIOUS
  <2>1. PICK row : row = [loan |-> d.loan, who |-> c, text |-> d.text[call]] OBVIOUS
  <2>2. PICK n : n = j.who[<<d.loan, c>>] OBVIOUS
  <2>3. /\ RowPut(server.people, w.people, n, row)
        /\ i.who[<<d.loan, c>>] \in {0, n}
        /\ \A e \in Client : e # <<d.loan, c>> => j.who[e] = i.who[e]
    BY <1>1, <1>2, <1>4, <2>0, <2>1, <2>2, ServedBorrower
  <2>4. row.loan = d.loan /\ row.who = c BY <2>1
  <2>5. /\ w.people[n] = row
        /\ \A m \in 1..Len(w.people) : m # n =>
             m \in 1..Len(server.people) /\ w.people[m] = server.people[m]
    BY <2>3 DEF RowPut
  <2>6. ASSUME NEW l \in Loans, l # d.loan PROVE Rows(w, l, who) \subseteq Rows(server, l, who)
    BY <2>4, <2>5, <2>6 DEF Rows
  <2>7. ASSUME Rows(server, d.loan, who) \subseteq {i.who[<<d.loan, who>>]},
               NEW m \in Rows(w, d.loan, who)
        PROVE  m = j.who[<<d.loan, who>>]
    <3>1. m \in 1..Len(w.people) /\ w.people[m].who = who /\ w.people[m].loan = d.loan BY DEF Rows
    <3>2. CASE m = n
      <4>1. who = c BY <2>4, <2>5, <3>1, <3>2
      <4> QED BY <2>2, <3>2, <4>1
    <3>3. CASE m # n
      <4>1. m \in Rows(server, d.loan, who) BY <2>5, <3>1, <3>3 DEF Rows
      <4>2. m = i.who[<<d.loan, who>>] /\ m # 0 BY <2>7, <3>1, <4>1
      <4>3. who # c BY <2>3, <3>3, <4>2
      <4>4. <<d.loan, who>> \in Client /\ <<d.loan, who>> # <<d.loan, c>>
        BY <4>3 DEF Client, Draft
      <4> QED BY <2>3, <4>2, <4>4
    <3> QED BY <3>2, <3>3
  <2> QED BY <1>1, <1>2, <2>6, <2>7
<1> QED BY <1>3, <1>4 DEF Request, Calling

\* The loan of the draft keeps its saves, its rows and its ids.
LEMMA SingleKept ==
  ASSUME NEW l, Single(l), draft'.loan = draft.loan, ids' = ids, saves' = saves,
         server'.people = server.people
  PROVE  Single(l)'
<1>1. \A who : Rows(server', l, who) = Rows(server, l, who) BY DEF Rows
<1> QED BY <1>1 DEF Single, Alone, RowsOwn, RowsKnown

\* Every step keeps the borrowers of a loan whose requests were orderly from being
\* there twice.
LEMMA SingleStep ==
  ASSUME StoreTypes, Pointing, StoreStep, NEW l \in Loans, Single(l), Sound(l)'
  PROVE  Single(l)'
<1>0. /\ FaultsGrow /\ l \in Ids /\ server \in Server /\ saves \in [Savers -> Save]
      /\ faults \in [Ids -> SUBSET Causes] /\ draft \in Draft
  BY StoreStepTypes DEF Ids, StoreTypes
<1>1. ASSUME NEW ls, NEW cause \in {"overlap", "failed", "reload", "switched"}, faults' = Blame(ls, cause)
      PROVE  l \notin ls
  <2>1. cause \in Causes BY DEF Causes
  <2>2. l \in ls => cause \in faults'[l] BY <1>0, <1>1, <2>1, BlameTyped
  <2> QED BY <2>2 DEF Sound
<1>2. ASSUME Untouched(l), \A s \in Savers : saves'[s] \in {saves[s], Idle}, server'.people = server.people
      PROVE  Single(l)'
  <2>1. ~Idle.on BY DEF Idle
  <2>2. \A who \in Borrower : Rows(server', l, who) \subseteq Rows(server, l, who) BY <1>2 DEF Rows
  <2>3. \A s \in Savers : saves'[s].on => saves[s].on /\ saves'[s].draft.loan = saves[s].draft.loan
    BY <1>2, <2>1
  <2> QED BY <1>2, <2>2, <2>3, UntouchedStays
<1>3. ASSUME NEW k \in Ids, NEW d \in Draft, Begins(k, d) PROVE Single(l)'
  <2>1. /\ draft' = d /\ d.loan = k /\ ids' = FreshIds /\ server' = server
        /\ \A m \in Ids : Replaced(k, Open)[m] \subseteq faults'[m]
    BY <1>3 DEF Begins
  <2>2. draft.loan # l
    <3>1. l = draft.loan => "switched" \in faults'[l] BY <1>0, <2>1 DEF Replaced
    <3> QED BY <3>1 DEF Sound
  <2>3. Untouched(l) BY <2>2, OtherUntouched
  <2>4. CASE saves' = saves BY <1>2, <2>1, <2>3, <2>4
  <2>5. ASSUME NEW s \in Savers, SaveBegins(s, d, FreshIds, [go |-> "form", loan |-> k]),
               \A m \in Overlapping(k) : m \in Ids => "overlap" \in faults'[m]
        PROVE  Single(l)'
    <3>1. PICK u : u = [on |-> TRUE, draft |-> d, ids |-> FreshIds, todo |-> Calls(d),
                        then |-> [go |-> "form", loan |-> k]]
      OBVIOUS
    <3>2. saves' = [saves EXCEPT ![s] = u] /\ u.on /\ u.draft = d BY <2>5, <3>1 DEF SaveBegins
    <3>3. saves'[s] = u /\ \A t \in Savers : t # s => saves'[t] = saves[t] BY <1>0, <3>2
    <3>4. CASE k # l
      <4>1. \A t \in Savers : saves'[t].on => saves'[t].draft.loan # l
                                 \/ (saves[t].on /\ saves'[t].draft.loan = saves[t].draft.loan)
        BY <2>1, <3>2, <3>3, <3>4
      <4> QED BY <2>1, <2>3, <4>1, UntouchedStays
    <3>5. CASE k = l
      <4>1. InFlight = {}
        <5>1. InFlight # {} => l \in Overlapping(k) BY <3>5 DEF Overlapping
        <5> QED BY <1>0, <2>5, <5>1 DEF Sound
      <4>2. \A t \in Savers : ~saves[t].on BY <4>1 DEF InFlight
      <4>3. \A t \in Savers : saves'[t].on => t = s BY <3>3, <4>2
      <4>4. \A who \in Borrower : Rows(server', l, who) = {} BY <2>1, <2>3 DEF Untouched
      <4>5. Alone(l)' BY <2>1, <3>5, <4>3 DEF Alone
      <4> QED BY <4>4, <4>5 DEF Single, RowsOwn, RowsKnown
    <3> QED BY <3>4, <3>5
  <2> QED BY <1>3, <2>4, <2>5 DEF Begins
<1>4. ASSUME NEW k \in Ids, Opening(k) PROVE Single(l)'
  <2>0. HydrateFromApi(k) BY <1>4 DEF Opening
  <2>1. saves' = saves /\ ids' = ids /\ server' = server /\ draft' = Hydrated(k)
    BY <2>0 DEF HydrateFromApi
  <2>2. CASE draft.loan = k
    <3>1. draft' = draft BY <2>1, <2>2, HydratedTyped DEF StoreTypes
    <3> QED BY <2>1, <3>1, SingleKept
  <2>3. CASE draft.loan # k
    <3>1. faults' = Blame({draft.loan, k}, "switched") BY <2>0, <2>3 DEF HydrateFromApi
    <3>2. Untouched(l) BY <1>1, <3>1, OtherUntouched
    <3> QED BY <1>2, <2>1, <3>2
  <2> QED BY <2>2, <2>3
<1>5. CASE Typing
  <2>1. saves' = saves /\ ids' = ids /\ server' = server
    BY <1>5 DEF Typing, Type, AddCoBorrower, RemoveBorrower
  <2>2. draft'.loan = draft.loan BY <1>5, TypedLoan
  <2> QED BY <2>1, <2>2, SingleKept
<1>6. ASSUME NEW s \in Savers, NEW then \in Then, StartSave(s, then) PROVE Single(l)'
  <2>1. UNCHANGED <<draft, ids, server>> BY <1>6 DEF StartSave
  <2>2. PICK u : u = [on |-> TRUE, draft |-> draft, ids |-> ids, todo |-> Calls(draft), then |-> then]
    OBVIOUS
  <2>3. saves' = [saves EXCEPT ![s] = u] /\ u.on /\ u.draft = draft /\ u.ids = ids
    BY <1>6, <2>2 DEF StartSave, SaveBegins
  <2>4. saves'[s] = u /\ \A t \in Savers : t # s => saves'[t] = saves[t] BY <1>0, <2>3
  <2>5. CASE draft.loan # l
    <3>1. Untouched(l) BY <2>5, OtherUntouched
    <3>2. \A t \in Savers : saves'[t].on => saves'[t].draft.loan # l
                                             \/ (saves[t].on /\ saves'[t].draft.loan = saves[t].draft.loan)
      BY <2>3, <2>4, <2>5
    <3> QED BY <2>1, <3>1, <3>2, UntouchedStays
  <2>6. CASE draft.loan = l
    <3>1. InFlight = {}
      <4>1. CASE InFlight # {}
        <5>1. faults' = Blame({saves[t].draft.loan : t \in InFlight} \cup {draft.loan}, "overlap")
          BY <1>6, <4>1 DEF StartSave, Overlapping
        <5> QED BY <1>1, <2>6, <5>1
      <4> QED BY <4>1
    <3>2. \A t \in Savers : ~saves[t].on BY <3>1 DEF InFlight
    <3>3. \A t \in Savers : saves'[t].on => t = s BY <2>4, <3>2
    <3>4. \A who \in Borrower : Rows(server, l, who) \subseteq {ids.who[<<l, who>>]}
      BY <3>2 DEF Single, RowsKnown
    <3>5. Alone(l)' BY <2>1, <2>6, <3>3 DEF Alone
    <3>6. RowsOwn(l)'
      <4>1. \A t \in Savers : saves'[t].on => saves'[t].draft.loan = l BY <2>3, <2>4, <2>6, <3>3
      <4> QED BY <2>1, <2>6, <4>1 DEF RowsOwn
    <3>7. RowsKnown(l)'
      <4>1. \A t \in Savers : saves'[t].on => saves'[t].ids = ids BY <2>3, <2>4, <3>3
      <4>2. saves'[s].on /\ saves'[s].draft.loan = l BY <2>3, <2>4, <2>6
      <4> QED BY <2>1, <3>4, <4>1, <4>2 DEF RowsKnown
    <3> QED BY <3>5, <3>6, <3>7 DEF Single
  <2> QED BY <2>5, <2>6
<1>7. ASSUME NEW s \in Savers, SaveCall(s) \/ SaveFails(s) PROVE Single(l)'
  <2>1. PICK v : v = saves[s] OBVIOUS
  <2>2. PICK call : call = Head(v.todo) OBVIOUS
  <2>3. PICK u : u = saves'[s] OBVIOUS
  <2>4. v.todo # <<>> /\ v.on BY <1>7, <2>1 DEF SaveCall, SaveFails
  <2>5. /\ v.draft \in Draft /\ v.ids \in IdMap /\ v.todo \in Seq(Request) /\ Points(v.ids, server)
        /\ v.draft.loan \in Loans
    BY <1>0, <2>1, <2>4 DEF Save, Pointing
  <2>6. call \in Request BY <2>2, <2>4, <2>5, HeadTailProperties
  <2>7. PICK w : w = Served(call, v.draft, v.ids) OBVIOUS
  <2>8. PICK j : j = Learned(call, v.draft, v.ids) OBVIOUS
  <2>9. ids' = ids /\ draft' = draft BY <1>7 DEF SaveCall, SaveFails
  <2>10. server' \in {server, w}
    <3>1. CASE SaveCall(s) BY <2>1, <2>2, <2>7, <3>1, CallSteps
    <3>2. CASE SaveFails(s) BY <2>1, <2>2, <2>7, <3>2 DEF SaveFails
    <3> QED BY <1>7, <3>1, <3>2
  <2>11. \A t \in Savers : t # s => saves'[t] = saves[t]
    <3>1. CASE SaveCall(s) BY <3>1, CallSteps
    <3>2. CASE SaveFails(s) BY <1>0, <3>2 DEF SaveFails
    <3> QED BY <1>7, <3>1, <3>2
  <2>12. u = Idle \/ (u.on /\ u.draft = v.draft)
    <3>1. CASE SaveCall(s) BY <2>1, <2>3, <3>1, CallSteps
    <3>2. CASE SaveFails(s) BY <1>0, <2>3, <3>2 DEF SaveFails
    <3> QED BY <1>7, <3>1, <3>2
  <2>13. CASE v.draft.loan # l
    <3>1. Untouched(l) BY <2>1, <2>4, <2>13, OtherUntouched
    <3>2. ASSUME NEW who \in Borrower PROVE Rows(server', l, who) \subseteq Rows(server, l, who)
      <4>1. Rows(w, l, who) \subseteq Rows(server, l, who)
        BY <2>5, <2>6, <2>7, <2>13, ServedRows
      <4> QED BY <2>10, <4>1
    <3>3. ~Idle.on BY DEF Idle
    <3>4. \A t \in Savers : saves'[t].on => saves'[t].draft.loan # l
                                             \/ (saves[t].on /\ saves'[t].draft.loan = saves[t].draft.loan)
      BY <2>3, <2>11, <2>12, <2>13, <3>3
    <3> QED BY <3>1, <3>2, <3>4, UntouchedStays
  <2>14. CASE v.draft.loan = l
    <3>1. draft.loan = l /\ \A t \in Savers : saves[t].on => t = s
      BY <2>1, <2>4, <2>14 DEF Single, Alone
    <3>2. SaveCall(s)
      <4>1. CASE SaveFails(s)
        <5>1. faults' = Blame({l}, "failed") BY <2>1, <2>14, <4>1 DEF SaveFails
        <5> QED BY <1>1, <5>1
      <4> QED BY <1>7, <4>1
    <3>3. \A who \in Borrower : Rows(server, l, who) \subseteq {v.ids.who[<<l, who>>]}
      BY <2>1, <2>4, <2>14 DEF Single, RowsKnown
    <3>4. /\ u.on /\ u.draft = v.draft
          /\ (server' = server /\ u.ids = v.ids) \/ (server' = w /\ u.ids = j)
      BY <2>1, <2>2, <2>3, <2>7, <2>8, <3>2, CallSteps
    <3>5. ASSUME NEW who \in Borrower PROVE Rows(server', l, who) \subseteq {u.ids.who[<<l, who>>]}
      <4>1. Rows(w, l, who) \subseteq {j.who[<<l, who>>]}
        BY <2>5, <2>6, <2>7, <2>8, <2>14, <3>3, ServedRows
      <4> QED BY <3>3, <3>4, <4>1
    <3>6. \A t \in Savers : saves'[t].on => t = s BY <2>11, <3>1
    <3>7. Alone(l)' BY <2>9, <3>1, <3>6 DEF Alone
    <3>8. RowsOwn(l)' BY <2>3, <2>9, <2>14, <3>1, <3>4, <3>6 DEF RowsOwn
    <3>9. RowsKnown(l)' BY <2>3, <2>14, <3>4, <3>5, <3>6 DEF RowsKnown
    <3> QED BY <3>7, <3>8, <3>9 DEF Single
  <2> QED BY <2>13, <2>14
<1>8. ASSUME NEW s \in Savers, SaveDone(s) PROVE Single(l)'
  <2>1. server' = server /\ saves' = [saves EXCEPT ![s] = Idle] /\ draft'.loan = draft.loan /\ saves[s].on
    BY <1>0, <1>8 DEF SaveDone, Draft
  <2>2. \A t \in Savers : saves'[t] \in {saves[t], Idle} BY <2>1, FreedSlots
  <2>3. CASE saves[s].draft.loan # l
    <3>1. Untouched(l) BY <2>1, <2>3, OtherUntouched
    <3> QED BY <1>2, <2>1, <2>2, <3>1
  <2>4. CASE saves[s].draft.loan = l
    <3>1. draft.loan = l /\ \A t \in Savers : saves[t].on => t = s
      BY <2>1, <2>4 DEF Single, Alone
    <3>2. \A t \in Savers : ~saves'[t].on
      <4>1. ~Idle.on BY DEF Idle
      <4> QED BY <1>0, <2>1, <3>1, <4>1
    <3>3. ids' = saves[s].ids BY <1>8, <2>4 DEF SaveDone
    <3>4. \A who \in Borrower : Rows(server, l, who) \subseteq {ids'.who[<<l, who>>]}
      BY <2>1, <2>4, <3>3 DEF Single, RowsKnown
    <3> QED BY <2>1, <3>1, <3>2, <3>4 DEF Single, Alone, RowsOwn, RowsKnown
  <2> QED BY <2>3, <2>4
<1>9. CASE Reload /\ faults' = Blame({saves[s].draft.loan : s \in InFlight} \cup {draft.loan}, "reload")
  <2>1. draft.loan # l BY <1>1, <1>9
  <2>2. Untouched(l) BY <2>1, OtherUntouched
  <2>3. \A t \in Savers : saves'[t] \in {saves[t], Idle} BY <1>9, FreedSlots DEF Reload
  <2>4. server' = server BY <1>9 DEF Reload
  <2> QED BY <1>2, <2>2, <2>3, <2>4
<1>10. CASE Submitting
  <2>1. saves' = saves /\ ids' = ids
    BY <1>10 DEF Submitting, SubmitTaken, SubmitRefused, SubmitFails, SubmitUnanswered, SubmitAnswered
  <2>2. draft'.loan = draft.loan BY <1>10, SubmitTypes DEF Submitting
  <2>3. server'.people = server.people
    <3>1. \/ server' = server
          \/ draft.loan \in Loans /\ server' = [server EXCEPT !.status[draft.loan] = "submitted"]
      BY <1>10 DEF Submitting, SubmitTaken, Sends, SubmitRefused, SubmitFails, SubmitUnanswered, SubmitAnswered
    <3> QED BY <1>0, <3>1 DEF Server
  <2> QED BY <2>1, <2>2, <2>3, SingleKept
<1>11. CASE Quiet BY <1>11, SingleKept DEF Quiet
<1>12. CASE Asking
  <2>1. PICK e \in 0..limit.edits : AskDraft(e) BY <1>12 DEF Asking
  <2>2. UNCHANGED <<draft, ids, saves>> BY <2>1 DEF AskDraft
  <2>3. server'.people = server.people BY <1>0, <2>1 DEF AskDraft, Server
  <2> QED BY <2>2, <2>3, SingleKept
<1> QED BY <1>3, <1>4, <1>5, <1>6, <1>7, <1>8, <1>9, <1>10, <1>11, <1>12 DEF StoreStep

\* No loan whose requests were orderly has a borrower twice.
Singles == \A l \in Loans : Sound(l) => Single(l)

\* Borrowers are not entered twice: a save creates the row of a borrower once,
\* and later saves find it, unless the loan's saves overlapped, one failed or was
\* cut off, or the store went to another loan and back (submissionStore.ts 84-85,
\* 203, 228).  A co-borrower who is added again is another borrower.
THEOREM BorrowersOnce == Spec => []OneRowPerBorrower
<1> DEFINE Inv == TypeInv /\ Singles
<1>1. WizardInit => Inv
  <2> SUFFICES ASSUME WizardInit PROVE Inv OBVIOUS
  <2>1. saves = [s \in Savers |-> Idle] /\ server.people = <<>>
    BY DEF WizardInit, SubInit, EmptyServer
  <2>2. \A l \in Loans : Untouched(l) BY <2>1 DEF Untouched, Rows, Idle
  <2> QED BY <2>2, InitTypes, UntouchedSingle DEF Singles
<1>2. Inv /\ [Next]_vars => Inv'
  <2> SUFFICES ASSUME Inv, [Next]_vars PROVE Inv' OBVIOUS
  <2>1. TypeInv' /\ StoreStep /\ FaultsGrow BY TypeStep
  <2>2. ASSUME NEW l \in Loans, Sound(l)' PROVE Single(l)'
    <3>1. Sound(l) BY <2>1, <2>2 DEF Sound, FaultsGrow, Ids
    <3> QED BY <2>1, <2>2, <3>1, SingleStep DEF TypeInv, Singles
  <2> QED BY <2>1, <2>2 DEF Singles
<1>3. Inv => OneRowPerBorrower
  <2> SUFFICES ASSUME Inv, NEW l \in Loans, NEW who \in Borrower, Sound(l)
               PROVE  Cardinality(RowsOf(l, who)) <= 1
    BY DEF OneRowPerBorrower, Sound
  <2>1. server.people \in Seq(Person) BY DEF TypeInv, StoreTypes, Server
  <2>2. RowsOf(l, who) = Rows(server, l, who) BY <2>1 DEF RowsOf, Rows
  <2>3. Single(l) BY DEF Singles
  <2>4. PICK n : Rows(server, l, who) \subseteq {n}
    <3>1. CASE \A s \in Savers : saves[s].on => saves[s].draft.loan # l
      BY <2>3, <3>1 DEF Single, RowsKnown
    <3>2. ASSUME NEW s \in Savers, saves[s].on, saves[s].draft.loan = l
          PROVE  \E n : Rows(server, l, who) \subseteq {n}
      <4>1. Rows(server, l, who) \subseteq {saves[s].ids.who[<<l, who>>]}
        BY <2>3, <3>2 DEF Single, RowsKnown
      <4> QED BY <4>1, Zenon
    <3> QED BY <3>1, <3>2, Zenon
  <2>5. IsFiniteSet({n}) /\ Cardinality({n}) = 1 BY FS_Singleton
  <2>6. Cardinality(Rows(server, l, who)) <= 1 BY <2>4, <2>5, FS_Subset
  <2> QED BY <2>2, <2>6
<1> QED BY <1>1, <1>2, <1>3, PTL DEF Spec

---------------------------------------------------------------------------
(* What is shown as saved is stored.                                       *)

\* Nothing happened to the loan that makes "saved" a lie.
Unclean == {"overlap", "switched", "late", "left", "signed out"}
Clean(l) == faults[l] \cap Unclean = {}

\* A closed wizard has no timer.
NoTimer == ~Open => ~timer

\* A loan that is saved is the draft's.
Owned(l) == \A s \in Savers : saves[s].on /\ saves[s].draft.loan = l => draft.loan = l

\* The request is among those a save has still to send.
Due(v, call) == \E k \in 1..Len(v.todo) : v.todo[k] = call

\* The requests for borrowers that a save of draft d makes.
Named(d) == {"primary"} \cup (IF d.co > 0 THEN {"co"} ELSE {})

\* What a save has done of its requests is on the server.
Progress(v, d, w) ==
  /\ Due(v, "figures") \/ (HasFigures(d) => w.figures[d.loan] = Figures(d))
  /\ \A call \in Named(d) : Due(v, call) \/ \E n \in 1..Len(w.people) : w.people[n] = PersonRow(d, call)
  /\ Filled(d, "property") =>
       Due(v, "property") \/ \E n \in 1..Len(w.places) : w.places[n] = PlaceRow(d)
  /\ Due(v, "co") => d.co > 0

\* A save of the draft's loan in flight is alone, carries the draft, unless the
\* timer runs for what was typed since, has done what is not due, and its draft is
\* in the browser.
Underway ==
  \A s \in Savers : saves[s].on /\ saves[s].draft.loan = draft.loan =>
    /\ \A t \in Savers : saves[t].on => t = s
    /\ SameWords(saves[s].draft, draft) \/ timer
    /\ Progress(saves[s], saves[s].draft, server)
    /\ Autosaved(saves[s].draft)

\* What is saved is stored, unless there is a save to come.
SavedSo ==
  (\A s \in Savers : ~saves[s].on) /\ saveStatus = "saved" /\ draft.text # Blank =>
    Stored(draft) \/ timer

\* Of a loan with nothing against it only the draft is saved; the draft has a save
\* that brings the server up to date, or what is marked saved is stored.
SavedInv ==
  \A l \in Loans : Clean(l) => Owned(l) /\ (draft.loan = l => Underway /\ SavedSo)

\* A closed wizard stays without a timer.
LEMMA NoTimerStep ==
  ASSUME TypeInv, NoTimer, [Next]_vars
  PROVE  NoTimer'
<1> USE DEF NoTimer, Open
<1>0. timer \in BOOLEAN /\ next.go \in {"stay", "form", "documents", "review"}
  BY DEF TypeInv, PageTypes
<1>1. ASSUME StartLoan \/ StartLocal \/ StartAnswers \/ StartUnanswered PROVE NoTimer'
  BY <1>1 DEF StartLoan, StartLocal, StartAnswers, StartUnanswered, Retime, pageVars
<1>2. ASSUME NEW l \in Ids, OpenLoan(l) PROVE NoTimer' BY <1>2 DEF OpenLoan, Mount
<1>3. ASSUME NEW ps, TypeOnPage(ps) PROVE NoTimer' BY <1>3 DEF TypeOnPage, Retime
<1>4. ASSUME NEW at \in {"form", "documents", "review"}, GoToStep(at) PROVE NoTimer'
  BY <1>4 DEF GoToStep
<1>5. ASSUME NEW s \in Savers,
             ClickSave(s) \/ Continue(s) \/ ClickSubmit(s) \/ RetrySubmit(s) \/ Background(s)
      PROVE  NoTimer'
  BY <1>5 DEF ClickSave, Continue, ClickSubmit, RetrySubmit, Background, Autosave, Saving, SaveEnds,
              Retime, pageVars
<1>6. ASSUME NEW t, Upload(t) \/ RemoveUpload(t) PROVE NoTimer'
  BY <1>6 DEF Upload, RemoveUpload, pageVars
<1>7. ASSUME ChangeCoBorrower \/ Leave \/ ReloadTab \/ LoseToken \/ ReturnToken PROVE NoTimer'
  BY <1>7 DEF ChangeCoBorrower, Leave, ReloadTab, LoseToken, ReturnToken, Unmount, Retime, pageVars
<1>8. ASSUME Navigate PROVE NoTimer'
  <2>1. step' = next.go /\ next # Stay BY <1>8 DEF Navigate, Mount
  <2>2. next.go # "stay" BY <2>1 DEF TypeInv, PageTypes
  <2>3. step' # "closed" BY <1>0, <2>1, <2>2
  <2> QED BY <2>3
<1>9. ASSUME SendSubmit \/ AnswerSubmit \/ DocumentAnswers \/ ArchiveElsewhere \/ UNCHANGED vars
      PROVE  NoTimer'
  BY <1>9 DEF SendSubmit, AnswerSubmit, DocumentAnswers, ArchiveElsewhere, Retime, pageVars, vars
<1> HIDE DEF NoTimer
<1>10. ASSUME UserMove PROVE NoTimer'
  BY <1>1, <1>2, <1>3, <1>4, <1>5, <1>6, <1>7, <1>10 DEF UserMove
<1> QED BY <1>1, <1>5, <1>8, <1>9, <1>10 DEF Next

\* What the steps of the wizard do to a save to come: nothing that types, moves,
\* answers or signs in loses it but leaving the page.
Still ==
  /\ UNCHANGED <<saves, saveStatus, kept>>
  /\ UNCHANGED <<server.figures, server.people, server.places>>
  /\ draft'.loan = draft.loan
  /\ timer' \/ (SameWords(draft', draft) /\ ~timer)

\* The page is left while a change waits to be saved.
Left == timer /\ faults' = Blame({draft.loan}, "left") /\ UNCHANGED draft

\* A save ends.
Ends(s) ==
  /\ SaveDone(s) \/ SaveFails(s)
  /\ timer => timer'

\* An open page that only changes the draft starts its timer.
LEMMA RetimeKeeps ==
  ASSUME timer \in BOOLEAN, Retime, Open \/ draft' = draft
  PROVE  timer' \/ (SameWords(draft', draft) /\ ~timer)
<1>1. CASE timer BY <1>1, Zenon DEF Retime
<1>2. CASE draft' = draft BY <1>2 DEF Retime, SameWords
<1>3. CASE draft' # draft /\ Open BY <1>3 DEF Retime
<1> QED BY <1>1, <1>2, <1>3

\* Taking up the draft's own loan with the wizard closed changes nothing.
LEMMA MountStill ==
  ASSUME TypeInv, NoTimer, ~Open, NEW l \in Ids, NEW at, Mount(l, at),
         l # Local \/ kept[l] # {} \/ (next.go # "stay" /\ next.loan = l)
  PROVE  Still \/ (Opening(l) /\ draft.loan # l)
<1>1. HydrateFromApi(l) BY DEF Mount
<1>2. CASE draft.loan = l
  <2>1. draft' = draft BY <1>1, <1>2, HydratedTyped DEF HydrateFromApi, TypeInv, StoreTypes
  <2>2. UNCHANGED <<saves, saveStatus, kept, server>> BY <1>1 DEF HydrateFromApi
  <2>3. ~timer BY DEF NoTimer
  <2> QED BY <2>1, <2>2, <2>3 DEF Still, SameWords
<1> QED BY <1>1, <1>2 DEF Opening

\* The steps of the wizard, as the saves to come see them.
Moving ==
  \/ Still \/ Left
  \/ \E l \in Ids, d \in Draft : Begins(l, d)
  \/ \E l \in Ids : Opening(l) /\ draft.loan # l
  \/ \E s \in Savers, then \in Then : StartSave(s, then)
  \/ \E s \in Savers : (SaveCall(s) /\ timer' = timer) \/ Ends(s)
  \/ Reload

LEMMA Moves ==
  ASSUME TypeInv, NoTimer, [Next]_vars
  PROVE  Moving
<1>0. /\ timer \in BOOLEAN /\ draft \in Draft /\ Stay \in Then /\ route \in Ids /\ next.loan \in Ids
      /\ server \in Server /\ StoreTypes
  BY DEF TypeInv, PageTypes, StoreTypes, Stay, Then, Ids
<1>1. ASSUME StartLoan PROVE Moving
  <2>1. PICK e : AskDraft(e) BY <1>1 DEF StartLoan
  <2>2. UNCHANGED <<draft, saveStatus, kept, saves, timer>> BY <1>1, <2>1 DEF StartLoan, AskDraft
  <2>3. UNCHANGED <<server.figures, server.people, server.places>>
    <3>1. PICK l : server' = [server EXCEPT !.status[l] = "new_draft"] BY <2>1 DEF AskDraft
    <3> QED BY <1>0, <3>1 DEF Server
  <2> QED BY <1>0, <2>2, <2>3 DEF Moving, Still, SameWords
<1>2. ASSUME NEW l \in Ids, OpenLoan(l) PROVE Moving
  BY <1>2, MountStill DEF OpenLoan, NoDraft, Moving
<1>3. ASSUME NEW ps \in limit.typing, TypeOnPage(ps) PROVE Moving
  <2>1. PICK gone \in {{}, ps} : Type(ps, gone) BY <1>3 DEF TypeOnPage
  <2>2. Open /\ Retime BY <1>3 DEF TypeOnPage
  <2>3. UNCHANGED <<saves, saveStatus, kept, server>> BY <2>1 DEF Type
  <2>4. Typing BY <2>1, <2>2 DEF Typing
  <2>5. draft'.loan = draft.loan BY <1>0, <2>4, TypedLoan
  <2>6. timer' \/ (SameWords(draft', draft) /\ ~timer) BY <1>0, <2>2, RetimeKeeps
  <2> QED BY <2>3, <2>5, <2>6 DEF Moving, Still
<1>4. ASSUME NEW at, GoToStep(at) PROVE Moving
  BY <1>0, <1>4 DEF GoToStep, Moving, Still, SameWords, subVars
<1>5. ASSUME NEW s \in Savers,
             ClickSave(s) \/ Continue(s) \/ ClickSubmit(s) \/ RetrySubmit(s) \/ Autosave(s)
      PROVE  Moving
  <2>1. CASE ClickSave(s) \/ Autosave(s) BY <1>0, <2>1 DEF ClickSave, Autosave, Moving
  <2>2. CASE Continue(s)
    <3>1. PICK at \in NextSteps : StartSave(s, [go |-> at, loan |-> route]) BY <2>2 DEF Continue
    <3>2. [go |-> at, loan |-> route] \in Then BY <1>0 DEF NextSteps, Then
    <3> QED BY <3>1, <3>2 DEF Moving
  <2>3. CASE ClickSubmit(s) \/ RetrySubmit(s)
    <3>1. [go |-> "submit", loan |-> route] \in Then BY <1>0 DEF Then
    <3> QED BY <2>3, <3>1 DEF ClickSubmit, RetrySubmit, RunSubmit, Moving
  <2> QED BY <1>5, <2>1, <2>2, <2>3
<1>6. ASSUME NEW t, Upload(t) \/ RemoveUpload(t) PROVE Moving
  BY <1>0, <1>6 DEF Upload, RemoveUpload, subVars, pageVars, Moving, Still, SameWords
<1>7. ASSUME ChangeCoBorrower PROVE Moving
  <2>1. Open /\ (AddCoBorrower \/ RemoveBorrower) /\ Retime BY <1>7 DEF ChangeCoBorrower
  <2>2. UNCHANGED <<saves, saveStatus, kept, server>> BY <2>1 DEF AddCoBorrower, RemoveBorrower
  <2>3. draft'.loan = draft.loan BY <1>0, <2>1, TypedLoan DEF Typing
  <2>4. timer' \/ (SameWords(draft', draft) /\ ~timer) BY <1>0, <2>1, RetimeKeeps
  <2> QED BY <2>2, <2>3, <2>4 DEF Moving, Still
<1>8. ASSUME Leave \/ LoseToken PROVE Moving
  <2>1. Unmount /\ UNCHANGED <<draft, saves, saveStatus, kept, server>>
    BY <1>8 DEF Leave, LoseToken, SignOut
  <2>2. CASE timer BY <2>1, <2>2 DEF Unmount, Moving, Left
  <2>3. CASE ~timer BY <2>1, <2>3 DEF Moving, Still, SameWords
  <2> QED BY <2>2, <2>3
<1>9. ASSUME ReturnToken PROVE Moving
  BY <1>0, <1>9 DEF ReturnToken, SignIn, pageVars, Moving, Still, SameWords
<1>10. ASSUME ReloadTab PROVE Moving BY <1>10 DEF ReloadTab, Moving
<1>11. ASSUME NEW s \in Savers, Saving(s) \/ SaveEnds(s) PROVE Moving
  <2>1. CASE Saving(s) BY <2>1 DEF Saving, pageVars, Moving
  <2>2. CASE SaveEnds(s)
    <3>1. (SaveDone(s) \/ SaveFails(s)) /\ (timer => timer') BY <2>2 DEF SaveEnds, Retime
    <3> QED BY <3>1 DEF Moving, Ends
  <2> QED BY <1>11, <2>1, <2>2
<1>12. ASSUME Navigate PROVE Moving
  <2>1. next # Stay BY <1>12 DEF Navigate
  <2>2. CASE Open
    <3>1. timer' \in {timer, TRUE} /\ UNCHANGED <<draft, saveStatus, saves, kept, server>>
      BY <1>12, <2>2 DEF Navigate
    <3> QED BY <1>0, <3>1 DEF Moving, Still, SameWords
  <2>3. CASE ~Open
    <3>1. Mount(next.loan, next.go) BY <1>12, <2>3 DEF Navigate
    <3>2. next.go # "stay" BY <2>1 DEF TypeInv, PageTypes
    <3> QED BY <1>0, <2>3, <3>1, <3>2, MountStill DEF Moving
  <2> QED BY <2>2, <2>3
<1>13. ASSUME SendSubmit \/ AnswerSubmit PROVE Moving
  <2>1. Submitting
    <3>1. submit.loan \in Ids BY DEF TypeInv, PageTypes
    <3> QED BY <1>13, <3>1 DEF SendSubmit, AnswerSubmit, Submitting
  <2>2. Retime BY <1>13 DEF SendSubmit, AnswerSubmit
  <2>3. UNCHANGED <<saves, saveStatus, kept>>
    BY <2>1 DEF Submitting, SubmitTaken, SubmitRefused, SubmitFails, SubmitUnanswered, SubmitAnswered
  <2>4. SameWords(draft', draft)
    <3>1. CASE SubmitRefused BY <1>0, <3>1, ValidatedTyped DEF SubmitRefused, SameWords
    <3>2. ASSUME NEW l \in Ids, SubmitAnswered(l) PROVE SameWords(draft', draft)
      BY <1>0, <3>2 DEF SubmitAnswered, SameWords, Draft
    <3>3. CASE SubmitTaken \/ SubmitFails \/ SubmitUnanswered
      BY <3>3 DEF SubmitTaken, SubmitFails, SubmitUnanswered, SameWords
    <3> QED BY <2>1, <3>1, <3>2, <3>3 DEF Submitting
  <2>5. UNCHANGED <<server.figures, server.people, server.places>>
    <3>1. \/ server' = server
          \/ draft.loan \in Loans /\ server' = [server EXCEPT !.status[draft.loan] = "submitted"]
      BY <2>1 DEF Submitting, SubmitTaken, Sends, SubmitRefused, SubmitFails, SubmitUnanswered, SubmitAnswered
    <3> QED BY <1>0, <3>1 DEF Server
  <2>6. timer' \/ ~timer BY <1>0, <2>2 DEF Retime
  <2>7. draft'.loan = draft.loan BY <2>4 DEF SameWords
  <2> QED BY <2>3, <2>4, <2>5, <2>6, <2>7 DEF Moving, Still
<1>14. ASSUME DocumentAnswers \/ ArchiveElsewhere \/ UNCHANGED vars PROVE Moving
  BY <1>0, <1>14 DEF DocumentAnswers, ArchiveElsewhere, subVars, pageVars, vars, Moving, Still, SameWords
<1>15. ASSUME StartUnanswered PROVE Moving
  BY <1>0, <1>15 DEF StartUnanswered, StartFails, pageVars, Moving, Still, SameWords
<1>16. ASSUME StartLocal \/ StartAnswers PROVE Moving
  <2>1. Local \in Ids /\ starting.loan \in Ids BY <1>0 DEF Ids, StoreTypes
  <2>2. CASE StartLocal
    <3>1. StartManual(Local, Open) /\ UNCHANGED <<starting, server, edits>> /\ kept[Local] = {}
      BY <2>2 DEF StartLocal, NoDraft
    <3> QED BY <1>0, <2>1, <3>1, ManualBegins DEF Moving
  <2>3. CASE StartAnswers BY <1>0, <2>1, <2>3, AnswerBegins DEF Moving
  <2> QED BY <1>16, <2>2, <2>3
<1>17. ASSUME UserMove PROVE Moving
  BY <1>17, <1>1, <1>2, <1>3, <1>4, <1>5, <1>6, <1>7, <1>8, <1>9, <1>10, <1>16 DEF UserMove
<1>18. ASSUME NEW s \in Savers, Background(s) PROVE Moving
  BY <1>18, <1>5, <1>11 DEF Background
<1> QED BY <1>12, <1>13, <1>14, <1>15, <1>16, <1>17, <1>18 DEF Next

\* A save in flight carries the draft of its start.
LEMMA SaveDrafts ==
  ASSUME StoreTypes, Pointing, StoreStep, NEW t \in Savers, saves'[t].on
  PROVE  saves'[t].draft = draft' \/ (saves[t].on /\ saves'[t].draft = saves[t].draft)
<1> DEFINE G == saves'[t].draft = draft' \/ (saves[t].on /\ saves'[t].draft = saves[t].draft)
<1>0. saves \in [Savers -> Save] /\ ~Idle.on BY DEF StoreTypes, Idle
<1>1. ASSUME NEW s \in Savers, SaveCall(s) PROVE G
  <2>1. PICK v : v = saves[s] OBVIOUS
  <2>2. PICK u : u = saves'[s] OBVIOUS
  <2>3. v.on /\ u.draft = v.draft BY <1>1, <2>1, <2>2, CallSteps
  <2>4. \A r \in Savers : r # s => saves'[r] = saves[r] BY <1>1, CallSteps
  <2> QED BY <2>1, <2>2, <2>3, <2>4
<1>2. ASSUME NEW s \in Savers, SaveDone(s) \/ SaveFails(s) PROVE G
  <2>1. saves' = [saves EXCEPT ![s] = Idle] BY <1>2 DEF SaveDone, SaveFails
  <2> QED BY <1>0, <2>1, FreedSlots
<1>3. CASE Reload
  <2>1. saves' = [s \in Savers |-> Idle] BY <1>3 DEF Reload
  <2> QED BY <1>0, <2>1
<1>4. ASSUME NEW s \in Savers, NEW d, NEW i, NEW then, SaveBegins(s, d, i, then), draft' = d PROVE G
  <2>1. PICK u : u = [on |-> TRUE, draft |-> d, ids |-> i, todo |-> Calls(d), then |-> then]
    OBVIOUS
  <2>2. saves' = [saves EXCEPT ![s] = u] /\ u.draft = d BY <1>4, <2>1 DEF SaveBegins
  <2> QED BY <1>0, <1>4, <2>2
<1>5. ASSUME saves' = saves PROVE G BY <1>5
<1>6. ASSUME NEW l \in Ids, NEW d \in Draft, Begins(l, d) PROVE G
  BY <1>4, <1>5, <1>6 DEF Begins
<1>7. ASSUME NEW l \in Ids, Opening(l) PROVE G BY <1>5, <1>7 DEF Opening, HydrateFromApi
<1>8. ASSUME Typing PROVE G
  <2>1. ASSUME NEW ps, NEW gone, Type(ps, gone) PROVE G BY <1>5, <2>1 DEF Type
  <2>2. AddCoBorrower \/ RemoveBorrower => saves' = saves BY DEF AddCoBorrower, RemoveBorrower
  <2> QED BY <1>5, <1>8, <2>1, <2>2 DEF Typing
<1>9. ASSUME Submitting PROVE G
  BY <1>5, <1>9 DEF Submitting, SubmitTaken, SubmitRefused, SubmitFails, SubmitUnanswered, SubmitAnswered
<1>10. ASSUME Quiet PROVE G BY <1>5, <1>10 DEF Quiet
<1>11. ASSUME NEW s \in Savers, NEW then \in Then, StartSave(s, then) PROVE G
  <2>1. SaveBegins(s, draft, ids, then) /\ draft' = draft BY <1>11 DEF StartSave
  <2> QED BY <1>4, <2>1
<1>12. ASSUME Asking PROVE G BY <1>5, <1>12 DEF Asking, AskDraft
<1> QED BY <1>1, <1>2, <1>3, <1>6, <1>7, <1>8, <1>9, <1>10, <1>11, <1>12 DEF StoreStep

\* A save that starts has all its requests due.
LEMMA CallsDue ==
  ASSUME NEW d \in Draft, d.loan \in Loans, NEW v, v.todo = Calls(d)
  PROVE  /\ Due(v, "figures")
         /\ \A call \in Named(d) : Due(v, call)
         /\ Filled(d, "property") => Due(v, "property")
         /\ Due(v, "co") => d.co > 0
<1>1. PICK two : two = <<"figures", "primary">> OBVIOUS
<1>2. PICK co : co = IF d.co > 0 THEN <<"co">> ELSE <<>> OBVIOUS
<1>3. PICK pr : pr = IF Filled(d, "property") THEN <<"property">> ELSE <<>> OBVIOUS
<1>4. PICK both : both = two \o co OBVIOUS
<1>5. v.todo = both \o pr BY <1>1, <1>2, <1>3, <1>4 DEF Calls
<1>6. "figures" \in Request /\ "primary" \in Request /\ "co" \in Request /\ "property" \in Request
  BY DEF Request
<1>7. two \in Seq(Request) /\ Len(two) = 2 /\ two[1] = "figures" /\ two[2] = "primary"
  BY <1>1, <1>6
<1>8. co \in Seq(Request) /\ Len(co) \in Nat /\ (d.co > 0 => Len(co) = 1 /\ co[1] = "co")
  <2>1. CASE d.co > 0
    <3>1. co = <<"co">> BY <1>2, <2>1
    <3> QED BY <1>6, <3>1
  <2>2. CASE ~(d.co > 0)
    <3>1. co = <<>> BY <1>2, <2>2
    <3> QED BY <2>2, <3>1
  <2> QED BY <2>1, <2>2
<1>9. pr \in Seq(Request) /\ Len(pr) \in Nat
      /\ (Filled(d, "property") => Len(pr) = 1 /\ pr[1] = "property")
  <2>1. CASE Filled(d, "property")
    <3>1. pr = <<"property">> BY <1>3, <2>1
    <3> QED BY <1>6, <3>1
  <2>2. CASE ~(Filled(d, "property"))
    <3>1. pr = <<>> BY <1>3, <2>2
    <3> QED BY <2>2, <3>1
  <2> QED BY <2>1, <2>2
<1>10. /\ both \in Seq(Request) /\ Len(both) = 2 + Len(co)
       /\ both[1] = "figures" /\ both[2] = "primary"
       /\ d.co > 0 => both[3] = "co"
  <2>0. PICK c \in Nat : c = Len(co) BY <1>8
  <2>1. /\ both \in Seq(Request) /\ Len(both) = 2 + c
        /\ \A k \in 1..2 + c : both[k] = IF k <= 2 THEN two[k] ELSE co[k - 2]
    <3>1. /\ both \in Seq(Request) /\ Len(both) = Len(two) + Len(co)
          /\ \A k \in 1..Len(two) + Len(co) :
               both[k] = IF k <= Len(two) THEN two[k] ELSE co[k - Len(two)]
      BY <1>4, <1>7, <1>8, ConcatProperties
    <3>2. Len(two) = 2 BY <1>7
    <3> QED BY <2>0, <3>1, <3>2
  <2>2. 1 \in 1..2 + c /\ 2 \in 1..2 + c OBVIOUS
  <2>3. both[1] = two[1] /\ both[2] = two[2] BY <2>1, <2>2
  <2>4. ASSUME d.co > 0 PROVE both[3] = "co"
    <3>1. c = 1 BY <1>8, <2>0, <2>4
    <3>2. 3 \in 1..2 + c /\ ~(3 <= 2) /\ 3 - 2 = 1 BY <3>1
    <3>3. both[3] = co[1] BY <2>1, <3>2
    <3> QED BY <1>8, <2>4, <3>3
  <2> QED BY <1>7, <2>0, <2>1, <2>3, <2>4
<1>11. PICK todo : todo = v.todo OBVIOUS
<1>12. PICK n \in Nat : n = Len(both) BY <1>8, <1>10
<1>13. /\ todo \in Seq(Request) /\ Len(todo) = n + Len(pr)
       /\ \A k \in 1..n : todo[k] = both[k]
       /\ \A k \in 1..Len(pr) : todo[n + k] = pr[k]
  <2>0. todo = both \o pr /\ both \in Seq(Request) /\ pr \in Seq(Request) BY <1>5, <1>9, <1>10, <1>11
  <2>1. /\ todo \in Seq(Request) /\ Len(todo) = n + Len(pr)
        /\ \A k \in 1..n + Len(pr) : todo[k] = IF k <= n THEN both[k] ELSE pr[k - n]
    BY <1>12, <2>0, ConcatProperties
  <2>2. ASSUME NEW k \in 1..n PROVE todo[k] = both[k] BY <1>9, <2>1
  <2>3. ASSUME NEW k \in 1..Len(pr) PROVE todo[n + k] = pr[k]
    <3>1. n + k \in 1..n + Len(pr) /\ ~(n + k <= n) /\ (n + k) - n = k BY <1>9
    <3> QED BY <2>1, <3>1
  <2> QED BY <2>1, <2>2, <2>3
<1>14. n = 2 + Len(co) BY <1>10, <1>12
<1>15. ASSUME NEW k \in 1..n PROVE Due(v, both[k])
  <2>1. k \in 1..Len(todo) /\ todo[k] = both[k] BY <1>9, <1>13
  <2> QED BY <1>11, <2>1 DEF Due
<1>16. Due(v, "figures")
  <2>1. 1 \in 1..n BY <1>8, <1>14
  <2> QED BY <1>10, <1>15, <2>1
<1>17. Due(v, "primary")
  <2>1. 2 \in 1..n BY <1>8, <1>14
  <2> QED BY <1>10, <1>15, <2>1
<1>18. ASSUME d.co > 0 PROVE Due(v, "co")
  <2>0. Len(co) = 1 BY <1>8, <1>18
  <2>1. n = 3 BY <1>14, <2>0
  <2>2. 3 \in 1..n BY <2>1
  <2> QED BY <1>10, <1>15, <1>18, <2>2
<1>19. ASSUME Filled(d, "property") PROVE Due(v, "property")
  <2>0. pr = <<"property">> BY <1>3, <1>19
  <2>1. 1 \in 1..Len(pr) /\ pr[1] = "property" BY <2>0
  <2>2. n + 1 \in 1..Len(todo) /\ todo[n + 1] = "property" BY <1>9, <1>13, <2>1
  <2> QED BY <1>11, <2>2 DEF Due
<1>20. ASSUME ~(d.co > 0) PROVE ~Due(v, "co")
  <2>1. co = <<>> BY <1>2, <1>20
  <2>2. n = 2 /\ both[1] = "figures" /\ both[2] = "primary" BY <1>10, <1>14, <2>1
  <2>3. ASSUME NEW k \in 1..Len(todo) PROVE todo[k] # "co"
    <3>1. CASE k <= n
      <4>1. k \in 1..n /\ k \in {1, 2} BY <2>2, <3>1
      <4> QED BY <1>13, <2>2, <4>1
    <3>2. CASE ~(k <= n)
      <4>1. PICK m : m = k - n OBVIOUS
      <4>2. m \in 1..Len(pr) /\ k = n + m BY <1>9, <1>13, <3>2, <4>1
      <4>3. pr = <<"property">>
        <5>1. pr # <<>> BY <4>2
        <5> QED BY <1>3, <5>1
      <4>4. m = 1 BY <4>2, <4>3
      <4> QED BY <1>13, <4>2, <4>3, <4>4
    <3> QED BY <3>1, <3>2
  <2> QED BY <1>11, <2>3 DEF Due
<1> QED BY <1>16, <1>17, <1>18, <1>19, <1>20 DEF Named

\* A request that is not the first of those due stays due.
LEMMA DueTail ==
  ASSUME NEW v, NEW u, v.todo \in Seq(Request), v.todo # <<>>, u.todo = Tail(v.todo),
         NEW call, Due(v, call), call # Head(v.todo)
  PROVE  Due(u, call)
<1>1. PICK k \in 1..Len(v.todo) : v.todo[k] = call BY DEF Due
<1>2. /\ Len(u.todo) = Len(v.todo) - 1 /\ Head(v.todo) = v.todo[1]
      /\ \A m \in 1..Len(u.todo) : u.todo[m] = v.todo[m + 1]
  BY HeadTailProperties
<1>3. k # 1 BY <1>1, <1>2
<1>4. k - 1 \in 1..Len(u.todo) /\ u.todo[k - 1] = v.todo[k] BY <1>1, <1>2, <1>3
<1> QED BY <1>1, <1>4 DEF Due

\* A request that is served is done, and undoes no other.
LEMMA ServedProgress ==
  ASSUME StoreTypes, NEW d \in Draft, NEW i \in IdMap, Points(i, server), d.loan \in Loans,
         NEW v, NEW u, v.todo \in Seq(Request), v.todo # <<>>, u.todo = Tail(v.todo),
         PlaceOf(i.place, d.loan, server, faults), faults[d.loan] \cap {"switched", "late"} = {},
         Progress(v, d, server)
  PROVE  Progress(u, d, Served(Head(v.todo), d, i))
<1>1. PICK call : call = Head(v.todo) OBVIOUS
<1>2. PICK w : w = Served(call, d, i) OBVIOUS
<1>3. PICK j : j = Learned(call, d, i) OBVIOUS
<1>4. call \in Request BY <1>1, HeadTailProperties
<1>12. call = "co" => d.co > 0
  <2>1. v.todo[1] = call /\ Len(v.todo) \in Nat /\ Len(v.todo) >= 1 BY <1>1, HeadTailProperties, EmptySeq
  <2>2. 1 \in 1..Len(v.todo) BY <2>1
  <2>3. Due(v, call) BY <2>1, <2>2 DEF Due
  <2> QED BY <2>3 DEF Progress
<1>13. Due(u, "co") => d.co > 0
  <2>1. ASSUME NEW k \in 1..Len(u.todo), u.todo[k] = "co" PROVE Due(v, "co")
    <3>1. k + 1 \in 1..Len(v.todo) /\ v.todo[k + 1] = u.todo[k] BY HeadTailProperties
    <3> QED BY <2>1, <3>1 DEF Due
  <2> QED BY <2>1 DEF Due, Progress
<1>5. w \in Server /\ GrowsTo(server, w) /\ server \in Server
      /\ Len(server.people) \in Nat /\ Len(server.places) \in Nat
      /\ Len(w.people) \in Nat /\ Len(w.places) \in Nat
  BY <1>2, <1>4, ServedTyped DEF StoreTypes, Server
<1>6. \A c : Due(v, c) /\ c # call => Due(u, c) BY <1>1, DueTail
<1>7. ASSUME call # "figures" PROVE w.figures = server.figures
  <2>1. CASE call = "property" BY <1>2, <2>1, ServedProperty
  <2>2. CASE call \in Calling
    <3>1. PICK c : c = Who(d, call) OBVIOUS
    <3> QED BY <1>2, <2>2, <3>1, ServedBorrower
  <2> QED BY <1>4, <1>7, <2>1, <2>2 DEF Request, Calling
<1>8. Due(u, "figures") \/ (HasFigures(d) => w.figures[d.loan] = Figures(d))
  <2>1. CASE call = "figures" BY <1>2, <2>1, ServedFigures
  <2>2. CASE call # "figures"
    <3>1. Due(v, "figures") \/ (HasFigures(d) => server.figures[d.loan] = Figures(d)) BY DEF Progress
    <3> QED BY <1>6, <1>7, <2>2, <3>1
  <2> QED BY <2>1, <2>2
<1>9. ASSUME NEW a \in Named(d)
      PROVE  Due(u, a) \/ \E n \in 1..Len(w.people) : w.people[n] = PersonRow(d, a)
  <2>0. PICK who : who = Who(d, a) OBVIOUS
  <2>1. a \in Calling BY DEF Named, Calling
  <2>2. CASE call = a
    <3>1. PICK n : n = j.who[<<d.loan, who>>] OBVIOUS
    <3>2. PICK row : row = PersonRow(d, a) OBVIOUS
    <3>3. row = [loan |-> d.loan, who |-> who, text |-> d.text[a]] BY <2>0, <3>2 DEF PersonRow
    <3>4. RowPut(server.people, w.people, n, row)
      BY <1>2, <1>3, <2>0, <2>1, <2>2, <3>1, <3>3, ServedBorrower
    <3> QED BY <3>2, <3>4 DEF RowPut
  <2>3. CASE call # a /\ Due(v, a) BY <1>6, <2>3
  <2>4. ASSUME call # a, NEW n \in 1..Len(server.people), server.people[n] = PersonRow(d, a)
        PROVE  \E m \in 1..Len(w.people) : w.people[m] = PersonRow(d, a)
    <3>1. n \in 1..Len(w.people) BY <1>5 DEF GrowsTo
    <3>2. w.people[n] = server.people[n]
      <4>1. CASE call \in {"figures", "property"}
        <5>1. w.people = server.people
          <6>1. CASE call = "figures" BY <1>2, <6>1, ServedFigures
          <6>2. CASE call = "property" BY <1>2, <6>2, ServedProperty
          <6> QED BY <4>1, <6>1, <6>2
        <5> QED BY <5>1
      <4>2. CASE call \in Calling
        <5>0. PICK c : c = Who(d, call) OBVIOUS
        <5>1. PICK m : m = j.who[<<d.loan, c>>] OBVIOUS
        <5>2. PICK row : row = [loan |-> d.loan, who |-> c, text |-> d.text[call]] OBVIOUS
        <5>3. RowPut(server.people, w.people, m, row)
          BY <1>2, <1>3, <4>2, <5>0, <5>1, <5>2, ServedBorrower
        <5>4. w.people[m].who = c BY <5>2, <5>3 DEF RowPut
        <5>5. w.people[n].who = who
          <6>1. w.people[n].who = server.people[n].who BY <1>5 DEF GrowsTo
          <6> QED BY <2>0, <2>4, <6>1 DEF PersonRow
        <5>6. who # c
          <6>1. CASE a = "co"
            <7>1. who = d.co /\ d.co > 0 /\ c = 0
              BY <2>0, <2>4, <4>2, <5>0, <6>1 DEF Named, Calling, Who, Primary
            <7> QED BY <7>1 DEF Draft, Borrower
          <6>2. CASE a = "primary"
            <7>1. call = "co" BY <2>4, <4>2, <6>2 DEF Calling
            <7>2. who = 0 /\ c = d.co BY <2>0, <5>0, <6>2, <7>1 DEF Who, Primary
            <7> QED BY <1>12, <7>1, <7>2 DEF Draft, Borrower
          <6> QED BY <2>1, <6>1, <6>2 DEF Calling
        <5>7. n # m BY <5>4, <5>5, <5>6
        <5> QED BY <5>3, <5>7 DEF RowPut
      <4> QED BY <1>4, <4>1, <4>2 DEF Request, Calling
    <3> QED BY <2>4, <3>1, <3>2
  <2>5. Due(v, a) \/ \E n \in 1..Len(server.people) : server.people[n] = PersonRow(d, a)
    BY DEF Progress
  <2> QED BY <2>2, <2>3, <2>4, <2>5
<1>10. ASSUME Filled(d, "property")
       PROVE  Due(u, "property") \/ \E n \in 1..Len(w.places) : w.places[n] = PlaceRow(d)
  <2>1. CASE call = "property"
    <3>1. PICK n : n = j.place OBVIOUS
    <3>2. /\ RowPut(server.places, w.places, n,
                    [loan |-> w.places[n].loan, by |-> d.loan, text |-> d.text["property"]])
          /\ n # 0 /\ i.place \in {0, n}
          /\ i.place = 0 => w.places[n].loan = d.loan
      BY <1>2, <1>3, <2>1, <3>1, ServedProperty
    <3>3. w.places[n].loan = d.loan
      <4>1. CASE i.place = 0 BY <3>2, <4>1
      <4>2. CASE i.place = n
        <5>1. n \in 1..Len(server.places) BY <1>5, <3>2, <4>2 DEF Points, IdMap
        <5>2. w.places[n].loan = server.places[n].loan BY <1>5, <5>1 DEF GrowsTo
        <5> QED BY <3>2, <4>2, <5>2 DEF PlaceOf
      <4> QED BY <3>2, <4>1, <4>2
    <3>4. n \in 1..Len(w.places)
          /\ w.places[n] = [loan |-> w.places[n].loan, by |-> d.loan, text |-> d.text["property"]]
      BY <3>2 DEF RowPut
    <3>5. w.places[n] = PlaceRow(d) BY <3>3, <3>4 DEF PlaceRow
    <3> QED BY <3>4, <3>5
  <2>2. CASE call # "property"
    <3>1. w.places = server.places
      <4>1. CASE call = "figures" BY <1>2, <4>1, ServedFigures
      <4>2. CASE call \in Calling
        <5>1. PICK c : c = Who(d, call) OBVIOUS
        <5> QED BY <1>2, <4>2, <5>1, ServedBorrower
      <4> QED BY <1>4, <2>2, <4>1, <4>2 DEF Request, Calling
    <3>2. Due(v, "property") \/ \E n \in 1..Len(server.places) : server.places[n] = PlaceRow(d)
      BY <1>10 DEF Progress
    <3> QED BY <1>6, <2>2, <3>1, <3>2
  <2> QED BY <2>1, <2>2
<1> QED BY <1>1, <1>2, <1>8, <1>9, <1>10, <1>13 DEF Progress

\* What is clean was not blamed.
LEMMA NotBlamed ==
  ASSUME faults \in [Ids -> SUBSET Causes], NEW l \in Ids, Clean(l)', NEW ls, NEW cause \in Unclean,
         faults' = Blame(ls, cause)
  PROVE  l \notin ls
<1>1. cause \in Causes BY Zenon DEF Causes, Unclean
<1>2. l \in ls => cause \in faults'[l] BY <1>1, BlameTyped
<1> QED BY <1>2 DEF Clean

\* The causes are as named.
LEMMA UncleanCauses ==
  /\ "overlap" \in Unclean /\ "switched" \in Unclean /\ "late" \in Unclean /\ "left" \in Unclean
  /\ \A l : Clean(l) => faults[l] \cap {"switched", "late"} = {}
BY Zenon DEF Unclean, Clean

\* A save that has nothing due has sent its draft.
LEMMA ProgressSent ==
  ASSUME StoreTypes, NEW d \in Draft, NEW e \in Draft, d.loan \in Loans, SameWords(d, e),
         NEW v, v.todo = <<>>, Progress(v, d, server)
  PROVE  Sent(e)
<1>1. \A call : ~Due(v, call) BY DEF Due
<1>2. /\ HasFigures(d) => server.figures[d.loan] = Figures(d)
      /\ \A call \in Named(d) : \E n \in 1..Len(server.people) : server.people[n] = PersonRow(d, call)
      /\ Filled(d, "property") =>
           \E n \in 1..Len(server.places) : server.places[n] = PlaceRow(d)
  BY <1>1 DEF Progress
<1>3. server.people \in Seq(Person) /\ server.places \in Seq(Place) BY DEF StoreTypes, Server
<1>4. DOMAIN server.people = 1..Len(server.people) /\ DOMAIN server.places = 1..Len(server.places)
  BY <1>3
<1>5. /\ e.loan = d.loan /\ Figures(e) = Figures(d) /\ HasFigures(e) = HasFigures(d)
      /\ Named(e) = Named(d) /\ PlaceRow(e) = PlaceRow(d)
      /\ \A call : PersonRow(e, call) = PersonRow(d, call)
      /\ Filled(e, "property") = Filled(d, "property")
  BY DEF SameWords, Figures, HasFigures, Filled, Named, PlaceRow, PersonRow, Who
<1>6. \A call \in Named(e) : \E n \in DOMAIN server.people : server.people[n] = PersonRow(e, call)
  <2> SUFFICES ASSUME NEW call \in Named(e)
               PROVE  \E n \in DOMAIN server.people : server.people[n] = PersonRow(e, call)
    OBVIOUS
  <2>1. PICK n \in 1..Len(server.people) : server.people[n] = PersonRow(d, call) BY <1>2, <1>5
  <2> QED BY <1>4, <1>5, <2>1
<1>7. Filled(e, "property") => \E n \in DOMAIN server.places : server.places[n] = PlaceRow(e)
  BY <1>2, <1>4, <1>5
<1>8. e.loan \in Loans /\ (HasFigures(e) => server.figures[e.loan] = Figures(e)) BY <1>2, <1>5
<1> QED BY <1>6, <1>7, <1>8 DEF Sent, Named

\* What is sent, or in the browser, is so of every draft with the same words.
LEMMA AutosavedAlike ==
  ASSUME NEW d, NEW e, SameWords(d, e), Autosaved(d)
  PROVE  Autosaved(e)
BY DEF SameWords, Autosaved

LEMMA SentAlike ==
  ASSUME NEW d, NEW e, SameWords(d, e), Sent(d)
  PROVE  Sent(e)
<1>5. /\ e.loan = d.loan /\ Figures(e) = Figures(d) /\ HasFigures(e) = HasFigures(d)
      /\ e.co = d.co /\ PlaceRow(e) = PlaceRow(d)
      /\ \A call : PersonRow(e, call) = PersonRow(d, call)
      /\ Filled(e, "property") = Filled(d, "property")
  BY DEF SameWords, Figures, HasFigures, Filled, PlaceRow, PersonRow, Who
<1> QED BY <1>5 DEF Sent

\* What is stored stays so while the words and the rows do.
LEMMA StoredCarried ==
  ASSUME Stored(draft), SameWords(draft', draft), UNCHANGED <<server, kept>>
         \/ UNCHANGED <<server.figures, server.people, server.places, kept>>
  PROVE  Stored(draft)'
<1>1. PICK d : d = draft OBVIOUS
<1>2. PICK e : e = draft' OBVIOUS
<1>3. SameWords(d, e) BY <1>1, <1>2 DEF SameWords
<1>4. Sent(e) /\ Autosaved(e) BY <1>1, <1>3, SentAlike, AutosavedAlike DEF Stored
<1>5. UNCHANGED <<server.figures, server.people, server.places, kept>> OBVIOUS
<1>6. Sent(e)' BY <1>4, <1>5 DEF Sent
<1>7. Autosaved(e)' BY <1>4, <1>5 DEF Autosaved
<1> QED BY <1>2, <1>6, <1>7 DEF Stored, Sent, Autosaved

\* A save that begins alone, with the words of the draft, is under way.
LEMMA BegunUnderway ==
  ASSUME StoreTypes, NEW d \in Draft, d.loan \in Loans, NEW s \in Savers, NEW i, NEW then,
         SaveBegins(s, d, i, then), InFlight = {}, SameWords(d, draft')
  PROVE  Underway' /\ SavedSo'
<1>1. \A t \in Savers : ~saves[t].on BY DEF InFlight
<1>2. PICK u : u = [on |-> TRUE, draft |-> d, ids |-> i, todo |-> Calls(d), then |-> then] OBVIOUS
<1>3. saves' = [saves EXCEPT ![s] = u] /\ u.on /\ u.draft = d /\ u.todo = Calls(d)
  BY <1>2 DEF SaveBegins
<1>4. saves'[s] = u /\ \A t \in Savers : t # s => saves'[t] = saves[t] BY <1>3 DEF StoreTypes
<1>5. \A t \in Savers : saves'[t].on => t = s BY <1>1, <1>4
<1>6. Progress(u, d, server')
  <2>1. /\ Due(u, "figures")
        /\ \A call \in Named(d) : Due(u, call)
        /\ Filled(d, "property") => Due(u, "property")
        /\ Due(u, "co") => d.co > 0
    BY <1>3, CallsDue
  <2> QED BY <2>1 DEF Progress
<1>7. Autosaved(d)'
  <2>1. PICK e : e = [d EXCEPT !.isDraft = TRUE] OBVIOUS
  <2>2. e \in Draft /\ SameWords(e, d) BY <2>1 DEF Draft, SameWords
  <2>3. kept' = KeepLocally(e) BY <2>1 DEF SaveBegins
  <2>4. StripSsn(e) \in kept'[d.loan] BY <2>2, <2>3, KeptTyped DEF StoreTypes, SameWords
  <2>5. SameWords(StripSsn(e), d) BY <2>2, StripTyped DEF SameWords
  <2>6. PICK f \in kept'[d.loan] : SameWords(f, d) BY <2>4, <2>5
  <2>7. f.text = d.text /\ f.empty = d.empty /\ f.product = d.product /\ f.co = d.co
    BY <2>6 DEF SameWords
  <2> QED BY <2>7 DEF Autosaved
<1>8. Underway' BY <1>3, <1>4, <1>5, <1>6, <1>7 DEF Underway, Autosaved
<1>9. SavedSo' BY <1>3, <1>4 DEF SavedSo
<1> QED BY <1>8, <1>9

\* While nothing happens to it, only the draft's loan is saved.
LEMMA OwnedStep ==
  ASSUME TypeInv, Timely, NEW l \in Loans, Owned(l), Clean(l)', [Next]_vars
  PROVE  Owned(l)'
<1> SUFFICES ASSUME NEW t \in Savers, saves'[t].on, saves'[t].draft.loan = l
             PROVE  draft'.loan = l
  BY DEF Owned
<1>0. StoreTypes /\ Pointing /\ StoreStep /\ l \in Ids /\ draft.loan \in Ids
      /\ faults \in [Ids -> SUBSET Causes]
  BY TypeStep DEF TypeInv, Ids, StoreTypes, Draft
<1>1. CASE saves'[t].draft = draft' BY <1>1
<1>2. CASE saves[t].on /\ saves'[t].draft = saves[t].draft
  <2>1. draft.loan = l BY <1>2 DEF Owned
  <2>2. ASSUME NEW k \in Ids, NEW d \in Draft, Begins(k, d) PROVE FALSE
    <3>1. "switched" \in Replaced(k, Open)[l] BY <1>0, <2>1 DEF Replaced
    <3>2. "switched" \in faults'[l] BY <1>0, <2>2, <3>1 DEF Begins
    <3> QED BY <3>2, UncleanCauses DEF Clean
  <2>3. ASSUME NEW k \in Ids, Opening(k) PROVE draft'.loan = l
    <3>1. CASE draft.loan = k BY <1>0, <2>1, <2>3, <3>1, HydratedLoan DEF Opening
    <3>2. CASE draft.loan # k
      <4>1. faults' = Blame({draft.loan, k}, "switched") BY <2>3, <3>2 DEF Opening, HydrateFromApi
      <4> QED BY <1>0, <2>1, <4>1, UncleanCauses, NotBlamed
    <3> QED BY <3>1, <3>2
  <2> QED BY <1>0, <2>1, <2>2, <2>3, LoanStays
<1> QED BY <1>0, <1>1, <1>2, SaveDrafts

\* While nothing happens to its loan, a save in flight has done what is not due,
\* and what is saved is stored.
LEMMA SavedStep ==
  ASSUME TypeInv, Timely, Placed, NoTimer, SavedInv, [Next]_vars,
         draft'.loan \in Loans, Clean(draft.loan)'
  PROVE  Underway' /\ SavedSo'
<1>0. /\ StoreTypes /\ Pointing /\ ~Idle.on /\ FaultsGrow /\ limit' = limit /\ StoreTypes'
      /\ saves \in [Savers -> Save] /\ draft \in Draft /\ server \in Server
      /\ faults \in [Ids -> SUBSET Causes]
  BY TypeStep DEF Idle, TypeInv, StoreTypes
<1>1. PICK l \in Loans : l = draft'.loan OBVIOUS
<1>2. l \in Ids BY DEF Ids
<1>3. Clean(l)' BY <1>1
<1>4. ASSUME NEW ls, NEW cause \in Unclean, faults' = Blame(ls, cause) PROVE l \notin ls
  BY <1>0, <1>2, <1>3, <1>4, NotBlamed
<1>5. Clean(l) /\ Owned(l) /\ (draft.loan = l => Underway /\ SavedSo)
  <2>1. faults[l] \subseteq faults'[l] BY <1>0, <1>2 DEF FaultsGrow
  <2>2. Clean(l) BY <1>3, <2>1 DEF Clean
  <2> QED BY <2>2 DEF SavedInv
<1>6. ASSUME \A t \in Savers : saves'[t].on => saves'[t].draft.loan # l PROVE Underway'
  BY <1>1, <1>6 DEF Underway
<1>7. ASSUME NEW k \in Ids, NEW d \in Draft, Begins(k, d) PROVE Underway' /\ SavedSo'
  <2>1. draft' = d /\ d.loan = l BY <1>1, <1>7 DEF Begins
  <2>2. draft.loan # l
    <3>1. draft.loan = l => "switched" \in Replaced(k, Open)[l] BY <1>2 DEF Replaced
    <3>2. draft.loan = l => "switched" \in faults'[l] BY <1>2, <1>7, <3>1 DEF Begins
    <3> QED BY <1>3, <3>2, UncleanCauses DEF Clean
  <2>3. \A t \in Savers : saves[t].on => saves[t].draft.loan # l BY <1>5, <2>2 DEF Owned
  <2>4. CASE saves' = saves /\ d = EmptyDraft(k)
    <3>1. draft'.text = Blank BY <2>1, <2>4 DEF EmptyDraft
    <3>2. SavedSo' BY <3>1 DEF SavedSo, Blank
    <3> QED BY <1>6, <2>3, <2>4, <3>2
  <2>5. ASSUME NEW s \in Savers, SaveBegins(s, d, FreshIds, [go |-> "form", loan |-> k]),
               \A m \in Overlapping(k) : m \in Ids => "overlap" \in faults'[m]
        PROVE  Underway' /\ SavedSo'
    <3>1. k = l BY <1>7, <2>1 DEF Begins
    <3>2. InFlight # {} => l \in Overlapping(k) BY <3>1 DEF Overlapping
    <3>3. InFlight = {} BY <1>2, <1>3, <2>5, <3>2, UncleanCauses DEF Clean
    <3>4. SameWords(d, draft') BY <2>1 DEF SameWords
    <3> QED BY <1>0, <2>1, <2>5, <3>3, <3>4, BegunUnderway
  <2> QED BY <1>7, <2>4, <2>5 DEF Begins
<1>8. ASSUME NEW k \in Ids, Opening(k), draft.loan # k PROVE FALSE
  <2>0. HydrateFromApi(k) BY <1>8 DEF Opening
  <2>1. draft'.loan = k BY <1>0, <2>0, HydratedLoan
  <2>2. faults' = Blame({draft.loan, k}, "switched") BY <1>8, <2>0 DEF HydrateFromApi
  <2> QED BY <1>1, <1>4, <2>1, <2>2, UncleanCauses
<1>9. ASSUME NEW s \in Savers, NEW then \in Then, StartSave(s, then) PROVE Underway' /\ SavedSo'
  <2>1. draft' = draft /\ SaveBegins(s, draft, ids, then) BY <1>9 DEF StartSave
  <2>2. InFlight = {}
    <3>1. CASE InFlight # {}
      <4>1. faults' = Blame({saves[t].draft.loan : t \in InFlight} \cup {draft.loan}, "overlap")
        BY <1>9, <3>1 DEF StartSave, Overlapping
      <4> QED BY <1>1, <1>4, <2>1, <4>1, UncleanCauses
    <3> QED BY <3>1
  <2>3. SameWords(draft, draft') BY <2>1 DEF SameWords
  <2> QED BY <1>0, <1>1, <2>1, <2>2, <2>3, BegunUnderway
<1>10. ASSUME NEW s \in Savers, SaveCall(s), timer' = timer PROVE Underway' /\ SavedSo'
  <2>1. PICK v : v = saves[s] OBVIOUS
  <2>2. PICK u : u = saves'[s] OBVIOUS
  <2>3. PICK call : call = Head(v.todo) OBVIOUS
  <2>4. PICK cause : cause = "signed out" OBVIOUS
  <2>5. cause \in Unclean BY <2>4, Zenon DEF Unclean
  <2>6. v.on /\ u.on /\ u.draft = v.draft /\ draft' = draft /\ v.draft.loan \in Loans
    BY <1>0, <1>10, <2>1, <2>2, CallSteps
  <2>7. v.todo # <<>> /\ u.todo = Tail(v.todo) BY <1>0, <1>10, <2>1, <2>2, CallSteps
  <2>8. server' = Served(call, v.draft, v.ids) \/ faults' = Blame({v.draft.loan}, cause)
    BY <1>0, <1>10, <2>1, <2>2, <2>3, <2>4, CallSteps
  <2>9. \A t \in Savers : t # s => saves'[t] = saves[t] BY <1>0, <1>10, CallSteps
  <2>10. draft.loan = l /\ Underway /\ kept' = kept BY <1>0, <1>1, <1>5, <1>10, <2>6, CallSteps
  <2>11. ASSUME NEW t \in Savers, saves'[t].on, saves'[t].draft.loan = l
         PROVE  /\ \A r \in Savers : saves'[r].on => r = t
                /\ SameWords(saves'[t].draft, draft) \/ timer
                /\ Progress(saves'[t], saves'[t].draft, server')
                /\ Autosaved(saves'[t].draft)
    <3>1. saves[t].on /\ saves[t].draft = saves'[t].draft BY <2>1, <2>2, <2>6, <2>9, <2>11
    <3>2. \A r \in Savers : saves[r].on => r = t BY <2>10, <2>11, <3>1 DEF Underway
    <3>3. t = s BY <2>1, <2>6, <3>2
    <3>4. \A r \in Savers : saves'[r].on => r = t BY <2>9, <3>2, <3>3
    <3>5. SameWords(saves'[t].draft, draft) \/ timer BY <2>10, <2>11, <3>1 DEF Underway
    <3>6. v.draft.loan = l BY <2>1, <2>11, <3>1, <3>3
    <3>7. server' = Served(call, v.draft, v.ids) BY <1>4, <2>5, <2>8, <3>6
    <3>8. Progress(v, v.draft, server) BY <2>1, <2>6, <2>10, <3>6 DEF Underway
    <3>9. /\ v.draft \in Draft /\ v.ids \in IdMap /\ v.todo \in Seq(Request) /\ Points(v.ids, server)
          /\ PlaceOf(v.ids.place, v.draft.loan, server, faults)
      BY <1>0, <2>1 DEF Save, Pointing, Placed
    <3>10. faults[l] \cap {"switched", "late"} = {} BY <1>5, UncleanCauses
    <3>11. Progress(u, v.draft, server')
      BY <1>0, <2>3, <2>6, <2>7, <3>6, <3>7, <3>8, <3>9, <3>10, ServedProgress
    <3>12. Autosaved(saves'[t].draft) BY <2>10, <2>11, <3>1 DEF Underway
    <3> QED BY <2>2, <2>6, <3>3, <3>4, <3>5, <3>11, <3>12
  <2>12. Underway' BY <1>1, <1>10, <2>6, <2>10, <2>11 DEF Underway, Autosaved
  <2>13. SavedSo' BY <2>2, <2>6 DEF SavedSo
  <2> QED BY <2>12, <2>13
<1>11. ASSUME NEW s \in Savers, Ends(s) PROVE Underway' /\ SavedSo'
  <2>1. PICK v : v = saves[s] OBVIOUS
  <2>2. v.on BY <1>11, <2>1 DEF Ends, SaveDone, SaveFails
  <2>3. saves' = [saves EXCEPT ![s] = Idle] BY <1>11 DEF Ends, SaveDone, SaveFails
  <2>4. saves'[s] = Idle /\ \A t \in Savers : t # s => saves'[t] = saves[t] BY <1>0, <2>3
  <2>5. draft'.loan = draft.loan BY <1>0, <1>11, EndTypes DEF Ends
  <2>6. draft.loan = l /\ Underway BY <1>1, <1>5, <2>5
  <2>7. ASSUME NEW t \in Savers, saves'[t].on PROVE saves'[t].draft.loan # l
    <3>1. t # s /\ saves[t].on /\ saves'[t] = saves[t] BY <1>0, <2>4, <2>7
    <3>2. CASE saves[t].draft.loan = l
      <4>1. s = t BY <2>1, <2>2, <2>6, <3>1, <3>2 DEF Underway
      <4> QED BY <3>1, <4>1
    <3> QED BY <3>1, <3>2
  <2>8. Underway' BY <1>6, <2>7
  <2>9. CASE SaveFails(s)
    <3>1. saveStatus' = "error" BY <2>9 DEF SaveFails
    <3> QED BY <2>8, <3>1 DEF SavedSo
  <2>10. CASE SaveDone(s)
    <3>1. server' = server /\ kept' = kept /\ v.todo = <<>> /\ draft' = [draft EXCEPT !.isDraft = TRUE]
      BY <2>1, <2>10 DEF SaveDone
    <3>2. draft' \in Draft /\ SameWords(draft, draft') BY <1>0, <3>1 DEF Draft, SameWords
    <3>3. v.draft.loan = l
      <4>1. CASE v.draft.loan # l
        <5>1. faults' = Blame({draft.loan}, "late") BY <2>1, <2>6, <2>10, <4>1 DEF SaveDone
        <5> QED BY <1>4, <2>6, <5>1, UncleanCauses
      <4> QED BY <4>1
    <3>4. (SameWords(v.draft, draft) \/ timer) /\ Progress(v, v.draft, server) /\ Autosaved(v.draft)
      BY <2>1, <2>2, <2>6, <3>3 DEF Underway
    <3>5. CASE timer
      <4>1. timer' BY <1>11, <3>5 DEF Ends
      <4> QED BY <2>8, <4>1 DEF SavedSo
    <3>6. CASE SameWords(v.draft, draft)
      <4>1. SameWords(v.draft, draft') BY <3>2, <3>6 DEF SameWords
      <4>2. v.draft \in Draft BY <1>0, <2>1 DEF Save
      <4>3. PICK e : e = draft' OBVIOUS
      <4>4. Sent(e) /\ Autosaved(e)
        BY <1>0, <3>1, <3>2, <3>3, <3>4, <4>1, <4>2, <4>3, ProgressSent, AutosavedAlike
      <4>5. Sent(e)' /\ Autosaved(e)' BY <3>1, <4>4 DEF Sent, Autosaved
      <4>6. Stored(draft)' BY <4>3, <4>5 DEF Stored, Sent, Autosaved
      <4> QED BY <2>8, <4>6 DEF SavedSo
    <3> QED BY <3>4, <3>5, <3>6
  <2> QED BY <1>11, <2>9, <2>10 DEF Ends
<1>12. CASE Reload
  <2>1. saveStatus' = "idle" /\ saves' = [s \in Savers |-> Idle] BY <1>12 DEF Reload
  <2>2. \A t \in Savers : ~saves'[t].on BY <1>0, <2>1
  <2> QED BY <1>6, <2>1, <2>2 DEF SavedSo
<1>13. CASE Left
  <2>1. faults' = Blame({draft.loan}, "left") /\ draft' = draft BY <1>13 DEF Left
  <2> QED BY <1>1, <1>4, <2>1, UncleanCauses
<1>14. CASE Still
  <2>1. /\ UNCHANGED <<saves, saveStatus, kept, server.figures, server.people, server.places>>
        /\ draft'.loan = draft.loan
        /\ timer' \/ (SameWords(draft', draft) /\ ~timer)
    BY <1>14 DEF Still
  <2>2. draft.loan = l /\ Underway /\ SavedSo BY <1>1, <1>5, <2>1
  <2>3. \A v, d : Progress(v, d, server) => Progress(v, d, server') BY <2>1 DEF Progress
  <2>4. Underway'
    <3>1. ASSUME NEW t \in Savers, saves'[t].on, saves'[t].draft.loan = l
          PROVE  /\ \A r \in Savers : saves'[r].on => r = t
                 /\ SameWords(saves'[t].draft, draft') \/ timer'
                 /\ Progress(saves'[t], saves'[t].draft, server')
                 /\ Autosaved(saves'[t].draft)
      <4>1. /\ \A r \in Savers : saves[r].on => r = t
            /\ SameWords(saves[t].draft, draft) \/ timer
            /\ Progress(saves[t], saves[t].draft, server)
            /\ Autosaved(saves[t].draft)
        BY <2>1, <2>2, <3>1 DEF Underway
      <4>2. SameWords(saves[t].draft, draft') \/ timer' BY <2>1, <4>1 DEF SameWords
      <4> QED BY <2>1, <2>3, <4>1, <4>2
    <3> QED BY <1>1, <2>1, <3>1 DEF Underway, Autosaved
  <2>5. SavedSo'
    <3>1. CASE timer' BY <3>1 DEF SavedSo
    <3>2. CASE SameWords(draft', draft) /\ ~timer
      <4>1. SUFFICES ASSUME \A t \in Savers : ~saves'[t].on, saveStatus' = "saved", draft'.text # Blank
                     PROVE  Stored(draft)'
        BY DEF SavedSo, Blank
      <4>2. Stored(draft) BY <2>1, <2>2, <3>2, <4>1 DEF SavedSo, SameWords
      <4> QED BY <2>1, <3>2, <4>2, StoredCarried
    <3> QED BY <2>1, <3>1, <3>2
  <2> QED BY <2>4, <2>5
<1> QED BY <1>7, <1>8, <1>9, <1>10, <1>11, <1>12, <1>13, <1>14, Moves DEF Moving

\* "Saved" is true: with nothing in flight and no timer running, an open wizard
\* that shows a save has its draft in the browser and, as far as a save sends it,
\* on the server, unless saves overlapped, the store changed loans, a save ended
\* late, or the page or the token went before the autosave (submissionStore.ts
\* 161-241, SubmissionWizard.tsx 65-73).
THEOREM SavedIsTrue == Spec => []SavedIsStored
<1> DEFINE Inv == TypeInv /\ Timely /\ Placed /\ NoTimer /\ SavedInv
<1>1. WizardInit => Inv
  <2> SUFFICES ASSUME WizardInit PROVE Inv OBVIOUS
  <2>1. TypeInv /\ Timely BY InitTypes, InitTimely
  <2>2. /\ draft = EmptyDraft(Local) /\ step = "closed" /\ timer = FALSE
        /\ saves = [s \in Savers |-> Idle] /\ ids = [who |-> NoIds, place |-> 0]
        /\ server.places = <<>>
    BY DEF WizardInit, SubInit, EmptyServer
  <2>3. ~Idle.on BY DEF Idle
  <2>4. Placed BY <2>2 DEF Placed, PlaceOf, RowsPlaced, Idle
  <2>5. NoTimer BY <2>2 DEF NoTimer
  <2>6. \A l \in Loans : draft.loan # l BY <2>2 DEF EmptyDraft, Local, Loans
  <2>7. SavedInv BY <2>2, <2>3, <2>6 DEF SavedInv, Owned
  <2> QED BY <2>1, <2>4, <2>5, <2>7
<1>2. Inv /\ [Next]_vars => Inv'
  <2> SUFFICES ASSUME Inv, [Next]_vars PROVE Inv' OBVIOUS
  <2>1. TypeInv' /\ StoreStep /\ FaultsGrow BY TypeStep
  <2>2. Timely' BY <2>1, TimelyStep DEF TypeInv
  <2>3. Placed' BY <2>1, PlacedStep DEF TypeInv
  <2>4. NoTimer' BY NoTimerStep
  <2>5. ASSUME NEW l \in Loans, Clean(l)'
        PROVE  Owned(l)' /\ (draft'.loan = l => Underway' /\ SavedSo')
    <3>1. Clean(l) BY <2>1, <2>5 DEF Clean, FaultsGrow, Ids
    <3>2. Owned(l)' BY <2>5, <3>1, OwnedStep DEF SavedInv
    <3>3. draft'.loan = l => Clean(draft.loan)' BY <2>5 DEF Clean
    <3> QED BY <3>2, <3>3, SavedStep
  <2>6. SavedInv' BY <2>5 DEF SavedInv
  <2> QED BY <2>1, <2>2, <2>3, <2>4, <2>6
<1>3. Inv => SavedIsStored
  <2> SUFFICES ASSUME Inv, Open, draft.text # Blank, saveStatus = "saved", InFlight = {}, ~timer,
                      draft.loan # Local, Clean(draft.loan)
               PROVE  Stored(draft)
    BY Zenon DEF SavedIsStored, Clean, Unclean
  <2>1. draft.loan \in Loans BY DEF TypeInv, StoreTypes, Draft, Ids
  <2>2. SavedSo BY <2>1 DEF SavedInv
  <2>3. \A s \in Savers : ~saves[s].on BY DEF InFlight
  <2> QED BY <2>2, <2>3 DEF SavedSo
<1> QED BY <1>1, <1>2, <1>3, PTL DEF Spec

=============================================================================
