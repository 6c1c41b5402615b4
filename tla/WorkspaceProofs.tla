--------------------------- MODULE WorkspaceProofs ---------------------------
(***************************************************************************)
(* Proofs about Workspace: its types, what its forms show and store, and   *)
(* that a verdict on a condition stays.                                    *)
(***************************************************************************)
EXTENDS Workspace, SequenceTheorems, FiniteSetTheorems, WellFoundedInduction, TLAPS

---------------------------------------------------------------------------
(* Numbers, sequences and the sections.                                    *)

\* A nonempty set of numbers with a bound has its maximum.
LEMMA MaxOf ==
  ASSUME NEW N \in Nat, NEW S, S \subseteq 0..N, S # {}
  PROVE  Max(S) \in S /\ \A y \in S : y <= Max(S)
<1> DEFINE T == {N - x : x \in S}
           R == OpToRel(<, Nat)
<1>1. T \subseteq Nat /\ T # {}
  <2>1. \A x \in S : N - x \in Nat OBVIOUS
  <2> QED BY <2>1
<1>2. \A x, y \in Nat : x < y => <<x, y>> \in R BY DEF OpToRel
<1>3. IsWellFoundedOn(R, Nat) BY NatLessThanWellFounded
<1>6. \A y \in S : N - y \in T OBVIOUS
<1>7. \A t \in T : \E x \in S : t = N - x OBVIOUS
<1> HIDE DEF R, T
<1>4. PICK t \in T : \A y \in T : ~ (<<y, t>> \in R) BY <1>1, <1>3, WFMin
<1>5. \A y \in T : ~ (y < t) BY <1>1, <1>2, <1>4
<1>8. PICK x \in S : t = N - x BY <1>7
<1>9. \A y \in S : x >= y
  <2> SUFFICES ASSUME NEW y \in S PROVE x >= y OBVIOUS
  <2>1. ~ (N - y < N - x) BY <1>5, <1>6, <1>8
  <2> QED BY <2>1
<1>10. Max(S) \in S /\ \A y \in S : Max(S) >= y BY <1>9 DEF Max
<1> QED BY <1>10

\* The elements of a finite set in a sequence: each is there once.
LEMMA EachOnce ==
  ASSUME NEW S, IsFiniteSet(S), NEW T, S \subseteq T
  PROVE  /\ SetToSeq(S) \in Seq(T)
         /\ DOMAIN SetToSeq(S) = 1..Len(SetToSeq(S))
         /\ \A m, n \in DOMAIN SetToSeq(S) : SetToSeq(S)[m] = SetToSeq(S)[n] => m = n
         /\ \A n \in DOMAIN SetToSeq(S) : SetToSeq(S)[n] \in S
         /\ \A x \in S : \E n \in DOMAIN SetToSeq(S) : SetToSeq(S)[n] = x
<1> DEFINE N == Cardinality(S)
<1>1. N \in Nat /\ ExistsBijection(1..N, S) BY FS_CardinalityType
<1>2. PICK g \in Bijection(1..N, S) : TRUE BY <1>1 DEF ExistsBijection
<1>3. g \in [1..N -> S] /\ IsInjective(g)
  BY <1>2 DEF Bijection, Injection, IsInjective
<1>4. PICK f : f = SetToSeq(S) OBVIOUS
<1>5. f \in [1..N -> S] /\ IsInjective(f) BY <1>3, <1>4 DEF SetToSeq
<1>6. f \in Seq(S) /\ Len(f) = N /\ DOMAIN f = 1..N BY <1>1, <1>5
<1>7. f \in Surjection(1..N, S)
  <2>1. f \in Injection(1..N, S) BY <1>5 DEF Injection
  <2>2. IsFiniteSet(1..N) /\ Cardinality(1..N) = N BY <1>1, FS_Interval
  <2> QED BY <1>1, <2>1, <2>2, FS_Injection
<1>8. \A x \in S : \E n \in 1..N : f[n] = x BY <1>7 DEF Surjection
<1>9. f \in Seq(T) BY <1>1, <1>5
<1> QED BY <1>4, <1>5, <1>6, <1>8, <1>9 DEF IsInjective

\* The kinds of sections.
LEMMA Kinds ==
  /\ FormKinds = {"appraisal", "title", "property", "escrow", "terms", "urla", "income", "processing", "underwriting"}
  /\ ListKinds = {"credit", "audit", "runs", "tasks", "conversation", "documents", "exceptions", "titleExceptions",
                  "activity", "status", "conditions"}
  /\ FormKinds \cap ListKinds = {}
  /\ "none" \notin FormKinds /\ "none" \notin ListKinds
<1>1. FormKinds = {"appraisal", "title", "property", "escrow", "terms", "urla", "income", "processing", "underwriting"}
  BY DEF FormKinds, Sections
<1>2. ListKinds = {"credit", "audit", "runs", "tasks", "conversation", "documents", "exceptions", "titleExceptions",
                  "activity", "status", "conditions"}
  BY DEF ListKinds, ListSections
<1> QED BY <1>1, <1>2

\* The properties of the forms, by kind.
LEMMA FormFacts ==
  \A k \in FormKinds :    /\ From(k) = "list" <=> k \in {"appraisal", "title", "property"}
                          /\ From(k) = "nowhere" <=> k \in {"processing", "underwriting"}
                          /\ From(k) = "detail" <=> k \in {"terms", "urla", "income"}
                          /\ By(k) = "id" <=> k \in {"appraisal", "title", "property", "urla"}
                          /\ By(k) = "none" <=> k \in {"income", "processing", "underwriting"}
                          /\ By(k) \in {"id", "loan", "none"}
                          /\ Sections[k].create <=> k \in {"appraisal", "title", "escrow"}
<1>1. From("appraisal") = "list" /\ By("appraisal") = "id" /\ Sections["appraisal"].create
  BY DEF From, By, Sections, AppraisalForm
<1>2. From("title") = "list" /\ By("title") = "id" /\ Sections["title"].create
  BY DEF From, By, Sections, TitleForm
<1>3. From("property") = "list" /\ By("property") = "id" /\ ~Sections["property"].create
  BY DEF From, By, Sections, PropertyForm
<1>4. From("escrow") = "loan" /\ By("escrow") = "loan" /\ Sections["escrow"].create
  BY DEF From, By, Sections, EscrowForm
<1>5. From("terms") = "detail" /\ By("terms") = "loan" /\ ~Sections["terms"].create
  BY DEF From, By, Sections, TermsForm
<1>6. From("urla") = "detail" /\ By("urla") = "id" /\ ~Sections["urla"].create
  BY DEF From, By, Sections, UrlaForm
<1>7. From("income") = "detail" /\ By("income") = "none" /\ ~Sections["income"].create
  BY DEF From, By, Sections, IncomeForm
<1>8. From("processing") = "nowhere" /\ By("processing") = "none" /\ ~Sections["processing"].create
  BY DEF From, By, Sections, ProcessingForm
<1>9. From("underwriting") = "nowhere" /\ By("underwriting") = "none" /\ ~Sections["underwriting"].create
  BY DEF From, By, Sections, UnderwritingForm, ProcessingForm
<1> QED BY <1>1, <1>2, <1>3, <1>4, <1>5, <1>6, <1>7, <1>8, <1>9, Kinds

---------------------------------------------------------------------------
(* The forms: types of what is mounted, written and stored.                *)

\* The records of a form, its load and its writes, and those of the server.
Edit == [loan : Loan, field : {"plain", "ignored", "rate", "local", "co", "added"}]
Row == [kind : FormKinds, loan : Loan, form : SUBSET Nat, co : BOOLEAN]
Reading == [at : Nat, form : SUBSET Nat]
Panel == [kind : FormKinds, mount : Nat, loan : Loan, load : {"first", "again", "done", "error"}, read : Reading,
          row : Nat, form : SUBSET Nat, saved : SUBSET Nat, busy : BOOLEAN, added : BOOLEAN]
Writing == [op : {"create", "save", "add", "remove"}, mount : Nat, kind : FormKinds, loan : Loan, row : Nat,
            form : SUBSET Nat, done : BOOLEAN]

\* The page.
PageTypes ==
  /\ limit \in Limits
  /\ route \in [loan : Loan, section : limit.sections]
  /\ shown \in Loan \cup {NoLoan} /\ asked \in BOOLEAN
  /\ mounts \in Nat /\ moves \in Nat

\* The state of the forms.
FormRecords ==
  /\ rows \in Seq(Row) /\ typed \in Seq(Edit)
  /\ panel \in {NoPanel} \cup Panel
  /\ writes \subseteq Writing

\* Edits were made, records of a kind are there.
Made(form, ts) == form \subseteq 1..Len(ts)
RowOf(n, k, rs) == n = 0 \/ (n \in 1..Len(rs) /\ rs[n].kind = k)

\* The form mounted is the section of the address, on the loan shown.
PanelBounds ==
  panel # NoPanel =>
    /\ panel.mount \in 1..mounts /\ panel.loan = shown /\ panel.kind = route.section
    /\ RowOf(panel.row, panel.kind, rows) /\ Made(panel.form, typed) /\ Made(panel.saved, typed)
    /\ panel.read # NotRead => RowOf(panel.read.at, panel.kind, rows) /\ Made(panel.read.form, typed)

\* A write is of a mount, and to a record of its kind.
WriteBounds ==
  \A w \in writes :
    /\ w.mount \in 1..mounts /\ RowOf(w.row, w.kind, rows) /\ Made(w.form, typed)
    /\ w.op = "create" /\ ~w.done => w.row = 0
    /\ w.op = "remove" => w.row # 0
    /\ Ours(w) => panel.kind = w.kind

RowBounds == \A n \in 1..Len(rows) : Made(rows[n].form, typed)

FormTypes == FormRecords /\ PanelBounds /\ WriteBounds /\ RowBounds

\* Nothing mounted is no form.
LEMMA NoPanelKind == NoPanel.kind = "none" /\ NoPanel \notin Panel
<1>1. NoPanel.kind = "none" BY DEF NoPanel
<1>2. \A p \in Panel : p.kind # "none" BY Kinds DEF Panel
<1> QED BY <1>1, <1>2

\* A load finds the newest record of the kind and the loan.
LEMMA FoundFacts ==
  ASSUME FormRecords, NEW k, NEW l
  PROVE  /\ Found(k, l) \in Reading
         /\ Found(k, l).at = 0 => RowsOf(k, l) = {} /\ Found(k, l).form = {}
         /\ Found(k, l).at # 0 => /\ Found(k, l).at \in 1..Len(rows)
                                  /\ rows[Found(k, l).at].kind = k /\ rows[Found(k, l).at].loan = l
                                  /\ Found(k, l).form = rows[Found(k, l).at].form
         /\ \A n \in RowsOf(k, l) : n <= Found(k, l).at
<1>1. Len(rows) \in Nat /\ DOMAIN rows = 1..Len(rows) /\ \A n \in 1..Len(rows) : rows[n] \in Row
  BY DEF FormRecords
<1>2. CASE RowsOf(k, l) = {}
  <2>1. Found(k, l) = [at |-> 0, form |-> {}] BY <1>2 DEF Found, NoRow
  <2> QED BY <1>2, <2>1 DEF Reading
<1>3. CASE RowsOf(k, l) # {}
  <2>1. RowsOf(k, l) \subseteq 0..Len(rows) BY <1>1 DEF RowsOf
  <2>2. PICK n : n = Max(RowsOf(k, l)) OBVIOUS
  <2>3. n \in RowsOf(k, l) /\ \A m \in RowsOf(k, l) : m <= n BY <1>1, <1>3, <2>1, <2>2, MaxOf
  <2>4. n \in 1..Len(rows) /\ rows[n].kind = k /\ rows[n].loan = l /\ rows[n] \in Row
    BY <1>1, <2>3 DEF RowsOf
  <2>5. Found(k, l) = [at |-> n, form |-> rows[n].form] BY <1>3, <2>2 DEF Found
  <2> QED BY <2>3, <2>4, <2>5 DEF Reading, Row
<1> QED BY <1>2, <1>3

\* What a write goes to.
LEMMA TargetFacts ==
  ASSUME FormRecords, NEW w \in Writing, RowOf(w.row, w.kind, rows)
  PROVE  /\ Target(w) \in Nat /\ RowOf(Target(w), w.kind, rows)
         /\ By(w.kind) = "id" => Target(w) = w.row
         /\ By(w.kind) # "id" => /\ Target(w) = Found(w.kind, w.loan).at
                                 /\ Target(w) # 0 => rows[Target(w)].loan = w.loan
                                 /\ Target(w) = 0 => RowsOf(w.kind, w.loan) = {}
<1>1. CASE By(w.kind) = "id"
  <2>1. Target(w) = w.row BY <1>1 DEF Target
  <2> QED BY <1>1, <2>1 DEF Writing
<1>2. CASE By(w.kind) # "id"
  <2>1. Target(w) = Found(w.kind, w.loan).at BY <1>2 DEF Target
  <2> QED BY <1>2, <2>1, FoundFacts DEF Reading, RowOf
<1> QED BY <1>1, <1>2

\* Rows are added at the end, and stay what they are but for their form.
Grown(R) ==
  /\ R \in Seq(Row) /\ Len(rows) <= Len(R)
  /\ \A n \in 1..Len(rows) : R[n].kind = rows[n].kind /\ R[n].loan = rows[n].loan

\* What a write puts into the record it goes to.
LEMMA PutRows ==
  ASSUME FormRecords, NEW w \in Writing, RowOf(w.row, w.kind, rows), NEW part \in SUBSET w.form
  PROVE  /\ Grown(Put(w, part))
         /\ \/ Put(w, part) = rows
            \/ /\ Target(w) = 0 /\ By(w.kind) # "none" /\ w.kind # "urla"
               /\ Put(w, part) = Append(rows, [kind |-> w.kind, loan |-> w.loan, form |-> part, co |-> TRUE])
            \/ /\ Target(w) \in 1..Len(rows) /\ By(w.kind) # "none"
               /\ Len(Put(w, part)) = Len(rows)
               /\ \A n \in 1..Len(rows) : n # Target(w) => Put(w, part)[n] = rows[n]
               /\ Put(w, part)[Target(w)].form =
                    IF w.kind = "urla" THEN rows[Target(w)].form \cup part ELSE part
<1>0. /\ Len(rows) \in Nat /\ DOMAIN rows = 1..Len(rows) /\ rows \in Seq(Row)
      /\ \A n \in 1..Len(rows) : rows[n] \in Row
  BY DEF FormRecords
<1>1. PICK n : n = Target(w) OBVIOUS
<1>2. n \in Nat /\ (n # 0 => n \in 1..Len(rows)) BY <1>1, TargetFacts DEF RowOf
<1>3. part \in SUBSET Nat /\ w.kind \in FormKinds /\ w.loan \in Loan BY DEF Writing
<1>4. Grown(rows) BY <1>0 DEF Grown
<1>5. CASE By(w.kind) = "none" \/ (w.kind = "urla" /\ n = 0)
  <2>1. Put(w, part) = rows BY <1>1, <1>5 DEF Put
  <2> QED BY <1>4, <2>1
<1>6. CASE ~(By(w.kind) = "none" \/ (w.kind = "urla" /\ n = 0)) /\ n = 0
  <2>1. PICK r : r = [kind |-> w.kind, loan |-> w.loan, form |-> part, co |-> TRUE] OBVIOUS
  <2>2. Put(w, part) = Append(rows, r) BY <1>1, <1>6, <2>1 DEF Put
  <2>3. r \in Row BY <1>3, <2>1 DEF Row
  <2>4. /\ Append(rows, r) \in Seq(Row) /\ Len(Append(rows, r)) = Len(rows) + 1
        /\ \A m \in 1..Len(rows) : Append(rows, r)[m] = rows[m]
    BY <1>0, <2>3
  <2>5. Grown(Append(rows, r)) BY <1>0, <2>4 DEF Grown
  <2> QED BY <1>1, <1>6, <2>1, <2>2, <2>5
<1>7. CASE ~(By(w.kind) = "none" \/ (w.kind = "urla" /\ n = 0)) /\ n # 0
  <2>1. PICK f : f = IF w.kind = "urla" THEN rows[n].form \cup part ELSE part OBVIOUS
  <2>2. PICK r : r = [rows[n] EXCEPT !.form = f] OBVIOUS
  <2>3. PICK R : R = [rows EXCEPT ![n] = r] OBVIOUS
  <2>4. rows[n] \in Row /\ f \in SUBSET Nat BY <1>0, <1>2, <1>3, <1>7, <2>1 DEF Row
  <2>5. r \in Row /\ r.form = f /\ r.kind = rows[n].kind /\ r.loan = rows[n].loan
    BY <2>2, <2>4 DEF Row
  <2>6. Put(w, part) = R BY <1>1, <1>7, <2>1, <2>2, <2>3 DEF Put
  <2>7. R \in Seq(Row) /\ Len(R) = Len(rows) /\ R[n] = r /\ \A m \in 1..Len(rows) : m # n => R[m] = rows[m]
    BY <1>0, <1>2, <1>7, <2>3, <2>5
  <2>8. Grown(R) BY <1>0, <1>2, <1>7, <2>5, <2>7 DEF Grown
  <2> QED BY <1>1, <1>2, <1>7, <2>1, <2>5, <2>6, <2>7, <2>8
<1> QED BY <1>5, <1>6, <1>7

\* It puts nothing but edits that were made.
LEMMA PutMade ==
  ASSUME FormRecords, RowBounds, NEW w \in Writing, RowOf(w.row, w.kind, rows),
         NEW part \in SUBSET w.form, Made(part, typed)
  PROVE  \A n \in 1..Len(Put(w, part)) : Made(Put(w, part)[n].form, typed)
<1>0. Len(rows) \in Nat /\ rows \in Seq(Row) /\ \A n \in 1..Len(rows) : Made(rows[n].form, typed)
  BY DEF FormRecords, RowBounds
<1>1. PICK R : R = Put(w, part) OBVIOUS
<1>2. CASE R = rows BY <1>0, <1>1, <1>2
<1>3. ASSUME R = Append(rows, [kind |-> w.kind, loan |-> w.loan, form |-> part, co |-> TRUE])
      PROVE  \A n \in 1..Len(R) : Made(R[n].form, typed)
  <2>1. PICK r : r = [kind |-> w.kind, loan |-> w.loan, form |-> part, co |-> TRUE] OBVIOUS
  <2>2. /\ Len(R) = Len(rows) + 1 /\ R[Len(rows) + 1] = r /\ r.form = part
        /\ \A n \in 1..Len(rows) : R[n] = rows[n]
    BY <1>0, <1>3, <2>1
  <2>3. ASSUME NEW n \in 1..Len(R) PROVE Made(R[n].form, typed)
    <3>1. CASE n = Len(rows) + 1 BY <2>2, <3>1
    <3>2. CASE n \in 1..Len(rows) BY <1>0, <2>2, <3>2
    <3> QED BY <1>0, <2>2, <3>1, <3>2
  <2> QED BY <2>3
<1>4. ASSUME Target(w) \in 1..Len(rows), Len(R) = Len(rows),
             \A n \in 1..Len(rows) : n # Target(w) => R[n] = rows[n],
             R[Target(w)].form = IF w.kind = "urla" THEN rows[Target(w)].form \cup part ELSE part
      PROVE  \A n \in 1..Len(R) : Made(R[n].form, typed)
  <2>1. Made(R[Target(w)].form, typed) BY <1>0, <1>4 DEF Made
  <2> QED BY <1>0, <1>4, <2>1
<1> QED BY <1>1, <1>2, <1>3, <1>4, PutRows

\* What a write does to the records.
LEMMA ExecutedRows ==
  ASSUME FormRecords, WriteBounds, RowBounds, NEW w \in writes
  PROVE  /\ Grown(Executed(w))
         /\ \A n \in 1..Len(Executed(w)) : Made(Executed(w)[n].form, typed)
         /\ w.op = "create" =>
              /\ Len(Executed(w)) = Len(rows) + 1
              /\ Executed(w)[Len(rows) + 1] = [kind |-> w.kind, loan |-> w.loan, form |-> {}, co |-> TRUE]
              /\ \A n \in 1..Len(rows) : Executed(w)[n] = rows[n]
<1>0. /\ Len(rows) \in Nat /\ DOMAIN rows = 1..Len(rows) /\ rows \in Seq(Row)
      /\ \A n \in 1..Len(rows) : rows[n] \in Row /\ Made(rows[n].form, typed)
      /\ w \in Writing /\ Made(w.form, typed)
  BY DEF FormRecords, WriteBounds, RowBounds
<1>1. Grown(rows) BY <1>0 DEF Grown
<1>2. CASE w.op = "create"
  <2>1. PICK r : r = [kind |-> w.kind, loan |-> w.loan, form |-> {}, co |-> TRUE] OBVIOUS
  <2>2. Executed(w) = Append(rows, r) BY <1>2, <2>1 DEF Executed, NewRow
  <2>3. r \in Row /\ r.form = {} BY <1>0, <2>1 DEF Row, Writing
  <2>4. /\ Append(rows, r) \in Seq(Row) /\ Len(Append(rows, r)) = Len(rows) + 1
        /\ Append(rows, r)[Len(rows) + 1] = r
        /\ \A m \in 1..Len(rows) : Append(rows, r)[m] = rows[m]
    BY <1>0, <2>3
  <2>5. Grown(Append(rows, r)) BY <1>0, <2>4 DEF Grown
  <2>6. ASSUME NEW n \in 1..Len(rows) + 1 PROVE Made(Append(rows, r)[n].form, typed)
    <3>1. CASE n = Len(rows) + 1 BY <2>3, <2>4, <3>1 DEF Made
    <3>2. CASE n \in 1..Len(rows) BY <1>0, <2>4, <3>2
    <3> QED BY <1>0, <3>1, <3>2
  <2> QED BY <2>1, <2>2, <2>4, <2>5, <2>6
<1>3. CASE w.op = "save"
  <2>1. PICK part : part = Taken(w.form) OBVIOUS
  <2>2. part \in SUBSET w.form /\ Made(part, typed) BY <1>0, <2>1 DEF Taken, Made
  <2>3. Executed(w) = Put(w, part) BY <1>3, <2>1 DEF Executed
  <2>4. RowOf(w.row, w.kind, rows) BY DEF WriteBounds
  <2>5. Grown(Put(w, part)) BY <1>0, <2>2, <2>4, PutRows
  <2>6. \A n \in 1..Len(Put(w, part)) : Made(Put(w, part)[n].form, typed)
    BY <1>0, <2>2, <2>4, PutMade
  <2> QED BY <1>3, <2>3, <2>5, <2>6
<1>4. CASE w.op = "remove"
  <2>1. w.row \in 1..Len(rows) BY <1>4 DEF WriteBounds, RowOf
  <2>2. PICK n : n = w.row OBVIOUS
  <2>3. PICK r : r = [rows[n] EXCEPT !.co = FALSE] OBVIOUS
  <2>4. r \in Row /\ r.form = rows[n].form /\ r.kind = rows[n].kind /\ r.loan = rows[n].loan
    BY <1>0, <2>1, <2>2, <2>3 DEF Row
  <2>5. PICK R : R = [rows EXCEPT ![n] = r] OBVIOUS
  <2>6. R \in Seq(Row) /\ Len(R) = Len(rows) /\ R[n] = r /\ \A m \in 1..Len(rows) : m # n => R[m] = rows[m]
    BY <1>0, <2>1, <2>2, <2>4, <2>5
  <2>7. Executed(w) = R BY <1>4, <2>2, <2>3, <2>5 DEF Executed
  <2>8. Grown(R) BY <1>0, <2>4, <2>6 DEF Grown
  <2>9. \A m \in 1..Len(R) : Made(R[m].form, typed) BY <1>0, <2>4, <2>6
  <2> QED BY <1>4, <2>7, <2>8, <2>9
<1>5. CASE w.op = "add"
  <2>1. Executed(w) = rows BY <1>5 DEF Executed
  <2> QED BY <1>0, <1>1, <1>5, <2>1
<1> QED BY <1>0, <1>2, <1>3, <1>4, <1>5 DEF Writing

\* Records and edits stay when others come.
LEMMA Stays ==
  ASSUME FormRecords, NEW R, Grown(R), NEW ts \in Seq(Edit), Len(typed) <= Len(ts)
  PROVE  /\ \A n, k : RowOf(n, k, rows) => RowOf(n, k, R)
         /\ \A form : Made(form, typed) => Made(form, ts)
<1>1. Len(rows) \in Nat /\ Len(R) \in Nat /\ Len(typed) \in Nat /\ Len(ts) \in Nat BY DEF FormRecords, Grown
<1> QED BY <1>1 DEF RowOf, Made, Grown

\* A form that stays mounted.
LEMMA PanelKeeps ==
  ASSUME FormTypes, Grown(rows'), typed' \in Seq(Edit), Len(typed) <= Len(typed'),
         UNCHANGED <<route, shown, mounts>>,
         panel # NoPanel, NEW p \in Panel, panel' = p,
         p.kind = panel.kind, p.mount = panel.mount, p.loan = panel.loan,
         p.row = panel.row \/ RowOf(p.row, panel.kind, rows'),
         p.form = panel.form \/ Made(p.form, typed'),
         p.saved = panel.saved \/ Made(p.saved, typed'),
         p.read # NotRead => \/ p.read = panel.read
                             \/ RowOf(p.read.at, panel.kind, rows') /\ Made(p.read.form, typed')
  PROVE  panel' \in {NoPanel} \cup Panel /\ PanelBounds'
<1>1. PICK q : q = panel OBVIOUS
<1>2. /\ q.mount \in 1..mounts /\ q.loan = shown /\ q.kind = route.section
      /\ RowOf(q.row, q.kind, rows) /\ Made(q.form, typed) /\ Made(q.saved, typed)
      /\ q.read # NotRead => RowOf(q.read.at, q.kind, rows) /\ Made(q.read.form, typed)
  BY <1>1 DEF FormTypes, PanelBounds
<1>3. /\ \A n, k : RowOf(n, k, rows) => RowOf(n, k, rows')
      /\ \A form : Made(form, typed) => Made(form, typed')
  BY Stays DEF FormTypes
<1>4. RowOf(p.row, p.kind, rows') /\ Made(p.form, typed') /\ Made(p.saved, typed')
  BY <1>1, <1>2, <1>3
<1>5. p.read # NotRead => RowOf(p.read.at, p.kind, rows') /\ Made(p.read.form, typed')
  BY <1>1, <1>2, <1>3
<1>6. p.mount \in 1..mounts' /\ p.loan = shown' /\ p.kind = route'.section BY <1>1, <1>2
<1> QED BY <1>4, <1>5, <1>6 DEF PanelBounds

\* A mount is of one kind.
SameMount == panel' # NoPanel => panel # NoPanel /\ panel'.mount = panel.mount /\ panel'.kind = panel.kind

\* Writes that stay, and those that come.
LEMMA WritesKeep ==
  ASSUME FormTypes, Grown(rows'), typed' \in Seq(Edit), Len(typed) <= Len(typed'),
         mounts' = mounts, SameMount,
         NEW ws \in SUBSET Writing, writes' \subseteq writes \cup ws,
         \A w \in ws : /\ w.mount \in 1..mounts /\ RowOf(w.row, w.kind, rows') /\ Made(w.form, typed')
                       /\ w.op = "create" /\ ~w.done => w.row = 0
                       /\ w.op = "remove" => w.row # 0
                       /\ Ours(w) => panel.kind = w.kind
  PROVE  writes' \subseteq Writing /\ WriteBounds'
<1>1. /\ \A n, k : RowOf(n, k, rows) => RowOf(n, k, rows')
      /\ \A form : Made(form, typed) => Made(form, typed')
  BY Stays DEF FormTypes
<1>2. writes' \subseteq Writing BY DEF FormTypes, FormRecords
<1>3. ASSUME NEW w \in writes'
      PROVE  /\ w.mount \in 1..mounts /\ RowOf(w.row, w.kind, rows') /\ Made(w.form, typed')
             /\ w.op = "create" /\ ~w.done => w.row = 0
             /\ w.op = "remove" => w.row # 0
             /\ panel # NoPanel /\ panel.mount = w.mount => panel.kind = w.kind
  <2>1. CASE w \in ws BY <2>1 DEF Ours
  <2>2. CASE w \in writes BY <1>1, <2>2 DEF FormTypes, WriteBounds, Ours
  <2> QED BY <1>3, <2>1, <2>2
<1>4. ASSUME NEW w \in writes', panel' # NoPanel, panel'.mount = w.mount PROVE panel'.kind = w.kind
  BY <1>3, <1>4 DEF SameMount
<1> QED BY <1>2, <1>3, <1>4 DEF WriteBounds, Ours

\* What a load leaves in the form.
LEMMA LoadedFacts ==
  ASSUME panel \in Panel, NEW r \in Reading
  PROVE  /\ LoadedForm(r) \in Panel
         /\ LoadedForm(r).kind = panel.kind /\ LoadedForm(r).mount = panel.mount /\ LoadedForm(r).loan = panel.loan
         /\ LoadedForm(r).read = panel.read /\ LoadedForm(r).load = "done" /\ LoadedForm(r).busy = panel.busy
         /\ \/ /\ panel.kind = "urla" /\ LoadedForm(r).row = r.at
               /\ LoadedForm(r).form = {} /\ LoadedForm(r).saved = {}
            \/ /\ panel.kind # "urla" /\ (r.at # 0 \/ panel.kind = "terms") /\ LoadedForm(r).row = r.at
               /\ LoadedForm(r).form = r.form /\ LoadedForm(r).saved = r.form
            \/ /\ panel.kind # "urla" /\ r.at = 0
               /\ panel.kind = "terms" => panel.row = 0
               /\ LoadedForm(r).row = IF panel.kind = "escrow" THEN 0 ELSE panel.row
               /\ LoadedForm(r).form = panel.form /\ LoadedForm(r).saved = panel.saved
<1>1. PICK p : p = [panel EXCEPT !.load = "done"] OBVIOUS
<1>2. /\ p \in Panel /\ p.load = "done" /\ p.kind = panel.kind /\ p.mount = panel.mount /\ p.loan = panel.loan
      /\ p.read = panel.read /\ p.busy = panel.busy
      /\ p.row = panel.row /\ p.form = panel.form /\ p.saved = panel.saved
  BY <1>1 DEF Panel
<1>3. PICK q : q = [p EXCEPT !.row = r.at, !.form = {}, !.saved = {}] OBVIOUS
<1>4. PICK t : t = [p EXCEPT !.row = r.at, !.form = r.form, !.saved = r.form] OBVIOUS
<1>5. PICK e : e = [p EXCEPT !.row = 0] OBVIOUS
<1>6. r.at \in Nat /\ r.form \in SUBSET Nat BY DEF Reading
<1>7. /\ q \in Panel /\ q.row = r.at /\ q.form = {} /\ q.saved = {}
      /\ q.load = "done" /\ q.kind = panel.kind /\ q.mount = panel.mount /\ q.loan = panel.loan
      /\ q.read = panel.read /\ q.busy = panel.busy
  BY <1>2, <1>3, <1>6 DEF Panel
<1>8. /\ t \in Panel /\ t.row = r.at /\ t.form = r.form /\ t.saved = r.form
      /\ t.load = "done" /\ t.kind = panel.kind /\ t.mount = panel.mount /\ t.loan = panel.loan
      /\ t.read = panel.read /\ t.busy = panel.busy
  BY <1>2, <1>4, <1>6 DEF Panel
<1>9. /\ e \in Panel /\ e.row = 0 /\ e.form = panel.form /\ e.saved = panel.saved
      /\ e.load = "done" /\ e.kind = panel.kind /\ e.mount = panel.mount /\ e.loan = panel.loan
      /\ e.read = panel.read /\ e.busy = panel.busy
  BY <1>2, <1>5, <1>6 DEF Panel
<1>10. LoadedForm(r) = CASE p.kind = "urla" -> q
                         [] p.kind = "terms" /\ r.at # p.row -> t
                         [] p.kind = "escrow" /\ r.at = 0 -> e
                         [] OTHER -> IF r.at = 0 THEN p ELSE t
  BY <1>1, <1>3, <1>4, <1>5 DEF LoadedForm
<1>11. CASE p.kind = "urla"
  <2>1. LoadedForm(r) = q BY <1>10, <1>11
  <2> QED BY <1>2, <1>7, <1>11, <2>1
<1>12. CASE p.kind = "terms" /\ r.at # p.row
  <2>1. LoadedForm(r) = t BY <1>10, <1>12
  <2> QED BY <1>2, <1>8, <1>12, <2>1
<1>13. CASE p.kind = "escrow" /\ r.at = 0
  <2>1. LoadedForm(r) = e BY <1>10, <1>13
  <2> QED BY <1>2, <1>9, <1>13, <2>1
<1>14. CASE ~(p.kind = "urla") /\ ~(p.kind = "terms" /\ r.at # p.row) /\ ~(p.kind = "escrow" /\ r.at = 0) /\ r.at = 0
  <2>1. LoadedForm(r) = p BY <1>10, <1>14
  <2> QED BY <1>2, <1>14, <2>1
<1>15. CASE ~(p.kind = "urla") /\ ~(p.kind = "terms" /\ r.at # p.row) /\ ~(p.kind = "escrow" /\ r.at = 0) /\ r.at # 0
  <2>1. LoadedForm(r) = t BY <1>10, <1>15
  <2> QED BY <1>2, <1>8, <1>15, <2>1
<1> QED BY <1>11, <1>12, <1>13, <1>14, <1>15

\* The kinds of fields of the sections.
LEMMA FieldFacts ==
  \A k \in FormKinds : Sections[k].fields \subseteq {"plain", "ignored", "rate", "local", "co", "added"}
<1>1. \A f \in {AppraisalForm, TitleForm, PropertyForm, EscrowForm, TermsForm, UrlaForm, IncomeForm, ProcessingForm} :
        f.fields \subseteq {"plain", "ignored", "rate", "local", "co", "added"}
  BY DEF AppraisalForm, TitleForm, PropertyForm, EscrowForm, TermsForm, UrlaForm, IncomeForm, ProcessingForm
<1>2. \A k \in FormKinds :
        Sections[k] \in {AppraisalForm, TitleForm, PropertyForm, EscrowForm, TermsForm, UrlaForm, IncomeForm, ProcessingForm}
  BY Kinds DEF Sections, UnderwritingForm
<1> QED BY <1>1, <1>2

\* The case that none come.
LEMMA NoWrites ==
  ASSUME FormTypes, Grown(rows'), typed' \in Seq(Edit), Len(typed) <= Len(typed'),
         mounts' = mounts, SameMount, writes' \subseteq writes
  PROVE  writes' \subseteq Writing /\ WriteBounds'
<1>1. PICK ws \in SUBSET Writing : ws = {} OBVIOUS
<1>2. writes' \subseteq writes \cup ws BY <1>1
<1>3. \A w \in ws : /\ w.mount \in 1..mounts /\ RowOf(w.row, w.kind, rows') /\ Made(w.form, typed')
                    /\ w.op = "create" /\ ~w.done => w.row = 0
                    /\ w.op = "remove" => w.row # 0
                    /\ Ours(w) => panel.kind = w.kind
  BY <1>1
<1> QED BY <1>2, <1>3, WritesKeep

\* Where records, edits and writes stay, the form must only change within its types.
LEMMA PanelTyped ==
  ASSUME FormTypes, UNCHANGED <<route, shown, mounts, rows, typed, writes>>,
         panel # NoPanel, NEW p \in Panel, panel' = p,
         p.kind = panel.kind, p.mount = panel.mount, p.loan = panel.loan,
         p.row = panel.row \/ RowOf(p.row, panel.kind, rows),
         p.form = panel.form \/ Made(p.form, typed),
         p.saved = panel.saved \/ Made(p.saved, typed),
         p.read # NotRead => \/ p.read = panel.read
                             \/ RowOf(p.read.at, panel.kind, rows) /\ Made(p.read.form, typed)
  PROVE  FormTypes'
<1>1. Grown(rows) /\ typed \in Seq(Edit) BY DEF Grown, FormTypes, FormRecords
<1>2. Grown(rows') /\ typed' \in Seq(Edit) /\ Len(typed) <= Len(typed')
  <2>1. Len(typed) \in Nat BY <1>1
  <2> QED BY <1>1, <2>1 DEF Grown
<1>3. panel' \in {NoPanel} \cup Panel /\ PanelBounds' BY <1>2, PanelKeeps
<1>4. writes' \subseteq Writing /\ WriteBounds'
  <2>1. SameMount BY DEF SameMount
  <2> QED BY <1>2, <2>1, NoWrites
<1> QED BY <1>1, <1>3, <1>4 DEF FormTypes, FormRecords, RowBounds

\* A form is mounted.
LEMMA Mounted == ASSUME FormTypes, panel # NoPanel
                 PROVE  panel \in Panel /\ panel.mount \in 1..mounts /\ panel.loan \in Loan
BY DEF FormTypes, FormRecords, Panel, PanelBounds

\* Every step of the forms keeps their types: first those that load.
LEMMA LoadTypes ==
  ASSUME PageTypes, FormTypes, LoadRead \/ LoadAnswered \/ LoadFails
  PROVE  FormTypes'
<1>1. panel # NoPanel /\ panel \in Panel BY Mounted DEF LoadRead, LoadAnswered, LoadFails, Loading
<1>2. UNCHANGED <<route, shown, mounts, rows, typed, writes>>
  BY DEF LoadRead, LoadAnswered, LoadFails, pageVars
<1>3. CASE LoadRead
  <2>1. PICK r : r = Found(panel.kind, panel.loan) OBVIOUS
  <2>2. PICK p : p = [panel EXCEPT !.read = r] OBVIOUS
  <2>3. panel' = p BY <1>3, <2>1, <2>2 DEF LoadRead
  <2>4. r \in Reading /\ RowOf(r.at, panel.kind, rows) /\ Made(r.form, typed)
    <3>1. r \in Reading BY <2>1, FoundFacts DEF FormTypes
    <3>2. CASE r.at = 0
      <4>1. r.form = {} BY <2>1, <3>2, FoundFacts DEF FormTypes
      <4> QED BY <3>1, <3>2, <4>1 DEF RowOf, Made
    <3>3. CASE r.at # 0
      <4>1. r.at \in 1..Len(rows) /\ rows[r.at].kind = panel.kind /\ r.form = rows[r.at].form
        BY <2>1, <3>3, FoundFacts DEF FormTypes
      <4> QED BY <3>1, <4>1 DEF RowOf, FormTypes, RowBounds
    <3> QED BY <3>2, <3>3
  <2>5. /\ p \in Panel /\ p.kind = panel.kind /\ p.mount = panel.mount /\ p.loan = panel.loan
        /\ p.row = panel.row /\ p.form = panel.form /\ p.saved = panel.saved /\ p.read = r
    BY <1>1, <2>2, <2>4 DEF Panel
  <2> QED BY <1>1, <1>2, <2>3, <2>4, <2>5, PanelTyped
<1>4. CASE LoadAnswered
  <2>1. PICK r : r = panel.read OBVIOUS
  <2>2. r \in Reading /\ RowOf(r.at, panel.kind, rows) /\ Made(r.form, typed)
    BY <1>1, <1>4, <2>1 DEF LoadAnswered, Panel, FormTypes, PanelBounds
  <2>3. PICK p : p = LoadedForm(r) OBVIOUS
  <2>4. panel' = p BY <1>4, <2>1, <2>3 DEF LoadAnswered
  <2>5. /\ p \in Panel /\ p.kind = panel.kind /\ p.mount = panel.mount /\ p.loan = panel.loan
        /\ p.read = panel.read
        /\ p.row \in {0, r.at, panel.row} /\ p.form \in {{}, r.form, panel.form}
        /\ p.saved \in {{}, r.form, panel.saved}
    <3>1. PICK q : q = panel OBVIOUS
    <3> QED BY <1>1, <2>2, <2>3, LoadedFacts
  <2>6. RowOf(0, panel.kind, rows) /\ Made({}, typed) BY DEF RowOf, Made
  <2> QED BY <1>1, <1>2, <2>2, <2>4, <2>5, <2>6, PanelTyped
<1>5. CASE LoadFails
  <2>1. PICK s : s = IF From(panel.kind) = "detail" THEN "error" ELSE "done" OBVIOUS
  <2>2. PICK n : n = IF panel.kind = "escrow" THEN 0 ELSE panel.row OBVIOUS
  <2>3. PICK p : p = [panel EXCEPT !.load = s, !.row = n] OBVIOUS
  <2>4. panel' = p BY <1>5, <2>1, <2>2, <2>3 DEF LoadFails
  <2>5. n = panel.row \/ n = 0 BY <2>2
  <2>6. s \in {"error", "done"} BY <2>1
  <2>7. /\ p \in Panel /\ p.kind = panel.kind /\ p.mount = panel.mount /\ p.loan = panel.loan
        /\ p.row = n /\ p.form = panel.form /\ p.saved = panel.saved /\ p.read = panel.read
    <3>1. n \in Nat BY <1>1, <2>5 DEF Panel
    <3> QED BY <1>1, <2>3, <2>6, <3>1 DEF Panel
  <2>8. RowOf(0, panel.kind, rows) BY DEF RowOf
  <2> QED BY <1>1, <1>2, <2>4, <2>5, <2>7, <2>8, PanelTyped
<1> QED BY <1>3, <1>4, <1>5

\* A write of the form mounted.
LEMMA WriteFacts ==
  ASSUME FormTypes, panel # NoPanel, NEW op \in {"create", "save", "add", "remove"}
  PROVE  /\ Write(op) \in Writing /\ Write(op).mount = panel.mount /\ Write(op).kind = panel.kind
         /\ Write(op).loan = panel.loan /\ Write(op).row = panel.row /\ Write(op).form = panel.form
         /\ Write(op).op = op /\ ~Write(op).done
         /\ Write(op).mount \in 1..mounts /\ RowOf(Write(op).row, panel.kind, rows) /\ Made(Write(op).form, typed)
<1>1. panel \in Panel /\ panel.mount \in 1..mounts BY Mounted
<1>2. PICK w : w = Write(op) OBVIOUS
<1>3. w = [op |-> op, mount |-> panel.mount, kind |-> panel.kind, loan |-> panel.loan,
           row |-> panel.row, form |-> panel.form, done |-> FALSE]
  BY <1>2 DEF Write
<1>4. /\ w \in Writing /\ w.mount = panel.mount /\ w.kind = panel.kind /\ w.loan = panel.loan
      /\ w.row = panel.row /\ w.form = panel.form /\ w.op = op /\ ~w.done
  BY <1>1, <1>3 DEF Panel, Writing
<1> QED BY <1>1, <1>2, <1>4 DEF FormTypes, PanelBounds

\* Those that type and send.
LEMMA UserTypes ==
  ASSUME PageTypes, FormTypes, FormUser
  PROVE  FormTypes'
<1>0. panel # NoPanel /\ panel \in Panel
  <2>1. CASE ChangeBorrowers BY <2>1, NoPanelKind, Mounted DEF ChangeBorrowers
  <2>2. CASE ~ChangeBorrowers BY <2>2, Mounted DEF FormUser, Type, Editable, CancelEdits, SaveBar, Dirty, CreateRecord, SaveForm
  <2> QED BY <2>1, <2>2
<1>1. UNCHANGED <<route, shown, mounts, rows>>
  BY DEF FormUser, Type, CancelEdits, CreateRecord, SaveForm, ChangeBorrowers, pageVars
<1>2. Grown(rows) /\ typed \in Seq(Edit) /\ Len(typed) \in Nat BY DEF Grown, FormTypes, FormRecords
<1>3. Grown(rows') BY <1>1, <1>2 DEF Grown
<1>4. CASE Type
  <2>1. PICK e : e \in Edit /\ typed' = Append(typed, e)
    <3>1. PICK f \in Sections[panel.kind].fields \cap limit.fields : typed' = Append(typed, [loan |-> shown, field |-> f])
      BY <1>4 DEF Type
    <3>2. f \in {"plain", "ignored", "rate", "local", "co", "added"}
      <4>1. panel.kind \in FormKinds BY <1>0 DEF Panel
      <4> QED BY <3>1, <4>1, FieldFacts
    <3>3. shown \in Loan BY <1>0, Mounted DEF FormTypes, PanelBounds
    <3>4. [loan |-> shown, field |-> f] \in Edit BY <3>2, <3>3 DEF Edit
    <3> QED BY <3>1, <3>4
  <2>2. typed' \in Seq(Edit) /\ Len(typed') = Len(typed) + 1 BY <1>2, <2>1
  <2>3. PICK p : p = [panel EXCEPT !.form = @ \cup {Len(typed) + 1}] OBVIOUS
  <2>4. panel' = p BY <1>4, <2>3 DEF Type
  <2>5. /\ p \in Panel /\ p.kind = panel.kind /\ p.mount = panel.mount /\ p.loan = panel.loan
        /\ p.row = panel.row /\ p.form = panel.form \cup {Len(typed) + 1}
        /\ p.saved = panel.saved /\ p.read = panel.read
    BY <1>0, <1>2, <2>3 DEF Panel
  <2>6. Made(p.form, typed') BY <1>0, <1>2, <2>2, <2>5 DEF Made, FormTypes, PanelBounds
  <2>7. panel' \in {NoPanel} \cup Panel /\ PanelBounds'
    <3>1. Len(typed) <= Len(typed') BY <1>2, <2>2
    <3>2. UNCHANGED <<route, shown, mounts>> BY <1>1
    <3> QED BY <1>0, <1>3, <2>2, <2>4, <2>5, <2>6, <3>1, <3>2, PanelKeeps
  <2>8. writes' \subseteq Writing /\ WriteBounds'
    <3>1. SameMount BY <1>0, <2>4, <2>5 DEF SameMount
    <3>2. writes' = writes BY <1>4 DEF Type
    <3>3. Len(typed) <= Len(typed') BY <1>2, <2>2
    <3> QED BY <1>1, <1>3, <2>2, <3>1, <3>2, <3>3, NoWrites
  <2>9. RowBounds' BY <1>1, <1>2, <2>2 DEF FormTypes, RowBounds, Made
  <2> QED BY <1>1, <2>2, <2>7, <2>8, <2>9 DEF FormTypes, FormRecords
<1>5. CASE CancelEdits
  <2>1. PICK p : p = [panel EXCEPT !.form = panel.saved] OBVIOUS
  <2>2. panel' = p /\ UNCHANGED <<typed, writes>> BY <1>5, <2>1 DEF CancelEdits
  <2>3. /\ p \in Panel /\ p.kind = panel.kind /\ p.mount = panel.mount /\ p.loan = panel.loan
        /\ p.row = panel.row /\ p.form = panel.saved /\ p.saved = panel.saved /\ p.read = panel.read
    BY <1>0, <2>1 DEF Panel
  <2>4. Made(p.form, typed) BY <1>0, <2>3 DEF FormTypes, PanelBounds
  <2> QED BY <1>0, <1>1, <2>2, <2>3, <2>4, PanelTyped
<1>6. CASE CreateRecord \/ SaveForm \/ ChangeBorrowers
  <2>1. PICK op \in {"create", "save", "add", "remove"} :
          /\ writes' = writes \cup {Write(op)}
          /\ op = "create" => panel.row = 0
          /\ op = "remove" => panel.row # 0
    BY <1>6 DEF CreateRecord, SaveForm, ChangeBorrowers
  <2>2. UNCHANGED typed BY <1>6 DEF CreateRecord, SaveForm, ChangeBorrowers
  <2>3. PICK p : p = panel' OBVIOUS
  <2>4. /\ p \in Panel /\ p.kind = panel.kind /\ p.mount = panel.mount /\ p.loan = panel.loan
        /\ p.row = panel.row /\ p.form = panel.form /\ p.saved = panel.saved /\ p.read = panel.read
    <3>1. CASE panel' = panel BY <1>0, <2>3, <3>1
    <3>2. CASE panel' = [panel EXCEPT !.busy = TRUE] BY <1>0, <2>3, <3>2 DEF Panel
    <3> QED BY <1>6, <3>1, <3>2 DEF CreateRecord, SaveForm, ChangeBorrowers
  <2>5. Grown(rows') /\ typed' \in Seq(Edit) /\ Len(typed) <= Len(typed') BY <1>2, <1>3, <2>2
  <2>6. panel' \in {NoPanel} \cup Panel /\ PanelBounds' BY <1>0, <1>1, <2>3, <2>4, <2>5, PanelKeeps
  <2>7. writes' \subseteq Writing /\ WriteBounds'
    <3>1. SameMount BY <1>0, <2>3, <2>4 DEF SameMount
    <3>2. PICK w : w = Write(op) OBVIOUS
    <3>3. /\ w \in Writing /\ w.mount \in 1..mounts /\ RowOf(w.row, w.kind, rows) /\ Made(w.form, typed)
          /\ w.op = op /\ w.row = panel.row /\ w.kind = panel.kind
      BY <1>0, <3>2, WriteFacts
    <3>4. PICK ws : ws = {w} OBVIOUS
    <3>5. ws \in SUBSET Writing /\ writes' \subseteq writes \cup ws BY <2>1, <3>2, <3>3, <3>4
    <3>6. \A v \in ws : /\ v.mount \in 1..mounts /\ RowOf(v.row, v.kind, rows') /\ Made(v.form, typed')
                        /\ v.op = "create" /\ ~v.done => v.row = 0
                        /\ v.op = "remove" => v.row # 0
                        /\ Ours(v) => panel.kind = v.kind
      BY <1>1, <2>1, <2>2, <3>3, <3>4
    <3> QED BY <1>1, <2>5, <3>1, <3>5, <3>6, WritesKeep
  <2> QED BY <1>1, <2>2, <2>6, <2>7 DEF FormTypes, FormRecords, RowBounds
<1> QED BY <1>4, <1>5, <1>6 DEF FormUser

\* What an answer leaves in the form it is for.
LEMMA AnsweredFacts ==
  ASSUME panel \in Panel, NEW w \in Writing
  PROVE  /\ Answered(w) \in Panel /\ Answered(w).kind = panel.kind /\ Answered(w).mount = panel.mount
         /\ Answered(w).loan = panel.loan /\ Answered(w).read = panel.read /\ Answered(w).load = panel.load
         /\ \/ /\ w.op = "create" /\ Answered(w).row = w.row /\ Answered(w).form = {} /\ Answered(w).saved = {}
               /\ Answered(w).busy = panel.busy
            \/ /\ w.op = "save" /\ Answered(w).row = panel.row /\ Answered(w).form = panel.form
               /\ Answered(w).saved = w.form /\ Answered(w).busy = FALSE
            \/ /\ w.op \in {"add", "remove"} /\ Answered(w).row = panel.row /\ Answered(w).form = panel.form
               /\ Answered(w).saved = panel.saved /\ Answered(w).busy = panel.busy
<1>0. w.row \in Nat /\ w.form \in SUBSET Nat /\ w.op \in {"create", "save", "add", "remove"} BY DEF Writing
<1>1. CASE w.op = "create"
  <2>1. PICK q : q = [panel EXCEPT !.row = w.row] OBVIOUS
  <2>2. PICK p : p = [panel EXCEPT !.row = w.row, !.form = {}, !.saved = {}] OBVIOUS
  <2>3. Answered(w) = p BY <1>1, <2>2 DEF Answered
  <2>4. /\ p \in Panel /\ p.kind = panel.kind /\ p.mount = panel.mount /\ p.loan = panel.loan
        /\ p.read = panel.read /\ p.load = panel.load /\ p.busy = panel.busy
        /\ p.row = w.row /\ p.form = {} /\ p.saved = {}
    BY <1>0, <2>2 DEF Panel
  <2> QED BY <1>1, <2>3, <2>4
<1>2. CASE w.op = "save"
  <2>1. PICK p : p = [panel EXCEPT !.saved = w.form, !.busy = FALSE] OBVIOUS
  <2>2. Answered(w) = p BY <1>2, <2>1 DEF Answered, SaveAnswered
  <2>3. /\ p \in Panel /\ p.kind = panel.kind /\ p.mount = panel.mount /\ p.loan = panel.loan
        /\ p.read = panel.read /\ p.load = panel.load /\ p.busy = FALSE
        /\ p.row = panel.row /\ p.form = panel.form /\ p.saved = w.form
    BY <1>0, <2>1 DEF Panel
  <2> QED BY <1>2, <2>2, <2>3
<1>3. CASE w.op \in {"add", "remove"}
  <2>1. PICK p : p = [panel EXCEPT !.added = TRUE] OBVIOUS
  <2>2. Answered(w) = p BY <1>3, <2>1 DEF Answered
  <2>3. /\ p \in Panel /\ p.kind = panel.kind /\ p.mount = panel.mount /\ p.loan = panel.loan
        /\ p.read = panel.read /\ p.load = panel.load /\ p.busy = panel.busy
        /\ p.row = panel.row /\ p.form = panel.form /\ p.saved = panel.saved
    BY <2>1 DEF Panel
  <2> QED BY <1>3, <2>2, <2>3
<1> QED BY <1>0, <1>1, <1>2, <1>3

\* A write that ran: its record is the one it created, or that it went to.
LEMMA RanFacts ==
  ASSUME FormTypes, NEW w \in writes, WriteRuns(w)
  PROVE  \E v \in Writing :
           /\ writes' = (writes \ {w}) \cup {v}
           /\ v.op = w.op /\ v.mount = w.mount /\ v.kind = w.kind /\ v.loan = w.loan /\ v.form = w.form /\ v.done
           /\ v.row = IF w.op = "create" THEN Len(rows) + 1 ELSE w.row
           /\ RowOf(v.row, v.kind, rows')
<1>0. w \in Writing /\ Len(rows) \in Nat BY DEF FormTypes, FormRecords
<1>1. PICK n : n = IF w.op = "create" THEN Len(rows) + 1 ELSE w.row OBVIOUS
<1>2. PICK v : v = [w EXCEPT !.done = TRUE, !.row = n] OBVIOUS
<1>3. writes' = (writes \ {w}) \cup {v} BY <1>1, <1>2 DEF WriteRuns
<1>4. n \in Nat BY <1>0, <1>1 DEF Writing
<1>5. /\ v \in Writing /\ v.op = w.op /\ v.mount = w.mount /\ v.kind = w.kind /\ v.loan = w.loan
      /\ v.form = w.form /\ v.done = TRUE /\ v.row = n
  BY <1>0, <1>2, <1>4 DEF Writing
<1>6. rows' = Executed(w) BY DEF WriteRuns
<1>7. RowOf(n, w.kind, rows')
  <2>1. CASE w.op = "create"
    <3>1. PICK r : r = [kind |-> w.kind, loan |-> w.loan, form |-> {}, co |-> TRUE] OBVIOUS
    <3>2. r.kind = w.kind BY <3>1
    <3>3. Len(rows') = Len(rows) + 1 /\ rows'[Len(rows) + 1] = r
      BY <1>6, <2>1, <3>1, ExecutedRows DEF FormTypes
    <3> QED BY <1>0, <1>1, <2>1, <3>2, <3>3 DEF RowOf
  <2>2. CASE w.op # "create"
    <3>1. RowOf(w.row, w.kind, rows) BY DEF FormTypes, WriteBounds
    <3>2. Grown(rows') BY <1>6, ExecutedRows DEF FormTypes
    <3>3. Len(typed) <= Len(typed) /\ typed \in Seq(Edit) BY DEF FormTypes, FormRecords
    <3>4. RowOf(w.row, w.kind, rows') BY <3>1, <3>2, <3>3, Stays DEF FormTypes
    <3> QED BY <1>1, <2>2, <3>4
  <2> QED BY <2>1, <2>2
<1> QED BY <1>1, <1>3, <1>5, <1>7

\* What is stored of a form is of the form.
LEMMA Parts == ASSUME NEW w PROVE Storable(w) \subseteq w.form /\ Taken(w.form) \subseteq w.form
BY DEF Storable, Taken

\* Those of the server and its answers.
LEMMA ServerTypes ==
  ASSUME PageTypes, FormTypes, NEW w \in writes, WriteRuns(w) \/ WriteAnswered(w) \/ WriteFails(w)
  PROVE  FormTypes'
<1>0. UNCHANGED <<route, shown, mounts, typed>> BY DEF WriteRuns, WriteAnswered, WriteFails, pageVars
<1>1. typed' \in Seq(Edit) /\ Len(typed') \in Nat /\ Len(typed) <= Len(typed')
  BY <1>0 DEF FormTypes, FormRecords
<1>2. w \in Writing /\ Grown(rows) /\ RowOf(w.row, w.kind, rows) /\ Made(w.form, typed)
  BY DEF FormTypes, FormRecords, WriteBounds, Grown
<1>3. CASE WriteRuns(w)
  <2>1. rows' = Executed(w) /\ panel' = panel BY <1>3 DEF WriteRuns
  <2>2. Grown(rows') /\ \A n \in 1..Len(rows') : Made(rows'[n].form, typed) BY <2>1, ExecutedRows DEF FormTypes
  <2>3. PICK v \in Writing :
          /\ writes' = (writes \ {w}) \cup {v}
          /\ v.op = w.op /\ v.mount = w.mount /\ v.kind = w.kind /\ v.loan = w.loan /\ v.form = w.form /\ v.done
          /\ v.row = IF w.op = "create" THEN Len(rows) + 1 ELSE w.row
          /\ RowOf(v.row, v.kind, rows')
    BY <1>3, RanFacts
  <2>4. writes' \subseteq Writing /\ WriteBounds'
    <3>1. SameMount BY <2>1 DEF SameMount
    <3>2. PICK ws \in SUBSET Writing : ws = {v} OBVIOUS
    <3>3. writes' \subseteq writes \cup ws BY <2>3, <3>2
    <3>4. \A u \in ws : /\ u.mount \in 1..mounts /\ RowOf(u.row, u.kind, rows') /\ Made(u.form, typed')
                        /\ u.op = "create" /\ ~u.done => u.row = 0
                        /\ u.op = "remove" => u.row # 0
                        /\ Ours(u) => panel.kind = u.kind
      BY <1>0, <2>3, <3>2 DEF FormTypes, WriteBounds, Ours
    <3> QED BY <1>0, <1>1, <2>2, <3>1, <3>3, <3>4, WritesKeep
  <2>5. panel' \in {NoPanel} \cup Panel /\ PanelBounds'
    <3>1. CASE panel = NoPanel BY <2>1, <3>1 DEF PanelBounds
    <3>2. CASE panel # NoPanel
      <4>1. PICK p : p = panel OBVIOUS
      <4>2. p \in Panel BY <3>2, <4>1, Mounted
      <4> QED BY <1>0, <1>1, <2>1, <2>2, <3>2, <4>1, <4>2, PanelKeeps
    <3> QED BY <3>1, <3>2
  <2> QED BY <1>0, <1>1, <2>2, <2>4, <2>5 DEF FormTypes, FormRecords, RowBounds, Grown
<1>4. CASE WriteAnswered(w)
  <2>1. rows' = rows /\ writes' \subseteq writes BY <1>4 DEF WriteAnswered
  <2>2. Grown(rows') BY <1>2, <2>1 DEF Grown
  <2>3. CASE ~Ours(w)
    <3>1. panel' = panel BY <1>4, <2>3 DEF WriteAnswered
    <3>2. writes' \subseteq Writing /\ WriteBounds'
      <4>1. SameMount BY <3>1 DEF SameMount
      <4> QED BY <1>0, <1>1, <2>1, <2>2, <4>1, NoWrites
    <3> QED BY <1>0, <1>1, <2>1, <3>1, <3>2 DEF FormTypes, FormRecords, RowBounds, PanelBounds
  <2>4. CASE Ours(w)
    <3>1. PICK p : p = Answered(w) OBVIOUS
    <3>2. panel' = p BY <1>4, <2>4, <3>1 DEF WriteAnswered
    <3>3. panel # NoPanel /\ panel \in Panel /\ w.kind = panel.kind
      BY <2>4, Mounted DEF Ours, FormTypes, WriteBounds
    <3>4. /\ p \in Panel /\ p.kind = panel.kind /\ p.mount = panel.mount /\ p.loan = panel.loan /\ p.read = panel.read
          /\ p.row \in {panel.row, w.row} /\ p.form \in {panel.form, {}} /\ p.saved \in {panel.saved, {}, w.form}
      BY <1>2, <3>1, <3>3, AnsweredFacts
    <3>5. Made({}, typed) /\ Made(w.form, typed') /\ RowOf(w.row, panel.kind, rows')
      BY <1>0, <1>2, <2>1, <3>3 DEF Made
    <3>6. panel' \in {NoPanel} \cup Panel /\ PanelBounds'
      BY <1>0, <1>1, <2>2, <3>2, <3>3, <3>4, <3>5, PanelKeeps
    <3>7. writes' \subseteq Writing /\ WriteBounds'
      <4>1. SameMount BY <3>2, <3>3, <3>4 DEF SameMount
      <4> QED BY <1>0, <1>1, <2>1, <2>2, <4>1, NoWrites
    <3> QED BY <1>0, <1>1, <2>1, <3>6, <3>7 DEF FormTypes, FormRecords, RowBounds
  <2> QED BY <2>3, <2>4
<1>5. CASE WriteFails(w)
  <2>1. Grown(rows') /\ \A n \in 1..Len(rows') : Made(rows'[n].form, typed)
    <3>1. CASE rows' = rows BY <1>2, <3>1 DEF Grown, FormTypes, RowBounds
    <3>2. CASE \E part \in SUBSET Storable(w) : rows' = Put(w, part)
      <4>1. PICK part \in SUBSET Storable(w) : rows' = Put(w, part) BY <3>2
      <4>2. part \in SUBSET w.form /\ Made(part, typed) BY <1>2, Parts DEF Made
      <4>3. Grown(Put(w, part)) BY <1>2, <4>2, PutRows DEF FormTypes
      <4>4. \A n \in 1..Len(Put(w, part)) : Made(Put(w, part)[n].form, typed) BY <1>2, <4>2, PutMade DEF FormTypes
      <4> QED BY <4>1, <4>3, <4>4
    <3> QED BY <1>5, <3>1, <3>2 DEF WriteFails
  <2>2. writes' \subseteq writes BY <1>5 DEF WriteFails
  <2>3. /\ panel' = panel \/ (panel # NoPanel /\ panel' = [panel EXCEPT !.busy = FALSE])
    BY <1>5 DEF WriteFails, Ours
  <2>4. CASE panel = NoPanel
    <3>1. panel' = NoPanel BY <2>3, <2>4
    <3>2. SameMount BY <3>1 DEF SameMount
    <3>3. writes' \subseteq Writing /\ WriteBounds' BY <1>0, <1>1, <2>1, <2>2, <3>2, NoWrites
    <3> QED BY <1>0, <1>1, <2>1, <3>1, <3>3 DEF FormTypes, FormRecords, RowBounds, PanelBounds, Grown
  <2>5. CASE panel # NoPanel
    <3>1. panel \in Panel BY <2>5, Mounted
    <3>2. PICK p : p = panel' OBVIOUS
    <3>3. /\ p \in Panel /\ p.kind = panel.kind /\ p.mount = panel.mount /\ p.loan = panel.loan /\ p.read = panel.read
          /\ p.row = panel.row /\ p.form = panel.form /\ p.saved = panel.saved
      BY <2>3, <3>1, <3>2 DEF Panel
    <3>4. panel' \in {NoPanel} \cup Panel /\ PanelBounds'
      BY <1>0, <1>1, <2>1, <2>5, <3>2, <3>3, PanelKeeps
    <3>5. SameMount BY <2>5, <3>2, <3>3 DEF SameMount
    <3>6. writes' \subseteq Writing /\ WriteBounds' BY <1>0, <1>1, <2>1, <2>2, <3>5, NoWrites
    <3> QED BY <1>0, <1>1, <2>1, <3>4, <3>6 DEF FormTypes, FormRecords, RowBounds, Grown
  <2> QED BY <2>4, <2>5
<1> QED BY <1>3, <1>4, <1>5

---------------------------------------------------------------------------
(* Turning the page.                                                       *)

\* The address, the loan shown or the loan asked for changes.
TurnStep == Turn(Navigate) \/ Turn(GoTo) \/ Turn(LoanArrives) \/ Turn(LoanNotFound)

\* What is mounted follows.
LEMMA TurnFacts ==
  ASSUME PageTypes, TurnStep
  PROVE  /\ limit' = limit
         /\ route' \in [loan : Loan, section : limit.sections]
         /\ shown' \in Loan \cup {NoLoan} /\ asked' \in BOOLEAN
         /\ Remount /\ Relist
         /\ mounts' = IF \/ panel' # NoPanel /\ panel'.mount > mounts
                         \/ list' # NoList /\ list'.mount > mounts THEN mounts + 1 ELSE mounts
         /\ causes' = IF panel' = panel /\ list' = list THEN causes ELSE Blame(LeftUnderWay, "left")
<1>0. route.loan \in Loan BY DEF PageTypes
<1>1. CASE Turn(Navigate)
  <2>1. PICK l \in Loan, s \in limit.sections :
          route' = [loan |-> l, section |-> s] /\ asked' = (asked \/ l # route.loan)
    BY <1>1 DEF Turn, Navigate
  <2>2. shown' = shown /\ limit' = limit BY <1>1 DEF Turn, Navigate
  <2>3. asked' \in BOOLEAN BY <2>1
  <2> QED BY <1>1, <2>1, <2>2, <2>3 DEF Turn, PageTypes
<1>2. CASE Turn(GoTo)
  <2>1. PICK s \in limit.sections :
          route' = [loan |-> shown, section |-> s] /\ asked' = (asked \/ shown # route.loan)
    BY <1>2 DEF Turn, GoTo
  <2>2. shown' = shown /\ limit' = limit /\ shown \in Loan BY <1>2 DEF Turn, GoTo, PageTypes
  <2>3. asked' \in BOOLEAN BY <2>1
  <2> QED BY <1>2, <2>1, <2>2, <2>3 DEF Turn, PageTypes
<1>3. CASE Turn(LoanArrives)
  <2>1. route' = route /\ limit' = limit /\ asked' = FALSE /\ shown' = route.loan
    BY <1>3 DEF Turn, LoanArrives
  <2> QED BY <1>0, <1>3, <2>1 DEF Turn, PageTypes
<1>4. CASE Turn(LoanNotFound)
  <2>1. route' = route /\ limit' = limit /\ asked' = FALSE /\ shown' = NoLoan
    BY <1>4 DEF Turn, LoanNotFound
  <2> QED BY <1>4, <2>1 DEF Turn, PageTypes
<1> QED BY <1>1, <1>2, <1>3, <1>4 DEF TurnStep

\* A form that has just been mounted, and one that has its loan changed.
LEMMA FreshFacts ==
  ASSUME NEW k \in FormKinds, NEW l \in Loan, mounts \in Nat
  PROVE  /\ Fresh(k, l) \in Panel /\ Fresh(k, l).kind = k /\ Fresh(k, l).loan = l /\ Fresh(k, l).mount = mounts + 1
         /\ Fresh(k, l).read = NotRead /\ Fresh(k, l).row = 0 /\ Fresh(k, l).form = {} /\ Fresh(k, l).saved = {}
         /\ ~Fresh(k, l).busy
         /\ Fresh(k, l).load = IF From(k) = "nowhere" THEN "done" ELSE "first"
<1>1. PICK s : s = IF From(k) = "nowhere" THEN "done" ELSE "first" OBVIOUS
<1>2. PICK p : p = Fresh(k, l) OBVIOUS
<1>3. p = [kind |-> k, mount |-> mounts + 1, loan |-> l, load |-> s,
           read |-> NotRead, row |-> 0, form |-> {}, saved |-> {}, busy |-> FALSE, added |-> FALSE]
  BY <1>1, <1>2 DEF Fresh
<1>4. NotRead \in Reading BY DEF NotRead, Reading
<1>5. /\ p \in Panel /\ p.kind = k /\ p.loan = l /\ p.mount = mounts + 1 /\ p.read = NotRead /\ p.row = 0
      /\ p.form = {} /\ p.saved = {} /\ ~p.busy /\ p.load = s
  BY <1>1, <1>3, <1>4 DEF Panel
<1> QED BY <1>1, <1>2, <1>5

\* The same of a form that has its loan changed.
LEMMA SwitchedFacts ==
  ASSUME panel \in Panel, NEW l \in Loan
  PROVE  /\ Switched(l) \in Panel /\ Switched(l).kind = panel.kind /\ Switched(l).mount = panel.mount
         /\ Switched(l).loan = l /\ Switched(l).read = NotRead /\ Switched(l).row = panel.row
         /\ Switched(l).form = panel.form /\ Switched(l).saved = panel.saved /\ Switched(l).busy = panel.busy
         /\ Switched(l).load = IF panel.load = "done" /\ From(panel.kind) # "nowhere" THEN "again" ELSE panel.load
<1>1. PICK s : s = IF panel.load = "done" /\ From(panel.kind) # "nowhere" THEN "again" ELSE panel.load OBVIOUS
<1>2. PICK p : p = Switched(l) OBVIOUS
<1>3. p = [panel EXCEPT !.loan = l, !.read = NotRead, !.load = s] BY <1>1, <1>2 DEF Switched
<1>4. NotRead \in Reading BY DEF NotRead, Reading
<1>5. s \in {"first", "again", "done", "error"} BY <1>1 DEF Panel
<1>6. /\ p \in Panel /\ p.kind = panel.kind /\ p.mount = panel.mount /\ p.loan = l /\ p.read = NotRead
      /\ p.row = panel.row /\ p.form = panel.form /\ p.saved = panel.saved /\ p.busy = panel.busy /\ p.load = s
  BY <1>3, <1>4, <1>5 DEF Panel
<1> QED BY <1>1, <1>2, <1>6

\* The form after the page turned: the same one, one that has its loan changed,
\* one that was just mounted, or none.
LEMMA RemountCases ==
  ASSUME PageTypes, FormTypes, TurnStep
  PROVE  /\ UNCHANGED <<writes, rows, typed>>
         /\ mounts' \in {mounts, mounts + 1}
         /\ \/ panel' = NoPanel
            \/ /\ panel # NoPanel /\ panel' = panel /\ shown' = panel.loan /\ route'.section = panel.kind
            \/ /\ panel # NoPanel /\ shown' \in Loan /\ shown' # panel.loan /\ route'.section = panel.kind
               /\ panel' = Switched(shown')
            \/ /\ shown' \in Loan /\ route'.section \in FormKinds
               /\ panel' = Fresh(route'.section, shown')
               /\ mounts' = mounts + 1
<1>1. mounts' \in {mounts, mounts + 1} BY TurnFacts
<1>2. UNCHANGED <<writes, rows, typed>> BY TurnFacts DEF Remount
<1>3. shown' \in Loan \cup {NoLoan} /\ NoLoan \notin Loan BY TurnFacts, PageAssumption
<1> DEFINE stay == panel # NoPanel /\ shown' # NoLoan /\ route'.section = panel.kind
<1>4. panel' = IF stay THEN (IF shown' = panel.loan THEN panel ELSE Switched(shown'))
               ELSE IF shown' # NoLoan /\ route'.section \in FormKinds THEN Fresh(route'.section, shown')
               ELSE NoPanel
  BY TurnFacts DEF Remount
<1>5. CASE stay /\ shown' = panel.loan BY <1>1, <1>2, <1>4, <1>5
<1>6. CASE stay /\ shown' # panel.loan BY <1>1, <1>2, <1>3, <1>4, <1>6
<1>7. CASE ~stay /\ shown' # NoLoan /\ route'.section \in FormKinds
  <2>1. PICK p : p = Fresh(route'.section, shown') OBVIOUS
  <2>2. panel' = p BY <1>4, <1>7, <2>1
  <2>3. mounts \in Nat BY DEF PageTypes
  <2>4. p \in Panel /\ p.mount = mounts + 1 BY <1>3, <1>7, <2>1, <2>3, FreshFacts
  <2>5. p # NoPanel BY <2>4, NoPanelKind
  <2>6. mounts' = mounts + 1 BY <2>2, <2>3, <2>4, <2>5, TurnFacts
  <2> QED BY <1>2, <1>3, <1>7, <2>1, <2>2, <2>6
<1>8. CASE ~stay /\ ~(shown' # NoLoan /\ route'.section \in FormKinds)
  <2>1. panel' = NoPanel BY <1>4, <1>8
  <2> QED BY <1>1, <1>2, <2>1
<1> QED BY <1>5, <1>6, <1>7, <1>8

\* Turning the page keeps the types of the forms.
LEMMA TurnTypes ==
  ASSUME PageTypes, FormTypes, TurnStep
  PROVE  FormTypes'
<1>0. UNCHANGED <<writes, rows, typed>> /\ mounts \in Nat /\ mounts' \in {mounts, mounts + 1}
  BY RemountCases DEF PageTypes
<1>1. \A w \in writes : w.mount \in 1..mounts' BY <1>0 DEF FormTypes, WriteBounds
<1>2. ASSUME SameMount PROVE WriteBounds' BY <1>0, <1>1, <1>2 DEF FormTypes, WriteBounds, SameMount, Ours
<1>3. CASE panel' = NoPanel
  <2>1. WriteBounds' BY <1>2, <1>3 DEF SameMount
  <2> QED BY <1>0, <1>3, <2>1 DEF FormTypes, FormRecords, PanelBounds, RowBounds
<1>4. CASE panel # NoPanel /\ panel' = panel /\ shown' = panel.loan /\ route'.section = panel.kind
  <2>1. WriteBounds' BY <1>2, <1>4 DEF SameMount
  <2>2. PanelBounds' BY <1>0, <1>4 DEF FormTypes, PanelBounds
  <2> QED BY <1>0, <1>4, <2>1, <2>2 DEF FormTypes, FormRecords, RowBounds
<1>5. CASE panel # NoPanel /\ shown' \in Loan /\ route'.section = panel.kind /\ panel' = Switched(shown')
  <2>1. PICK p : p = Switched(shown') OBVIOUS
  <2>2. panel \in Panel BY <1>5, Mounted
  <2>3. /\ p \in Panel /\ p.kind = panel.kind /\ p.mount = panel.mount /\ p.loan = shown' /\ p.read = NotRead
        /\ p.row = panel.row /\ p.form = panel.form /\ p.saved = panel.saved
    BY <1>5, <2>1, <2>2, SwitchedFacts
  <2>4. WriteBounds' BY <1>2, <1>5, <2>1, <2>3 DEF SameMount
  <2>5. PanelBounds' BY <1>0, <1>5, <2>1, <2>3 DEF FormTypes, PanelBounds
  <2> QED BY <1>0, <1>5, <2>1, <2>3, <2>4, <2>5 DEF FormTypes, FormRecords, RowBounds
<1>6. CASE /\ shown' \in Loan /\ route'.section \in FormKinds /\ panel' = Fresh(route'.section, shown')
           /\ mounts' = mounts + 1
  <2>1. PICK p : p = Fresh(route'.section, shown') OBVIOUS
  <2>2. /\ p \in Panel /\ p.kind = route'.section /\ p.mount = mounts + 1 /\ p.loan = shown' /\ p.read = NotRead
        /\ p.row = 0 /\ p.form = {} /\ p.saved = {}
    BY <1>0, <1>6, <2>1, FreshFacts
  <2>3. PanelBounds' BY <1>0, <1>6, <2>1, <2>2 DEF PanelBounds, RowOf, Made
  <2>4. \A w \in writes : w.mount # p.mount BY <1>0, <2>2 DEF FormTypes, WriteBounds
  <2>5. WriteBounds' BY <1>0, <1>1, <1>6, <2>1, <2>4 DEF FormTypes, WriteBounds, Ours
  <2> QED BY <1>0, <1>6, <2>1, <2>2, <2>3, <2>5 DEF FormTypes, FormRecords, RowBounds
<1> QED BY <1>3, <1>4, <1>5, <1>6, RemountCases

---------------------------------------------------------------------------
(* The lists: types of what is mounted, asked for, sent and stored.        *)

\* The records of a list, its loads and its requests, and those of the server.
Mark == Statuses \cup {"deleted", "unread"}
View == UNION {[S -> Mark] : S \in SUBSET Nat}
Thing == [kind : ListKinds, loan : Loan, num : Nat, status : Statuses \cup {"deleted"}]
Listing == [kind : ListKinds, mount : Nat, loan : Loan, seen : View, of : Loan \cup {NoLoan}, shows : BOOLEAN,
            broken : BOOLEAN, again : BOOLEAN, busy : SUBSET Nat]
Fetch == [loan : Loan, at : Nat, effect : BOOLEAN, frees : SUBSET Nat, got : View]
Act == [at : Nat, op : {"add", "template", "step", "remove"}, kind : ListKinds, mount : Nat, loan : Loan, n : Nat,
        to : Statuses \cup {"deleted"}, num : Nat, left : 0..2, made : SUBSET Nat, saw : Loan \cup {NoLoan},
        checked : BOOLEAN, done : BOOLEAN]

\* The state of the lists.
ListRecords ==
  /\ items \in Seq(Thing)
  /\ list \in {NoList} \cup Listing
  /\ loads \subseteq Fetch
  /\ acts \subseteq Act

\* Items that are there, of a kind.
Listed(f, k, is) == \A n \in DOMAIN f : n \in 1..Len(is) /\ is[n].kind = k

\* The list mounted is the section of the address, on the loan shown.
ShownBounds ==
  list # NoList =>
    /\ list.mount \in 1..mounts /\ list.loan = shown /\ list.kind = route.section
    /\ Listed(list.seen, list.kind, items) /\ list.busy \subseteq 0..Len(items)

LoadBounds ==
  /\ list = NoList => loads = {}
  /\ \A ld \in loads :
       /\ ld.frees \subseteq 0..Len(items)
       /\ ld.got = Unread \/ Listed(ld.got, list.kind, items)

\* The items a request has made or changed are of its kind.
Products(w, is) == w.made \subseteq 1..Len(is) /\ \A n \in w.made : is[n].kind = w.kind

\* A request is of a mount, and to an item of its kind.
ActBounds ==
  \A w \in acts :
    /\ w.mount \in 0..mounts /\ w.n \in 0..Len(items) /\ Products(w, items)
    /\ w.n = 0 <=> w.op \in {"add", "template"}
    /\ w.n # 0 => items[w.n].kind = w.kind
    /\ ~w.done => w.left \in {1, 2}
    /\ OurAct(w) => list.kind = w.kind

ListTypes == ListRecords /\ ShownBounds /\ LoadBounds /\ ActBounds

\* Items are added at the end, and stay what they are but for their status.
GrownItems(is) ==
  /\ is \in Seq(Thing) /\ Len(items) <= Len(is)
  /\ \A n \in 1..Len(items) : is[n].kind = items[n].kind /\ is[n].loan = items[n].loan /\ is[n].num = items[n].num

\* Nothing mounted is no list.
LEMMA NoListKind == NoList.kind = "none" /\ NoList \notin Listing
<1>1. NoList.kind = "none" BY DEF NoList
<1>2. \A p \in Listing : p.kind # "none" BY Kinds DEF Listing
<1> QED BY <1>1, <1>2

\* A list is mounted.
LEMMA ListMounted == ASSUME ListTypes, list # NoList
                     PROVE  list \in Listing /\ list.mount \in 1..mounts /\ list.loan \in Loan /\ list.kind \in ListKinds
BY DEF ListTypes, ListRecords, Listing, ShownBounds

\* What is seen of the items.
LEMMA ViewOf == ASSUME NEW S \in SUBSET Nat, NEW f \in [S -> Mark] PROVE f \in View
BY DEF View

\* A view is a function.
LEMMA ViewIs == ASSUME NEW f \in View PROVE DOMAIN f \in SUBSET Nat /\ f \in [DOMAIN f -> Mark]
<1>1. PICK S \in SUBSET Nat : f \in [S -> Mark] BY DEF View
<1> QED BY <1>1

\* The view of nothing, and the one not read yet, are views.
LEMMA EmptyView == <<>> \in View /\ DOMAIN <<>> = {} /\ Unread \in View
<1>1. <<>> \in [{} -> Mark] /\ DOMAIN <<>> = {} OBVIOUS
<1>2. {} \in SUBSET Nat OBVIOUS
<1>3. Unread \in [{0} -> Mark] BY DEF Unread, Mark
<1>4. {0} \in SUBSET Nat OBVIOUS
<1> QED BY <1>1, <1>2, <1>3, <1>4, ViewOf

\* A load reads the items of the loan that are not deleted.
LEMMA LiveFacts ==
  ASSUME ListRecords, NEW k, NEW l
  PROVE  /\ Live(k, l) \in View
         /\ Listed(Live(k, l), k, items)
         /\ \A n : n \in DOMAIN Live(k, l) <=>
              n \in 1..Len(items) /\ items[n].kind = k /\ items[n].loan = l /\ items[n].status # "deleted"
         /\ \A n \in DOMAIN Live(k, l) : Live(k, l)[n] = items[n].status
<1>1. DOMAIN items = 1..Len(items) /\ Len(items) \in Nat /\ \A n \in 1..Len(items) : items[n] \in Thing
  BY DEF ListRecords
<1>2. PICK S : S = {m \in DOMAIN items : items[m].kind = k /\ items[m].loan = l /\ items[m].status # "deleted"}
  OBVIOUS
<1>3. Live(k, l) = [n \in S |-> items[n].status] BY <1>2 DEF Live
<1>4. S \in SUBSET Nat /\ \A n \in S : items[n].status \in Mark BY <1>1, <1>2 DEF Thing, Mark
<1>5. Live(k, l) \in [S -> Mark] BY <1>3, <1>4
<1>6. Live(k, l) \in View BY <1>4, <1>5, ViewOf
<1>7. DOMAIN Live(k, l) = S BY <1>3
<1>8. \A n : n \in S <=> n \in 1..Len(items) /\ items[n].kind = k /\ items[n].loan = l /\ items[n].status # "deleted"
  BY <1>1, <1>2
<1>9. Listed(Live(k, l), k, items) BY <1>7, <1>8 DEF Listed
<1> QED BY <1>3, <1>6, <1>7, <1>8, <1>9

\* Items stay when others come.
LEMMA ItemsStay ==
  ASSUME ListRecords, NEW is, GrownItems(is)
  PROVE  /\ \A f, k : Listed(f, k, items) => Listed(f, k, is)
         /\ 0..Len(items) \subseteq 0..Len(is) /\ 1..Len(items) \subseteq 1..Len(is)
         /\ \A n \in 1..Len(items) : is[n].kind = items[n].kind /\ is[n].loan = items[n].loan
<1>1. Len(items) \in Nat /\ Len(is) \in Nat BY DEF ListRecords, GrownItems
<1> QED BY <1>1 DEF Listed, GrownItems

\* A list that stays mounted.
LEMMA ListKeeps ==
  ASSUME ListTypes, GrownItems(items'), UNCHANGED <<route, shown, mounts>>,
         list # NoList, NEW p \in Listing, list' = p,
         p.kind = list.kind, p.mount = list.mount, p.loan = list.loan,
         p.seen = list.seen \/ Listed(p.seen, list.kind, items'),
         p.busy \subseteq list.busy \cup 0..Len(items)
  PROVE  list' \in {NoList} \cup Listing /\ ShownBounds'
<1>1. PICK q : q = list OBVIOUS
<1>2. /\ q.mount \in 1..mounts /\ q.loan = shown /\ q.kind = route.section
      /\ Listed(q.seen, q.kind, items) /\ q.busy \subseteq 0..Len(items)
  BY <1>1 DEF ListTypes, ShownBounds
<1>3. /\ \A f, k : Listed(f, k, items) => Listed(f, k, items')
      /\ 0..Len(items) \subseteq 0..Len(items')
  BY ItemsStay DEF ListTypes
<1>4. Listed(p.seen, p.kind, items') BY <1>1, <1>2, <1>3
<1>5. p.busy \subseteq 0..Len(items') BY <1>1, <1>2, <1>3
<1>6. p.mount \in 1..mounts' /\ p.loan = shown' /\ p.kind = route'.section BY <1>1, <1>2
<1> QED BY <1>4, <1>5, <1>6 DEF ShownBounds

\* Loads that stay, and those that come.
LEMMA LoadsKeep ==
  ASSUME ListTypes, GrownItems(items'),
         list # NoList, list' # NoList, list'.kind = list.kind,
         NEW ls \in SUBSET Fetch, loads' \subseteq loads \cup ls,
         \A ld \in ls : /\ ld.frees \subseteq 0..Len(items')
                        /\ ld.got = Unread \/ Listed(ld.got, list.kind, items')
  PROVE  loads' \subseteq Fetch /\ LoadBounds'
<1>1. /\ \A f, k : Listed(f, k, items) => Listed(f, k, items')
      /\ 0..Len(items) \subseteq 0..Len(items')
  BY ItemsStay DEF ListTypes
<1>2. loads' \subseteq Fetch BY DEF ListTypes, ListRecords
<1>3. ASSUME NEW ld \in loads'
      PROVE  ld.frees \subseteq 0..Len(items') /\ (ld.got = Unread \/ Listed(ld.got, list'.kind, items'))
  <2>1. CASE ld \in ls BY <2>1
  <2>2. CASE ld \in loads BY <1>1, <2>2 DEF ListTypes, LoadBounds
  <2> QED BY <1>3, <2>1, <2>2
<1> QED BY <1>2, <1>3 DEF LoadBounds

\* A mount is of one kind.
SameListMount == list' # NoList => list # NoList /\ list'.mount = list.mount /\ list'.kind = list.kind

\* Requests that stay, and those that come.
LEMMA ActsKeep ==
  ASSUME ListTypes, GrownItems(items'), mounts' = mounts, SameListMount,
         NEW ws \in SUBSET Act, acts' \subseteq acts \cup ws,
         \A w \in ws : /\ w.mount \in 0..mounts /\ w.n \in 0..Len(items') /\ Products(w, items')
                       /\ w.n = 0 <=> w.op \in {"add", "template"}
                       /\ w.n # 0 => items'[w.n].kind = w.kind
                       /\ ~w.done => w.left \in {1, 2}
                       /\ OurAct(w) => list.kind = w.kind
  PROVE  acts' \subseteq Act /\ ActBounds'
<1>1. /\ 0..Len(items) \subseteq 0..Len(items') /\ 1..Len(items) \subseteq 1..Len(items')
      /\ \A n \in 1..Len(items) : items'[n].kind = items[n].kind
      /\ Len(items) \in Nat
  BY ItemsStay DEF ListTypes, ListRecords
<1>2. acts' \subseteq Act BY DEF ListTypes, ListRecords
<1>3. ASSUME NEW w \in acts'
      PROVE  /\ w.mount \in 0..mounts /\ w.n \in 0..Len(items') /\ Products(w, items')
             /\ w.n = 0 <=> w.op \in {"add", "template"}
             /\ w.n # 0 => items'[w.n].kind = w.kind
             /\ ~w.done => w.left \in {1, 2}
             /\ OurAct(w) => list.kind = w.kind
  <2>1. CASE w \in ws BY <2>1
  <2>2. CASE w \in acts
    <3>1. /\ w.mount \in 0..mounts /\ w.n \in 0..Len(items) /\ Products(w, items)
          /\ w.n = 0 <=> w.op \in {"add", "template"}
          /\ w.n # 0 => items[w.n].kind = w.kind
          /\ ~w.done => w.left \in {1, 2}
          /\ OurAct(w) => list.kind = w.kind
      BY <2>2 DEF ListTypes, ActBounds
    <3>2. w.n # 0 => w.n \in 1..Len(items) BY <1>1, <3>1
    <3>3. Products(w, items') BY <1>1, <3>1 DEF Products
    <3> QED BY <1>1, <3>1, <3>2, <3>3
  <2> QED BY <1>3, <2>1, <2>2
<1>4. ASSUME NEW w \in acts', list' # NoList /\ list'.mount = w.mount PROVE list'.kind = w.kind
  BY <1>3, <1>4 DEF SameListMount, OurAct
<1> QED BY <1>2, <1>3, <1>4 DEF ActBounds, OurAct

\* A load as it is asked for.
LEMMA LoadFacts ==
  ASSUME moves \in Nat, NEW l \in Loan, NEW effect \in BOOLEAN, NEW frees \in SUBSET Nat
  PROVE  /\ Load(l, effect, frees) \in Fetch /\ Load(l, effect, frees).loan = l
         /\ Load(l, effect, frees).effect = effect /\ Load(l, effect, frees).frees = frees
         /\ Load(l, effect, frees).got = Unread
<1>1. PICK ld : ld = Load(l, effect, frees) OBVIOUS
<1>2. ld = [loan |-> l, at |-> moves, effect |-> effect, frees |-> frees, got |-> Unread] BY <1>1 DEF Load
<1>3. ld \in Fetch /\ ld.loan = l /\ ld.effect = effect /\ ld.frees = frees /\ ld.got = Unread
  BY <1>2, EmptyView DEF Fetch
<1> QED BY <1>1, <1>3

\* The load of a loan by the effect of its list.
LEMMA EffectLoad ==
  ASSUME PageTypes, NEW l \in Loan
  PROVE  /\ Load(l, TRUE, {}) \in Fetch /\ Load(l, TRUE, {}).loan = l /\ Load(l, TRUE, {}).frees = {}
         /\ Load(l, TRUE, {}).got = Unread /\ Load(l, TRUE, {}).effect
<1>1. PICK frees \in SUBSET Nat : frees = {} OBVIOUS
<1>2. PICK effect \in BOOLEAN : effect = TRUE OBVIOUS
<1>3. PICK ld : ld = Load(l, effect, frees) OBVIOUS
<1>4. moves \in Nat BY DEF PageTypes
<1>5. ld \in Fetch /\ ld.loan = l /\ ld.frees = frees /\ ld.got = Unread /\ ld.effect = effect BY <1>3, <1>4, LoadFacts
<1> QED BY <1>1, <1>2, <1>3, <1>5

\* Hiding the items, forgetting them and freeing what waits for a request.
LEMMA HiddenFacts ==
  ASSUME NEW p \in Listing
  PROVE  /\ Hidden(p) \in Listing /\ Hidden(p).kind = p.kind /\ Hidden(p).mount = p.mount /\ Hidden(p).loan = p.loan
         /\ Hidden(p).seen = p.seen /\ Hidden(p).of = p.of /\ Hidden(p).broken = p.broken /\ Hidden(p).again = p.again
         /\ ~Hidden(p).shows /\ Hidden(p).busy = p.busy \cap {0}
<1>1. PICK q : q = Hidden(p) OBVIOUS
<1>2. PICK b : b = p.busy \cap {0} OBVIOUS
<1>3. q = [p EXCEPT !.shows = FALSE, !.busy = b] BY <1>1, <1>2 DEF Hidden
<1>4. b \in SUBSET Nat BY <1>2
<1>5. /\ q \in Listing /\ q.kind = p.kind /\ q.mount = p.mount /\ q.loan = p.loan /\ q.seen = p.seen
      /\ q.of = p.of /\ q.broken = p.broken /\ q.again = p.again /\ ~q.shows /\ q.busy = b
  BY <1>3, <1>4 DEF Listing
<1> QED BY <1>1, <1>2, <1>5

\* A list that gets keys back.
LEMMA FreedFacts ==
  ASSUME list \in Listing, NEW w
  PROVE  /\ Freed(w) \in Listing /\ Freed(w).kind = list.kind /\ Freed(w).mount = list.mount
         /\ Freed(w).loan = list.loan /\ Freed(w).seen = list.seen /\ Freed(w).of = list.of /\ Freed(w).shows = list.shows
         /\ Freed(w).broken = list.broken /\ Freed(w).again = list.again /\ Freed(w).busy = list.busy \ {Key(w.n)}
<1>1. PICK q : q = Freed(w) OBVIOUS
<1>2. PICK b : b = list.busy \ {Key(w.n)} OBVIOUS
<1>3. q = [list EXCEPT !.busy = b] BY <1>1, <1>2 DEF Freed
<1>4. b \in SUBSET Nat BY <1>2 DEF Listing
<1>5. /\ q \in Listing /\ q.kind = list.kind /\ q.mount = list.mount /\ q.loan = list.loan /\ q.seen = list.seen
      /\ q.of = list.of /\ q.shows = list.shows /\ q.broken = list.broken /\ q.again = list.again /\ q.busy = b
  BY <1>3, <1>4 DEF Listing
<1> QED BY <1>1, <1>2, <1>5

\* The loads after one is started again.
LEMMA RefetchedFacts ==
  ASSUME NEW p \in Listing, NEW rendered, Refetched(p, rendered)
  PROVE  /\ list' \in Listing /\ list'.kind = p.kind /\ list'.mount = p.mount /\ list'.loan = p.loan
         /\ list'.seen = p.seen /\ list'.of = p.of /\ list'.busy \subseteq p.busy
         /\ \/ /\ ~list'.shows /\ ~list'.broken /\ list'.again = p.again
               /\ loads' = {Load(p.loan, TRUE, {})}
               /\ p.shows \/ p.broken \/ rendered
            \/ /\ list'.again /\ list'.shows = p.shows /\ list'.broken = p.broken /\ loads' = loads
               /\ ~p.shows /\ ~p.broken /\ ~rendered
<1>1. CASE p.shows \/ p.broken \/ rendered
  <2>1. PICK h : h = Hidden(p) OBVIOUS
  <2>2. /\ h \in Listing /\ h.kind = p.kind /\ h.mount = p.mount /\ h.loan = p.loan /\ h.seen = p.seen /\ h.of = p.of
        /\ h.again = p.again /\ ~h.shows /\ h.busy = p.busy \cap {0}
    BY <2>1, HiddenFacts
  <2>3. PICK q : q = [h EXCEPT !.broken = FALSE] OBVIOUS
  <2>4. list' = q /\ loads' = {Load(p.loan, TRUE, {})} BY <1>1, <2>1, <2>3 DEF Refetched
  <2>5. /\ q \in Listing /\ q.kind = p.kind /\ q.mount = p.mount /\ q.loan = p.loan /\ q.seen = p.seen /\ q.of = p.of
        /\ q.again = p.again /\ ~q.shows /\ q.busy = p.busy \cap {0} /\ ~q.broken
    BY <2>2, <2>3 DEF Listing
  <2> QED BY <1>1, <2>4, <2>5
<1>2. CASE ~(p.shows \/ p.broken \/ rendered)
  <2>1. PICK q : q = [p EXCEPT !.again = TRUE] OBVIOUS
  <2>2. list' = q /\ loads' = loads BY <1>2, <2>1 DEF Refetched
  <2>3. /\ q \in Listing /\ q.kind = p.kind /\ q.mount = p.mount /\ q.loan = p.loan /\ q.seen = p.seen /\ q.of = p.of
        /\ q.again /\ q.shows = p.shows /\ q.busy = p.busy /\ q.broken = p.broken
    BY <2>1 DEF Listing
  <2> QED BY <1>2, <2>2, <2>3
<1> QED BY <1>1, <1>2

\* A list that has just been mounted, and one that hides on an occasion.
LEMMA FreshListFacts ==
  ASSUME NEW k \in ListKinds, NEW l \in Loan, mounts \in Nat
  PROVE  /\ FreshList(k, l) \in Listing /\ FreshList(k, l).kind = k /\ FreshList(k, l).mount = mounts + 1
         /\ FreshList(k, l).loan = l /\ FreshList(k, l).seen = <<>> /\ FreshList(k, l).of = NoLoan /\ ~FreshList(k, l).shows
         /\ ~FreshList(k, l).broken /\ ~FreshList(k, l).again /\ FreshList(k, l).busy = {}
<1>1. PICK q : q = FreshList(k, l) OBVIOUS
<1>2. q = [kind |-> k, mount |-> mounts + 1, loan |-> l, seen |-> <<>>, of |-> NoLoan, shows |-> FALSE,
           broken |-> FALSE, again |-> FALSE, busy |-> {}]
  BY <1>1 DEF FreshList
<1>3. /\ q \in Listing /\ q.kind = k /\ q.mount = mounts + 1 /\ q.loan = l /\ q.seen = <<>> /\ q.of = NoLoan /\ ~q.shows
      /\ ~q.broken /\ ~q.again /\ q.busy = {}
  BY <1>2, EmptyView DEF Listing
<1> QED BY <1>1, <1>3

\* A list hidden, or not.
LEMMA HiddenIfFacts ==
  ASSUME NEW p \in Listing, NEW occasion
  PROVE  /\ HiddenIf(p, occasion) \in Listing /\ HiddenIf(p, occasion).kind = p.kind
         /\ HiddenIf(p, occasion).mount = p.mount /\ HiddenIf(p, occasion).loan = p.loan
         /\ HiddenIf(p, occasion).seen = p.seen /\ HiddenIf(p, occasion).of = p.of /\ HiddenIf(p, occasion).broken = p.broken
         /\ HiddenIf(p, occasion).again = p.again /\ HiddenIf(p, occasion).busy \subseteq p.busy
         /\ ~p.shows => ~HiddenIf(p, occasion).shows
         /\ occasion \in Section(p.kind).hides => ~HiddenIf(p, occasion).shows
         /\ occasion \notin Section(p.kind).hides => HiddenIf(p, occasion) = p
<1>1. CASE occasion \in Section(p.kind).hides
  <2>1. HiddenIf(p, occasion) = Hidden(p) BY <1>1 DEF HiddenIf
  <2> QED BY <1>1, <2>1, HiddenFacts
<1>2. CASE occasion \notin Section(p.kind).hides
  <2>1. HiddenIf(p, occasion) = p BY <1>2 DEF HiddenIf
  <2> QED BY <1>2, <2>1
<1> QED BY <1>1, <1>2

\* The list after the page turned: none, the same one, one that has its loan
\* changed, or one that was just mounted.
LEMMA RelistCases ==
  ASSUME PageTypes, ListTypes, TurnStep
  PROVE  /\ UNCHANGED <<acts, items>> /\ mounts' \in {mounts, mounts + 1}
         /\ \/ list' = NoList /\ loads' = {}
            \/ /\ list # NoList /\ list' = list /\ loads' = loads /\ shown' = list.loan /\ route'.section = list.kind
            \/ /\ list # NoList /\ shown' \in Loan /\ shown' # list.loan /\ route'.section = list.kind
               /\ list' = HiddenIf([list EXCEPT !.loan = shown'], "switch")
               /\ loads' = Kept(list.kind) \cup {Load(shown', TRUE, {})}
            \/ /\ shown' \in Loan /\ route'.section \in ListKinds
               /\ list' = FreshList(route'.section, shown')
               /\ loads' = {Load(shown', TRUE, {})}
               /\ mounts' = mounts + 1
<1>1. mounts' \in {mounts, mounts + 1} BY TurnFacts
<1>2. UNCHANGED <<acts, items>> BY TurnFacts DEF Relist
<1>3. shown' \in Loan \cup {NoLoan} /\ NoLoan \notin Loan BY TurnFacts, PageAssumption
<1>4. PICK k : k = route'.section OBVIOUS
<1>5. IF shown' = NoLoan \/ k \notin ListKinds THEN list' = NoList /\ loads' = {}
      ELSE IF list = NoList \/ list.kind # k
      THEN list' = FreshList(k, shown') /\ loads' = {Load(shown', TRUE, {})}
      ELSE IF shown' = list.loan THEN UNCHANGED <<list, loads>>
      ELSE /\ list' = HiddenIf([list EXCEPT !.loan = shown'], "switch")
           /\ loads' = Kept(k) \cup {Load(shown', TRUE, {})}
  BY <1>4, TurnFacts DEF Relist
<1>6. CASE shown' = NoLoan \/ k \notin ListKinds BY <1>1, <1>2, <1>5, <1>6
<1>7. CASE ~(shown' = NoLoan \/ k \notin ListKinds) /\ (list = NoList \/ list.kind # k)
  <2>1. PICK p : p = FreshList(k, shown') OBVIOUS
  <2>2. list' = p /\ loads' = {Load(shown', TRUE, {})} BY <1>5, <1>7, <2>1
  <2>3. mounts \in Nat BY DEF PageTypes
  <2>4. p \in Listing /\ p.mount = mounts + 1 BY <1>3, <1>7, <2>1, <2>3, FreshListFacts
  <2>5. p # NoList BY <2>4, NoListKind
  <2>6. mounts' = mounts + 1 BY <2>2, <2>3, <2>4, <2>5, TurnFacts
  <2> QED BY <1>2, <1>3, <1>4, <1>7, <2>1, <2>2, <2>6
<1>8. CASE ~(shown' = NoLoan \/ k \notin ListKinds) /\ ~(list = NoList \/ list.kind # k) /\ shown' = list.loan
  BY <1>1, <1>2, <1>4, <1>5, <1>8
<1>9. CASE ~(shown' = NoLoan \/ k \notin ListKinds) /\ ~(list = NoList \/ list.kind # k) /\ shown' # list.loan
  BY <1>1, <1>2, <1>3, <1>4, <1>5, <1>9
<1> QED BY <1>6, <1>7, <1>8, <1>9

\* A step within a list keeps the types, if what it changes is within them.
LEMMA ListTyped ==
  ASSUME ListTypes, GrownItems(items'), UNCHANGED <<route, shown, mounts>>,
         list # NoList, NEW p \in Listing, list' = p,
         p.kind = list.kind, p.mount = list.mount, p.loan = list.loan,
         p.seen = list.seen \/ Listed(p.seen, list.kind, items'),
         p.busy \subseteq list.busy \cup 0..Len(items),
         NEW ls \in SUBSET Fetch, loads' \subseteq loads \cup ls,
         \A ld \in ls : /\ ld.frees \subseteq 0..Len(items')
                        /\ ld.got = Unread \/ Listed(ld.got, list.kind, items'),
         NEW ws \in SUBSET Act, acts' \subseteq acts \cup ws,
         \A w \in ws : /\ w.mount \in 0..mounts /\ w.n \in 0..Len(items') /\ Products(w, items')
                       /\ w.n = 0 <=> w.op \in {"add", "template"}
                       /\ w.n # 0 => items'[w.n].kind = w.kind
                       /\ ~w.done => w.left \in {1, 2}
                       /\ OurAct(w) => list.kind = w.kind
  PROVE  ListTypes'
<1>1. list' # NoList BY NoListKind
<1>2. list' \in {NoList} \cup Listing /\ ShownBounds' BY ListKeeps
<1>3. loads' \subseteq Fetch /\ LoadBounds' BY <1>1, LoadsKeep
<1>4. SameListMount BY DEF SameListMount
<1>5. acts' \subseteq Act /\ ActBounds' BY <1>4, ActsKeep
<1>6. items' \in Seq(Thing) BY DEF GrownItems
<1> QED BY <1>2, <1>3, <1>5, <1>6 DEF ListTypes, ListRecords

\* Turning the page keeps the types of the lists.
LEMMA TurnListTypes ==
  ASSUME PageTypes, ListTypes, TurnStep
  PROVE  ListTypes'
<1>0. UNCHANGED <<acts, items>> /\ mounts \in Nat /\ mounts' \in {mounts, mounts + 1}
  BY RelistCases DEF PageTypes
<1>1. \A w \in acts : w.mount \in 0..mounts' BY <1>0 DEF ListTypes, ActBounds
<1>2. ASSUME SameListMount PROVE ActBounds' BY <1>0, <1>1, <1>2 DEF ListTypes, ActBounds, SameListMount, OurAct
<1>4. CASE list' = NoList /\ loads' = {}
  <2>1. ActBounds' BY <1>2, <1>4 DEF SameListMount
  <2> QED BY <1>0, <1>4, <2>1 DEF ListTypes, ListRecords, ShownBounds, LoadBounds
<1>5. CASE list # NoList /\ list' = list /\ loads' = loads /\ shown' = list.loan /\ route'.section = list.kind
  <2>1. ActBounds' BY <1>2, <1>5 DEF SameListMount
  <2>2. ShownBounds' BY <1>0, <1>5 DEF ListTypes, ShownBounds
  <2> QED BY <1>0, <1>5, <2>1, <2>2 DEF ListTypes, ListRecords, LoadBounds
<1>6. CASE /\ list # NoList /\ shown' \in Loan /\ route'.section = list.kind
           /\ list' = HiddenIf([list EXCEPT !.loan = shown'], "switch")
           /\ loads' = Kept(list.kind) \cup {Load(shown', TRUE, {})}
  <2>1. list \in Listing BY <1>6, ListMounted
  <2>2. PICK q : q = [list EXCEPT !.loan = shown'] OBVIOUS
  <2>3. /\ q \in Listing /\ q.kind = list.kind /\ q.mount = list.mount /\ q.loan = shown'
        /\ q.seen = list.seen /\ q.busy = list.busy
    BY <1>6, <2>1, <2>2 DEF Listing
  <2>4. PICK p : p = HiddenIf(q, "switch") OBVIOUS
  <2>5. /\ p \in Listing /\ p.kind = list.kind /\ p.mount = list.mount /\ p.loan = shown'
        /\ p.seen = list.seen /\ p.busy \subseteq list.busy
    BY <2>3, <2>4, HiddenIfFacts
  <2>6. list' = p BY <1>6, <2>2, <2>4
  <2>7. PICK ld : ld = Load(shown', TRUE, {}) OBVIOUS
  <2>8. ld \in Fetch /\ ld.frees = {} /\ ld.got = Unread BY <1>6, <2>7, EffectLoad
  <2>9. loads' \subseteq loads \cup {ld} BY <1>6, <2>7 DEF Kept
  <2>10. ActBounds' BY <1>2, <1>6, <2>5, <2>6 DEF SameListMount
  <2>11. ShownBounds' BY <1>0, <1>6, <2>5, <2>6 DEF ListTypes, ShownBounds
  <2>12. list' # NoList BY <2>5, <2>6, NoListKind
  <2>13. LoadBounds' BY <1>0, <2>5, <2>6, <2>8, <2>9, <2>12 DEF ListTypes, LoadBounds
  <2>14. ListRecords' BY <1>0, <2>5, <2>6, <2>8, <2>9 DEF ListTypes, ListRecords
  <2> QED BY <2>10, <2>11, <2>13, <2>14 DEF ListTypes
<1>7. CASE /\ shown' \in Loan /\ route'.section \in ListKinds
           /\ list' = FreshList(route'.section, shown')
           /\ loads' = {Load(shown', TRUE, {})}
           /\ mounts' = mounts + 1
  <2>1. PICK p : p = FreshList(route'.section, shown') OBVIOUS
  <2>2. /\ p \in Listing /\ p.kind = route'.section /\ p.mount = mounts + 1 /\ p.loan = shown' /\ p.seen = <<>>
        /\ p.busy = {}
    BY <1>0, <1>7, <2>1, FreshListFacts
  <2>3. list' = p BY <1>7, <2>1
  <2>4. PICK ld : ld = Load(shown', TRUE, {}) OBVIOUS
  <2>5. ld \in Fetch /\ ld.frees = {} /\ ld.got = Unread BY <1>7, <2>4, EffectLoad
  <2>6. loads' = {ld} BY <1>7, <2>4
  <2>7. ShownBounds' BY <1>0, <1>7, <2>2, <2>3, EmptyView DEF ShownBounds, Listed
  <2>8. list' # NoList BY <2>2, <2>3, NoListKind
  <2>9. LoadBounds' BY <2>5, <2>6, <2>8 DEF LoadBounds
  <2>10. \A w \in acts : w.mount # p.mount BY <1>0, <2>2 DEF ListTypes, ActBounds
  <2>11. ActBounds' BY <1>0, <1>1, <2>3, <2>10 DEF ListTypes, ActBounds, OurAct
  <2>12. ListRecords' BY <1>0, <2>2, <2>3, <2>5, <2>6 DEF ListTypes, ListRecords
  <2> QED BY <2>7, <2>9, <2>11, <2>12 DEF ListTypes
<1> QED BY <1>4, <1>5, <1>6, <1>7, RelistCases

\* The same where no request comes and the items stay,
LEMMA ListLooks ==
  ASSUME ListTypes, UNCHANGED <<route, shown, mounts, items>>, acts' \subseteq acts,
         list # NoList, NEW p \in Listing, list' = p,
         p.kind = list.kind, p.mount = list.mount, p.loan = list.loan,
         p.seen = list.seen \/ Listed(p.seen, list.kind, items),
         p.busy \subseteq list.busy \cup 0..Len(items),
         NEW ls \in SUBSET Fetch, loads' \subseteq loads \cup ls,
         \A ld \in ls : /\ ld.frees \subseteq 0..Len(items)
                        /\ ld.got = Unread \/ Listed(ld.got, list.kind, items)
  PROVE  ListTypes'
<1>1. GrownItems(items') BY DEF GrownItems, ListTypes, ListRecords
<1>2. PICK ws \in SUBSET Act : ws = {} OBVIOUS
<1>3. acts' \subseteq acts \cup ws BY <1>2
<1>4. \A w \in ws : /\ w.mount \in 0..mounts /\ w.n \in 0..Len(items') /\ Products(w, items')
                    /\ w.n = 0 <=> w.op \in {"add", "template"}
                    /\ w.n # 0 => items'[w.n].kind = w.kind
                    /\ ~w.done => w.left \in {1, 2}
                    /\ OurAct(w) => list.kind = w.kind
  BY <1>2
<1> QED BY <1>1, <1>3, <1>4, ListTyped

\* and where requests come and what is loaded stays.
LEMMA ListActs ==
  ASSUME ListTypes, GrownItems(items'), UNCHANGED <<route, shown, mounts>>, loads' = loads,
         list # NoList, NEW p \in Listing, list' = p,
         p.kind = list.kind, p.mount = list.mount, p.loan = list.loan, p.seen = list.seen,
         p.busy \subseteq list.busy \cup 0..Len(items),
         NEW w \in Act, acts' \subseteq acts \cup {w},
         w.mount \in 0..mounts, w.n \in 0..Len(items'), Products(w, items'),
         w.n = 0 <=> w.op \in {"add", "template"},
         w.n # 0 => items'[w.n].kind = w.kind,
         ~w.done => w.left \in {1, 2},
         OurAct(w) => list.kind = w.kind
  PROVE  ListTypes'
<1>1. PICK ls \in SUBSET Fetch : ls = {} OBVIOUS
<1>2. PICK ws \in SUBSET Act : ws = {w} OBVIOUS
<1>3. loads' \subseteq loads \cup ls /\ acts' \subseteq acts \cup ws BY <1>1, <1>2
<1>4. \A ld \in ls : /\ ld.frees \subseteq 0..Len(items')
                     /\ ld.got = Unread \/ Listed(ld.got, list.kind, items')
  BY <1>1
<1>5. \A v \in ws : /\ v.mount \in 0..mounts /\ v.n \in 0..Len(items') /\ Products(v, items')
                    /\ v.n = 0 <=> v.op \in {"add", "template"}
                    /\ v.n # 0 => items'[v.n].kind = v.kind
                    /\ ~v.done => v.left \in {1, 2}
                    /\ OurAct(v) => list.kind = v.kind
  BY <1>2
<1> QED BY <1>3, <1>4, <1>5, ListTyped

\* An answer, or a failure, of a load: what it leaves in the list.
LEMMA ArrivedFacts ==
  ASSUME ListTypes, NEW ld \in loads, ListArrives(ld) \/ ListLoadFails(ld)
  PROVE  /\ list # NoList /\ list \in Listing
         /\ list' \in Listing /\ list'.kind = list.kind /\ list'.mount = list.mount /\ list'.loan = list.loan
         /\ list'.shows /\ ~list'.again /\ list'.busy = list.busy \ ld.frees
         /\ list'.broken = IF ListArrives(ld) THEN list.broken ELSE list.kind = "conditions"
         /\ list'.seen = IF ListArrives(ld) THEN ld.got
                         ELSE IF Section(list.kind).empties THEN <<>> ELSE list.seen
         /\ list'.of = IF ListArrives(ld) THEN ld.loan ELSE list.of
         /\ loads' = (loads \ {ld}) \cup IF list.again THEN {Load(list.loan, TRUE, {})} ELSE {}
         /\ UNCHANGED <<route, shown, mounts, items, acts, limit, moves>>
<1>1. list # NoList /\ ld \in Fetch BY DEF ListTypes, ListRecords, LoadBounds
<1>2. list \in Listing BY <1>1, ListMounted
<1>3. PICK b : b = list.busy \ ld.frees OBVIOUS
<1>4. b \in SUBSET Nat BY <1>2, <1>3 DEF Listing
<1>5. CASE ListArrives(ld)
  <2>1. PICK q : q = [list EXCEPT !.seen = ld.got, !.of = ld.loan, !.shows = TRUE, !.again = FALSE, !.busy = b] OBVIOUS
  <2>2. list' = q BY <1>3, <1>5, <2>1 DEF ListArrives
  <2>3. ld.got \in View /\ ld.loan \in Loan BY <1>1 DEF Fetch
  <2>4. /\ q \in Listing /\ q.kind = list.kind /\ q.mount = list.mount /\ q.loan = list.loan
        /\ q.shows /\ ~q.again /\ q.busy = b /\ q.broken = list.broken /\ q.seen = ld.got /\ q.of = ld.loan
    BY <1>2, <1>4, <2>1, <2>3 DEF Listing
  <2>5. loads' = (loads \ {ld}) \cup IF list.again THEN {Load(list.loan, TRUE, {})} ELSE {}
    BY <1>5 DEF ListArrives
  <2>6. UNCHANGED <<route, shown, mounts, items, acts, limit, moves>> BY <1>5 DEF ListArrives, pageVars
  <2> QED BY <1>1, <1>2, <1>3, <1>5, <2>2, <2>4, <2>5, <2>6
<1>6. CASE ListLoadFails(ld) /\ ~ListArrives(ld)
  <2>1. PICK s : s = IF Section(list.kind).empties THEN <<>> ELSE list.seen OBVIOUS
  <2>2. PICK c : c = (list.kind = "conditions") OBVIOUS
  <2>3. PICK q : q = [list EXCEPT !.seen = s, !.shows = TRUE, !.broken = c, !.again = FALSE, !.busy = b] OBVIOUS
  <2>4. list' = q BY <1>3, <1>6, <2>1, <2>2, <2>3 DEF ListLoadFails
  <2>5. s \in View /\ c \in BOOLEAN BY <1>2, <2>1, <2>2, EmptyView DEF Listing
  <2>6. /\ q \in Listing /\ q.kind = list.kind /\ q.mount = list.mount /\ q.loan = list.loan
        /\ q.shows /\ ~q.again /\ q.busy = b /\ q.broken = c /\ q.seen = s /\ q.of = list.of
    BY <1>2, <1>4, <2>3, <2>5 DEF Listing
  <2>7. loads' = (loads \ {ld}) \cup IF list.again THEN {Load(list.loan, TRUE, {})} ELSE {}
    BY <1>6 DEF ListLoadFails
  <2>8. UNCHANGED <<route, shown, mounts, items, acts, limit, moves>> BY <1>6 DEF ListLoadFails
  <2> QED BY <1>1, <1>2, <1>3, <1>6, <2>1, <2>2, <2>4, <2>6, <2>7, <2>8
<1> QED BY <1>5, <1>6

\* The steps of the lists keep their types: first those that load.
LEMMA ListLoadTypes ==
  ASSUME PageTypes, ListTypes, NEW ld \in loads, ListRead(ld) \/ ListArrives(ld) \/ ListLoadFails(ld)
  PROVE  ListTypes'
<1>1. list # NoList /\ ld \in Fetch BY DEF ListTypes, ListRecords, LoadBounds
<1>2. list \in Listing /\ list.loan \in Loan BY <1>1, ListMounted
<1>3. CASE ListRead(ld)
  <2>1. PICK f : f = Live(list.kind, ld.loan) OBVIOUS
  <2>2. PICK v : v = [ld EXCEPT !.got = f] OBVIOUS
  <2>3. f \in View /\ Listed(f, list.kind, items) BY <2>1, LiveFacts DEF ListTypes
  <2>4. v \in Fetch /\ v.frees = ld.frees /\ v.got = f BY <1>1, <2>2, <2>3 DEF Fetch
  <2>5. PICK ls \in SUBSET Fetch : ls = {v} BY <2>4
  <2>6. loads' \subseteq loads \cup ls BY <1>3, <2>1, <2>2, <2>5 DEF ListRead
  <2>7. \A l \in ls : l.frees \subseteq 0..Len(items) /\ (l.got = Unread \/ Listed(l.got, list.kind, items))
    BY <2>3, <2>4, <2>5 DEF ListTypes, LoadBounds
  <2>8. PICK p : p = list OBVIOUS
  <2>9. list' = p /\ UNCHANGED <<route, shown, mounts, items>> /\ acts' \subseteq acts
    BY <1>3, <2>8 DEF ListRead, pageVars
  <2> QED BY <1>1, <1>2, <2>6, <2>7, <2>8, <2>9, ListLooks
<1>4. CASE ListArrives(ld) \/ ListLoadFails(ld)
  <2>1. PICK p : p = list' OBVIOUS
  <2>2. /\ p \in Listing /\ p.kind = list.kind /\ p.mount = list.mount /\ p.loan = list.loan
        /\ p.busy \subseteq list.busy
        /\ p.seen \in {ld.got, <<>>, list.seen}
        /\ ListArrives(ld) => ld.got # Unread
        /\ ~ListArrives(ld) => p.seen \in {<<>>, list.seen}
    <3>1. ListArrives(ld) => ld.got # Unread BY DEF ListArrives
    <3> QED BY <1>4, <2>1, <3>1, ArrivedFacts
  <2>3. p.seen = list.seen \/ Listed(p.seen, list.kind, items)
    <3>1. Listed(<<>>, list.kind, items) BY EmptyView DEF Listed
    <3>2. ld.got = Unread \/ Listed(ld.got, list.kind, items) BY DEF ListTypes, LoadBounds
    <3> QED BY <2>2, <3>1, <3>2
  <2>4. UNCHANGED <<route, shown, mounts, items>> /\ acts' \subseteq acts BY <1>4, ArrivedFacts
  <2>5. PICK e : e = Load(list.loan, TRUE, {}) OBVIOUS
  <2>6. e \in Fetch /\ e.frees = {} /\ e.got = Unread BY <1>2, <2>5, EffectLoad
  <2>7. PICK ls \in SUBSET Fetch : ls = {e} BY <2>6
  <2>8. loads' \subseteq loads \cup ls BY <1>4, <2>5, <2>7, ArrivedFacts
  <2>9. \A l \in ls : l.frees \subseteq 0..Len(items) /\ (l.got = Unread \/ Listed(l.got, list.kind, items))
    BY <2>6, <2>7
  <2> QED BY <1>1, <2>1, <2>2, <2>3, <2>4, <2>8, <2>9, ListLooks
<1> QED BY <1>3, <1>4

\* A request of the list mounted.
LEMMA RequestFacts ==
  ASSUME PageTypes, ListTypes, list # NoList, NEW op \in {"add", "template", "step", "remove"}, NEW n \in Nat,
         NEW to \in Statuses \cup {"deleted"}
  PROVE  /\ Request(op, n, to) \in Act /\ Request(op, n, to).op = op /\ Request(op, n, to).kind = list.kind
         /\ Request(op, n, to).mount = list.mount /\ Request(op, n, to).loan = list.loan
         /\ Request(op, n, to).n = n /\ Request(op, n, to).to = to /\ Request(op, n, to).made = {}
         /\ Request(op, n, to).left = IF op = "template" THEN 2 ELSE 1
         /\ Request(op, n, to).num = Cardinality(DOMAIN list.seen) + 1
         /\ Request(op, n, to).saw = NoLoan /\ ~Request(op, n, to).done
         /\ Request(op, n, to).checked <=> ~(op = "step" /\ Checks(list.kind))
         /\ Cardinality(DOMAIN list.seen) \in Nat /\ IsFiniteSet(DOMAIN list.seen)
         /\ Request(op, n, to).at = moves
<1>1. list \in Listing /\ list.loan \in Loan BY ListMounted
<1>2. IsFiniteSet(DOMAIN list.seen) /\ Cardinality(DOMAIN list.seen) \in Nat
  <2>1. DOMAIN list.seen \subseteq 1..Len(items) BY DEF ListTypes, ShownBounds, Listed
  <2>2. Len(items) \in Nat BY DEF ListTypes, ListRecords
  <2>3. IsFiniteSet(1..Len(items)) BY <2>2, FS_Interval
  <2>4. IsFiniteSet(DOMAIN list.seen) BY <2>1, <2>3, FS_Subset
  <2> QED BY <2>4, FS_CardinalityType
<1>3. PICK left : left = IF op = "template" THEN 2 ELSE 1 OBVIOUS
<1>4. PICK c \in BOOLEAN : c <=> ~(op = "step" /\ Checks(list.kind)) OBVIOUS
<1>5. PICK num : num = Cardinality(DOMAIN list.seen) + 1 OBVIOUS
<1>6. PICK w : w = Request(op, n, to) OBVIOUS
<1>7. w = [at |-> moves, op |-> op, kind |-> list.kind, mount |-> list.mount, loan |-> list.loan, n |-> n, to |-> to,
           num |-> num, left |-> left, made |-> {}, saw |-> NoLoan, checked |-> c, done |-> FALSE]
  <2>1. c = ~(op = "step" /\ Checks(list.kind)) BY <1>4
  <2> QED BY <1>3, <1>5, <1>6, <2>1 DEF Request, NextNumber
<1>8. num \in Nat /\ left \in 0..2 /\ list.kind \in ListKinds /\ list.mount \in Nat /\ moves \in Nat
  BY <1>1, <1>2, <1>3, <1>5 DEF Listing, PageTypes
<1>9. w \in Act BY <1>1, <1>4, <1>7, <1>8 DEF Act
<1>10. /\ w.op = op /\ w.kind = list.kind /\ w.mount = list.mount /\ w.loan = list.loan /\ w.n = n /\ w.to = to
       /\ w.made = {} /\ w.left = left /\ w.num = num /\ w.saw = NoLoan /\ w.done = FALSE /\ w.checked = c /\ w.at = moves
  BY <1>7
<1> QED BY <1>2, <1>3, <1>4, <1>5, <1>6, <1>9, <1>10

\* What a request leaves busy is of the items.
LEMMA KeyFacts == ASSUME ListTypes, NEW n \in 0..Len(items) PROVE Key(n) \in 0..Len(items)
<1>1. Len(items) \in Nat BY DEF ListTypes, ListRecords
<1> QED BY <1>1 DEF Key

\* A list with something busy.
LEMMA BusyFacts ==
  ASSUME list \in Listing, NEW m \in Nat
  PROVE  /\ [list EXCEPT !.busy = @ \cup {m}] \in Listing
         /\ [list EXCEPT !.busy = @ \cup {m}].kind = list.kind /\ [list EXCEPT !.busy = @ \cup {m}].mount = list.mount
         /\ [list EXCEPT !.busy = @ \cup {m}].loan = list.loan /\ [list EXCEPT !.busy = @ \cup {m}].seen = list.seen
         /\ [list EXCEPT !.busy = @ \cup {m}].busy = list.busy \cup {m}
         /\ [list EXCEPT !.busy = @ \cup {m}].shows = list.shows /\ [list EXCEPT !.busy = @ \cup {m}].broken = list.broken
         /\ [list EXCEPT !.busy = @ \cup {m}].again = list.again /\ [list EXCEPT !.busy = @ \cup {m}].of = list.of
<1>1. PICK b : b = list.busy \cup {m} OBVIOUS
<1>2. PICK q : q = [list EXCEPT !.busy = b] OBVIOUS
<1>3. b \in SUBSET Nat BY <1>1 DEF Listing
<1>4. /\ q \in Listing /\ q.kind = list.kind /\ q.mount = list.mount /\ q.loan = list.loan /\ q.seen = list.seen
      /\ q.busy = b /\ q.shows = list.shows /\ q.broken = list.broken /\ q.again = list.again /\ q.of = list.of
  BY <1>2, <1>3 DEF Listing
<1>5. [list EXCEPT !.busy = @ \cup {m}] = q BY <1>1, <1>2
<1> QED BY <1>1, <1>4, <1>5

\* The user sends a request, and the list waits for it.
Sends(w) ==
  /\ w \in Act /\ acts' = acts \cup {w}
  /\ w.kind = list.kind /\ w.mount = list.mount /\ w.loan = list.loan /\ ~w.done /\ w.made = {}
  /\ w.left = IF w.op = "template" THEN 2 ELSE 1
  /\ w.num = Cardinality(DOMAIN list.seen) + 1
  /\ w.checked <=> ~(w.op = "step" /\ Checks(list.kind))
  /\ list' \in Listing /\ list'.kind = list.kind /\ list'.mount = list.mount /\ list'.loan = list.loan
  /\ list'.seen = list.seen /\ list'.shows = list.shows /\ list'.broken = list.broken
  /\ list'.again = list.again /\ list'.of = list.of
  /\ list.busy \subseteq list'.busy /\ list'.busy \subseteq list.busy \cup 0..Len(items)
  /\ w.n # 0 /\ list.kind = "tasks" => w.n \notin list.busy /\ w.n \in list'.busy
  /\ UNCHANGED <<route, shown, asked, mounts, limit, loads, items>>

\* A new item or a template of two,
LEMMA CreateFacts ==
  ASSUME PageTypes, ListTypes, list # NoList, Create
  PROVE  \E w \in Act :
           /\ Sends(w) /\ w.op \in {"add", "template"} /\ w.n = 0 /\ w.op \in limit.fields /\ w.to = "open"
           /\ w.op = "template" => Section(list.kind).template # "none"
<1>0. list \in Listing /\ Len(items) \in Nat /\ 0 \in 0..Len(items)
  BY ListMounted DEF ListTypes, ListRecords
<1>1. PICK op \in {"add", "template"} :
        /\ op \in limit.fields
        /\ op = "template" => Section(list.kind).template # "none"
        /\ list' = IF op = "add" THEN [list EXCEPT !.busy = @ \cup {0}] ELSE list
        /\ Send(Request(op, 0, "open"))
  BY DEF Create
<1>2. PICK w : w = Request(op, 0, "open") OBVIOUS
<1>3. "open" \in Statuses \cup {"deleted"} /\ 0 \in Nat /\ op \in {"add", "template", "step", "remove"}
  BY DEF Statuses
<1>4. /\ w \in Act /\ w.op = op /\ w.kind = list.kind /\ w.mount = list.mount /\ w.loan = list.loan
      /\ w.n = 0 /\ w.to = "open" /\ w.made = {} /\ ~w.done
      /\ w.left = IF op = "template" THEN 2 ELSE 1
      /\ w.num = Cardinality(DOMAIN list.seen) + 1
      /\ w.checked <=> ~(op = "step" /\ Checks(list.kind))
  BY <1>2, <1>3, RequestFacts
<1>5. acts' = acts \cup {w} /\ UNCHANGED <<route, shown, asked, mounts, limit, loads, items>>
  BY <1>1, <1>2 DEF Send
<1>6. /\ list' \in Listing /\ list'.kind = list.kind /\ list'.mount = list.mount /\ list'.loan = list.loan
      /\ list'.seen = list.seen /\ list'.shows = list.shows /\ list'.broken = list.broken
      /\ list'.again = list.again /\ list'.of = list.of
      /\ list.busy \subseteq list'.busy /\ list'.busy \subseteq list.busy \cup 0..Len(items)
  BY <1>0, <1>1, <1>3, BusyFacts
<1>7. Sends(w) BY <1>4, <1>5, <1>6 DEF Sends
<1> QED BY <1>1, <1>4, <1>7

\* a step of an item that is seen, or of the loan's status,
LEMMA StepFacts ==
  ASSUME PageTypes, ListTypes, list # NoList, Step
  PROVE  \E w \in Act, n \in DOMAIN list.seen :
           /\ Sends(w) /\ w.op = "step" /\ w.to \in Statuses /\ w.n \in 1..Len(items) /\ items[w.n].kind = list.kind
           /\ <<list.seen[n], w.to>> \in Section(list.kind).offers
           /\ IF list.kind = "status" THEN items[w.n].loan = list.loan ELSE w.n = n
<1>0. /\ list \in Listing /\ Len(items) \in Nat /\ DOMAIN list.seen \subseteq 1..Len(items) /\ DOMAIN items = 1..Len(items)
      /\ \A n \in DOMAIN list.seen : items[n].kind = list.kind
      /\ \A n \in 1..Len(items) : items[n] \in Thing
  BY ListMounted DEF ListTypes, ListRecords, ShownBounds, Listed
<1>1. PICK n \in DOMAIN list.seen, to \in Statuses :
        /\ Free(n) /\ <<list.seen[n], to>> \in Section(list.kind).offers
        /\ \E m \in DOMAIN items :
             /\ IF list.kind = "status" THEN items[m].kind = "status" /\ items[m].loan = list.loan ELSE m = n
             /\ Send([Request("step", m, to) EXCEPT !.saw = items[n].loan])
        /\ list' = [list EXCEPT !.busy = @ \cup {Key(n)}]
  BY DEF Step
<1>2. PICK m \in DOMAIN items :
        /\ IF list.kind = "status" THEN items[m].kind = "status" /\ items[m].loan = list.loan ELSE m = n
        /\ Send([Request("step", m, to) EXCEPT !.saw = items[n].loan])
  BY <1>1
<1>3. PICK v : v = Request("step", m, to) OBVIOUS
<1>4. /\ v \in Act /\ v.op = "step" /\ v.kind = list.kind /\ v.mount = list.mount /\ v.loan = list.loan
      /\ v.n = m /\ v.to = to /\ v.made = {} /\ ~v.done /\ v.left = 1
      /\ v.num = Cardinality(DOMAIN list.seen) + 1
      /\ v.checked <=> ~Checks(list.kind)
  <2>1. m \in Nat /\ to \in Statuses \cup {"deleted"} BY <1>0
  <2> QED BY <1>3, <2>1, RequestFacts
<1>5. PICK w : w = [v EXCEPT !.saw = items[n].loan] OBVIOUS
<1>6. items[n].loan \in Loan BY <1>0 DEF Thing
<1>7. /\ w \in Act /\ w.op = "step" /\ w.kind = list.kind /\ w.mount = list.mount /\ w.loan = list.loan
      /\ w.n = m /\ w.to = to /\ w.made = {} /\ ~w.done /\ w.left = 1
      /\ w.num = v.num /\ w.checked = v.checked
  BY <1>4, <1>5, <1>6 DEF Act
<1>8. acts' = acts \cup {w} /\ UNCHANGED <<route, shown, asked, mounts, limit, loads, items>>
  BY <1>2, <1>3, <1>5 DEF Send
<1>9. /\ list' \in Listing /\ list'.kind = list.kind /\ list'.mount = list.mount /\ list'.loan = list.loan
      /\ list'.seen = list.seen /\ list'.shows = list.shows /\ list'.broken = list.broken
      /\ list'.again = list.again /\ list'.of = list.of
      /\ list.busy \subseteq list'.busy /\ list'.busy \subseteq list.busy \cup 0..Len(items)
  <2>1. PICK b : b = Key(n) OBVIOUS
  <2>2. b \in 0..Len(items) /\ b \in Nat BY <1>0, <2>1, KeyFacts
  <2>3. list' = [list EXCEPT !.busy = @ \cup {b}] BY <1>1, <2>1
  <2> QED BY <1>0, <2>2, <2>3, BusyFacts
<1>10. list.kind = "tasks" => w.n \notin list.busy /\ w.n \in list'.busy
  <2> SUFFICES ASSUME list.kind = "tasks" PROVE w.n \notin list.busy /\ w.n \in list'.busy OBVIOUS
  <2>1. Key(n) = n /\ w.n = n /\ n \in Nat BY <1>0, <1>2, <1>7 DEF Key
  <2>2. n \notin list.busy BY <1>1, <2>1 DEF Free
  <2>3. list' = [list EXCEPT !.busy = @ \cup {n}] BY <1>1, <2>1
  <2> QED BY <1>0, <2>1, <2>2, <2>3, BusyFacts
<1>11. Sends(w) BY <1>4, <1>7, <1>8, <1>9, <1>10 DEF Sends
<1> QED BY <1>0, <1>1, <1>2, <1>7, <1>11

\* the removal of an item that is seen.
LEMMA RemoveFacts ==
  ASSUME PageTypes, ListTypes, list # NoList, RemoveItem
  PROVE  \E w \in Act :
           /\ Sends(w) /\ w.op = "remove" /\ w.to = "deleted" /\ w.n \in DOMAIN list.seen
           /\ w.n \in 1..Len(items) /\ items[w.n].kind = list.kind
           /\ list.seen[w.n] \notin {"cleared", "waived"}
           /\ Section(list.kind).removal # "none"
<1>0. /\ list \in Listing /\ Len(items) \in Nat /\ DOMAIN list.seen \subseteq 1..Len(items)
      /\ \A n \in DOMAIN list.seen : items[n].kind = list.kind
  BY ListMounted DEF ListTypes, ListRecords, ShownBounds, Listed
<1>1. PICK n \in DOMAIN list.seen :
        /\ Free(n) /\ list.seen[n] \notin {"cleared", "waived"}
        /\ Send(Request("remove", n, "deleted"))
        /\ list' = [list EXCEPT !.busy = @ \cup {Key(n)}]
  BY DEF RemoveItem
<1>2. PICK w : w = Request("remove", n, "deleted") OBVIOUS
<1>3. /\ w \in Act /\ w.op = "remove" /\ w.kind = list.kind /\ w.mount = list.mount /\ w.loan = list.loan
      /\ w.n = n /\ w.to = "deleted" /\ w.made = {} /\ ~w.done /\ w.left = 1
      /\ w.num = Cardinality(DOMAIN list.seen) + 1
      /\ w.checked
  <2>1. n \in Nat /\ "deleted" \in Statuses \cup {"deleted"} BY <1>0
  <2> QED BY <1>2, <2>1, RequestFacts
<1>4. acts' = acts \cup {w} /\ UNCHANGED <<route, shown, asked, mounts, limit, loads, items>>
  BY <1>1, <1>2 DEF Send
<1>5. /\ list' \in Listing /\ list'.kind = list.kind /\ list'.mount = list.mount /\ list'.loan = list.loan
      /\ list'.seen = list.seen /\ list'.shows = list.shows /\ list'.broken = list.broken
      /\ list'.again = list.again /\ list'.of = list.of
      /\ list.busy \subseteq list'.busy /\ list'.busy \subseteq list.busy \cup 0..Len(items)
  <2>1. PICK b : b = Key(n) OBVIOUS
  <2>2. b \in 0..Len(items) /\ b \in Nat BY <1>0, <2>1, KeyFacts
  <2>3. list' = [list EXCEPT !.busy = @ \cup {b}] BY <1>1, <2>1
  <2> QED BY <1>0, <2>2, <2>3, BusyFacts
<1>6. list.kind = "tasks" => w.n \notin list.busy /\ w.n \in list'.busy
  <2> SUFFICES ASSUME list.kind = "tasks" PROVE w.n \notin list.busy /\ w.n \in list'.busy OBVIOUS
  <2>1. Key(n) = n /\ w.n = n /\ n \in Nat BY <1>0, <1>3 DEF Key
  <2>2. n \notin list.busy BY <1>1, <2>1 DEF Free
  <2>3. list' = [list EXCEPT !.busy = @ \cup {n}] BY <1>1, <2>1
  <2> QED BY <1>0, <2>1, <2>2, <2>3, BusyFacts
<1>7. Sends(w) BY <1>3, <1>4, <1>5, <1>6 DEF Sends
<1>8. Section(list.kind).removal # "none" BY DEF RemoveItem
<1> QED BY <1>0, <1>1, <1>3, <1>7, <1>8

\* Those the user takes keep the types.
LEMMA ListUserTypes ==
  ASSUME PageTypes, ListTypes, ListUser
  PROVE  ListTypes'
<1>0. list # NoList /\ list \in Listing /\ list.mount \in 1..mounts /\ mounts \in Nat
  BY ListMounted DEF ListUser, PageTypes
<1>1. ASSUME NEW w \in Act, Sends(w), w.n \in 0..Len(items), w.n = 0 <=> w.op \in {"add", "template"},
             w.n # 0 => items[w.n].kind = list.kind
      PROVE  ListTypes'
  <2>1. /\ GrownItems(items') /\ UNCHANGED <<route, shown, mounts>> /\ loads' = loads
        /\ w.mount \in 0..mounts /\ Products(w, items')
        /\ ~w.done => w.left \in {1, 2}
        /\ OurAct(w) => list.kind = w.kind
    BY <1>0, <1>1 DEF GrownItems, ListTypes, ListRecords, Sends, Products
  <2>2. w.n \in 0..Len(items') /\ (w.n # 0 => items'[w.n].kind = w.kind) /\ acts' \subseteq acts \cup {w}
    BY <1>1 DEF Sends
  <2>3. PICK p : p = list' OBVIOUS
  <2>4. /\ p \in Listing /\ p.kind = list.kind /\ p.mount = list.mount /\ p.loan = list.loan /\ p.seen = list.seen
        /\ p.busy \subseteq list.busy \cup 0..Len(items)
    BY <1>1, <2>3 DEF Sends
  <2> QED BY <1>0, <1>1, <2>1, <2>2, <2>3, <2>4, ListActs
<1>2. CASE Create
  <2>1. PICK w \in Act : Sends(w) /\ w.op \in {"add", "template"} /\ w.n = 0 BY <1>0, <1>2, CreateFacts
  <2>2. Len(items) \in Nat BY DEF ListTypes, ListRecords
  <2> QED BY <1>1, <2>1, <2>2
<1>3. CASE Step
  <2>1. PICK w \in Act : Sends(w) /\ w.op = "step" /\ w.n \in 1..Len(items) /\ items[w.n].kind = list.kind
    BY <1>0, <1>3, StepFacts
  <2>2. Len(items) \in Nat BY DEF ListTypes, ListRecords
  <2> QED BY <1>1, <2>1, <2>2
<1>4. CASE RemoveItem
  <2>1. PICK w \in Act : Sends(w) /\ w.op = "remove" /\ w.n \in 1..Len(items) /\ items[w.n].kind = list.kind
    BY <1>0, <1>4, RemoveFacts
  <2>2. Len(items) \in Nat BY DEF ListTypes, ListRecords
  <2> QED BY <1>1, <2>1, <2>2
<1>5. CASE Retry
  <2>1. Refetched(list, FALSE) /\ UNCHANGED <<route, shown, mounts, items, acts>> BY <1>5 DEF Retry
  <2>2. PICK p : p = list' OBVIOUS
  <2>3. /\ p \in Listing /\ p.kind = list.kind /\ p.mount = list.mount /\ p.loan = list.loan /\ p.seen = list.seen
        /\ p.busy \subseteq list.busy /\ (loads' = loads \/ loads' = {Load(list.loan, TRUE, {})})
    BY <1>0, <2>1, <2>2, RefetchedFacts
  <2>4. PICK e : e = Load(list.loan, TRUE, {}) OBVIOUS
  <2>5. e \in Fetch /\ e.frees = {} /\ e.got = Unread BY <1>0, <2>4, EffectLoad DEF Listing
  <2>6. PICK ls \in SUBSET Fetch : ls = {e} BY <2>5
  <2>7. loads' \subseteq loads \cup ls BY <2>3, <2>4, <2>6
  <2>8. \A l \in ls : l.frees \subseteq 0..Len(items) /\ (l.got = Unread \/ Listed(l.got, list.kind, items))
    BY <2>5, <2>6
  <2>9. acts' \subseteq acts /\ UNCHANGED <<route, shown, mounts, items>> BY <2>1
  <2> QED BY <1>0, <2>2, <2>3, <2>7, <2>8, <2>9, ListLooks
<1> QED BY <1>2, <1>3, <1>4, <1>5 DEF ListUser

\* What a request does to the items.
LEMMA CommittedFacts ==
  ASSUME ListTypes, NEW w \in acts
  PROVE  /\ GrownItems(Committed(w))
         /\ w.n # 0 => /\ Len(Committed(w)) = Len(items) /\ Committed(w)[w.n].status = w.to
                       /\ \A m \in 1..Len(items) : m # w.n => Committed(w)[m] = items[m]
         /\ w.n = 0 => /\ Len(Committed(w)) = Len(items) + 1
                       /\ \A m \in 1..Len(items) : Committed(w)[m] = items[m]
                       /\ Committed(w)[Len(items) + 1].kind = w.kind
                       /\ Committed(w)[Len(items) + 1].loan = w.loan
                       /\ Committed(w)[Len(items) + 1].status = "open"
                       /\ Committed(w)[Len(items) + 1].num = IF w.kind = "conditions" THEN w.num ELSE 0
<1>0. /\ items \in Seq(Thing) /\ Len(items) \in Nat /\ DOMAIN items = 1..Len(items)
      /\ \A n \in 1..Len(items) : items[n] \in Thing
      /\ w \in Act /\ w.n \in 0..Len(items)
  BY DEF ListTypes, ListRecords, ActBounds
<1>1. CASE w.n # 0
  <2>1. PICK n : n = w.n OBVIOUS
  <2>2. n \in 1..Len(items) BY <1>0, <1>1, <2>1
  <2>3. PICK r : r = [items[n] EXCEPT !.status = w.to] OBVIOUS
  <2>4. r \in Thing /\ r.kind = items[n].kind /\ r.loan = items[n].loan /\ r.num = items[n].num /\ r.status = w.to
    BY <1>0, <2>2, <2>3 DEF Thing, Act
  <2>5. PICK R : R = [items EXCEPT ![n] = r] OBVIOUS
  <2>6. Committed(w) = R BY <1>1, <2>1, <2>3, <2>5 DEF Committed
  <2>7. R \in Seq(Thing) /\ Len(R) = Len(items) /\ R[n] = r /\ \A m \in 1..Len(items) : m # n => R[m] = items[m]
    BY <1>0, <2>2, <2>4, <2>5
  <2>8. GrownItems(R) BY <1>0, <2>2, <2>4, <2>7 DEF GrownItems
  <2> QED BY <1>1, <2>1, <2>4, <2>6, <2>7, <2>8
<1>2. CASE w.n = 0
  <2>1. PICK k : k = IF w.kind = "conditions" THEN w.num ELSE 0 OBVIOUS
  <2>2. PICK r : r = Item(w.kind, w.loan, k) OBVIOUS
  <2>3. /\ r \in Thing /\ r.kind = w.kind /\ r.loan = w.loan /\ r.status = "open" /\ r.num = k
    <3>1. k \in Nat /\ "open" \in Statuses BY <1>0, <2>1 DEF Act, Statuses
    <3>2. r = [kind |-> w.kind, loan |-> w.loan, num |-> k, status |-> "open"] BY <2>2 DEF Item
    <3> QED BY <1>0, <3>1, <3>2 DEF Thing, Act
  <2>4. PICK R : R = Append(items, r) OBVIOUS
  <2>5. Committed(w) = R BY <1>2, <2>1, <2>2, <2>4 DEF Committed
  <2>6. R \in Seq(Thing) /\ Len(R) = Len(items) + 1 /\ R[Len(items) + 1] = r /\ \A m \in 1..Len(items) : R[m] = items[m]
    BY <1>0, <2>3, <2>4
  <2>7. GrownItems(R) BY <1>0, <2>6 DEF GrownItems
  <2> QED BY <1>2, <2>1, <2>3, <2>5, <2>6, <2>7
<1> QED BY <1>1, <1>2

\* A request that is checked,
LEMMA CheckedFacts ==
  ASSUME ListTypes, NEW w \in acts, ActChecked(w)
  PROVE  \E v \in Act :
           /\ acts' = (acts \ {w}) \cup {v}
           /\ v.op = w.op /\ v.mount = w.mount /\ v.kind = w.kind /\ v.loan = w.loan /\ v.n = w.n /\ v.to = w.to
           /\ v.num = w.num /\ v.left = w.left /\ v.made = w.made /\ v.done = w.done /\ v.checked
           /\ UNCHANGED <<route, shown, mounts, list, loads, items>>
<1>1. PICK v : v = [w EXCEPT !.checked = TRUE] OBVIOUS
<1>2. w \in Act BY DEF ListTypes, ListRecords
<1>3. /\ v \in Act /\ v.op = w.op /\ v.mount = w.mount /\ v.kind = w.kind /\ v.loan = w.loan /\ v.n = w.n /\ v.to = w.to
      /\ v.num = w.num /\ v.left = w.left /\ v.made = w.made /\ v.done = w.done /\ v.checked
  BY <1>1, <1>2 DEF Act
<1>4. acts' = (acts \ {w}) \cup {v} /\ UNCHANGED <<route, shown, mounts, list, loads, items>>
  BY <1>1 DEF ActChecked, pageVars
<1> QED BY <1>3, <1>4

\* one that ran,
LEMMA RunFacts ==
  ASSUME ListTypes, NEW w \in acts, ActRuns(w)
  PROVE  \E v \in Act :
           /\ acts' = (acts \ {w}) \cup {v}
           /\ v.op = w.op /\ v.mount = w.mount /\ v.kind = w.kind /\ v.loan = w.loan /\ v.n = w.n /\ v.to = w.to
           /\ v.num = w.num + 1 /\ v.left = w.left - 1 /\ v.checked = w.checked
           /\ v.made = IF w.n = 0 THEN w.made \cup {Len(items) + 1} ELSE {w.n}
           /\ v.done <=> w.left = 1
           /\ UNCHANGED <<route, shown, mounts, list, loads>> /\ items' = Committed(w)
           /\ w.left \in {1, 2}
<1>0. w \in Act /\ Len(items) \in Nat /\ w.left \in {1, 2} /\ w.n \in 0..Len(items)
  BY DEF ListTypes, ListRecords, ActBounds, ActRuns
<1>1. PICK d \in BOOLEAN : d = (w.left = 1) OBVIOUS
<1>2. PICK m : m = IF w.n = 0 THEN w.made \cup {Len(items) + 1} ELSE {w.n} OBVIOUS
<1>3. PICK v : v = [w EXCEPT !.left = @ - 1, !.num = @ + 1, !.done = d, !.made = m] OBVIOUS
<1>4. acts' = (acts \ {w}) \cup {v}
  <2>1. v = [w EXCEPT !.left = @ - 1, !.num = @ + 1, !.done = (w.left = 1),
                      !.made = IF w.n = 0 THEN @ \cup {Len(items) + 1} ELSE {w.n}]
    BY <1>1, <1>2, <1>3
  <2> QED BY <2>1 DEF ActRuns
<1>5. m \in SUBSET Nat /\ w.left - 1 \in 0..2 /\ w.num + 1 \in Nat BY <1>0, <1>2 DEF Act
<1>6. /\ v \in Act /\ v.op = w.op /\ v.mount = w.mount /\ v.kind = w.kind /\ v.loan = w.loan /\ v.n = w.n /\ v.to = w.to
      /\ v.num = w.num + 1 /\ v.left = w.left - 1 /\ v.checked = w.checked /\ v.made = m /\ v.done = d
  BY <1>0, <1>3, <1>5 DEF Act
<1>7. UNCHANGED <<route, shown, mounts, list, loads>> /\ items' = Committed(w) BY DEF ActRuns, pageVars
<1> QED BY <1>0, <1>1, <1>2, <1>4, <1>6, <1>7

\* one that failed: what is left of it is nobody's.
LEMMA FailedFacts ==
  ASSUME ListTypes, NEW w \in acts, ActFails(w)
  PROVE  /\ UNCHANGED <<route, shown, mounts, loads, items>>
         /\ list' = IF OurAct(w) THEN Freed(w) ELSE list
         /\ \/ acts' = acts \ {w}
            \/ \E v \in Act :
                 /\ acts' = (acts \ {w}) \cup {v}
                 /\ v.op = w.op /\ v.mount = 0 /\ v.kind = w.kind /\ v.loan = w.loan /\ v.n = w.n /\ v.to = w.to
                 /\ v.num = w.num /\ v.left = w.left - 1 /\ v.made = w.made /\ v.done = w.done
                 /\ v.checked = w.checked
                 /\ w.left = 2 /\ Section(w.kind).template = "together"
<1>0. w \in Act BY DEF ListTypes, ListRecords
<1>1. UNCHANGED <<route, shown, mounts, loads, items>> /\ list' = IF OurAct(w) THEN Freed(w) ELSE list
  BY DEF ActFails
<1>2. CASE ~(w.left > 1 /\ Section(w.kind).template = "together") BY <1>1, <1>2 DEF ActFails
<1>3. CASE w.left > 1 /\ Section(w.kind).template = "together"
  <2>5. PICK k : k = w.left - 1 OBVIOUS
  <2>1. PICK v : v = [w EXCEPT !.mount = 0, !.left = k] OBVIOUS
  <2>2. acts' = (acts \ {w}) \cup {v} BY <1>3, <2>1, <2>5 DEF ActFails
  <2>3. w.left = 2 /\ k \in 0..2 BY <1>0, <1>3, <2>5 DEF Act
  <2>4. /\ v \in Act /\ v.op = w.op /\ v.mount = 0 /\ v.kind = w.kind /\ v.loan = w.loan /\ v.n = w.n /\ v.to = w.to
        /\ v.num = w.num /\ v.left = w.left - 1 /\ v.made = w.made /\ v.done = w.done /\ v.checked = w.checked
    BY <1>0, <2>1, <2>3, <2>5 DEF Act
  <2> QED BY <1>1, <1>3, <2>2, <2>3, <2>4
<1> QED BY <1>2, <1>3

\* What a list looks like with an answer patched in.
LEMMA PatchedFacts ==
  ASSUME ListTypes, NEW w \in acts, list # NoList, w.kind = list.kind
  PROVE  /\ Patched(w) \in View /\ Listed(Patched(w), list.kind, items)
         /\ DOMAIN Patched(w) = IF w.n = 0 THEN DOMAIN list.seen \cup w.made ELSE DOMAIN list.seen
         /\ \A n \in DOMAIN Patched(w) : Patched(w)[n] = IF n \in w.made THEN w.to ELSE list.seen[n]
<1>0. w \in Act /\ list \in Listing /\ Products(w, items) /\ Listed(list.seen, list.kind, items)
  BY ListMounted DEF ListTypes, ListRecords, ActBounds, ShownBounds
<1>1. PICK ns : ns = IF w.n = 0 THEN DOMAIN list.seen \cup w.made ELSE DOMAIN list.seen OBVIOUS
<1>2. Patched(w) = [n \in ns |-> IF n \in w.made THEN w.to ELSE list.seen[n]] BY <1>1 DEF Patched
<1>3. list.seen \in [DOMAIN list.seen -> Mark] /\ DOMAIN list.seen \in SUBSET Nat
  BY <1>0, ViewIs DEF Listing
<1>4. ns \in SUBSET Nat /\ w.to \in Mark BY <1>0, <1>1, <1>3 DEF Act, Mark
<1>5. \A n \in ns : (IF n \in w.made THEN w.to ELSE list.seen[n]) \in Mark BY <1>1, <1>3, <1>4
<1>6. Patched(w) \in [ns -> Mark] BY <1>2, <1>5
<1>7. Patched(w) \in View BY <1>4, <1>6, ViewOf
<1>8. Listed(Patched(w), list.kind, items)
  <2>1. \A n \in ns : n \in 1..Len(items) /\ items[n].kind = list.kind BY <1>0, <1>1 DEF Listed, Products
  <2> QED BY <1>2, <2>1 DEF Listed
<1> QED BY <1>1, <1>2, <1>7, <1>8

\* Those of the server and its answers keep the types.
LEMMA ListServerTypes ==
  ASSUME PageTypes, ListTypes, NEW w \in acts, ActChecked(w) \/ ActRuns(w) \/ ActAnswered(w) \/ ActFails(w),
         UNCHANGED <<route, shown, mounts>>
  PROVE  ListTypes'
<1>0. /\ w \in Act /\ Len(items) \in Nat /\ w.mount \in 0..mounts /\ w.n \in 0..Len(items) /\ Products(w, items)
      /\ w.n = 0 <=> w.op \in {"add", "template"}
      /\ w.n # 0 => items[w.n].kind = w.kind
      /\ ~w.done => w.left \in {1, 2}
      /\ OurAct(w) => list.kind = w.kind
      /\ mounts \in Nat
  BY DEF ListTypes, ListRecords, ActBounds, PageTypes
<1>1. ASSUME GrownItems(items'), list' = list, loads' = loads,
             NEW v \in Act, acts' \subseteq acts \cup {v},
             v.op = w.op, v.mount = w.mount \/ v.mount = 0, v.kind = w.kind, v.n = w.n,
             Products(v, items'), ~v.done => v.left \in {1, 2}
      PROVE  ListTypes'
  <2>1. /\ v.mount \in 0..mounts /\ v.n \in 0..Len(items') /\ (v.n = 0 <=> v.op \in {"add", "template"})
        /\ v.n # 0 => items'[v.n].kind = v.kind
        /\ OurAct(v) => list.kind = v.kind
    <3>1. 0..Len(items) \subseteq 0..Len(items') /\ \A n \in 1..Len(items) : items'[n].kind = items[n].kind
      BY <1>1, ItemsStay DEF ListTypes
    <3>2. w.n # 0 => w.n \in 1..Len(items) BY <1>0
    <3>3. OurAct(v) => v.mount = w.mount
      <4>1. OurAct(v) => v.mount \in 1..mounts BY ListMounted DEF OurAct
      <4> QED BY <1>0, <1>1, <4>1
    <3> QED BY <1>0, <1>1, <3>1, <3>2, <3>3 DEF OurAct
  <2>2. PICK ws \in SUBSET Act : ws = {v} BY <1>1
  <2>3. \A u \in ws : /\ u.mount \in 0..mounts /\ u.n \in 0..Len(items') /\ Products(u, items')
                      /\ u.n = 0 <=> u.op \in {"add", "template"}
                      /\ u.n # 0 => items'[u.n].kind = u.kind
                      /\ ~u.done => u.left \in {1, 2}
                      /\ OurAct(u) => list.kind = u.kind
    <3>1. Products(v, items') /\ (~v.done => v.left \in {1, 2}) BY <1>1
    <3> QED BY <2>1, <2>2, <3>1
  <2>4. acts' \subseteq acts \cup ws BY <1>1, <2>2
  <2>5. SameListMount BY <1>1 DEF SameListMount
  <2>6. acts' \subseteq Act /\ ActBounds' BY <1>1, <2>3, <2>4, <2>5, ActsKeep
  <2>7. LoadBounds' /\ ShownBounds'
    <3>1. /\ \A f, k : Listed(f, k, items) => Listed(f, k, items')
          /\ 0..Len(items) \subseteq 0..Len(items')
      BY <1>1, ItemsStay DEF ListTypes
    <3>2. LoadBounds' BY <1>1, <3>1 DEF ListTypes, LoadBounds
    <3>3. ShownBounds' BY <1>1, <3>1 DEF ListTypes, ShownBounds
    <3> QED BY <3>2, <3>3
  <2> QED BY <1>1, <2>6, <2>7 DEF ListTypes, ListRecords, GrownItems
<1>2. GrownItems(items) BY DEF GrownItems, ListTypes, ListRecords
<1>3. CASE ActChecked(w)
  <2>1. PICK v \in Act :
           /\ acts' = (acts \ {w}) \cup {v}
           /\ v.op = w.op /\ v.mount = w.mount /\ v.kind = w.kind /\ v.n = w.n
           /\ v.left = w.left /\ v.made = w.made /\ v.done = w.done
           /\ list' = list /\ loads' = loads /\ items' = items
    BY <1>3, CheckedFacts
  <2>2. GrownItems(items') /\ Products(v, items') BY <1>0, <1>2, <2>1 DEF GrownItems, Products
  <2> QED BY <1>0, <1>1, <2>1, <2>2
<1>4. CASE ActRuns(w)
  <2>1. PICK v \in Act :
           /\ acts' = (acts \ {w}) \cup {v}
           /\ v.op = w.op /\ v.mount = w.mount /\ v.kind = w.kind /\ v.n = w.n
           /\ v.left = w.left - 1 /\ v.made = IF w.n = 0 THEN w.made \cup {Len(items) + 1} ELSE {w.n}
           /\ v.done <=> w.left = 1
           /\ list' = list /\ loads' = loads /\ items' = Committed(w)
           /\ w.left \in {1, 2}
    BY <1>4, RunFacts
  <2>2. GrownItems(items') BY <2>1, CommittedFacts
  <2>3. Products(v, items')
    <3>1. CASE w.n = 0
      <4>1. Len(items') = Len(items) + 1 /\ items'[Len(items) + 1].kind = w.kind BY <2>1, <3>1, CommittedFacts
      <4>2. \A n \in w.made : n \in 1..Len(items) /\ items'[n].kind = w.kind
        BY <1>0, <2>2 DEF Products, GrownItems
      <4>3. v.made = w.made \cup {Len(items) + 1} BY <2>1, <3>1
      <4> QED BY <1>0, <2>1, <4>1, <4>2, <4>3 DEF Products
    <3>2. CASE w.n # 0
      <4>1. w.n \in 1..Len(items) /\ Len(items') \in Nat /\ Len(items) <= Len(items') /\ items'[w.n].kind = w.kind
        BY <1>0, <2>2, <3>2 DEF GrownItems
      <4> QED BY <1>0, <2>1, <3>2, <4>1 DEF Products
    <3> QED BY <3>1, <3>2
  <2> QED BY <1>1, <2>1, <2>2, <2>3
<1>5. ASSUME items' = items, acts' \subseteq acts, list' = list, loads' = loads PROVE ListTypes'
  <2>1. GrownItems(items') /\ Products(w, items') BY <1>0, <1>2, <1>5 DEF GrownItems, Products
  <2>2. acts' \subseteq acts \cup {w} BY <1>5
  <2> QED BY <1>0, <1>1, <1>5, <2>1, <2>2
<1>6. CASE ActFails(w)
  <2>1. /\ UNCHANGED <<loads, items>> /\ list' = IF OurAct(w) THEN Freed(w) ELSE list
        /\ \/ acts' = acts \ {w}
           \/ \E v \in Act :
                /\ acts' = (acts \ {w}) \cup {v}
                /\ v.op = w.op /\ v.mount = 0 /\ v.kind = w.kind /\ v.n = w.n
                /\ v.left = w.left - 1 /\ v.made = w.made /\ v.done = w.done
                /\ w.left = 2
    BY <1>6, FailedFacts
  <2>2. PICK v \in Act :
                /\ acts' \subseteq acts \cup {v}
                /\ v.op = w.op /\ (v.mount = 0 \/ v.mount = w.mount) /\ v.kind = w.kind /\ v.n = w.n
                /\ v.made = w.made /\ (~v.done => v.left \in {1, 2})
    <3>1. CASE acts' = acts \ {w} BY <1>0, <3>1
    <3>2. CASE \E v \in Act :
                /\ acts' = (acts \ {w}) \cup {v}
                /\ v.op = w.op /\ v.mount = 0 /\ v.kind = w.kind /\ v.n = w.n
                /\ v.left = w.left - 1 /\ v.made = w.made /\ v.done = w.done
                /\ w.left = 2
      <4>1. PICK v \in Act :
                /\ acts' = (acts \ {w}) \cup {v}
                /\ v.op = w.op /\ v.mount = 0 /\ v.kind = w.kind /\ v.n = w.n
                /\ v.left = w.left - 1 /\ v.made = w.made /\ v.done = w.done
                /\ w.left = 2
        BY <3>2
      <4>2. v.left = 1 /\ acts' \subseteq acts \cup {v} BY <4>1
      <4> QED BY <4>1, <4>2
    <3> QED BY <2>1, <3>1, <3>2
  <2>3. GrownItems(items') /\ Products(v, items') BY <1>0, <1>2, <2>1, <2>2 DEF GrownItems, Products
  <2>4. CASE ~OurAct(w) BY <1>1, <2>1, <2>2, <2>3, <2>4
  <2>5. CASE OurAct(w)
    <3>1. list # NoList /\ list \in Listing /\ list.mount \in 1..mounts BY <2>5, ListMounted DEF OurAct
    <3>2. PICK p : p = Freed(w) OBVIOUS
    <3>3. /\ p \in Listing /\ list' = p /\ p.kind = list.kind /\ p.mount = list.mount /\ p.loan = list.loan
          /\ p.seen = list.seen /\ p.busy \subseteq list.busy \cup 0..Len(items)
      BY <2>1, <2>5, <3>1, <3>2, FreedFacts
    <3>4. /\ v.mount \in 0..mounts /\ v.n \in 0..Len(items') /\ (v.n = 0 <=> v.op \in {"add", "template"})
          /\ v.n # 0 => items'[v.n].kind = v.kind
          /\ OurAct(v) => list.kind = v.kind
      BY <1>0, <2>1, <2>2, <2>5
    <3>5. /\ loads' = loads /\ UNCHANGED <<route, shown, mounts>> /\ acts' \subseteq acts \cup {v}
          /\ ~v.done => v.left \in {1, 2}
      BY <2>1, <2>2
    <3> QED BY <2>3, <3>1, <3>3, <3>4, <3>5, ListActs
  <2> QED BY <2>4, <2>5
<1>7. CASE ActAnswered(w)
  <2>1. items' = items /\ acts' \subseteq acts BY <1>7 DEF ActAnswered
  <2>2. CASE ~OurAct(w)
    <3>1. UNCHANGED <<list, loads>> BY <1>7, <2>2 DEF ActAnswered
    <3> QED BY <1>5, <2>1, <3>1
  <2>3. CASE OurAct(w)
    <3>0. list # NoList /\ list \in Listing /\ list.kind = w.kind /\ list.loan \in Loan
      BY <1>0, <2>3, ListMounted DEF OurAct
    <3>1. ASSUME NEW p \in Listing, list' = p, p.kind = list.kind, p.mount = list.mount, p.loan = list.loan,
                 p.seen = list.seen \/ Listed(p.seen, list.kind, items),
                 p.busy \subseteq list.busy,
                 NEW e \in Fetch, loads' \subseteq loads \cup {e}, e.frees \subseteq 0..Len(items), e.got = Unread
          PROVE  ListTypes'
      <4>1. PICK ls \in SUBSET Fetch : ls = {e} BY <3>1
      <4>2. loads' \subseteq loads \cup ls BY <3>1, <4>1
      <4>3. \A l \in ls : l.frees \subseteq 0..Len(items) /\ (l.got = Unread \/ Listed(l.got, list.kind, items))
        BY <3>1, <4>1
      <4>4. p.busy \subseteq list.busy \cup 0..Len(items) /\ UNCHANGED <<route, shown, mounts, items>> BY <2>1, <3>1
      <4> QED BY <2>1, <3>0, <3>1, <4>2, <4>3, <4>4, ListLooks
    <3>2. PICK q : q = Freed(w) OBVIOUS
    <3>3. /\ q \in Listing /\ q.kind = list.kind /\ q.mount = list.mount /\ q.loan = list.loan
          /\ q.seen = list.seen /\ q.busy \subseteq list.busy
      BY <3>0, <3>2, FreedFacts
    <3>4. PICK e : e = Load(list.loan, TRUE, {}) OBVIOUS
    <3>5. e \in Fetch /\ e.frees \subseteq 0..Len(items) /\ e.got = Unread BY <3>0, <3>4, EffectLoad
    <3>6. CASE Section(w.kind).patches
      <4>1. PICK f : f = Patched(w) OBVIOUS
      <4>2. f \in View /\ Listed(f, list.kind, items) BY <3>0, <4>1, PatchedFacts
      <4>3. PICK p : p = [q EXCEPT !.seen = f] OBVIOUS
      <4>4. list' = p /\ loads' = loads BY <1>7, <2>3, <3>2, <3>6, <4>1, <4>3 DEF ActAnswered, Patch
      <4>5. /\ p \in Listing /\ p.kind = list.kind /\ p.mount = list.mount /\ p.loan = list.loan
            /\ p.seen = f /\ p.busy \subseteq list.busy
        BY <3>3, <4>2, <4>3 DEF Listing
      <4> QED BY <3>1, <3>5, <4>2, <4>4, <4>5
    <3>7. CASE ~Section(w.kind).patches /\ list.kind = "conditions"
      <4>1. Refetched(q, w.n = 0) BY <1>7, <2>3, <3>2, <3>7 DEF ActAnswered, Refresh
      <4>2. PICK c : c = (w.n = 0) OBVIOUS
      <4>3. Refetched(q, c) BY <4>1, <4>2
      <4>4. PICK p : p = list' OBVIOUS
      <4>5. /\ p \in Listing /\ p.kind = list.kind /\ p.mount = list.mount /\ p.loan = list.loan
            /\ p.seen = list.seen /\ p.busy \subseteq list.busy
            /\ (loads' = loads \/ loads' = {e})
        BY <3>3, <3>4, <4>3, <4>4, RefetchedFacts
      <4>6. loads' \subseteq loads \cup {e} BY <4>5
      <4> QED BY <3>1, <3>5, <4>4, <4>5, <4>6
    <3>8. CASE ~Section(w.kind).patches /\ list.kind # "conditions"
      <4>1. LoadAgain(w) BY <1>7, <2>3, <3>8 DEF ActAnswered, Refresh
      <4>2. PICK p : p = HiddenIf(list, "again") OBVIOUS
      <4>3. /\ p \in Listing /\ p.kind = list.kind /\ p.mount = list.mount /\ p.loan = list.loan
            /\ p.seen = list.seen /\ p.busy \subseteq list.busy /\ list' = p
        BY <3>0, <4>1, <4>2, HiddenIfFacts DEF LoadAgain
      <4>4. Key(w.n) \in 0..Len(items) BY <1>0, KeyFacts
      <4>5. PICK frees \in SUBSET Nat : frees = {Key(w.n)}
        <5>1. PICK b : b = Key(w.n) OBVIOUS
        <5>2. {b} \in SUBSET Nat BY <1>0, <4>4, <5>1
        <5> QED BY <5>1, <5>2
      <4>6. PICK effect \in BOOLEAN : effect = FALSE OBVIOUS
      <4>7. PICK l : l = Load(w.loan, effect, frees) OBVIOUS
      <4>8. l \in Fetch /\ l.frees = frees /\ l.got = Unread
        <5>1. w.loan \in Loan /\ moves \in Nat BY <1>0 DEF Act, PageTypes
        <5> QED BY <4>7, <5>1, LoadFacts
      <4>9. loads' \subseteq loads \cup {l} BY <4>1, <4>5, <4>6, <4>7 DEF LoadAgain
      <4>10. l.frees \subseteq 0..Len(items) BY <4>4, <4>5, <4>8
      <4> QED BY <3>1, <4>3, <4>8, <4>9, <4>10
    <3> QED BY <3>6, <3>7, <3>8
  <2> QED BY <2>2, <2>3
<1> QED BY <1>3, <1>4, <1>6, <1>7

---------------------------------------------------------------------------
(* The beginning.                                                          *)

\* The kinds are finitely many.
LEMMA FewKinds == IsFiniteSet(FormKinds) /\ IsFiniteSet(ListKinds)
<1>1. PICK F : F = <<"appraisal", "title", "property", "escrow", "terms", "urla", "income", "processing", "underwriting">>
  OBVIOUS
<1>2. /\ F \in Seq(FormKinds) /\ Len(F) = 9
      /\ F[1] = "appraisal" /\ F[2] = "title" /\ F[3] = "property" /\ F[4] = "escrow" /\ F[5] = "terms"
      /\ F[6] = "urla" /\ F[7] = "income" /\ F[8] = "processing" /\ F[9] = "underwriting"
  BY <1>1, Kinds
<1>3. \A s \in FormKinds : \E n \in 1..Len(F) : F[n] = s BY <1>2, Kinds
<1>4. IsFiniteSet(FormKinds) BY <1>2, <1>3 DEF IsFiniteSet
<1>5. PICK G : G = <<"credit", "audit", "runs", "tasks", "conversation", "documents", "exceptions", "titleExceptions",
                     "activity", "status", "conditions">>
  OBVIOUS
<1>6. /\ G \in Seq(ListKinds) /\ Len(G) = 11
      /\ G[1] = "credit" /\ G[2] = "audit" /\ G[3] = "runs" /\ G[4] = "tasks" /\ G[5] = "conversation"
      /\ G[6] = "documents" /\ G[7] = "exceptions" /\ G[8] = "titleExceptions" /\ G[9] = "activity"
      /\ G[10] = "status" /\ G[11] = "conditions"
  BY <1>5, Kinds
<1>7. \A s \in ListKinds : \E n \in 1..Len(G) : G[n] = s BY <1>6, Kinds
<1>8. IsFiniteSet(ListKinds) BY <1>6, <1>7 DEF IsFiniteSet
<1> QED BY <1>4, <1>8

\* A record there from the start.
FirstRow(k, l) == [kind |-> k, loan |-> l, form |-> {}, co |-> TRUE]

\* At the start a loan has at most one record of a kind, with nothing in it,
LEMMA FirstRows ==
  ASSUME FormsInit
  PROVE  /\ rows \in Seq(Row)
         /\ \A n \in 1..Len(rows) : rows[n].form = {}
         /\ \A m, n \in 1..Len(rows) : rows[m].kind = rows[n].kind /\ rows[m].loan = rows[n].loan => m = n
<1>1. PICK K : K = limit.sections \cap FormKinds OBVIOUS
<1>2. PICK ls \in SUBSET Loan : rows = SetToSeq(StoredAtFirst(ls)) BY DEF FormsInit
<1> DEFINE S == {FirstRow(k, l) : k \in K, l \in ls}
           f == [d \in K \X ls |-> FirstRow(d[1], d[2])]
<1>3. IsFiniteSet(K \X ls)
  <2>1. IsFiniteSet(K) BY <1>1, FewKinds, FS_Subset
  <2>2. IsFiniteSet(ls) BY PageAssumption, FS_Subset
  <2> QED BY <2>1, <2>2, FS_Product
<1>4. f \in Surjection(K \X ls, S)
  <2>1. ASSUME NEW d \in K \X ls PROVE f[d] \in S OBVIOUS
  <2>2. ASSUME NEW x \in S PROVE \E d \in K \X ls : f[d] = x
    <3>1. PICK k \in K, l \in ls : x = FirstRow(k, l) OBVIOUS
    <3>2. <<k, l>> \in K \X ls /\ f[<<k, l>>] = x BY <3>1
    <3> QED BY <3>2
  <2> QED BY <2>1, <2>2 DEF Surjection
<1>5. \A x \in S : x \in Row /\ x.form = {}
  <2>1. \A k \in K, l \in ls : FirstRow(k, l) \in Row /\ FirstRow(k, l).form = {} BY <1>1 DEF FirstRow, Row
  <2> QED BY <2>1
<1>6. \A x, y \in S : x.kind = y.kind /\ x.loan = y.loan => x = y
  <2>1. \A k \in K, l \in ls : FirstRow(k, l).kind = k /\ FirstRow(k, l).loan = l BY DEF FirstRow
  <2> QED BY <2>1
<1>7. rows = SetToSeq(S) BY <1>1, <1>2 DEF FirstRow, StoredAtFirst
<1> HIDE DEF S, f
<1>8. IsFiniteSet(S) BY <1>3, <1>4, FS_Surjection
<1>9. S \subseteq Row BY <1>5
<1>10. /\ rows \in Seq(Row) /\ DOMAIN rows = 1..Len(rows)
       /\ \A m, n \in DOMAIN rows : rows[m] = rows[n] => m = n
       /\ \A n \in DOMAIN rows : rows[n] \in S
  BY <1>7, <1>8, <1>9, EachOnce
<1> QED BY <1>5, <1>6, <1>10

\* and items that are open and numbered.
LEMMA FirstItems ==
  ASSUME PageTypes, ListsInit
  PROVE  /\ items \in Seq(Thing)
         /\ \A n \in 1..Len(items) : /\ items[n].status = "open" /\ items[n].num \in 1..limit.items
                                     /\ items[n].kind \in limit.sections \cap ListKinds
         /\ \A m, n \in 1..Len(items) :
              items[m].kind = items[n].kind /\ items[m].loan = items[n].loan /\ items[m].num = items[n].num => m = n
         /\ \A k \in limit.sections \cap ListKinds, l \in Loan, i \in 1..limit.items :
              \E n \in 1..Len(items) : items[n].kind = k /\ items[n].loan = l /\ items[n].num = i
<1>1. PICK K : K = limit.sections \cap ListKinds OBVIOUS
<1>2. PICK I : I = 1..limit.items OBVIOUS
<1>3. I \subseteq Nat /\ IsFiniteSet(I)
  <2>1. limit.items \in Nat BY ListsAssumption DEF PageTypes
  <2> QED BY <1>2, <2>1, FS_Interval
<1>4. items = SetToSeq({Item(k, l, n) : k \in K, l \in Loan, n \in I}) BY <1>1, <1>2 DEF ListsInit
<1> DEFINE S == {Item(k, l, n) : k \in K, l \in Loan, n \in I}
           f == [d \in K \X (Loan \X I) |-> Item(d[1], d[2][1], d[2][2])]
<1>5. IsFiniteSet(K \X (Loan \X I))
  <2>1. IsFiniteSet(K) BY <1>1, FewKinds, FS_Subset
  <2>2. IsFiniteSet(Loan \X I) BY <1>3, PageAssumption, FS_Product
  <2> QED BY <2>1, <2>2, FS_Product
<1>6. f \in Surjection(K \X (Loan \X I), S)
  <2>1. ASSUME NEW d \in K \X (Loan \X I) PROVE f[d] \in S OBVIOUS
  <2>2. ASSUME NEW x \in S PROVE \E d \in K \X (Loan \X I) : f[d] = x
    <3>1. PICK k \in K, l \in Loan, n \in I : x = Item(k, l, n) OBVIOUS
    <3>2. <<k, <<l, n>>>> \in K \X (Loan \X I) /\ f[<<k, <<l, n>>>>] = x BY <3>1
    <3> QED BY <3>2
  <2> QED BY <2>1, <2>2 DEF Surjection
<1>7. \A x \in S : x \in Thing /\ x.status = "open" /\ x.num \in I /\ x.kind \in K
  <2>1. "open" \in Statuses BY DEF Statuses
  <2>2. \A k \in K, l \in Loan, n \in I :
          /\ Item(k, l, n) \in Thing /\ Item(k, l, n).status = "open" /\ Item(k, l, n).num \in I
          /\ Item(k, l, n).kind \in K
    BY <1>1, <1>3, <2>1 DEF Item, Thing
  <2> QED BY <2>2
<1>8. \A x, y \in S : x.kind = y.kind /\ x.loan = y.loan /\ x.num = y.num => x = y BY DEF Item
<1>9. \A k \in K, l \in Loan, i \in I : \E x \in S : x.kind = k /\ x.loan = l /\ x.num = i
  <2>1. \A k \in K, l \in Loan, i \in I : Item(k, l, i) \in S OBVIOUS
  <2>2. \A k, l, i : Item(k, l, i).kind = k /\ Item(k, l, i).loan = l /\ Item(k, l, i).num = i BY DEF Item
  <2> HIDE DEF S
  <2> QED BY <2>1, <2>2
<1>10. items = SetToSeq(S) BY <1>4
<1> HIDE DEF S, f
<1>11. IsFiniteSet(S) BY <1>5, <1>6, FS_Surjection
<1>12. S \subseteq Thing BY <1>7
<1>13. /\ items \in Seq(Thing) /\ DOMAIN items = 1..Len(items)
       /\ \A m, n \in DOMAIN items : items[m] = items[n] => m = n
       /\ \A n \in DOMAIN items : items[n] \in S
       /\ \A x \in S : \E n \in DOMAIN items : items[n] = x
  BY <1>10, <1>11, <1>12, EachOnce
<1>14. \A k \in K, l \in Loan, i \in I :
         \E n \in 1..Len(items) : items[n].kind = k /\ items[n].loan = l /\ items[n].num = i
  <2> SUFFICES ASSUME NEW k \in K, NEW l \in Loan, NEW i \in I
               PROVE  \E n \in 1..Len(items) : items[n].kind = k /\ items[n].loan = l /\ items[n].num = i
    OBVIOUS
  <2>1. PICK x \in S : x.kind = k /\ x.loan = l /\ x.num = i BY <1>9
  <2>2. PICK n \in DOMAIN items : items[n] = x BY <1>13
  <2> QED BY <1>13, <2>1, <2>2
<1> QED BY <1>1, <1>2, <1>7, <1>8, <1>13, <1>14

---------------------------------------------------------------------------
(* The types of the workspace.                                             *)

Typed == PageTypes /\ FormTypes /\ ListTypes

\* Every behaviour begins so.
LEMMA InitTyped ==
  ASSUME Init
  PROVE  Typed
<1>1. PageTypes
  <2>1. PICK l \in Loan, s \in limit.sections : route = [loan |-> l, section |-> s] BY DEF Init, PageInit
  <2> QED BY <2>1 DEF Init, PageInit, PageTypes
<1>2. FormTypes
  <2>1. panel = NoPanel /\ writes = {} /\ typed = <<>> BY DEF Init, FormsInit
  <2>2. rows \in Seq(Row) /\ \A n \in 1..Len(rows) : rows[n].form = {} BY FirstRows DEF Init
  <2>3. typed \in Seq(Edit) BY <2>1
  <2> QED BY <2>1, <2>2, <2>3 DEF FormTypes, FormRecords, PanelBounds, WriteBounds, RowBounds, Made
<1>3. ListTypes
  <2>1. list = NoList /\ loads = {} /\ acts = {} BY DEF Init, ListsInit
  <2>2. items \in Seq(Thing) BY <1>1, FirstItems DEF Init
  <2> QED BY <2>1, <2>2 DEF ListTypes, ListRecords, ShownBounds, LoadBounds, ActBounds
<1> QED BY <1>1, <1>2, <1>3 DEF Typed

\* The steps within a form, and within a list.
FormStep == FormUser \/ FormBackground \/ LoadFails
ListStep == ListUser \/ ListBackground \/ \E ld \in loads : ListLoadFails(ld)

\* They leave the page where it is.
LEMMA FormStays ==
  ASSUME PageTypes, FormStep
  PROVE  UNCHANGED <<route, shown, asked, mounts, limit>> /\ moves' \in {moves, moves + 1}
<1>1. CASE FormUser
  BY <1>1 DEF FormUser, Type, CancelEdits, CreateRecord, SaveForm, ChangeBorrowers, Click, pageVars
<1>2. CASE FormBackground
  BY <1>2 DEF FormBackground, LoadRead, LoadAnswered, WriteRuns, WriteAnswered, WriteFails, pageVars
<1>3. CASE LoadFails BY <1>3 DEF LoadFails
<1> QED BY <1>1, <1>2, <1>3 DEF FormStep

\* The steps within a list leave the page where it is.
LEMMA ListStays ==
  ASSUME PageTypes, ListStep
  PROVE  UNCHANGED <<route, shown, asked, mounts, limit>> /\ moves' \in {moves, moves + 1}
<1>1. CASE ListUser
  <2>1. CASE Create BY <2>1 DEF Create, Send, Click
  <2>2. CASE Step BY <2>2 DEF Step, Send, Click
  <2>3. CASE RemoveItem BY <2>3 DEF RemoveItem, Send, Click
  <2>4. CASE Retry BY <2>4 DEF Retry, Click
  <2> QED BY <1>1, <2>1, <2>2, <2>3, <2>4 DEF ListUser
<1>2. CASE ListBackground
  BY <1>2 DEF ListBackground, ListRead, ListArrives, ActChecked, ActRuns, ActAnswered, ActFails, pageVars
<1>3. CASE \E ld \in loads : ListLoadFails(ld) BY <1>3 DEF ListLoadFails
<1> QED BY <1>1, <1>2, <1>3 DEF ListStep

\* A record another user creates comes after those there are, and nothing else changes.
LEMMA CreatedFacts ==
  ASSUME PageTypes, FormTypes, InForm(CreatedElsewhere)
  PROVE  /\ UNCHANGED <<route, shown, asked, mounts, limit, panel, writes, typed, list, loads, acts, items>>
         /\ moves' \in {moves, moves + 1}
         /\ Grown(rows')
         /\ \E r \in Row :
              /\ r.kind \in {"appraisal", "title"} /\ r.form = {} /\ causes' = Blame({r.loan}, "shared")
              /\ Len(rows') = Len(rows) + 1 /\ rows'[Len(rows) + 1] = r
              /\ \A n \in 1..Len(rows) : rows'[n] = rows[n]
<1>1. PICK k \in {"appraisal", "title"}, l \in Loan : rows' = Append(rows, NewRow(k, l)) /\ causes' = Blame({l}, "shared")
  BY DEF InForm, CreatedElsewhere
<1>2. PICK r : r = NewRow(k, l) OBVIOUS
<1>3. r = [kind |-> k, loan |-> l, form |-> {}, co |-> TRUE] BY <1>2 DEF NewRow
<1>4. r \in Row /\ r.kind = k /\ r.loan = l /\ r.form = {} BY <1>3, Kinds DEF Row
<1>5. rows \in Seq(Row) /\ rows' = Append(rows, r) BY <1>1, <1>2 DEF FormTypes, FormRecords
<1>6. rows' \in Seq(Row) /\ Len(rows') = Len(rows) + 1 /\ rows'[Len(rows) + 1] = r
      /\ \A n \in 1..Len(rows) : rows'[n] = rows[n]
  BY <1>4, <1>5
<1>7. Grown(rows') BY <1>5, <1>6 DEF Grown
<1>8. UNCHANGED <<route, shown, asked, mounts, limit, panel, writes, typed, list, loads, acts, items>>
      /\ moves' \in {moves, moves + 1}
  BY DEF InForm, CreatedElsewhere, Click, listVars
<1>9. causes' = Blame({r.loan}, "shared") BY <1>1, <1>4
<1> QED BY <1>4, <1>6, <1>7, <1>8, <1>9

\* An item another user adds comes after those there are, and nothing else changes.
LEMMA AddedFacts ==
  ASSUME PageTypes, ListTypes, InList(AddedElsewhere)
  PROVE  /\ UNCHANGED <<route, shown, asked, mounts, limit, panel, writes, typed, list, loads, acts, rows>>
         /\ moves' \in {moves, moves + 1}
         /\ GrownItems(items')
         /\ \E t \in Thing :
              /\ t.status = "open" /\ causes' = Blame({t.loan}, "shared")
              /\ Len(items') = Len(items) + 1 /\ items'[Len(items) + 1] = t
              /\ \A n \in 1..Len(items) : items'[n] = items[n]
<1>0. items \in Seq(Thing) BY DEF ListTypes, ListRecords
<1>1. PICK k \in ListKinds, l \in Loan :
        /\ \E n \in IF k = "conditions" THEN 1..(Cardinality(DOMAIN Live(k, l)) + 1) ELSE {0} :
             items' = Append(items, Item(k, l, n))
        /\ causes' = Blame({l}, "shared")
  BY DEF InList, AddedElsewhere
<1>2. PICK n \in IF k = "conditions" THEN 1..(Cardinality(DOMAIN Live(k, l)) + 1) ELSE {0} :
        items' = Append(items, Item(k, l, n))
  BY <1>1
<1>3. n \in Nat
  <2>1. CASE k = "conditions"
    <3>1. PICK c : c = Cardinality(DOMAIN Live(k, l)) + 1 OBVIOUS
    <3>2. n \in 1..c BY <1>2, <2>1, <3>1
    <3> QED BY <3>2
  <2>2. CASE k # "conditions" BY <1>2, <2>2
  <2> QED BY <2>1, <2>2
<1>4. PICK t : t = Item(k, l, n) OBVIOUS
<1>5. t = [kind |-> k, loan |-> l, num |-> n, status |-> "open"] BY <1>4 DEF Item
<1>6. t \in Thing /\ t.loan = l /\ t.status = "open" BY <1>1, <1>3, <1>5 DEF Thing, Statuses
<1>7. items' = Append(items, t) BY <1>2, <1>4
<1>8. items' \in Seq(Thing) /\ Len(items') = Len(items) + 1 /\ items'[Len(items) + 1] = t
      /\ \A m \in 1..Len(items) : items'[m] = items[m]
  BY <1>0, <1>6, <1>7
<1>9. GrownItems(items') BY <1>0, <1>8 DEF GrownItems
<1>10. UNCHANGED <<route, shown, asked, mounts, limit, panel, writes, typed, list, loads, acts, rows>>
       /\ moves' \in {moves, moves + 1}
  BY DEF InList, AddedElsewhere, Click, formVars
<1>11. causes' = Blame({t.loan}, "shared") BY <1>1, <1>6
<1> QED BY <1>6, <1>8, <1>9, <1>10, <1>11

\* What they add has its type.
LEMMA OthersTyped ==
  ASSUME Typed, Others
  PROVE  Typed'
<1>0. PageTypes /\ FormTypes /\ ListTypes BY DEF Typed
<1>1. CASE InForm(CreatedElsewhere)
  <2>1. /\ UNCHANGED <<route, shown, asked, mounts, limit, panel, writes, typed, list, loads, acts, items>>
        /\ moves' \in {moves, moves + 1} /\ Grown(rows')
    BY <1>0, <1>1, CreatedFacts
  <2>2. PICK r \in Row :
          /\ r.form = {} /\ Len(rows') = Len(rows) + 1 /\ rows'[Len(rows) + 1] = r
          /\ \A n \in 1..Len(rows) : rows'[n] = rows[n]
    BY <1>0, <1>1, CreatedFacts
  <2>3. PageTypes' BY <1>0, <2>1 DEF PageTypes
  <2>4. ListTypes'
    BY <1>0, <2>1 DEF ListTypes, ListRecords, ShownBounds, LoadBounds, ActBounds, OurAct
  <2>5. typed \in Seq(Edit) /\ Len(typed) <= Len(typed) BY <1>0 DEF FormTypes, FormRecords
  <2>6. /\ \A n, k : RowOf(n, k, rows) => RowOf(n, k, rows')
        /\ \A form : Made(form, typed) => Made(form, typed')
    BY <1>0, <2>1, <2>5, Stays DEF FormTypes
  <2>7. FormRecords' BY <1>0, <2>1 DEF FormTypes, FormRecords, Grown
  <2>8. PanelBounds' BY <1>0, <2>1, <2>6 DEF FormTypes, PanelBounds
  <2>9. WriteBounds' BY <1>0, <2>1, <2>6 DEF FormTypes, WriteBounds, Ours
  <2>10. ASSUME NEW n \in 1..Len(rows') PROVE Made(rows'[n].form, typed')
    <3>1. CASE n = Len(rows) + 1 BY <2>2, <3>1 DEF Made
    <3>2. CASE n \in 1..Len(rows) BY <1>0, <2>1, <2>2, <3>2 DEF FormTypes, RowBounds
    <3>3. Len(rows) \in Nat BY <1>0 DEF FormTypes, FormRecords
    <3> QED BY <2>2, <3>1, <3>2, <3>3
  <2>11. RowBounds' BY <2>10 DEF RowBounds
  <2> QED BY <2>3, <2>4, <2>7, <2>8, <2>9, <2>11 DEF Typed, FormTypes
<1>2. CASE InList(AddedElsewhere)
  <2>1. /\ UNCHANGED <<route, shown, asked, mounts, limit, panel, writes, typed, list, loads, acts, rows>>
        /\ moves' \in {moves, moves + 1} /\ GrownItems(items')
    BY <1>0, <1>2, AddedFacts
  <2>2. PageTypes' BY <1>0, <2>1 DEF PageTypes
  <2>3. FormTypes'
    BY <1>0, <2>1 DEF FormTypes, FormRecords, PanelBounds, WriteBounds, RowBounds, Ours
  <2>4. /\ \A f, k : Listed(f, k, items) => Listed(f, k, items')
        /\ 0..Len(items) \subseteq 0..Len(items') /\ 1..Len(items) \subseteq 1..Len(items')
        /\ \A n \in 1..Len(items) : items'[n].kind = items[n].kind /\ items'[n].loan = items[n].loan
    BY <1>0, <2>1, ItemsStay DEF ListTypes
  <2>5. ListRecords' BY <1>0, <2>1 DEF ListTypes, ListRecords, GrownItems
  <2>6. ShownBounds' BY <1>0, <2>1, <2>4 DEF ListTypes, ShownBounds
  <2>7. LoadBounds' BY <1>0, <2>1, <2>4 DEF ListTypes, LoadBounds
  <2>8. ActBounds'
    <3> SUFFICES ASSUME NEW w \in acts
                 PROVE  /\ w.mount \in 0..mounts' /\ w.n \in 0..Len(items') /\ Products(w, items')
                        /\ w.n = 0 <=> w.op \in {"add", "template"}
                        /\ w.n # 0 => items'[w.n].kind = w.kind
                        /\ ~w.done => w.left \in {1, 2}
                        /\ OurAct(w) => list.kind = w.kind
      BY <2>1 DEF ActBounds, OurAct
    <3>1. /\ w.mount \in 0..mounts /\ w.n \in 0..Len(items) /\ Products(w, items)
          /\ w.n = 0 <=> w.op \in {"add", "template"}
          /\ w.n # 0 => items[w.n].kind = w.kind
          /\ ~w.done => w.left \in {1, 2}
          /\ OurAct(w) => list.kind = w.kind
      BY <1>0 DEF ListTypes, ActBounds
    <3>2. Products(w, items') BY <2>4, <3>1 DEF Products
    <3>3. w.n # 0 => w.n \in 1..Len(items)
      <4>1. Len(items) \in Nat BY <1>0 DEF ListTypes, ListRecords
      <4> QED BY <3>1, <4>1
    <3> QED BY <2>1, <2>4, <3>1, <3>2, <3>3
  <2> QED BY <2>2, <2>3, <2>5, <2>6, <2>7, <2>8 DEF Typed, ListTypes
<1> QED BY <1>1, <1>2 DEF Others

\* The steps of the workspace.
LEMMA Steps ==
  ASSUME Next
  PROVE  TurnStep \/ InForm(FormStep) \/ InList(ListStep) \/ Others
<1>1. CASE User BY <1>1 DEF User, TurnStep, InForm, InList, FormStep, ListStep
<1>2. CASE Background BY <1>2 DEF Background, TurnStep, InForm, InList, FormStep, ListStep
<1>3. CASE Failure BY <1>3 DEF Failure, TurnStep, InForm, InList, FormStep, ListStep
<1> QED BY <1>1, <1>2, <1>3 DEF Next

\* A step within a form keeps the types of the forms, one within a list those of the lists.
LEMMA FormStepTypes ==
  ASSUME PageTypes, FormTypes, FormStep
  PROVE  FormTypes'
<1>1. CASE FormUser BY <1>1, UserTypes
<1>2. CASE LoadRead \/ LoadAnswered \/ LoadFails BY <1>2, LoadTypes
<1>3. CASE \E w \in writes : WriteRuns(w) \/ WriteAnswered(w) \/ WriteFails(w) BY <1>3, ServerTypes
<1> QED BY <1>1, <1>2, <1>3 DEF FormStep, FormBackground

\* And a step within a list those of the lists.
LEMMA ListStepTypes ==
  ASSUME PageTypes, ListTypes, ListStep
  PROVE  ListTypes'
<1>1. CASE ListUser BY <1>1, ListUserTypes
<1>2. CASE \E ld \in loads : ListRead(ld) \/ ListArrives(ld) \/ ListLoadFails(ld) BY <1>2, ListLoadTypes
<1>3. CASE \E w \in acts : ActChecked(w) \/ ActRuns(w) \/ ActAnswered(w) \/ ActFails(w)
  <2>1. UNCHANGED <<route, shown, mounts>> BY ListStays
  <2> QED BY <1>3, <2>1, ListServerTypes
<1> QED BY <1>1, <1>2, <1>3 DEF ListStep, ListBackground

\* Every step keeps the types.
LEMMA NextTyped ==
  ASSUME Typed, [Next]_vars
  PROVE  Typed'
<1>0. PageTypes /\ FormTypes /\ ListTypes BY DEF Typed
<1>1. CASE TurnStep
  <2>1. FormTypes' /\ ListTypes' BY <1>0, <1>1, TurnTypes, TurnListTypes
  <2>2. PageTypes'
    <3>1. /\ limit' = limit /\ route' \in [loan : Loan, section : limit.sections]
          /\ shown' \in Loan \cup {NoLoan} /\ asked' \in BOOLEAN
      BY <1>0, <1>1, TurnFacts
    <3>2. mounts' \in {mounts, mounts + 1} BY <1>0, <1>1, RemountCases
    <3>3. moves' \in {moves, moves + 1}
      BY <1>1 DEF TurnStep, Turn, Navigate, GoTo, LoanArrives, LoanNotFound, Click
    <3> QED BY <1>0, <3>1, <3>2, <3>3 DEF PageTypes
  <2> QED BY <2>1, <2>2 DEF Typed
<1>2. CASE InForm(FormStep)
  <2>1. FormStep /\ UNCHANGED <<list, loads, acts, items>> BY <1>2 DEF InForm, listVars
  <2>2. UNCHANGED <<route, shown, asked, mounts, limit>> /\ moves' \in {moves, moves + 1} BY <1>0, <2>1, FormStays
  <2>3. PageTypes' BY <1>0, <2>2 DEF PageTypes
  <2>4. FormTypes' BY <1>0, <2>1, FormStepTypes
  <2>5. ListTypes'
    BY <1>0, <2>1, <2>2 DEF ListTypes, ListRecords, ShownBounds, LoadBounds, ActBounds, OurAct
  <2> QED BY <2>3, <2>4, <2>5 DEF Typed
<1>3. CASE InList(ListStep)
  <2>1. ListStep /\ UNCHANGED <<panel, writes, rows, typed>> BY <1>3 DEF InList, formVars
  <2>2. UNCHANGED <<route, shown, asked, mounts, limit>> /\ moves' \in {moves, moves + 1} BY <1>0, <2>1, ListStays
  <2>3. PageTypes' BY <1>0, <2>2 DEF PageTypes
  <2>4. ListTypes' BY <1>0, <2>1, ListStepTypes
  <2>5. FormTypes'
    BY <1>0, <2>1, <2>2 DEF FormTypes, FormRecords, PanelBounds, WriteBounds, RowBounds, Ours
  <2> QED BY <2>3, <2>4, <2>5 DEF Typed
<1>4. CASE UNCHANGED vars
  BY <1>0, <1>4 DEF vars, pageVars, formVars, listVars, Typed, PageTypes, FormTypes, FormRecords, PanelBounds,
       WriteBounds, RowBounds, Ours, ListTypes, ListRecords, ShownBounds, LoadBounds, ActBounds, OurAct
<1>5. CASE Others BY <1>5, OthersTyped
<1> QED BY <1>1, <1>2, <1>3, <1>4, <1>5, Steps

\* The types hold in every behaviour.
LEMMA AlwaysTyped == Spec => []Typed
<1>1. Init => Typed BY InitTyped
<1>2. Typed /\ [Next]_vars => Typed' BY NextTyped
<1> QED BY <1>1, <1>2, PTL DEF Spec

\* What is mounted is a form or a list of the section of the address, records,
\* items and edits are there, and requests are of mounts that were: the type
\* invariant of the workspace holds.
THEOREM TypeCorrect == Spec => []TypeOK
<1>1. ASSUME Typed PROVE TypeOK
  <2>0. PageTypes /\ FormTypes /\ ListTypes /\ Len(rows) \in Nat /\ Len(typed) \in Nat /\ Len(items) \in Nat
        /\ DOMAIN items = 1..Len(items)
    BY <1>1 DEF Typed, FormTypes, FormRecords, ListTypes, ListRecords
  <2>1. /\ route.loan \in Loan /\ route.section \in limit.sections
        /\ shown \in Loan \cup {NoLoan} /\ asked \in BOOLEAN
    BY <2>0 DEF PageTypes
  <2>2. panel # NoPanel => /\ panel.kind \in FormKinds /\ panel.kind = route.section /\ panel.mount \in 1..mounts
                           /\ panel.row \in 0..Len(rows) /\ panel.form \cup panel.saved \subseteq 0..Len(typed)
    <3> SUFFICES ASSUME panel # NoPanel
                 PROVE  /\ panel.kind \in FormKinds /\ panel.kind = route.section /\ panel.mount \in 1..mounts
                        /\ panel.row \in 0..Len(rows) /\ panel.form \cup panel.saved \subseteq 0..Len(typed)
      OBVIOUS
    <3>1. panel \in Panel /\ panel.mount \in 1..mounts BY <2>0, Mounted
    <3>2. panel.kind = route.section /\ RowOf(panel.row, panel.kind, rows) /\ Made(panel.form, typed)
          /\ Made(panel.saved, typed)
      BY <2>0 DEF FormTypes, PanelBounds
    <3> QED BY <2>0, <3>1, <3>2 DEF Panel, RowOf, Made
  <2>3. list # NoList => /\ list.kind \in ListKinds /\ list.kind = route.section /\ list.mount \in 1..mounts
                         /\ DOMAIN list.seen \subseteq DOMAIN items /\ list.busy \subseteq 0..Len(items)
    <3> SUFFICES ASSUME list # NoList
                 PROVE  /\ list.kind \in ListKinds /\ list.kind = route.section /\ list.mount \in 1..mounts
                        /\ DOMAIN list.seen \subseteq DOMAIN items /\ list.busy \subseteq 0..Len(items)
      OBVIOUS
    <3>1. list \in Listing /\ list.mount \in 1..mounts /\ list.kind \in ListKinds BY <2>0, ListMounted
    <3> QED BY <2>0, <3>1 DEF ListTypes, ShownBounds, Listed
  <2>4. panel = NoPanel \/ list = NoList BY <2>2, <2>3, Kinds
  <2>5. list = NoList => loads = {} BY <2>0 DEF ListTypes, LoadBounds
  <2>6. \A w \in writes : w.kind \in FormKinds /\ w.row \in 0..Len(rows) /\ w.form \subseteq 1..Len(typed)
    <3> SUFFICES ASSUME NEW w \in writes
                 PROVE  w.kind \in FormKinds /\ w.row \in 0..Len(rows) /\ w.form \subseteq 1..Len(typed)
      OBVIOUS
    <3>1. w \in Writing /\ RowOf(w.row, w.kind, rows) /\ Made(w.form, typed)
      BY <2>0 DEF FormTypes, FormRecords, WriteBounds
    <3> QED BY <2>0, <3>1 DEF Writing, RowOf, Made
  <2>7. \A w \in acts : w.kind \in ListKinds /\ w.n \in 0..Len(items) /\ w.left \in 0..2
    BY <2>0 DEF ListTypes, ListRecords, ActBounds, Act
  <2> QED BY <2>1, <2>2, <2>3, <2>4, <2>5, <2>6, <2>7 DEF TypeOK
<1> QED BY <1>1, AlwaysTyped, PTL

---------------------------------------------------------------------------
(* What happened to a loan's sections is remembered.                       *)

\* Its causes stay.
CausesKept == \A l \in Loan : causes[l] \subseteq causes'[l]

\* Blaming a loan adds a cause to its own, and takes none away.
LEMMA BlameKeeps ==
  ASSUME NEW ls, NEW cause
  PROVE  \A l \in Loan : causes[l] \subseteq Blame(ls, cause)[l] /\ (l \in ls => cause \in Blame(ls, cause)[l])
BY DEF Blame

\* No step forgets any of it.
LEMMA NothingForgotten ==
  ASSUME [Next]_vars
  PROVE  CausesKept
<1>1. ASSUME causes' = causes \/ \E ls, cause : causes' = Blame(ls, cause) PROVE CausesKept
  BY <1>1, BlameKeeps DEF CausesKept
<1>2. CASE TurnStep
  <2>1. causes' = causes \/ causes' = Blame(LeftUnderWay, "left") BY <1>2 DEF TurnStep, Turn
  <2> QED BY <1>1, <2>1
<1>3. CASE InForm(FormStep)
  <2>1. CASE FormUser
    <3>1. CASE Type
      <4>1. causes' = causes \/ causes' = Blame(Involved \cup {shown}, "early") BY <3>1 DEF Type
      <4> QED BY <1>1, <4>1
    <3>2. CASE SaveForm
      <4>1. causes' = causes \/ causes' = Blame(Involved, "early") BY <3>2 DEF SaveForm
      <4> QED BY <1>1, <4>1
    <3>3. CASE CancelEdits \/ CreateRecord \/ ChangeBorrowers
      BY <1>1, <3>3 DEF CancelEdits, CreateRecord, ChangeBorrowers
    <3> QED BY <2>1, <3>1, <3>2, <3>3 DEF FormUser
  <2>2. CASE LoadRead BY <1>1, <2>2 DEF LoadRead
  <2>3. CASE LoadAnswered
    <3>1. causes' = causes \/ causes' = Blame(Involved, "empty") BY <2>3 DEF LoadAnswered
    <3> QED BY <1>1, <3>1
  <2>4. CASE LoadFails
    <3>1. causes' = Blame(Involved, "failed") BY <2>4 DEF LoadFails
    <3> QED BY <1>1, <3>1
  <2>5. ASSUME NEW w \in writes, WriteRuns(w) \/ WriteAnswered(w) \/ WriteFails(w) PROVE CausesKept
    <3>1. CASE WriteRuns(w) BY <1>1, <3>1 DEF WriteRuns
    <3>2. CASE WriteAnswered(w)
      <4>1. causes' = causes \/ causes' = Blame(Involved \cup {w.loan}, "late") BY <3>2 DEF WriteAnswered
      <4> QED BY <1>1, <4>1
    <3>3. CASE WriteFails(w)
      <4>1. causes' = causes \/ causes' = Blame({w.loan}, "unanswered") BY <3>3 DEF WriteFails
      <4> QED BY <1>1, <4>1
    <3> QED BY <2>5, <3>1, <3>2, <3>3
  <2> QED BY <1>3, <2>1, <2>2, <2>3, <2>4, <2>5 DEF InForm, FormStep, FormBackground
<1>4. CASE InList(ListStep)
  <2>1. CASE Create
    <3>1. causes' = causes \/ causes' = Blame({list.loan}, "miscounted") \/ causes' = Blame({list.loan}, "overlap")
      BY <2>1 DEF Create
    <3> QED BY <1>1, <3>1
  <2>2. CASE Step \/ RemoveItem \/ Retry BY <1>1, <2>2 DEF Step, RemoveItem, Retry
  <2>3. ASSUME NEW ld \in loads, ListRead(ld) \/ ListArrives(ld) \/ ListLoadFails(ld) PROVE CausesKept
    <3>1. causes' = causes \/ causes' = Blame({list.loan}, "late") \/ causes' = Blame({list.loan}, "failed")
      BY <2>3 DEF ListRead, ListArrives, ListLoadFails
    <3> QED BY <1>1, <3>1
  <2>4. ASSUME NEW w \in acts, ActChecked(w) \/ ActRuns(w) \/ ActAnswered(w) \/ ActFails(w) PROVE CausesKept
    <3>1. CASE ActChecked(w)
      <4>1. causes' = causes \/ causes' = Blame({items[w.n].loan}, "raced") BY <3>1 DEF ActChecked
      <4> QED BY <1>1, <4>1
    <3>2. CASE ActRuns(w)
      <4>1. causes' = causes \/ causes' = Blame(LoansOf(w), "crossed") BY <3>2 DEF ActRuns
      <4> QED BY <1>1, <4>1
    <3>3. CASE ActAnswered(w)
      <4>1. causes' = causes \/ causes' = Blame({list.loan} \cup LoansOf(w), "late") \/ causes' = Blame(LoansOf(w), "crossed")
        BY <3>3 DEF ActAnswered
      <4> QED BY <1>1, <4>1
    <3>4. CASE ActFails(w)
      <4>1. causes' = causes \/ causes' = Blame(LoansOf(w), "unparsed") \/ causes' = Blame(LoansOf(w), "unanswered")
        BY <3>4 DEF ActFails
      <4> QED BY <1>1, <4>1
    <3> QED BY <2>4, <3>1, <3>2, <3>3, <3>4
  <2> QED BY <1>4, <2>1, <2>2, <2>3, <2>4 DEF InList, ListStep, ListUser, ListBackground
<1>5. CASE UNCHANGED vars BY <1>1, <1>5 DEF vars
<1>6. CASE Others
  <2>1. PICK l \in Loan : causes' = Blame({l}, "shared")
    BY <1>6 DEF Others, InForm, InList, CreatedElsewhere, AddedElsewhere
  <2> QED BY <1>1, <2>1
<1> QED BY <1>2, <1>3, <1>4, <1>5, <1>6, Steps

---------------------------------------------------------------------------
(* Verdicts.                                                               *)

\* A step that was checked by the server and is not committed yet.
Stepping(w) == w.op = "step" /\ Checks(w.kind) /\ w.checked /\ ~w.done

\* The status found when the step was checked still allows it.
Admitted(w, is, cs) ==
  \/ <<is[w.n].status, w.to>> \in Allowed(w.kind)
  \/ is[w.n].status = "deleted"
  \/ "raced" \in cs[is[w.n].loan]

\* Only conditions get a verdict; a step sent to another item is to none.
Orderly(w) ==
  /\ w.op = "step" => w.to \in Statuses /\ (w.kind # "conditions" => w.to \notin Final)
  /\ w.op = "remove" => w.to = "deleted"
  /\ w.op # "template" => w.left <= 1

OnlyConditions == \A n \in 1..Len(items) : items[n].kind # "conditions" => items[n].status \notin Final

VerdictInv ==
  /\ OnlyConditions
  /\ \A w \in acts : Orderly(w) /\ (Stepping(w) => Admitted(w, items, causes))
  /\ \A u, w \in acts :
       Stepping(u) /\ Stepping(w) /\ u # w /\ u.n = w.n => "raced" \in causes[items[w.n].loan]

\* No step leads on from a verdict, and none but a condition's leads to one.
LEMMA OfferFacts ==
  /\ \A k \in ListKinds : k # "conditions" => \A p \in Section(k).offers : p[2] \notin Final
  /\ \A k \in ListKinds : \A p \in Allowed(k) : p[1] \notin Final
<1>1. /\ ListSections.credit.offers = {} /\ ListSections.audit.offers = {} /\ ListSections.runs.offers = {}
      /\ ListSections.conversation.offers = {} /\ ListSections.documents.offers = {} /\ ListSections.activity.offers = {}
      /\ ListSections.tasks.offers = {<<"open", "done">>, <<"done", "open">>}
      /\ ListSections.exceptions.offers = {<<"open", "done">>}
      /\ ListSections.titleExceptions.offers = {<<"open", "done">>}
      /\ ListSections.status.offers = {<<"open", "done">>}
      /\ ListSections.conditions.offers = {<<"open", "submitted">>} \cup
                                {"open", "submitted"} \X {"cleared", "waived"} \cup {<<"submitted", "rejected">>}
  BY DEF ListSections, CreditList, AuditList, RunsList, ConversationList, DocumentList, ActivityList, TaskList,
         ExceptionList, TitleExceptionList, StatusList, ConditionsList, ReadOnly
<1>2. /\ \A k \in ListKinds \ {"conditions"} :
           Section(k).offers \subseteq {<<"open", "done">>, <<"done", "open">>}
  BY <1>1, Kinds DEF Section
<1>3. \A p \in Section("conditions").offers : p[1] \in {"open", "submitted"} BY <1>1 DEF Section
<1>4. \A k \in ListKinds : Allowed(k) \subseteq Section(k).offers BY DEF Allowed
<1> QED BY <1>2, <1>3, <1>4 DEF Final

\* The item of a step is one of a loan.
LEMMA ItemOfStep ==
  ASSUME ListTypes, NEW w \in acts, Stepping(w)
  PROVE  w.n \in 1..Len(items) /\ items[w.n].loan \in Loan
<1>1. w.n \in 0..Len(items) /\ w.n # 0 /\ Len(items) \in Nat /\ \A n \in 1..Len(items) : items[n] \in Thing
  BY DEF ListTypes, ListRecords, ActBounds, Stepping
<1>2. w.n \in 1..Len(items) BY <1>1
<1> QED BY <1>1, <1>2 DEF Thing

\* Requests that go and items that stay keep it,
LEMMA VerdictStill ==
  ASSUME Typed, VerdictInv, CausesKept, items' = items, acts' \subseteq acts
  PROVE  VerdictInv'
<1>1. \A w \in acts : Stepping(w) => items[w.n].loan \in Loan BY ItemOfStep DEF Typed
<1>2. \A w \in acts : Stepping(w) /\ Admitted(w, items, causes) => Admitted(w, items', causes')
  BY <1>1 DEF Admitted, CausesKept
<1>3. \A u, w \in acts' :
       Stepping(u) /\ Stepping(w) /\ u # w /\ u.n = w.n => "raced" \in causes'[items'[w.n].loan]
  BY <1>1 DEF CausesKept, VerdictInv
<1>4. OnlyConditions' BY DEF VerdictInv, OnlyConditions
<1> QED BY <1>2, <1>3, <1>4 DEF VerdictInv, Orderly, Stepping

\* and so does one that comes, if it is orderly and admitted and no other races it.
LEMMA VerdictComes ==
  ASSUME Typed, VerdictInv, CausesKept, items' = items, NEW v, acts' \subseteq acts \cup {v},
         Orderly(v), Stepping(v) => Admitted(v, items', causes'),
         \A u \in acts' : Stepping(u) /\ Stepping(v) /\ u # v /\ u.n = v.n => "raced" \in causes'[items'[v.n].loan]
  PROVE  VerdictInv'
<1>1. \A w \in acts : Stepping(w) => items[w.n].loan \in Loan BY ItemOfStep DEF Typed
<1>2. \A w \in acts : Stepping(w) /\ Admitted(w, items, causes) => Admitted(w, items', causes')
  BY <1>1 DEF Admitted, CausesKept
<1>3. ASSUME NEW u \in acts', NEW w \in acts', Stepping(u), Stepping(w), u # w, u.n = w.n
      PROVE  "raced" \in causes'[items'[w.n].loan]
  <2>1. CASE u \in acts /\ w \in acts BY <1>1, <1>3, <2>1 DEF CausesKept, VerdictInv
  <2>2. CASE u = v BY <1>3, <2>2
  <2>3. CASE w = v BY <1>3, <2>3
  <2> QED BY <1>3, <2>1, <2>2, <2>3
<1>4. OnlyConditions' BY DEF VerdictInv, OnlyConditions
<1>5. \A w \in acts' : Orderly(w) /\ (Stepping(w) => Admitted(w, items', causes'))
  BY <1>2 DEF VerdictInv
<1>6. (\A u, w \in acts : Stepping(u) /\ Stepping(w) /\ u # w /\ u.n = w.n => "raced" \in causes[items[w.n].loan])'
  BY <1>3 DEF Stepping
<1>7. (\A w \in acts : Orderly(w) /\ (Stepping(w) => Admitted(w, items, causes)))'
  BY <1>5 DEF Orderly, Stepping, Admitted
<1> QED BY <1>4, <1>6, <1>7 DEF VerdictInv

\* Where the user sends a request: it is checked later.
LEMMA VerdictSent ==
  ASSUME Typed, VerdictInv, CausesKept, ListUser
  PROVE  VerdictInv'
<1>0. PageTypes /\ ListTypes /\ list # NoList /\ list.kind \in ListKinds BY ListMounted DEF Typed, ListUser
<1>1. ASSUME NEW w \in Act, Sends(w), Orderly(w) PROVE VerdictInv'
  <2>1. items' = items /\ acts' \subseteq acts \cup {w} BY <1>1 DEF Sends
  <2>2. ~Stepping(w) BY <1>1 DEF Sends, Stepping
  <2> QED BY <1>1, <2>1, <2>2, VerdictComes
<1>2. CASE Create
  <2>1. PICK w \in Act : Sends(w) /\ w.op \in {"add", "template"} BY <1>0, <1>2, CreateFacts
  <2>2. Orderly(w) BY <2>1 DEF Sends, Orderly
  <2> QED BY <1>1, <2>1, <2>2
<1>3. CASE Step
  <2>1. PICK w \in Act, n \in DOMAIN list.seen :
          Sends(w) /\ w.op = "step" /\ w.to \in Statuses /\ <<list.seen[n], w.to>> \in Section(list.kind).offers
    BY <1>0, <1>3, StepFacts
  <2>2. w.kind # "conditions" => w.to \notin Final
    <3>1. PICK p : p = <<list.seen[n], w.to>> OBVIOUS
    <3>2. p \in Section(list.kind).offers /\ p[2] = w.to /\ w.kind = list.kind BY <2>1, <3>1 DEF Sends
    <3> QED BY <1>0, <3>2, OfferFacts
  <2>3. Orderly(w) BY <2>1, <2>2 DEF Sends, Orderly
  <2> QED BY <1>1, <2>1, <2>3
<1>4. CASE RemoveItem
  <2>1. PICK w \in Act : Sends(w) /\ w.op = "remove" /\ w.to = "deleted" BY <1>0, <1>4, RemoveFacts
  <2>2. Orderly(w) BY <2>1 DEF Sends, Orderly
  <2> QED BY <1>1, <2>1, <2>2
<1>5. CASE Retry
  <2>1. items' = items /\ acts' \subseteq acts BY <1>5 DEF Retry
  <2> QED BY <2>1, VerdictStill
<1> QED BY <1>2, <1>3, <1>4, <1>5 DEF ListUser

\* Where the server checks it: the step is admitted, and two steps of an item
\* that are both checked race.
LEMMA VerdictChecked ==
  ASSUME Typed, VerdictInv, CausesKept, NEW w \in acts, ActChecked(w)
  PROVE  VerdictInv'
<1>0. ListTypes /\ w \in Act BY DEF Typed, ListTypes, ListRecords
<1>1. PICK v \in Act :
        /\ acts' = (acts \ {w}) \cup {v}
        /\ v.op = w.op /\ v.kind = w.kind /\ v.n = w.n /\ v.to = w.to /\ v.left = w.left /\ v.done = w.done
        /\ items' = items
  BY <1>0, CheckedFacts
<1>2. Orderly(v) BY <1>1 DEF VerdictInv, Orderly
<1>3. Stepping(v) => Admitted(v, items', causes')
  <2>1. ~(~w.checked /\ <<items[w.n].status, w.to>> \notin Allowed(w.kind)) /\ ~w.checked
    BY DEF ActChecked, ActRefused
  <2> QED BY <1>1, <2>1 DEF Admitted
<1>4. ASSUME NEW u \in acts', Stepping(u), Stepping(v), u # v, u.n = v.n
      PROVE  "raced" \in causes'[items'[v.n].loan]
  <2>1. u \in acts \ {w} BY <1>1, <1>4
  <2>2. u.n = w.n /\ u.op = "step" /\ u.checked /\ ~u.done BY <1>1, <1>4 DEF Stepping
  <2>3. causes' = Blame({items[w.n].loan}, "raced") BY <2>1, <2>2 DEF ActChecked
  <2>4. items[w.n].loan \in Loan
    <3>1. u.n = w.n BY <1>1, <1>4
    <3> QED BY <1>0, <1>4, <2>1, <3>1, ItemOfStep
  <2>5. \A l \in Loan : l \in {items[w.n].loan} => "raced" \in Blame({items[w.n].loan}, "raced")[l] BY BlameKeeps
  <2> QED BY <1>1, <2>3, <2>4, <2>5
<1> QED BY <1>1, <1>2, <1>3, <1>4, VerdictComes

\* Where it is committed: another step of the item was raced, or the item is deleted.
LEMMA VerdictCommitted ==
  ASSUME Typed, VerdictInv, CausesKept, NEW w \in acts, ActRuns(w)
  PROVE  VerdictInv'
<1>0. /\ ListTypes /\ w \in Act /\ Len(items) \in Nat /\ Orderly(w)
      /\ \A n \in 1..Len(items) : items[n] \in Thing
      /\ w.n \in 0..Len(items)
      /\ w.n = 0 <=> w.op \in {"add", "template"}
      /\ w.n # 0 => items[w.n].kind = w.kind
  BY DEF Typed, ListTypes, ListRecords, ActBounds, VerdictInv
<1>1. PICK v \in Act :
        /\ acts' = (acts \ {w}) \cup {v}
        /\ v.op = w.op /\ v.kind = w.kind /\ v.n = w.n /\ v.to = w.to /\ v.left = w.left - 1
        /\ v.done <=> w.left = 1
        /\ items' = Committed(w) /\ w.left \in {1, 2}
  BY <1>0, RunFacts
<1>2. Orderly(v) /\ ~Stepping(v) BY <1>0, <1>1 DEF Orderly, Stepping
<1>3. /\ GrownItems(items')
      /\ w.n # 0 => /\ Len(items') = Len(items) /\ items'[w.n].status = w.to
                    /\ \A m \in 1..Len(items) : m # w.n => items'[m] = items[m]
      /\ w.n = 0 => /\ Len(items') = Len(items) + 1
                    /\ \A m \in 1..Len(items) : items'[m] = items[m]
                    /\ items'[Len(items) + 1].status = "open"
  BY <1>0, <1>1, CommittedFacts
<1>4. OnlyConditions'
  <2> SUFFICES ASSUME NEW n \in 1..Len(items'), items'[n].kind # "conditions" PROVE items'[n].status \notin Final
    BY DEF OnlyConditions
  <2>1. CASE w.n = 0
    <3>1. CASE n \in 1..Len(items) BY <1>3, <2>1, <3>1 DEF VerdictInv, OnlyConditions
    <3>2. CASE n = Len(items) + 1 BY <1>3, <2>1, <3>2 DEF Final
    <3> QED BY <1>0, <1>3, <2>1, <3>1, <3>2
  <2>2. CASE w.n # 0 /\ n # w.n BY <1>3, <2>2 DEF VerdictInv, OnlyConditions
  <2>3. CASE w.n # 0 /\ n = w.n
    <3>1. w.kind # "conditions" BY <1>0, <1>3, <2>3 DEF GrownItems
    <3>2. w.op \in {"step", "remove"} BY <1>0, <2>3 DEF Act
    <3>3. w.to \notin Final BY <1>0, <3>1, <3>2 DEF Orderly, Final
    <3> QED BY <1>3, <2>3, <3>3
  <2> QED BY <2>1, <2>2, <2>3
<1>5. ASSUME NEW u \in acts, u # w, Stepping(u)
      PROVE  Admitted(u, items', causes')
  <2>1. u.n \in 1..Len(items) /\ items[u.n].loan \in Loan /\ items'[u.n].loan = items[u.n].loan
    <3>1. u.n \in 1..Len(items) BY <1>5 DEF Typed, ListTypes, ListRecords, ActBounds, Stepping
    <3> QED BY <1>0, <1>3, <3>1 DEF GrownItems, Thing
  <2>2. Admitted(u, items, causes) BY <1>5 DEF VerdictInv
  <2>3. "raced" \in causes[items[u.n].loan] => "raced" \in causes'[items[u.n].loan] BY <2>1 DEF CausesKept
  <2>4. CASE u.n # w.n
    <3>1. items'[u.n] = items[u.n] BY <1>3, <2>1, <2>4
    <3> QED BY <2>2, <2>3, <3>1 DEF Admitted
  <2>5. CASE u.n = w.n
    <3>1. CASE w.op = "step"
      <4>1. w.checked /\ ~w.done BY DEF ActRuns
      <4>2. w.kind = u.kind BY <1>0, <1>5, <2>1, <2>5 DEF Typed, ListTypes, ActBounds
      <4>3. Stepping(w) BY <1>5, <3>1, <4>1, <4>2 DEF Stepping
      <4>4. "raced" \in causes[items[u.n].loan] BY <1>5, <2>5, <4>3 DEF VerdictInv
      <4> QED BY <2>1, <2>3, <4>4 DEF Admitted
    <3>2. CASE w.op = "remove"
      <4>1. items'[u.n].status = "deleted" BY <1>0, <1>3, <2>1, <2>5, <3>2 DEF Orderly
      <4> QED BY <4>1 DEF Admitted
    <3> QED BY <1>0, <2>1, <2>5, <3>1, <3>2 DEF Act
  <2> QED BY <2>4, <2>5
<1>6. \A u \in acts' : Orderly(u) /\ (Stepping(u) => Admitted(u, items', causes'))
  BY <1>1, <1>2, <1>5 DEF VerdictInv
<1>7. ASSUME NEW t \in acts', NEW u \in acts', Stepping(t), Stepping(u), t # u, t.n = u.n
      PROVE  "raced" \in causes'[items'[u.n].loan]
  <2>1. t \in acts /\ u \in acts BY <1>1, <1>2, <1>7
  <2>2. u.n \in 1..Len(items) /\ items[u.n].loan \in Loan /\ items'[u.n].loan = items[u.n].loan
    <3>1. u.n \in 1..Len(items) BY <1>7, <2>1 DEF Typed, ListTypes, ListRecords, ActBounds, Stepping
    <3> QED BY <1>0, <1>3, <3>1 DEF GrownItems, Thing
  <2>3. "raced" \in causes[items[u.n].loan] BY <1>7, <2>1 DEF VerdictInv
  <2> QED BY <2>2, <2>3 DEF CausesKept
<1>8. (\A t, u \in acts : Stepping(t) /\ Stepping(u) /\ t # u /\ t.n = u.n => "raced" \in causes[items[u.n].loan])'
  BY <1>7 DEF Stepping
<1>9. (\A u \in acts : Orderly(u) /\ (Stepping(u) => Admitted(u, items, causes)))'
  BY <1>6 DEF Orderly, Stepping, Admitted
<1> QED BY <1>4, <1>8, <1>9 DEF VerdictInv

\* Where another user adds an item it is open, and none that is there changes.
LEMMA VerdictAdded ==
  ASSUME Typed, VerdictInv, CausesKept, InList(AddedElsewhere)
  PROVE  VerdictInv'
<1>0. PageTypes /\ ListTypes BY DEF Typed
<1>1. acts' = acts BY <1>0, AddedFacts
<1>2. PICK t \in Thing :
        /\ t.status = "open" /\ Len(items') = Len(items) + 1 /\ items'[Len(items) + 1] = t
        /\ \A n \in 1..Len(items) : items'[n] = items[n]
  BY <1>0, AddedFacts
<1>3. Len(items) \in Nat BY <1>0 DEF ListTypes, ListRecords
<1>4. \A w \in acts : Stepping(w) => items[w.n].loan \in Loan /\ items'[w.n] = items[w.n]
  BY <1>0, <1>2, ItemOfStep
<1>5. \A w \in acts : Stepping(w) /\ Admitted(w, items, causes) => Admitted(w, items', causes')
  BY <1>4 DEF Admitted, CausesKept
<1>6. \A u, w \in acts' :
       Stepping(u) /\ Stepping(w) /\ u # w /\ u.n = w.n => "raced" \in causes'[items'[w.n].loan]
  BY <1>1, <1>4 DEF CausesKept, VerdictInv
<1>7. ASSUME NEW n \in 1..Len(items'), items'[n].kind # "conditions" PROVE items'[n].status \notin Final
  <2>1. CASE n = Len(items) + 1 BY <1>2, <2>1 DEF Final
  <2>2. CASE n \in 1..Len(items) BY <1>2, <1>7, <2>2 DEF VerdictInv, OnlyConditions
  <2> QED BY <1>2, <1>3, <2>1, <2>2
<1>8. OnlyConditions' BY <1>7 DEF OnlyConditions
<1> QED BY <1>1, <1>5, <1>6, <1>8 DEF VerdictInv, Orderly, Stepping

\* Every step keeps it.
LEMMA VerdictNext ==
  ASSUME Typed, VerdictInv, [Next]_vars
  PROVE  VerdictInv'
<1>0. CausesKept /\ PageTypes /\ FormTypes /\ ListTypes BY NothingForgotten DEF Typed
<1>1. CASE TurnStep
  <2>1. items' = items /\ acts' = acts BY <1>0, <1>1, RelistCases
  <2> QED BY <1>0, <2>1, VerdictStill
<1>2. CASE InForm(FormStep)
  <2>1. items' = items /\ acts' = acts BY <1>2 DEF InForm, listVars
  <2> QED BY <1>0, <2>1, VerdictStill
<1>3. CASE InList(ListStep)
  <2>1. CASE ListUser BY <1>0, <2>1, VerdictSent
  <2>2. ASSUME NEW ld \in loads, ListRead(ld) \/ ListArrives(ld) \/ ListLoadFails(ld) PROVE VerdictInv'
    <3>1. items' = items /\ acts' = acts BY <2>2 DEF ListRead, ListArrives, ListLoadFails
    <3> QED BY <1>0, <3>1, VerdictStill
  <2>3. ASSUME NEW w \in acts, ActChecked(w) PROVE VerdictInv' BY <1>0, <2>3, VerdictChecked
  <2>4. ASSUME NEW w \in acts, ActRuns(w) PROVE VerdictInv' BY <1>0, <2>4, VerdictCommitted
  <2>5. ASSUME NEW w \in acts, ActAnswered(w) PROVE VerdictInv'
    <3>1. items' = items /\ acts' \subseteq acts BY <2>5 DEF ActAnswered
    <3> QED BY <1>0, <3>1, VerdictStill
  <2>6. ASSUME NEW w \in acts, ActFails(w) PROVE VerdictInv'
    <3>1. items' = items BY <2>6 DEF ActFails
    <3>2. CASE acts' = acts \ {w} BY <1>0, <3>1, <3>2, VerdictStill
    <3>3. CASE \E v \in Act :
                 /\ acts' = (acts \ {w}) \cup {v}
                 /\ v.op = w.op /\ v.kind = w.kind /\ v.to = w.to /\ v.left = w.left - 1 /\ w.left = 2
      <4>1. PICK v \in Act :
                 /\ acts' = (acts \ {w}) \cup {v}
                 /\ v.op = w.op /\ v.kind = w.kind /\ v.to = w.to /\ v.left = w.left - 1 /\ w.left = 2
        BY <3>3
      <4>2. Orderly(w) BY DEF VerdictInv
      <4>3. Orderly(v) /\ ~Stepping(v) BY <4>1, <4>2 DEF Orderly, Stepping
      <4>4. acts' \subseteq acts \cup {v} BY <4>1
      <4> QED BY <1>0, <3>1, <4>3, <4>4, VerdictComes
    <3> QED BY <1>0, <2>6, <3>2, <3>3, FailedFacts
  <2> QED BY <1>3, <2>1, <2>2, <2>3, <2>4, <2>5, <2>6 DEF InList, ListStep, ListBackground
<1>4. CASE UNCHANGED vars
  <2>1. items' = items /\ acts' = acts BY <1>4 DEF vars, listVars
  <2> QED BY <1>0, <2>1, VerdictStill
<1>5. CASE InForm(CreatedElsewhere)
  <2>1. items' = items /\ acts' = acts BY <1>5 DEF InForm, listVars
  <2> QED BY <1>0, <2>1, VerdictStill
<1>6. CASE InList(AddedElsewhere) BY <1>0, <1>6, VerdictAdded
<1> QED BY <1>1, <1>2, <1>3, <1>4, <1>5, <1>6, Steps DEF Others

\* A step that changes a status is committed by a request: another user's only adds.
LEMMA StatusChanges ==
  ASSUME Typed, [Next]_vars, items' # items
  PROVE  \/ \E w \in acts : ActRuns(w)
         \/ Len(items') = Len(items) + 1 /\ \A n \in 1..Len(items) : items'[n] = items[n]
<1>0. PageTypes /\ FormTypes /\ ListTypes BY DEF Typed
<1>1. CASE TurnStep BY <1>0, <1>1, RelistCases
<1>2. CASE InForm(FormStep) BY <1>2 DEF InForm, listVars
<1>3. CASE InList(ListStep)
  <2>1. CASE ListUser BY <2>1 DEF ListUser, Create, Step, RemoveItem, Retry, Send
  <2>2. CASE \E ld \in loads : ListRead(ld) \/ ListArrives(ld) \/ ListLoadFails(ld)
    BY <2>2 DEF ListRead, ListArrives, ListLoadFails
  <2>3. CASE \E w \in acts : ActChecked(w) \/ ActAnswered(w) \/ ActFails(w)
    BY <2>3 DEF ActChecked, ActAnswered, ActFails
  <2> QED BY <1>3, <2>1, <2>2, <2>3 DEF InList, ListStep, ListBackground
<1>4. CASE UNCHANGED vars BY <1>4 DEF vars, listVars
<1>5. CASE InForm(CreatedElsewhere) BY <1>5 DEF InForm, listVars
<1>6. CASE InList(AddedElsewhere) BY <1>0, <1>6, AddedFacts
<1> QED BY <1>1, <1>2, <1>3, <1>4, <1>5, <1>6, Steps DEF Others

\* At the start no item has a verdict and no step is under way.
LEMMA VerdictInit ==
  ASSUME Init
  PROVE  VerdictInv
<1>1. PageTypes BY InitTyped DEF Typed
<1>2. \A n \in 1..Len(items) : items[n].status = "open" BY <1>1, FirstItems DEF Init
<1>3. acts = {} BY DEF Init, ListsInit
<1> QED BY <1>2, <1>3 DEF VerdictInv, OnlyConditions, Final

\* A condition that is cleared, waived or rejected stays so or is removed,
\* unless two steps of it raced: the server checks every step against the
\* status it finds.
THEOREM VerdictsKept == Spec => VerdictStays
<1>1. Init => VerdictInv BY VerdictInit
<1>2. Typed /\ VerdictInv /\ [Next]_vars => VerdictInv' BY VerdictNext
<1>3. ASSUME Typed, VerdictInv, [Next]_vars, NEW n \in DOMAIN items, items[n].status \in Final
      PROVE  items'[n].status \in {items[n].status, "deleted"} \/ ~Quiet(items[n].loan, {"raced"})
  <2>0. /\ ListTypes /\ DOMAIN items = 1..Len(items) /\ Len(items) \in Nat
    BY <1>3 DEF Typed, ListTypes, ListRecords
  <2>1. CASE items' = items BY <2>1
  <2>2. CASE \A m \in 1..Len(items) : items'[m] = items[m] BY <2>0, <2>2
  <2>3. CASE \E w \in acts : ActRuns(w)
    <3>1. PICK w \in acts : ActRuns(w) BY <2>3
    <3>2. items' = Committed(w) /\ w.checked /\ ~w.done BY <3>1 DEF ActRuns
    <3>3. w \in Act /\ w.n \in 0..Len(items) /\ (w.n = 0 <=> w.op \in {"add", "template"})
          /\ (w.n # 0 => items[w.n].kind = w.kind) /\ Orderly(w)
      BY <1>3, <2>0 DEF ListTypes, ListRecords, ActBounds, VerdictInv
    <3>4. CASE n # w.n BY <1>3, <2>0, <3>2, <3>4, CommittedFacts
    <3>5. CASE n = w.n
      <4>1. items'[n].status = w.to /\ w.kind = items[n].kind BY <2>0, <3>2, <3>3, <3>5, CommittedFacts
      <4>2. CASE w.op = "remove" BY <3>3, <4>1, <4>2 DEF Orderly
      <4>3. CASE w.op = "step"
        <5>1. items[n].kind = "conditions" BY <1>3, <2>0 DEF VerdictInv, OnlyConditions
        <5>2. Stepping(w) BY <3>2, <4>1, <4>3, <5>1 DEF Stepping, Checks
        <5>3. Admitted(w, items, causes) BY <1>3, <5>2 DEF VerdictInv
        <5>4. <<items[w.n].status, w.to>> \notin Allowed(w.kind)
          <6>1. PICK p : p = <<items[w.n].status, w.to>> OBVIOUS
          <6>2. p[1] \in Final BY <1>3, <3>5, <6>1
          <6>3. w.kind \in ListKinds BY <3>3 DEF Act
          <6> QED BY <6>1, <6>2, <6>3, OfferFacts
        <5>5. "deleted" \notin Final BY DEF Final
        <5>6. "raced" \in causes[items[n].loan] BY <1>3, <3>5, <5>3, <5>4, <5>5 DEF Admitted
        <5> QED BY <5>6 DEF Quiet
      <4> QED BY <2>0, <3>3, <3>5, <4>2, <4>3 DEF Act
    <3> QED BY <3>4, <3>5
  <2> QED BY <1>3, <2>1, <2>2, <2>3, StatusChanges
<1>4. Typed /\ VerdictInv /\ [Next]_vars =>
        \A n \in DOMAIN items :
         items[n].status \in Final
            => items'[n].status \in {items[n].status, "deleted"} \/ ~Quiet(items[n].loan, {"raced"})
  BY <1>3
<1> QED BY <1>1, <1>2, <1>4, AlwaysTyped, PTL DEF Spec, VerdictStays

---------------------------------------------------------------------------
(* Whose edits a record holds. Loans that got mixed up, each blamed for    *)
(* it, are kin; what is kept of a form is of kin of the loan it is kept    *)
(* for.                                                                    *)

\* What happened to a loan that its records do not survive.
Foul(l, cs) == cs[l] \cap {"empty", "failed", "late", "early"} # {}

\* Two loans are kin when they are one, or both were got mixed up.
Kin(x, l, cs) == x = l \/ (Foul(x, cs) /\ Foul(l, cs))

\* Edits of a loan, a record of it, or of its kin.
EditsOf(form, l, ts, cs) == \A e \in form : Kin(ts[e].loan, l, cs)
RecordFor(n, l, rs, cs) == n # 0 => Kin(rs[n].loan, l, cs)

\* A form is of its loan; a load read a record of the loan.
Fits(p, rs, ts, cs) ==
  RecordFor(p.row, p.loan, rs, cs) /\ EditsOf(p.form, p.loan, ts, cs) /\ EditsOf(p.saved, p.loan, ts, cs)
ReadFor(r, l, rs, ts, cs) == (r.at # 0 => rs[r.at].loan = l) /\ EditsOf(r.form, l, ts, cs)

\* Records hold edits of their loans, writes send edits of their loans to their
\* records, and the form that was loaded is of the loan shown.
RowsKin == \A n \in 1..Len(rows) : EditsOf(rows[n].form, rows[n].loan, typed, causes)
WritesKin ==
  \A w \in writes : By(w.kind) # "none" =>
    RecordFor(w.row, w.loan, rows, causes) /\ EditsOf(w.form, w.loan, typed, causes)
PanelKin ==
  panel # NoPanel =>
    /\ panel.load = "error" => From(panel.kind) = "detail"
    /\ panel.load = "first" => /\ panel.row = 0 /\ panel.form = {} /\ panel.saved = {}
                               /\ \A w \in writes : ~Ours(w)
    /\ panel.read # NotRead => ReadFor(panel.read, panel.loan, rows, typed, causes)
    /\ panel.load = "done" /\ By(panel.kind) # "none" => Fits(panel, rows, typed, causes)

KinInv == RowsKin /\ WritesKin /\ PanelKin

\* Kinship is an equivalence.
LEMMA Kinship ==
  ASSUME NEW x, NEW y, NEW z, NEW cs
  PROVE  /\ Kin(x, x, cs) /\ (Kin(x, y, cs) => Kin(y, x, cs))
         /\ Kin(x, y, cs) /\ Kin(y, z, cs) => Kin(x, z, cs)
BY DEF Kin

\* Edits of a loan are edits of its kin.
LEMMA KinsEdits ==
  ASSUME NEW form, NEW x, NEW l, NEW ts, NEW cs, EditsOf(form, x, ts, cs), Kin(x, l, cs)
  PROVE  EditsOf(form, l, ts, cs)
BY Kinship DEF EditsOf

\* Edits stay, and others are added at the end.
Longer == typed' \in Seq(Edit) /\ Len(typed) <= Len(typed') /\ \A e \in 1..Len(typed) : typed'[e] = typed[e]

\* The records and the edits are such.
LEMMA Members ==
  ASSUME FormTypes
  PROVE  /\ Len(rows) \in Nat /\ DOMAIN rows = 1..Len(rows) /\ Len(typed) \in Nat
         /\ \A n \in 1..Len(rows) : rows[n] \in Row /\ rows[n].loan \in Loan /\ rows[n].kind \in FormKinds
         /\ \A e \in 1..Len(typed) : typed[e] \in Edit /\ typed[e].loan \in Loan
<1>1. /\ Len(rows) \in Nat /\ DOMAIN rows = 1..Len(rows) /\ Len(typed) \in Nat
      /\ \A n \in 1..Len(rows) : rows[n] \in Row
      /\ \A e \in 1..Len(typed) : typed[e] \in Edit
  BY DEF FormTypes, FormRecords
<1> QED BY <1>1 DEF Row, Edit

\* Kinship stays, and with it what edits and records are of.
LEMMA KinStays ==
  ASSUME FormTypes, CausesKept, Grown(rows'), Longer
  PROVE  /\ \A x, l \in Loan : Kin(x, l, causes) => Kin(x, l, causes')
         /\ \A l \in Loan : \A form : Made(form, typed) /\ EditsOf(form, l, typed, causes)
                                    => EditsOf(form, l, typed', causes')
         /\ \A l \in Loan : \A n, k : RowOf(n, k, rows) /\ RecordFor(n, l, rows, causes)
                                    => RecordFor(n, l, rows', causes')
         /\ \A l \in Loan : \A r, k : RowOf(r.at, k, rows) /\ Made(r.form, typed) /\ ReadFor(r, l, rows, typed, causes)
              => ReadFor(r, l, rows', typed', causes')
<1>1. /\ \A e \in 1..Len(typed) : typed[e] \in Edit /\ typed'[e] = typed[e]
      /\ \A n \in 1..Len(rows) : rows[n] \in Row /\ rows'[n].loan = rows[n].loan
  BY DEF FormTypes, FormRecords, Grown, Longer
<1>2. ASSUME NEW x \in Loan, NEW l \in Loan, Kin(x, l, causes) PROVE Kin(x, l, causes')
  BY <1>2 DEF Kin, Foul, CausesKept
<1>3. ASSUME NEW l \in Loan, NEW form, Made(form, typed) /\ EditsOf(form, l, typed, causes)
      PROVE  EditsOf(form, l, typed', causes')
  <2>1. ASSUME NEW e \in form PROVE Kin(typed'[e].loan, l, causes')
    <3>1. e \in 1..Len(typed) /\ Kin(typed[e].loan, l, causes) BY <1>3, <2>1 DEF Made, EditsOf
    <3>2. typed[e].loan \in Loan BY <1>1, <3>1 DEF Edit
    <3> QED BY <1>1, <1>2, <3>1, <3>2
  <2> QED BY <2>1 DEF EditsOf
<1>4. ASSUME NEW l \in Loan, NEW n, NEW k, RowOf(n, k, rows) /\ RecordFor(n, l, rows, causes)
      PROVE  RecordFor(n, l, rows', causes')
  <2>1. CASE n = 0 BY <2>1 DEF RecordFor
  <2>2. CASE n # 0
    <3>1. n \in 1..Len(rows) /\ Kin(rows[n].loan, l, causes) BY <1>4, <2>2 DEF RowOf, RecordFor
    <3>2. rows[n].loan \in Loan BY <1>1, <3>1 DEF Row
    <3> QED BY <1>1, <1>2, <3>1, <3>2 DEF RecordFor
  <2> QED BY <2>1, <2>2
<1>5. ASSUME NEW l \in Loan, NEW r, NEW k, RowOf(r.at, k, rows) /\ Made(r.form, typed)
             /\ ReadFor(r, l, rows, typed, causes)
      PROVE  ReadFor(r, l, rows', typed', causes')
  <2>1. EditsOf(r.form, l, typed', causes') BY <1>3, <1>5 DEF ReadFor
  <2>2. ASSUME r.at # 0 PROVE rows'[r.at].loan = l BY <1>1, <1>5, <2>2 DEF ReadFor, RowOf
  <2> QED BY <2>1, <2>2 DEF ReadFor
<1>6. \A l \in Loan : \A n, k : RowOf(n, k, rows) /\ RecordFor(n, l, rows, causes) => RecordFor(n, l, rows', causes')
  BY <1>4
<1>7. \A l \in Loan : \A r, k : RowOf(r.at, k, rows) /\ Made(r.form, typed) /\ ReadFor(r, l, rows, typed, causes)
              => ReadFor(r, l, rows', typed', causes')
  BY <1>5
<1>8. \A l \in Loan : \A form : Made(form, typed) /\ EditsOf(form, l, typed, causes) => EditsOf(form, l, typed', causes')
  BY <1>3
<1> QED BY <1>2, <1>6, <1>7, <1>8

\* Records that stay hold what they held.
LEMMA RowsStayKin ==
  ASSUME FormTypes, CausesKept, Longer, RowsKin, rows' = rows
  PROVE  RowsKin'
<1>1. Grown(rows') BY DEF FormTypes, FormRecords, Grown
<1>2. ASSUME NEW n \in 1..Len(rows) PROVE EditsOf(rows[n].form, rows[n].loan, typed', causes')
  <2>1. rows[n].loan \in Loan BY Members
  <2>2. Made(rows[n].form, typed) /\ EditsOf(rows[n].form, rows[n].loan, typed, causes)
    BY DEF FormTypes, RowBounds, RowsKin
  <2> QED BY <1>1, <2>1, <2>2, KinStays
<1> QED BY <1>2 DEF RowsKin

\* Writes that stay, and those that come.
LEMMA WritesStayKin ==
  ASSUME FormTypes, CausesKept, Grown(rows'), Longer, WritesKin,
         NEW ws \in SUBSET Writing, writes' \subseteq writes \cup ws,
         \A w \in ws : By(w.kind) # "none" =>
            RecordFor(w.row, w.loan, rows', causes') /\ EditsOf(w.form, w.loan, typed', causes')
  PROVE  WritesKin'
<1>1. ASSUME NEW w \in writes', By(w.kind) # "none"
      PROVE  RecordFor(w.row, w.loan, rows', causes') /\ EditsOf(w.form, w.loan, typed', causes')
  <2>1. CASE w \in ws BY <1>1, <2>1
  <2>2. CASE w \in writes
    <3>1. w.loan \in Loan /\ RowOf(w.row, w.kind, rows) /\ Made(w.form, typed)
      BY <2>2 DEF FormTypes, FormRecords, WriteBounds, Writing
    <3>2. RecordFor(w.row, w.loan, rows, causes) /\ EditsOf(w.form, w.loan, typed, causes)
      BY <1>1, <2>2 DEF WritesKin
    <3> QED BY <3>1, <3>2, KinStays
  <2> QED BY <1>1, <2>1, <2>2
<1> QED BY <1>1 DEF WritesKin

\* A form that stays mounted.
LEMMA PanelStaysKin ==
  ASSUME FormTypes, CausesKept, Grown(rows'), Longer, PanelKin, panel # NoPanel,
         NEW p \in Panel, panel' = p, p.kind = panel.kind, p.mount = panel.mount,
         p.load = "error" => panel.load = "error" \/ From(p.kind) = "detail",
         p.load = "first" => /\ panel.load = "first" /\ p.row = panel.row /\ p.form = panel.form /\ p.saved = panel.saved
                             /\ \A w \in writes' : w \in writes \/ w.mount # p.mount \/ \E u \in writes : u.mount = w.mount,
         p.read # NotRead => (p.read = panel.read /\ p.loan = panel.loan) \/ ReadFor(p.read, p.loan, rows', typed', causes'),
         p.load = "done" /\ By(p.kind) # "none" =>
           \/ /\ panel.load = "done" /\ p.loan = panel.loan /\ p.row = panel.row /\ p.form = panel.form
              /\ p.saved = panel.saved
           \/ Fits(p, rows', typed', causes')
  PROVE  PanelKin'
<1>0. /\ panel \in Panel /\ panel.loan \in Loan /\ RowOf(panel.row, panel.kind, rows)
      /\ Made(panel.form, typed) /\ Made(panel.saved, typed)
  BY Mounted DEF FormTypes, PanelBounds
<1>1. ASSUME p.load = "error" PROVE From(p.kind) = "detail" BY <1>1 DEF PanelKin
<1>2. ASSUME p.load = "first"
      PROVE  p.row = 0 /\ p.form = {} /\ p.saved = {} /\ \A w \in writes' : p.mount # w.mount
  BY <1>2 DEF PanelKin, Ours
<1>3. ASSUME p.read # NotRead PROVE ReadFor(p.read, p.loan, rows', typed', causes')
  <2>1. CASE p.read = panel.read /\ p.loan = panel.loan
    <3>1. RowOf(panel.read.at, panel.kind, rows) /\ Made(panel.read.form, typed)
      BY <1>3, <2>1 DEF FormTypes, PanelBounds
    <3>2. ReadFor(panel.read, panel.loan, rows, typed, causes) BY <1>3, <2>1 DEF PanelKin
    <3> QED BY <1>0, <2>1, <3>1, <3>2, KinStays
  <2> QED BY <1>3, <2>1
<1>4. ASSUME p.load = "done", By(p.kind) # "none" PROVE Fits(p, rows', typed', causes')
  <2>1. CASE /\ panel.load = "done" /\ p.loan = panel.loan /\ p.row = panel.row /\ p.form = panel.form
             /\ p.saved = panel.saved
    <3>1. Fits(panel, rows, typed, causes) BY <1>4, <2>1 DEF PanelKin
    <3> QED BY <1>0, <2>1, <3>1, KinStays DEF Fits
  <2> QED BY <1>4, <2>1
<1> QED BY <1>1, <1>2, <1>3, <1>4, NoPanelKind DEF PanelKin, Ours

\* Blamed, a form may be of any of the loans it has to do with.
LEMMA MixedUp ==
  ASSUME FormTypes, panel # NoPanel, NEW ls, NEW cause \in {"empty", "failed", "late", "early"},
         causes' = Blame(Involved \cup ls, cause)
  PROVE  /\ Foul(panel.loan, causes') /\ \A l \in ls \cap Loan : Foul(l, causes')
         /\ Fits(panel, rows, typed, causes')
<1>1. panel.loan \in Loan /\ RowOf(panel.row, panel.kind, rows) /\ Made(panel.form, typed) /\ Made(panel.saved, typed)
  BY Mounted DEF FormTypes, PanelBounds
<1>2. \A l \in Loan : l \in Involved \cup ls => Foul(l, causes') BY BlameKeeps DEF Foul
<1>3. panel.loan \in Involved BY DEF Involved
<1>4. Foul(panel.loan, causes') BY <1>1, <1>2, <1>3
<1>5. ASSUME NEW e \in panel.form \cup panel.saved PROVE Kin(typed[e].loan, panel.loan, causes')
  <2>1. typed[e].loan \in Loan BY <1>1, Members DEF Made
  <2>2. typed[e].loan \in Involved BY DEF Involved
  <2> QED BY <1>2, <1>4, <2>1, <2>2 DEF Kin
<1>6. ASSUME panel.row # 0 PROVE Kin(rows[panel.row].loan, panel.loan, causes')
  <2>1. rows[panel.row].loan \in Loan BY <1>1, <1>6, Members DEF RowOf
  <2>2. rows[panel.row].loan \in Involved BY <1>6 DEF Involved
  <2> QED BY <1>2, <1>4, <2>1, <2>2 DEF Kin
<1> QED BY <1>2, <1>4, <1>5, <1>6 DEF Fits, RecordFor, EditsOf

\* A step that leaves records, edits and writes: the form must stay of its loan.
LEMMA PanelFits ==
  ASSUME FormTypes, CausesKept, KinInv, UNCHANGED <<rows, typed, writes>>, PanelKin'
  PROVE  KinInv'
<1>1. Grown(rows') /\ Longer BY DEF FormTypes, FormRecords, Grown, Longer
<1>2. RowsKin' BY <1>1, RowsStayKin DEF KinInv
<1>3. WritesKin'
  <2>1. PICK ws \in SUBSET Writing : ws = {} OBVIOUS
  <2>2. writes' \subseteq writes \cup ws BY <2>1
  <2>3. \A w \in ws : By(w.kind) # "none" =>
           RecordFor(w.row, w.loan, rows', causes') /\ EditsOf(w.form, w.loan, typed', causes')
    BY <2>1
  <2> QED BY <1>1, <2>2, <2>3, WritesStayKin DEF KinInv
<1> QED BY <1>2, <1>3 DEF KinInv

\* What a load finds is of the loan; what it leaves in the form is.
LEMMA KinLoads ==
  ASSUME FormTypes, CausesKept, KinInv, LoadRead \/ LoadAnswered \/ LoadFails
  PROVE  KinInv'
<1>0. /\ UNCHANGED <<rows, typed, writes>> /\ panel # NoPanel /\ panel \in Panel /\ panel.load \in {"first", "again"}
      /\ panel.loan \in Loan /\ Grown(rows') /\ Longer /\ FormRecords
      /\ RowsKin /\ PanelKin
  <2>1. UNCHANGED <<rows, typed, writes>> /\ Loading BY DEF LoadRead, LoadAnswered, LoadFails
  <2> QED BY <2>1, Mounted DEF Loading, FormTypes, FormRecords, Grown, Longer, KinInv
<1>1. CASE LoadRead
  <2>1. PICK r : r = Found(panel.kind, panel.loan) OBVIOUS
  <2>2. PICK p : p = [panel EXCEPT !.read = r] OBVIOUS
  <2>3. panel' = p BY <1>1, <2>1, <2>2 DEF LoadRead
  <2>4. r \in Reading BY <1>0, <2>1, FoundFacts
  <2>5. ReadFor(r, panel.loan, rows, typed, causes)
    <3>1. CASE r.at = 0
      <4>1. r.form = {} BY <1>0, <2>1, <3>1, FoundFacts
      <4> QED BY <3>1, <4>1 DEF ReadFor, EditsOf
    <3>2. CASE r.at # 0
      <4>1. r.at \in 1..Len(rows) /\ rows[r.at].loan = panel.loan /\ r.form = rows[r.at].form
        BY <1>0, <2>1, <3>2, FoundFacts
      <4> QED BY <1>0, <4>1 DEF ReadFor, RowsKin
    <3> QED BY <3>1, <3>2
  <2>6. /\ p \in Panel /\ p.kind = panel.kind /\ p.mount = panel.mount /\ p.loan = panel.loan /\ p.load = panel.load
        /\ p.row = panel.row /\ p.form = panel.form /\ p.saved = panel.saved /\ p.read = r
    BY <1>0, <2>2, <2>4 DEF Panel
  <2>7. causes' = causes BY <1>1 DEF LoadRead
  <2>8. PanelKin' BY <1>0, <2>3, <2>5, <2>6, <2>7, PanelStaysKin
  <2> QED BY <1>0, <2>8, PanelFits
<1>2. CASE LoadAnswered
  <2>1. PICK r : r = panel.read OBVIOUS
  <2>2. PICK p : p = LoadedForm(r) OBVIOUS
  <2>3. panel' = p /\ r # NotRead BY <1>2, <2>1, <2>2 DEF LoadAnswered
  <2>4. r \in Reading BY <1>0, <2>1 DEF Panel
  <2>5. ReadFor(r, panel.loan, rows', typed', causes')
    <3>1. ReadFor(r, panel.loan, rows, typed, causes) BY <1>0, <2>1, <2>3 DEF PanelKin
    <3>2. RowOf(r.at, panel.kind, rows) /\ Made(r.form, typed) BY <1>0, <2>1, <2>3 DEF FormTypes, PanelBounds
    <3> QED BY <1>0, <3>1, <3>2, KinStays
  <2>6. /\ p \in Panel /\ p.kind = panel.kind /\ p.mount = panel.mount /\ p.loan = panel.loan /\ p.read = r
        /\ p.load = "done"
    BY <1>0, <2>1, <2>2, <2>4, LoadedFacts
  <2>7. Fits(p, rows', typed', causes')
    <3>1. CASE p.row = r.at /\ p.form \in {{}, r.form} /\ p.saved = p.form
      BY <1>0, <2>5, <2>6, <3>1, Kinship DEF Fits, RecordFor, EditsOf, ReadFor
    <3>2. CASE r.at = 0 /\ p.row \in {0, panel.row} /\ p.form = panel.form /\ p.saved = panel.saved
      <4>1. CASE panel.row = 0 /\ panel.form = {} /\ panel.saved = {}
        <5>1. p.row = 0 /\ p.form = {} /\ p.saved = {} BY <3>2, <4>1
        <5> QED BY <5>1 DEF Fits, RecordFor, EditsOf
      <4>2. CASE panel.row # 0 \/ panel.form \cup panel.saved # {}
        <5>1. PICK ls : ls = {} OBVIOUS
        <5>2. causes' = Blame(Involved, "empty") BY <1>2, <2>1, <3>2, <4>2 DEF LoadAnswered
        <5>3. causes' = Blame(Involved \cup ls, "empty")
          <6>1. Involved \cup ls = Involved BY <5>1
          <6> QED BY <5>2, <6>1
        <5>4. Fits(panel, rows, typed, causes') BY <1>0, <5>3, MixedUp
        <5> QED BY <1>0, <2>6, <3>2, <5>4 DEF Fits, RecordFor
      <4> QED BY <4>1, <4>2
    <3>3. PICK q : q = panel OBVIOUS
    <3> QED BY <1>0, <2>2, <2>4, <3>1, <3>2, LoadedFacts
  <2>8. PanelKin' BY <1>0, <2>1, <2>3, <2>6, <2>7, PanelStaysKin
  <2> QED BY <1>0, <2>8, PanelFits
<1>3. CASE LoadFails
  <2>1. PICK s : s = IF From(panel.kind) = "detail" THEN "error" ELSE "done" OBVIOUS
  <2>2. PICK n : n = IF panel.kind = "escrow" THEN 0 ELSE panel.row OBVIOUS
  <2>3. PICK p : p = [panel EXCEPT !.load = s, !.row = n] OBVIOUS
  <2>4. panel' = p BY <1>3, <2>1, <2>2, <2>3 DEF LoadFails
  <2>5. /\ n \in {0, panel.row} /\ s \in {"error", "done"} /\ (s = "error" => From(panel.kind) = "detail")
    BY <2>1, <2>2
  <2>6. /\ p \in Panel /\ p.kind = panel.kind /\ p.mount = panel.mount /\ p.loan = panel.loan /\ p.load = s
        /\ p.row = n /\ p.form = panel.form /\ p.saved = panel.saved /\ p.read = panel.read
    <3>1. n \in Nat BY <1>0, <2>5 DEF Panel
    <3> QED BY <1>0, <2>3, <2>5, <3>1 DEF Panel
  <2>7. Fits(p, rows', typed', causes')
    <3>1. PICK ls : ls = {} OBVIOUS
    <3>2. causes' = Blame(Involved \cup ls, "failed")
      <4>1. Involved \cup ls = Involved BY <3>1
      <4> QED BY <1>3, <4>1 DEF LoadFails
    <3>3. Fits(panel, rows, typed, causes') BY <1>0, <3>2, MixedUp
    <3> QED BY <1>0, <2>5, <2>6, <3>3 DEF Fits, RecordFor
  <2>8. PanelKin' BY <1>0, <2>4, <2>5, <2>6, <2>7, PanelStaysKin
  <2> QED BY <1>0, <2>8, PanelFits
<1> QED BY <1>1, <1>2, <1>3

\* A form that is saved is of the loan it is saved for.
LEMMA SendsKin ==
  ASSUME FormTypes, CausesKept, KinInv, UNCHANGED <<rows, typed>>, panel # NoPanel,
         panel.load # "first", NEW op \in {"create", "save", "add", "remove"},
         writes' = writes \cup {Write(op)},
         By(panel.kind) # "none" => Fits(panel, rows, typed, causes'),
         NEW p \in Panel, panel' = p, p.kind = panel.kind, p.mount = panel.mount, p.loan = panel.loan,
         p.load = panel.load, p.row = panel.row, p.form = panel.form, p.saved = panel.saved, p.read = panel.read
  PROVE  KinInv'
<1>0. panel \in Panel /\ Grown(rows') /\ Longer /\ RowsKin /\ WritesKin /\ PanelKin
  BY Mounted DEF FormTypes, FormRecords, Grown, Longer, KinInv
<1>1. RowsKin' BY <1>0, RowsStayKin
<1>2. WritesKin'
  <2>1. PICK ws \in SUBSET Writing : ws = {Write(op)} BY WriteFacts
  <2>2. writes' \subseteq writes \cup ws BY <2>1
  <2>3. \A w \in ws : By(w.kind) # "none" =>
           RecordFor(w.row, w.loan, rows', causes') /\ EditsOf(w.form, w.loan, typed', causes')
    BY <2>1, WriteFacts DEF Fits
  <2> QED BY <1>0, <2>2, <2>3, WritesStayKin
<1>3. PanelKin' BY <1>0, PanelStaysKin
<1> QED BY <1>1, <1>2, <1>3 DEF KinInv

\* What one types is of the loan shown; a form not yet of it is blamed when saved.
LEMMA KinUser ==
  ASSUME PageTypes, FormTypes, CausesKept, KinInv, FormUser
  PROVE  KinInv'
<1>0. panel # NoPanel /\ panel \in Panel /\ panel.kind \in FormKinds /\ RowsKin /\ WritesKin /\ PanelKin /\ panel.loan = shown
  <2>1. panel # NoPanel
    <3>1. CASE ChangeBorrowers BY <3>1, NoPanelKind DEF ChangeBorrowers
    <3>2. CASE ~ChangeBorrowers BY <3>2 DEF FormUser, Type, Editable, CancelEdits, SaveBar, Dirty, CreateRecord, SaveForm
    <3> QED BY <3>1, <3>2
  <2> QED BY <2>1, Mounted DEF KinInv, Panel, FormTypes, PanelBounds
<1>1. rows' = rows BY DEF FormUser, Type, CancelEdits, CreateRecord, SaveForm, ChangeBorrowers, pageVars
<1>2. Grown(rows') BY <1>1 DEF FormTypes, FormRecords, Grown
<1>3. CASE Type
  <2>1. PICK f \in Sections[panel.kind].fields : typed' = Append(typed, [loan |-> shown, field |-> f])
    BY <1>3 DEF Type
  <2>2. PICK d : d = [loan |-> shown, field |-> f] OBVIOUS
  <2>3. d \in Edit /\ d.loan = panel.loan BY <1>0, <2>1, <2>2, FieldFacts DEF Edit, Panel
  <2>4. /\ typed' \in Seq(Edit) /\ Len(typed') = Len(typed) + 1 /\ typed'[Len(typed) + 1] = d
        /\ \A e \in 1..Len(typed) : typed'[e] = typed[e]
    BY <2>1, <2>2, <2>3 DEF FormTypes, FormRecords
  <2>5. Longer BY <2>4, Members DEF Longer
  <2>6. PICK s : s = panel.form \cup {Len(typed) + 1} OBVIOUS
  <2>7. PICK p : p = [panel EXCEPT !.form = s] OBVIOUS
  <2>8. panel' = p /\ writes' = writes BY <1>3, <2>6, <2>7 DEF Type
  <2>9. s \in SUBSET Nat BY <1>0, <2>6, Members DEF Panel
  <2>10. /\ p \in Panel /\ p.kind = panel.kind /\ p.mount = panel.mount /\ p.loan = panel.loan /\ p.load = panel.load
         /\ p.row = panel.row /\ p.form = s /\ p.saved = panel.saved /\ p.read = panel.read
    BY <1>0, <2>7, <2>9 DEF Panel
  <2>11. panel.load # "first"
    <3>1. From(panel.kind) = "detail" => panel.load \in {"again", "done"} BY <1>3 DEF Type, Editable
    <3>2. From(panel.kind) # "detail" => panel.load = "done" BY <1>3 DEF Type, Editable
    <3> QED BY <3>1, <3>2
  <2>12. ASSUME p.load = "done", By(p.kind) # "none" PROVE Fits(p, rows', typed', causes')
    <3>1. Fits(panel, rows, typed, causes) BY <1>0, <2>10, <2>12 DEF PanelKin
    <3>2. RowOf(panel.row, panel.kind, rows) /\ Made(panel.form, typed) /\ Made(panel.saved, typed) /\ panel.loan \in Loan
      BY <1>0, Mounted DEF FormTypes, PanelBounds
    <3>3. Fits(panel, rows', typed', causes') BY <1>2, <2>5, <3>1, <3>2, KinStays DEF Fits
    <3>4. Kin(typed'[Len(typed) + 1].loan, panel.loan, causes') BY <2>3, <2>4, Kinship
    <3>5. EditsOf(s, panel.loan, typed', causes') BY <2>6, <3>3, <3>4 DEF Fits, EditsOf
    <3> QED BY <2>10, <3>3, <3>5 DEF Fits
  <2>13. PanelKin' BY <1>0, <1>2, <2>5, <2>8, <2>10, <2>11, <2>12, PanelStaysKin
  <2>14. RowsKin' BY <1>0, <1>1, <2>5, RowsStayKin
  <2>15. WritesKin'
    <3>1. PICK ws \in SUBSET Writing : ws = {} OBVIOUS
    <3>2. writes' \subseteq writes \cup ws BY <2>8, <3>1
    <3>3. \A w \in ws : By(w.kind) # "none" =>
             RecordFor(w.row, w.loan, rows', causes') /\ EditsOf(w.form, w.loan, typed', causes')
      BY <3>1
    <3> QED BY <1>0, <1>2, <2>5, <3>2, <3>3, WritesStayKin
  <2> QED BY <2>13, <2>14, <2>15 DEF KinInv
<1>4. CASE CancelEdits
  <2>1. UNCHANGED <<rows, typed, writes>> /\ causes' = causes BY <1>4 DEF CancelEdits
  <2>2. PICK p : p = [panel EXCEPT !.form = panel.saved] OBVIOUS
  <2>3. panel' = p BY <1>4, <2>2 DEF CancelEdits
  <2>4. /\ p \in Panel /\ p.kind = panel.kind /\ p.mount = panel.mount /\ p.loan = panel.loan /\ p.load = panel.load
        /\ p.row = panel.row /\ p.form = panel.saved /\ p.saved = panel.saved /\ p.read = panel.read
    BY <1>0, <2>2 DEF Panel
  <2>5. Longer BY <2>1, Members DEF Longer, FormTypes, FormRecords
  <2>6. panel.load # "first" BY <1>0, <1>4 DEF CancelEdits, SaveBar, Dirty, PanelKin
  <2>7. ASSUME p.load = "done", By(p.kind) # "none" PROVE Fits(p, rows', typed', causes')
    <3>1. Fits(panel, rows, typed, causes) BY <1>0, <2>4, <2>7 DEF PanelKin
    <3> QED BY <2>1, <2>4, <3>1 DEF Fits
  <2>8. PanelKin' BY <1>0, <1>2, <2>1, <2>3, <2>4, <2>5, <2>6, <2>7, PanelStaysKin
  <2> QED BY <2>1, <2>8, PanelFits
<1>5. CASE CreateRecord
  <2>1. UNCHANGED <<rows, typed, panel, causes>> /\ writes' = writes \cup {Write("create")} /\ panel.load = "done"
    BY <1>5 DEF CreateRecord
  <2>2. By(panel.kind) # "none" => Fits(panel, rows, typed, causes') BY <1>0, <2>1 DEF PanelKin
  <2>3. PICK p : p = panel OBVIOUS
  <2>4. panel' = p /\ p \in Panel BY <1>0, <2>1, <2>3
  <2> QED BY <1>0, <2>1, <2>2, <2>3, <2>4, SendsKin
<1>6. CASE ChangeBorrowers
  <2>1. PICK op \in {"create", "save", "add", "remove"} :
          UNCHANGED <<rows, typed, panel, causes>> /\ writes' = writes \cup {Write(op)} /\ panel.load = "done"
    BY <1>6 DEF ChangeBorrowers
  <2>2. By(panel.kind) # "none" => Fits(panel, rows, typed, causes') BY <1>0, <2>1 DEF PanelKin
  <2>3. PICK p : p = panel OBVIOUS
  <2>4. panel' = p /\ p \in Panel BY <1>0, <2>1, <2>3
  <2> QED BY <1>0, <2>1, <2>2, <2>3, <2>4, SendsKin
<1>7. CASE SaveForm
  <2>1. UNCHANGED <<rows, typed>> /\ writes' = writes \cup {Write("save")} BY <1>7 DEF SaveForm
  <2>2. PICK p : p = [panel EXCEPT !.busy = TRUE] OBVIOUS
  <2>3. panel' = p BY <1>7, <2>2 DEF SaveForm
  <2>4. /\ p \in Panel /\ p.kind = panel.kind /\ p.mount = panel.mount /\ p.loan = panel.loan /\ p.load = panel.load
        /\ p.row = panel.row /\ p.form = panel.form /\ p.saved = panel.saved /\ p.read = panel.read
    BY <1>0, <2>2 DEF Panel
  <2>5. panel.load # "first" /\ panel.load # "error"
    BY <1>0, <1>7 DEF SaveForm, SaveBar, Dirty, PanelKin
  <2>6. ASSUME By(panel.kind) # "none" PROVE Fits(panel, rows, typed, causes')
    <3>1. CASE panel.load = "done"
      <4>1. causes' = causes BY <1>7, <3>1 DEF SaveForm
      <4> QED BY <1>0, <2>6, <3>1, <4>1 DEF PanelKin
    <3>2. CASE panel.load = "again"
      <4>1. PICK ls : ls = {} OBVIOUS
      <4>2. causes' = Blame(Involved \cup ls, "early")
        <5>1. Involved \cup ls = Involved BY <4>1
        <5> QED BY <1>7, <3>2, <5>1 DEF SaveForm
      <4> QED BY <1>0, <4>2, MixedUp
    <3> QED BY <1>0, <2>5, <3>1, <3>2 DEF Panel
  <2> QED BY <1>0, <2>1, <2>3, <2>4, <2>5, <2>6, SendsKin
<1> QED BY <1>3, <1>4, <1>5, <1>6, <1>7 DEF FormUser

\* What a write puts into a record is of its loan.
LEMMA PutKin ==
  ASSUME FormTypes, RowsKin, NEW w \in writes, NEW part \in SUBSET w.form,
         By(w.kind) # "none" =>
           RecordFor(w.row, w.loan, rows, causes) /\ EditsOf(w.form, w.loan, typed, causes)
  PROVE  \A n \in 1..Len(Put(w, part)) : EditsOf(Put(w, part)[n].form, Put(w, part)[n].loan, typed, causes)
<1>0. w \in Writing /\ RowOf(w.row, w.kind, rows) /\ FormRecords /\ rows \in Seq(Row)
  BY DEF FormTypes, FormRecords, WriteBounds
<1>1. PICK R : R = Put(w, part) OBVIOUS
<1>2. Grown(R) BY <1>0, <1>1, PutRows
<1>3. CASE R = rows BY <1>1, <1>3 DEF RowsKin
<1>4. ASSUME R = Append(rows, [kind |-> w.kind, loan |-> w.loan, form |-> part, co |-> TRUE]), By(w.kind) # "none"
      PROVE  \A n \in 1..Len(R) : EditsOf(R[n].form, R[n].loan, typed, causes)
  <2>1. PICK r : r = [kind |-> w.kind, loan |-> w.loan, form |-> part, co |-> TRUE] OBVIOUS
  <2>2. /\ Len(R) = Len(rows) + 1 /\ R[Len(rows) + 1] = r /\ r.form = part /\ r.loan = w.loan
        /\ \A n \in 1..Len(rows) : R[n] = rows[n]
    BY <1>0, <1>4, <2>1
  <2>3. EditsOf(part, w.loan, typed, causes) BY <1>4 DEF EditsOf
  <2>4. ASSUME NEW n \in 1..Len(R) PROVE EditsOf(R[n].form, R[n].loan, typed, causes)
    <3>1. CASE n = Len(rows) + 1 BY <2>2, <2>3, <3>1
    <3>2. CASE n \in 1..Len(rows) BY <2>2, <3>2 DEF RowsKin
    <3> QED BY <2>2, <3>1, <3>2, Members
  <2> QED BY <2>4
<1>5. ASSUME Target(w) \in 1..Len(rows), By(w.kind) # "none", Len(R) = Len(rows),
             \A n \in 1..Len(rows) : n # Target(w) => R[n] = rows[n],
             R[Target(w)].form = IF w.kind = "urla" THEN rows[Target(w)].form \cup part ELSE part
      PROVE  \A n \in 1..Len(R) : EditsOf(R[n].form, R[n].loan, typed, causes)
  <2>1. PICK t \in 1..Len(rows) : t = Target(w) BY <1>5
  <2>2. R[t].loan = rows[t].loan BY <1>2 DEF Grown
  <2>3. Kin(rows[t].loan, w.loan, causes)
    <3>1. CASE By(w.kind) = "id"
      <4>1. t = w.row /\ t # 0 BY <1>0, <2>1, <3>1, TargetFacts, Members
      <4> QED BY <1>5, <4>1 DEF RecordFor
    <3>2. CASE By(w.kind) # "id"
      <4>1. rows[t].loan = w.loan BY <1>0, <2>1, <3>2, TargetFacts, Members
      <4> QED BY <4>1, Kinship
    <3> QED BY <3>1, <3>2
  <2>4. EditsOf(part, w.loan, typed, causes) BY <1>5 DEF EditsOf
  <2>5. EditsOf(part, rows[t].loan, typed, causes) BY <2>3, <2>4, Kinship, KinsEdits
  <2>6. EditsOf(rows[t].form, rows[t].loan, typed, causes) BY DEF RowsKin
  <2>7. EditsOf(R[t].form, R[t].loan, typed, causes) BY <1>5, <2>1, <2>2, <2>5, <2>6 DEF EditsOf
  <2> QED BY <1>5, <2>1, <2>7 DEF RowsKin
<1>6. By(w.kind) # "none" =>
        RecordFor(w.row, w.loan, rows, causes) /\ EditsOf(w.form, w.loan, typed, causes)
  OBVIOUS
<1> QED BY <1>0, <1>1, <1>3, <1>4, <1>5, PutRows

\* What a write does to the records keeps them of their loans.
LEMMA ExecutedKin ==
  ASSUME FormTypes, RowsKin, WritesKin, NEW w \in writes
  PROVE  \A n \in 1..Len(Executed(w)) : EditsOf(Executed(w)[n].form, Executed(w)[n].loan, typed, causes)
<1>0. /\ w \in Writing /\ RowOf(w.row, w.kind, rows) /\ rows \in Seq(Row)
      /\ \A n \in 1..Len(rows) : EditsOf(rows[n].form, rows[n].loan, typed, causes)
      /\ By(w.kind) # "none" => RecordFor(w.row, w.loan, rows, causes) /\ EditsOf(w.form, w.loan, typed, causes)
  BY DEF FormTypes, FormRecords, WriteBounds, RowsKin, WritesKin
<1>1. CASE w.op = "create"
  <2>1. PICK r : r = [kind |-> w.kind, loan |-> w.loan, form |-> {}, co |-> TRUE] OBVIOUS
  <2>2. /\ Len(Executed(w)) = Len(rows) + 1 /\ Executed(w)[Len(rows) + 1] = r
        /\ \A n \in 1..Len(rows) : Executed(w)[n] = rows[n]
    BY <1>1, <2>1, ExecutedRows DEF FormTypes
  <2>3. EditsOf(r.form, r.loan, typed, causes) BY <2>1 DEF EditsOf
  <2> QED BY <1>0, <2>2, <2>3, Members
<1>2. CASE w.op = "save"
  <2>1. Executed(w) = Put(w, Taken(w.form)) BY <1>2 DEF Executed
  <2>2. PICK part \in SUBSET w.form : part = Taken(w.form) BY Parts
  <2>3. \A n \in 1..Len(Put(w, part)) : EditsOf(Put(w, part)[n].form, Put(w, part)[n].loan, typed, causes)
    BY <1>0, PutKin
  <2> QED BY <2>1, <2>2, <2>3
<1>3. CASE w.op = "remove"
  <2>1. w.row \in 1..Len(rows) BY <1>3 DEF FormTypes, WriteBounds, RowOf
  <2>2. PICK n : n = w.row OBVIOUS
  <2>3. PICK r : r = [rows[n] EXCEPT !.co = FALSE] OBVIOUS
  <2>4. r \in Row /\ r.form = rows[n].form /\ r.loan = rows[n].loan
    <3>1. rows[n] \in Row BY <2>1, <2>2, Members
    <3> QED BY <2>3, <3>1 DEF Row
  <2>5. PICK R : R = [rows EXCEPT ![n] = r] OBVIOUS
  <2>6. Len(R) = Len(rows) /\ R[n] = r /\ \A m \in 1..Len(rows) : m # n => R[m] = rows[m]
    BY <1>0, <2>1, <2>2, <2>4, <2>5
  <2>7. Executed(w) = R BY <1>3, <2>2, <2>3, <2>5 DEF Executed
  <2> QED BY <1>0, <2>1, <2>2, <2>4, <2>6, <2>7
<1>4. CASE w.op = "add"
  <2>1. Executed(w) = rows BY <1>4 DEF Executed
  <2> QED BY <1>0, <2>1
<1> QED BY <1>0, <1>1, <1>2, <1>3, <1>4 DEF Writing

\* A write that runs, is answered or fails leaves everything of its loan's kin.
LEMMA KinServer ==
  ASSUME FormTypes, CausesKept, KinInv, NEW w \in writes, WriteRuns(w) \/ WriteAnswered(w) \/ WriteFails(w)
  PROVE  KinInv'
<1>0. /\ UNCHANGED typed /\ Longer /\ RowsKin /\ WritesKin /\ PanelKin /\ FormRecords
      /\ w \in Writing /\ w.loan \in Loan /\ RowOf(w.row, w.kind, rows) /\ Made(w.form, typed)
  <2>1. UNCHANGED typed BY DEF WriteRuns, WriteAnswered, WriteFails
  <2> QED BY <2>1, Members DEF Longer, KinInv, FormTypes, FormRecords, WriteBounds, Writing
<1>1. ASSUME Grown(rows'),
             \A n \in 1..Len(rows') : EditsOf(rows'[n].form, rows'[n].loan, typed, causes) /\ Made(rows'[n].form, typed)
      PROVE  RowsKin'
  <2>1. ASSUME NEW n \in 1..Len(rows') PROVE EditsOf(rows'[n].form, rows'[n].loan, typed', causes')
    <3>1. rows'[n] \in Row BY <1>1 DEF Grown
    <3>2. rows'[n].loan \in Loan BY <3>1 DEF Row
    <3> QED BY <1>0, <1>1, <2>1, <3>2, KinStays
  <2> QED BY <2>1 DEF RowsKin
<1>2. CASE WriteRuns(w)
  <2>1. rows' = Executed(w) /\ panel' = panel /\ causes' = causes BY <1>2 DEF WriteRuns
  <2>2. Grown(rows') /\ \A n \in 1..Len(rows') : Made(rows'[n].form, typed) BY <2>1, ExecutedRows DEF FormTypes
  <2>3. RowsKin' BY <1>0, <1>1, <2>1, <2>2, ExecutedKin
  <2>4. PICK v \in Writing :
          /\ writes' = (writes \ {w}) \cup {v}
          /\ v.op = w.op /\ v.mount = w.mount /\ v.kind = w.kind /\ v.loan = w.loan /\ v.form = w.form /\ v.done
          /\ v.row = IF w.op = "create" THEN Len(rows) + 1 ELSE w.row
          /\ RowOf(v.row, v.kind, rows')
    BY <1>2, RanFacts
  <2>5. WritesKin'
    <3>1. PICK ws \in SUBSET Writing : ws = {v} OBVIOUS
    <3>2. writes' \subseteq writes \cup ws BY <2>4, <3>1
    <3>3. ASSUME By(v.kind) # "none"
          PROVE  RecordFor(v.row, v.loan, rows', causes') /\ EditsOf(v.form, v.loan, typed', causes')
      <4>1. RecordFor(w.row, w.loan, rows, causes) /\ EditsOf(w.form, w.loan, typed, causes)
        BY <2>4, <3>3 DEF KinInv, WritesKin
      <4>2. EditsOf(v.form, v.loan, typed', causes') BY <1>0, <2>2, <2>4, <4>1, KinStays
      <4>3. CASE w.op = "create"
        <5>1. PICK r : r = [kind |-> w.kind, loan |-> w.loan, form |-> {}, co |-> TRUE] OBVIOUS
        <5>2. rows'[Len(rows) + 1] = r /\ r.loan = w.loan BY <2>1, <4>3, <5>1, ExecutedRows DEF FormTypes
        <5>3. RecordFor(v.row, v.loan, rows', causes') BY <2>4, <4>3, <5>2, Kinship DEF RecordFor
        <5> QED BY <4>2, <5>3
      <4>4. CASE w.op # "create"
        <5>1. RecordFor(w.row, w.loan, rows', causes') BY <1>0, <2>2, <4>1, KinStays
        <5> QED BY <2>4, <4>2, <4>4, <5>1
      <4> QED BY <4>3, <4>4
    <3>4. \A u \in ws : By(u.kind) # "none" =>
             RecordFor(u.row, u.loan, rows', causes') /\ EditsOf(u.form, u.loan, typed', causes')
      BY <3>1, <3>3
    <3> QED BY <1>0, <2>2, <3>2, <3>4, WritesStayKin
  <2>6. PanelKin'
    <3>1. CASE panel = NoPanel BY <2>1, <3>1 DEF PanelKin
    <3>2. CASE panel # NoPanel
      <4>1. PICK p : p = panel OBVIOUS
      <4>2. panel' = p /\ p \in Panel BY <2>1, <3>2, <4>1, Mounted
      <4>3. \A u \in writes' : u \in writes \/ \E x \in writes : x.mount = u.mount BY <2>4
      <4> QED BY <1>0, <2>2, <3>2, <4>1, <4>2, <4>3, PanelStaysKin
    <3> QED BY <3>1, <3>2
  <2> QED BY <2>3, <2>5, <2>6 DEF KinInv
<1>3. ASSUME writes' \subseteq writes, Grown(rows') PROVE WritesKin'
  <2>1. PICK ws \in SUBSET Writing : ws = {} OBVIOUS
  <2>2. writes' \subseteq writes \cup ws BY <1>3
  <2>3. \A u \in ws : By(u.kind) # "none" =>
           RecordFor(u.row, u.loan, rows', causes') /\ EditsOf(u.form, u.loan, typed', causes')
    BY <2>1
  <2> QED BY <1>0, <1>3, <2>2, <2>3, WritesStayKin
<1>4. CASE WriteAnswered(w)
  <2>1. rows' = rows /\ writes' \subseteq writes BY <1>4 DEF WriteAnswered
  <2>2. Grown(rows') BY <1>0, <2>1 DEF Grown, FormRecords
  <2>3. RowsKin' BY <1>0, <2>1, RowsStayKin
  <2>4. WritesKin' BY <1>3, <2>1, <2>2
  <2>5. PanelKin'
    <3>1. CASE panel = NoPanel
      <4>1. panel' = NoPanel BY <1>4, <3>1 DEF WriteAnswered, Ours
      <4> QED BY <4>1 DEF PanelKin
    <3>2. CASE panel # NoPanel /\ ~Ours(w)
      <4>1. PICK p : p = panel OBVIOUS
      <4>2. panel' = p /\ p \in Panel BY <1>4, <3>2, <4>1, Mounted DEF WriteAnswered
      <4> QED BY <1>0, <2>1, <2>2, <3>2, <4>1, <4>2, PanelStaysKin
    <3>3. CASE panel # NoPanel /\ Ours(w)
      <4>1. PICK p : p = Answered(w) OBVIOUS
      <4>2. panel' = p BY <1>4, <3>3, <4>1 DEF WriteAnswered
      <4>3. panel \in Panel /\ panel.loan \in Loan /\ w.kind = panel.kind
        BY <3>3, Mounted DEF FormTypes, WriteBounds
      <4>4. panel.load # "first" BY <1>0, <3>3 DEF PanelKin
      <4>5. PICK q : q = panel OBVIOUS
      <4>6. /\ p \in Panel /\ p.kind = panel.kind /\ p.mount = panel.mount /\ p.loan = panel.loan
            /\ p.load = panel.load /\ p.read = panel.read
            /\ \/ p.row = w.row /\ p.form = {} /\ p.saved = {}
               \/ p.row = panel.row /\ p.form = panel.form /\ p.saved = w.form
               \/ p.row = panel.row /\ p.form = panel.form /\ p.saved = panel.saved
        BY <1>0, <4>1, <4>3, AnsweredFacts
      <4>7. ASSUME p.load = "done", By(p.kind) # "none" PROVE Fits(p, rows', typed', causes')
        <5>1. RecordFor(w.row, w.loan, rows, causes) /\ EditsOf(w.form, w.loan, typed, causes)
          BY <1>0, <4>3, <4>6, <4>7 DEF WritesKin
        <5>2. RecordFor(w.row, w.loan, rows, causes') /\ EditsOf(w.form, w.loan, typed, causes')
          BY <1>0, <2>1, <2>2, <5>1, KinStays
        <5>3. Fits(panel, rows, typed, causes')
          <6>1. Fits(panel, rows, typed, causes) BY <1>0, <3>3, <4>6, <4>7 DEF PanelKin
          <6>2. RowOf(panel.row, panel.kind, rows) /\ Made(panel.form, typed) /\ Made(panel.saved, typed)
            BY <3>3 DEF FormTypes, PanelBounds
          <6> QED BY <1>0, <2>1, <2>2, <4>3, <6>1, <6>2, KinStays DEF Fits
        <5>4. Kin(w.loan, panel.loan, causes')
          <6>1. CASE panel.loan = w.loan BY <6>1, Kinship
          <6>2. CASE panel.loan # w.loan
            <7>1. PICK ls : ls = {w.loan} OBVIOUS
            <7>2. causes' = Blame(Involved \cup ls, "late") BY <1>4, <3>3, <6>2, <7>1 DEF WriteAnswered
            <7>3. Foul(panel.loan, causes') /\ \A l \in ls \cap Loan : Foul(l, causes') BY <3>3, <7>2, MixedUp
            <7> QED BY <1>0, <7>1, <7>3 DEF Kin
          <6> QED BY <6>1, <6>2
        <5>5. EditsOf(w.form, panel.loan, typed, causes') BY <5>2, <5>4, KinsEdits
        <5>6. RecordFor(w.row, panel.loan, rows, causes') BY <5>2, <5>4, Kinship DEF RecordFor
        <5>7. EditsOf({}, panel.loan, typed, causes') BY DEF EditsOf
        <5> QED BY <1>0, <2>1, <4>6, <5>3, <5>5, <5>6, <5>7 DEF Fits
      <4>8. p.load = "error" => panel.load = "error" BY <4>6
      <4> QED BY <1>0, <2>1, <2>2, <3>3, <4>2, <4>4, <4>6, <4>7, <4>8, PanelStaysKin
    <3> QED BY <3>1, <3>2, <3>3
  <2> QED BY <2>3, <2>4, <2>5 DEF KinInv
<1>5. CASE WriteFails(w)
  <2>1. /\ Grown(rows')
        /\ \A n \in 1..Len(rows') : EditsOf(rows'[n].form, rows'[n].loan, typed, causes) /\ Made(rows'[n].form, typed)
    <3>1. CASE rows' = rows
      <4>1. Grown(rows') BY <1>0, <3>1 DEF Grown, FormRecords
      <4> QED BY <1>0, <3>1, <4>1 DEF FormTypes, RowBounds, RowsKin
    <3>2. CASE \E part \in SUBSET Storable(w) : rows' = Put(w, part)
      <4>1. PICK part \in SUBSET Storable(w) : rows' = Put(w, part) BY <3>2
      <4>2. part \in SUBSET w.form /\ Made(part, typed) BY <1>0, Parts DEF Made
      <4>3. Grown(Put(w, part)) BY <1>0, <4>2, PutRows
      <4>4. \A n \in 1..Len(Put(w, part)) : Made(Put(w, part)[n].form, typed) BY <1>0, <4>2, PutMade DEF FormTypes
      <4>5. By(w.kind) # "none" => RecordFor(w.row, w.loan, rows, causes) /\ EditsOf(w.form, w.loan, typed, causes)
        BY <1>0 DEF WritesKin
      <4>6. \A n \in 1..Len(Put(w, part)) : EditsOf(Put(w, part)[n].form, Put(w, part)[n].loan, typed, causes)
        BY <1>0, <4>2, <4>5, PutKin
      <4> QED BY <4>1, <4>3, <4>4, <4>6
    <3> QED BY <1>5, <3>1, <3>2 DEF WriteFails
  <2>2. writes' \subseteq writes BY <1>5 DEF WriteFails
  <2>3. panel' = panel \/ (panel # NoPanel /\ panel' = [panel EXCEPT !.busy = FALSE]) BY <1>5 DEF WriteFails, Ours
  <2>4. PanelKin'
    <3>1. CASE panel = NoPanel
      <4>1. panel' = NoPanel BY <2>3, <3>1
      <4> QED BY <4>1 DEF PanelKin
    <3>2. CASE panel # NoPanel
      <4>1. panel \in Panel BY <3>2, Mounted
      <4>2. PICK p : p = panel' OBVIOUS
      <4>3. /\ p \in Panel /\ p.kind = panel.kind /\ p.mount = panel.mount /\ p.loan = panel.loan /\ p.read = panel.read
            /\ p.load = panel.load /\ p.row = panel.row /\ p.form = panel.form /\ p.saved = panel.saved
        BY <2>3, <4>1, <4>2 DEF Panel
      <4>4. \A u \in writes' : u \in writes BY <2>2
      <4> QED BY <1>0, <2>1, <3>2, <4>2, <4>3, <4>4, PanelStaysKin
    <3> QED BY <3>1, <3>2
  <2>5. RowsKin' BY <1>1, <2>1
  <2> QED BY <1>3, <2>1, <2>2, <2>4, <2>5 DEF KinInv
<1> QED BY <1>2, <1>4, <1>5

\* A form that gets another loan loads before it is of that loan.
LEMMA KinTurn ==
  ASSUME PageTypes, FormTypes, CausesKept, KinInv, TurnStep
  PROVE  KinInv'
<1>0. UNCHANGED <<writes, rows, typed>> /\ PanelKin /\ mounts \in Nat BY RemountCases DEF PageTypes, KinInv
<1>1. Grown(rows') /\ Longer BY <1>0 DEF FormTypes, FormRecords, Grown, Longer
<1>2. PanelKin'
  <2>1. CASE panel' = NoPanel BY <2>1 DEF PanelKin
  <2>2. CASE panel # NoPanel /\ panel' = panel
    <3>1. PICK p : p = panel OBVIOUS
    <3>2. panel' = p /\ p \in Panel BY <2>2, <3>1, Mounted
    <3> QED BY <1>0, <1>1, <2>2, <3>1, <3>2, PanelStaysKin
  <2>3. CASE panel # NoPanel /\ shown' \in Loan /\ panel' = Switched(shown')
    <3>1. panel \in Panel /\ panel.kind \in FormKinds BY <2>3, Mounted DEF Panel
    <3>2. PICK p : p = Switched(shown') OBVIOUS
    <3>3. /\ p \in Panel /\ p.kind = panel.kind /\ p.mount = panel.mount /\ p.loan = shown' /\ p.read = NotRead
          /\ p.row = panel.row /\ p.form = panel.form /\ p.saved = panel.saved
          /\ p.load = IF panel.load = "done" /\ From(panel.kind) # "nowhere" THEN "again" ELSE panel.load
      BY <2>3, <3>1, <3>2, SwitchedFacts
    <3>4. p.load = "done" => By(p.kind) = "none" BY <3>1, <3>3, FormFacts
    <3>5. panel' = p BY <2>3, <3>2
    <3> QED BY <1>0, <1>1, <2>3, <3>3, <3>4, <3>5, PanelStaysKin
  <2>4. CASE shown' \in Loan /\ route'.section \in FormKinds /\ panel' = Fresh(route'.section, shown')
    <3>1. PICK p : p = Fresh(route'.section, shown') OBVIOUS
    <3>2. /\ p \in Panel /\ p.kind = route'.section /\ p.mount = mounts + 1 /\ p.loan = shown' /\ p.read = NotRead
          /\ p.row = 0 /\ p.form = {} /\ p.saved = {}
          /\ p.load = IF From(p.kind) = "nowhere" THEN "done" ELSE "first"
      BY <1>0, <2>4, <3>1, FreshFacts
    <3>3. \A w \in writes : w.mount # p.mount BY <1>0, <3>2 DEF FormTypes, WriteBounds
    <3>4. panel' = p BY <2>4, <3>1
    <3>5. p.load = "done" => By(p.kind) = "none" BY <2>4, <3>2, FormFacts
    <3> QED BY <1>0, <3>2, <3>3, <3>4, <3>5 DEF PanelKin, Ours
  <2> QED BY <2>1, <2>2, <2>3, <2>4, RemountCases
<1> QED BY <1>0, <1>2, PanelFits

\* A record another user creates holds no edits.
LEMMA KinCreated ==
  ASSUME PageTypes, FormTypes, CausesKept, KinInv, InForm(CreatedElsewhere)
  PROVE  KinInv'
<1>0. RowsKin /\ WritesKin /\ PanelKin BY DEF KinInv
<1>1. UNCHANGED <<panel, writes, typed>> /\ Grown(rows') BY CreatedFacts
<1>2. PICK r \in Row :
        /\ r.form = {} /\ Len(rows') = Len(rows) + 1 /\ rows'[Len(rows) + 1] = r
        /\ \A n \in 1..Len(rows) : rows'[n] = rows[n]
  BY CreatedFacts
<1>3. Longer BY <1>1 DEF FormTypes, FormRecords, Longer
<1>4. ASSUME NEW n \in 1..Len(rows') PROVE EditsOf(rows'[n].form, rows'[n].loan, typed', causes')
  <2>1. CASE n = Len(rows) + 1 BY <1>2, <2>1 DEF EditsOf
  <2>2. CASE n \in 1..Len(rows)
    <3>1. rows[n].loan \in Loan /\ rows'[n] = rows[n] BY <1>2, <2>2, Members
    <3>2. Made(rows[n].form, typed) /\ EditsOf(rows[n].form, rows[n].loan, typed, causes)
      BY <1>0, <2>2 DEF FormTypes, RowBounds, RowsKin
    <3> QED BY <1>1, <1>3, <3>1, <3>2, KinStays
  <2>3. Len(rows) \in Nat BY Members
  <2> QED BY <1>2, <2>1, <2>2, <2>3
<1>5. RowsKin' BY <1>4 DEF RowsKin
<1>6. WritesKin'
  <2>1. {} \in SUBSET Writing /\ writes' \subseteq writes \cup {} BY <1>1
  <2> QED BY <1>0, <1>1, <1>3, <2>1, WritesStayKin
<1>7. PanelKin'
  <2>1. CASE panel = NoPanel BY <1>1, <2>1 DEF PanelKin
  <2>2. CASE panel # NoPanel
    <3>1. PICK p : p = panel OBVIOUS
    <3>2. panel' = p /\ p \in Panel BY <1>1, <2>2, <3>1, Mounted
    <3> QED BY <1>0, <1>1, <1>3, <2>2, <3>1, <3>2, PanelStaysKin
  <2> QED BY <2>1, <2>2
<1> QED BY <1>5, <1>6, <1>7 DEF KinInv

\* Every step keeps it.
LEMMA KinNext ==
  ASSUME Typed, KinInv, [Next]_vars
  PROVE  KinInv'
<1>0. PageTypes /\ FormTypes /\ CausesKept BY NothingForgotten DEF Typed
<1>1. CASE TurnStep BY <1>0, <1>1, KinTurn
<1>2. CASE InForm(FormStep)
  <2>1. FormStep BY <1>2 DEF InForm
  <2>2. CASE FormUser BY <1>0, <2>2, KinUser
  <2>3. CASE LoadRead \/ LoadAnswered \/ LoadFails BY <1>0, <2>3, KinLoads
  <2>4. CASE \E w \in writes : WriteRuns(w) \/ WriteAnswered(w) \/ WriteFails(w) BY <1>0, <2>4, KinServer
  <2> QED BY <2>1, <2>2, <2>3, <2>4 DEF FormStep, FormBackground
<1>3. ASSUME UNCHANGED <<panel, writes, rows, typed>> PROVE KinInv'
  <2>1. Grown(rows') /\ Longer BY <1>0, <1>3 DEF FormTypes, FormRecords, Grown, Longer
  <2>2. PanelKin /\ PanelKin'
    <3>0. PanelKin BY DEF KinInv
    <3>1. CASE panel = NoPanel BY <1>3, <3>0, <3>1 DEF PanelKin
    <3>2. CASE panel # NoPanel
      <4>1. PICK p : p = panel OBVIOUS
      <4>2. panel' = p /\ p \in Panel BY <1>0, <1>3, <3>2, <4>1, Mounted
      <4> QED BY <1>0, <1>3, <2>1, <3>0, <3>2, <4>1, <4>2, PanelStaysKin
    <3> QED BY <3>1, <3>2
  <2> QED BY <1>0, <1>3, <2>2, PanelFits
<1>4. CASE InList(ListStep) BY <1>3, <1>4 DEF InList, formVars
<1>5. CASE UNCHANGED vars BY <1>3, <1>5 DEF vars, formVars
<1>6. CASE InForm(CreatedElsewhere) BY <1>0, <1>6, KinCreated DEF KinInv
<1>7. CASE InList(AddedElsewhere) BY <1>3, <1>7 DEF InList, formVars
<1> QED BY <1>1, <1>2, <1>4, <1>5, <1>6, <1>7, Steps DEF Others

\* What a loan's record holds was typed on that loan, unless the loan was mixed
\* up with another: a form met it without a record or after a failed load, or
\* was saved or answered while it stood for the other.
THEOREM RowsOfTheirLoan == Spec => []RowOfItsLoan
<1>1. ASSUME Init PROVE KinInv
  <2>1. panel = NoPanel /\ writes = {} BY <1>1 DEF Init, FormsInit
  <2>2. \A n \in 1..Len(rows) : rows[n].form = {} BY <1>1, FirstRows DEF Init
  <2> QED BY <2>1, <2>2 DEF KinInv, RowsKin, WritesKin, PanelKin, EditsOf
<1>2. ASSUME Typed, KinInv PROVE RowOfItsLoan
  <2>1. DOMAIN rows = 1..Len(rows) BY <1>2, Members DEF Typed
  <2>2. ASSUME NEW n \in DOMAIN rows, NEW e \in rows[n].form
        PROVE  typed[e].loan = rows[n].loan \/ ~Quiet(rows[n].loan, {"empty", "failed", "late", "early"})
    <3>1. Kin(typed[e].loan, rows[n].loan, causes) BY <1>2, <2>1, <2>2 DEF KinInv, RowsKin, EditsOf
    <3> QED BY <3>1 DEF Kin, Foul, Quiet
  <2> QED BY <2>2 DEF RowOfItsLoan
<1>3. Init => KinInv BY <1>1
<1>4. Typed /\ KinInv /\ [Next]_vars => KinInv' BY KinNext
<1>5. Typed /\ KinInv => RowOfItsLoan BY <1>2
<1> QED BY <1>3, <1>4, <1>5, AlwaysTyped, PTL DEF Spec

---------------------------------------------------------------------------
(* One record. A record of a list that the page finds or creates is the    *)
(* only one of its loan: while there is none, one creation is under way,   *)
(* of the form mounted.                                                    *)

OfList == {"appraisal", "title", "property"}

\* What happened to a loan after which it may have two records.
Sour(l, cs) == cs[l] \cap {"failed", "left", "unanswered", "shared"} # {}

\* A creation that will be carried out, and a form that stands as when it was sent.
Creates(w) == w.op = "create" /\ w.kind # "escrow"
Awaits(p, w) == p # NoPanel /\ p.mount = w.mount /\ p.loan = w.loan /\ p.load = "done" /\ p.row = 0

\* A loan has one record of a list, or it is known why not.
Alone ==
  \A m, n \in 1..Len(rows) :
    /\ m # n /\ rows[m].kind \in OfList
    /\ rows[m].kind = rows[n].kind /\ rows[m].loan = rows[n].loan
    => Sour(rows[n].loan, causes)

\* Which writes there are, and that one mount creates one record.
WriteKinds ==
  /\ \A w \in writes : /\ w.op = "create" => Sections[w.kind].create
                       /\ w.op = "create" /\ w.done => w.row # 0 /\ w.kind # "escrow"
                       /\ w.op = "save" /\ w.kind \in OfList => w.row # 0
                       /\ w.op \in {"add", "remove"} => w.kind = "urla"
  /\ \A u, w \in writes : u.op = "create" /\ w.op = "create" /\ u.mount = w.mount => u = w

\* A creation under way is of the form mounted, which found nothing.
Awaited ==
  \A w \in writes : Creates(w) /\ ~Sour(w.loan, causes) =>
    Awaits(panel, w) /\ (~w.done => RowsOf(w.kind, w.loan) = {})

\* A form without a record, and without a creation under way, is of a loan
\* without a record.
NoneYet ==
  panel # NoPanel /\ panel.kind \in {"appraisal", "title"} /\ ~Sour(panel.loan, causes) =>
    /\ /\ panel.load = "done" /\ panel.row = 0
       /\ \A w \in Pending(panel) : w.op = "create" => w.loan # panel.loan
       => RowsOf(panel.kind, panel.loan) = {}
    /\ panel.load # "done" /\ panel.read # NotRead /\ panel.read.at = 0 => RowsOf(panel.kind, panel.loan) = {}

OneInv == Alone /\ WriteKinds /\ Awaited /\ NoneYet

\* Once sour, a loan stays it.
LEMMA StaysSour == ASSUME CausesKept PROVE \A l \in Loan : Sour(l, causes) => Sour(l, causes')
BY DEF Sour, CausesKept

\* A step that adds no record of a list.
Calm ==
  /\ Grown(rows')
  /\ \A n \in 1..Len(rows') : n \in 1..Len(rows) \/ rows'[n].kind \notin OfList

\* Such a step leaves the records a list's load finds.
LEMMA CalmRows ==
  ASSUME FormTypes, Calm
  PROVE  \A k \in OfList : \A l : RowsOf(k, l)' = RowsOf(k, l)
<1>1. /\ DOMAIN rows = 1..Len(rows) /\ DOMAIN rows' = 1..Len(rows') /\ Len(rows) \in Nat /\ Len(rows') \in Nat
      /\ Len(rows) <= Len(rows')
      /\ \A n \in 1..Len(rows) : rows'[n].kind = rows[n].kind /\ rows'[n].loan = rows[n].loan
      /\ \A n \in 1..Len(rows') : n \in 1..Len(rows) \/ rows'[n].kind \notin OfList
  BY DEF Calm, Grown, FormTypes, FormRecords
<1>2. ASSUME NEW k \in OfList, NEW l PROVE RowsOf(k, l)' = RowsOf(k, l)
  <2>1. RowsOf(k, l)' = {n \in DOMAIN rows' : rows'[n].kind = k /\ rows'[n].loan = l} BY DEF RowsOf
  <2>2. RowsOf(k, l) = {n \in DOMAIN rows : rows[n].kind = k /\ rows[n].loan = l} BY DEF RowsOf
  <2> QED BY <1>1, <2>1, <2>2
<1> QED BY <1>2

\* It leaves each of them alone.
LEMMA CalmAlone ==
  ASSUME FormTypes, CausesKept, Alone, Calm
  PROVE  Alone'
<1>1. ASSUME NEW m \in 1..Len(rows'), NEW n \in 1..Len(rows'), m # n, rows'[m].kind \in OfList,
             rows'[m].kind = rows'[n].kind, rows'[m].loan = rows'[n].loan
      PROVE  Sour(rows'[n].loan, causes')
  <2>1. m \in 1..Len(rows) /\ n \in 1..Len(rows) BY <1>1 DEF Calm
  <2>2. /\ rows'[m].kind = rows[m].kind /\ rows'[m].loan = rows[m].loan
        /\ rows'[n].kind = rows[n].kind /\ rows'[n].loan = rows[n].loan
    BY <2>1 DEF Calm, Grown
  <2>3. Sour(rows[n].loan, causes) BY <1>1, <2>1, <2>2 DEF Alone
  <2> QED BY <2>1, <2>2, <2>3, StaysSour, Members
<1> QED BY <1>1 DEF Alone

\* Writes that come without a creation.
LEMMA KindsKept ==
  ASSUME WriteKinds, NEW ws, writes' \subseteq writes \cup ws,
         \A w \in ws : /\ w.op # "create"
                       /\ w.op = "save" /\ w.kind \in OfList => w.row # 0
                       /\ w.op \in {"add", "remove"} => w.kind = "urla"
  PROVE  WriteKinds'
<1>1. \A w \in writes' : /\ w.op = "create" => w \in writes
                         /\ w.op = "create" => Sections[w.kind].create
                         /\ w.op = "create" /\ w.done => w.row # 0 /\ w.kind # "escrow"
                         /\ w.op = "save" /\ w.kind \in OfList => w.row # 0
                         /\ w.op \in {"add", "remove"} => w.kind = "urla"
  BY DEF WriteKinds
<1>2. \A u, w \in writes' : u.op = "create" /\ w.op = "create" /\ u.mount = w.mount => u = w
  BY <1>1 DEF WriteKinds
<1> QED BY <1>1, <1>2 DEF WriteKinds

\* Creations under way that stay so.
LEMMA StillAwaited ==
  ASSUME FormTypes, CausesKept, WriteKinds, Awaited, Calm,
         \A w \in writes' : Creates(w) => w \in writes,
         \A w \in writes' : Creates(w) /\ ~Sour(w.loan, causes') /\ Awaits(panel, w) => Awaits(panel', w)
  PROVE  Awaited'
<1>1. ASSUME NEW w \in writes', Creates(w), ~Sour(w.loan, causes')
      PROVE  Awaits(panel', w) /\ (~w.done => RowsOf(w.kind, w.loan)' = {})
  <2>1. w \in writes /\ w.loan \in Loan /\ w.kind \in FormKinds
    BY <1>1 DEF FormTypes, FormRecords, Writing
  <2>2. ~Sour(w.loan, causes) BY <1>1, <2>1, StaysSour
  <2>3. Awaits(panel, w) /\ (~w.done => RowsOf(w.kind, w.loan) = {}) BY <1>1, <2>1, <2>2 DEF Awaited
  <2>4. w.kind \in OfList
    <3>1. Sections[w.kind].create BY <1>1, <2>1 DEF WriteKinds, Creates
    <3> QED BY <1>1, <2>1, <3>1, FormFacts DEF Creates, OfList
  <2> QED BY <1>1, <2>3, <2>4, CalmRows
<1> QED BY <1>1 DEF Awaited

\* A form without a record that stays so.
LEMMA StillNone ==
  ASSUME FormTypes, CausesKept, NoneYet, Calm, panel # NoPanel, NEW p \in Panel, panel' = p,
         p.kind = panel.kind, p.mount = panel.mount, p.loan = panel.loan,
         p.load = panel.load, p.read = panel.read, p.row = 0 => panel.row = 0,
         \A w \in writes : w.op = "create" /\ w.mount = panel.mount /\ w.loan = panel.loan =>
            \/ \E u \in writes' : u.op = "create" /\ u.mount = w.mount /\ u.loan = w.loan
            \/ p.load = "done" => p.row # 0
            \/ Sour(panel.loan, causes')
            \/ RowsOf(panel.kind, panel.loan) = {}
  PROVE  NoneYet'
<1>1. panel.loan \in Loan BY Mounted
<1>2. ASSUME p.kind \in {"appraisal", "title"}, ~Sour(p.loan, causes')
      PROVE  /\ /\ p.load = "done" /\ p.row = 0
                /\ \A w \in writes' : w.mount = p.mount => (w.op = "create" => w.loan # p.loan)
                => RowsOf(p.kind, p.loan)' = {}
             /\ p.load # "done" /\ p.read # NotRead /\ p.read.at = 0 => RowsOf(p.kind, p.loan)' = {}
  <2>1. ~Sour(panel.loan, causes) BY <1>1, <1>2, StaysSour
  <2>2. RowsOf(p.kind, p.loan)' = RowsOf(panel.kind, panel.loan) BY <1>2, CalmRows DEF OfList
  <2>3. ASSUME p.load = "done", p.row = 0,
               \A w \in writes' : w.mount = p.mount => (w.op = "create" => w.loan # p.loan)
        PROVE  RowsOf(panel.kind, panel.loan) = {}
    <3>1. CASE \A w \in writes : w.mount = panel.mount => (w.op = "create" => w.loan # panel.loan)
      BY <1>2, <2>1, <2>3, <3>1 DEF NoneYet, Pending
    <3>2. CASE \E w \in writes : w.op = "create" /\ w.mount = panel.mount /\ w.loan = panel.loan
      BY <1>2, <2>3, <3>2
    <3> QED BY <3>1, <3>2
  <2>4. ASSUME p.load # "done", p.read # NotRead, p.read.at = 0 PROVE RowsOf(panel.kind, panel.loan) = {}
    BY <1>2, <2>1, <2>4 DEF NoneYet
  <2> QED BY <2>2, <2>3, <2>4
<1> QED BY <1>2, NoPanelKind DEF NoneYet, Pending

\* A load finds the loan's record, or that there is none.
LEMMA OneLoads ==
  ASSUME FormTypes, CausesKept, KinInv, OneInv, LoadRead \/ LoadAnswered \/ LoadFails
  PROVE  OneInv'
<1>0. /\ UNCHANGED <<rows, typed, writes>> /\ panel # NoPanel /\ panel \in Panel /\ panel.load \in {"first", "again"}
      /\ panel.loan \in Loan /\ Calm /\ FormRecords
      /\ Alone /\ WriteKinds /\ Awaited /\ NoneYet
  <2>1. UNCHANGED <<rows, typed, writes>> /\ Loading BY DEF LoadRead, LoadAnswered, LoadFails
  <2> QED BY <2>1, Mounted DEF Loading, FormTypes, FormRecords, Grown, Calm, OneInv
<1>1. Alone' BY <1>0, CalmAlone
<1>2. WriteKinds'
  <2>1. PICK ws : ws = {} OBVIOUS
  <2>2. writes' \subseteq writes \cup ws BY <1>0, <2>1
  <2> QED BY <1>0, <2>1, <2>2, KindsKept
<1>3. Awaited'
  <2>1. \A w \in writes' : ~Awaits(panel, w) BY <1>0 DEF Awaits
  <2> QED BY <1>0, <2>1, StillAwaited
<1>4. \A k \in OfList : \A l : RowsOf(k, l)' = RowsOf(k, l) BY <1>0, CalmRows
<1>5. NoneYet'
  <2>1. CASE LoadRead
    <3>1. PICK r : r = Found(panel.kind, panel.loan) OBVIOUS
    <3>2. PICK p : p = [panel EXCEPT !.read = r] OBVIOUS
    <3>3. panel' = p BY <2>1, <3>1, <3>2 DEF LoadRead
    <3>4. r \in Reading /\ (r.at = 0 => RowsOf(panel.kind, panel.loan) = {}) BY <1>0, <3>1, FoundFacts
    <3>5. p.kind = panel.kind /\ p.loan = panel.loan /\ p.load = panel.load /\ p.read = r
      BY <1>0, <3>2 DEF Panel
    <3> QED BY <1>0, <1>4, <3>3, <3>4, <3>5 DEF NoneYet, OfList
  <2>2. CASE LoadAnswered
    <3>1. PICK r : r = panel.read OBVIOUS
    <3>2. PICK p : p = LoadedForm(r) OBVIOUS
    <3>3. panel' = p /\ r # NotRead BY <2>2, <3>1, <3>2 DEF LoadAnswered
    <3>4. r \in Reading BY <1>0, <3>1 DEF Panel
    <3>5. /\ p.kind = panel.kind /\ p.loan = panel.loan /\ p.load = "done"
          /\ r.at # 0 => p.row = r.at
      BY <1>0, <3>2, <3>4, LoadedFacts
    <3>6. ASSUME p.kind \in {"appraisal", "title"}, ~Sour(p.loan, causes'), p.row = 0
          PROVE  RowsOf(p.kind, p.loan) = {}
      <4>1. ~Sour(panel.loan, causes) BY <1>0, <3>5, <3>6, StaysSour
      <4> QED BY <1>0, <3>1, <3>3, <3>5, <3>6, <4>1 DEF NoneYet
    <3> QED BY <1>4, <3>3, <3>5, <3>6 DEF NoneYet, OfList
  <2>3. CASE LoadFails
    <3>1. causes' = Blame(Involved, "failed") /\ panel.loan \in Involved BY <2>3 DEF LoadFails, Involved
    <3>2. Sour(panel.loan, causes') BY <1>0, <3>1, BlameKeeps DEF Sour
    <3>3. PICK s : s = IF From(panel.kind) = "detail" THEN "error" ELSE "done" OBVIOUS
    <3>4. PICK n : n = IF panel.kind = "escrow" THEN 0 ELSE panel.row OBVIOUS
    <3>5. PICK p : p = [panel EXCEPT !.load = s, !.row = n] OBVIOUS
    <3>6. panel' = p BY <2>3, <3>3, <3>4, <3>5 DEF LoadFails
    <3>7. p.loan = panel.loan BY <1>0, <3>5 DEF Panel
    <3> QED BY <3>2, <3>6, <3>7 DEF NoneYet
  <2> QED BY <2>1, <2>2, <2>3
<1> QED BY <1>1, <1>2, <1>3, <1>5 DEF OneInv

\* A form that is typed in, or sends something.
LEMMA OneSends ==
  ASSUME FormTypes, CausesKept, OneInv, Calm, panel # NoPanel,
         NEW ws, writes' = writes \cup ws,
         \A w \in ws : /\ w.op # "create"
                       /\ w.op = "save" /\ w.kind \in OfList => w.row # 0
                       /\ w.op \in {"add", "remove"} => w.kind = "urla",
         NEW p \in Panel, panel' = p, p.kind = panel.kind, p.mount = panel.mount, p.loan = panel.loan,
         p.load = panel.load, p.read = panel.read, p.row = panel.row
  PROVE  OneInv'
<1>0. Alone /\ WriteKinds /\ Awaited /\ NoneYet BY DEF OneInv
<1>1. Alone' BY <1>0, CalmAlone
<1>2. WriteKinds' BY <1>0, KindsKept
<1>3. Awaited'
  <2>1. \A w \in writes' : Creates(w) => w \in writes BY DEF Creates
  <2>2. \A w \in writes' : Awaits(panel, w) => Awaits(panel', w) BY NoPanelKind DEF Awaits
  <2> QED BY <1>0, <2>1, <2>2, StillAwaited
<1>4. NoneYet' BY <1>0, StillNone
<1> QED BY <1>1, <1>2, <1>3, <1>4 DEF OneInv

\* One creation is sent by a form without a record.
LEMMA OneUser ==
  ASSUME PageTypes, FormTypes, CausesKept, OneInv, FormUser
  PROVE  OneInv'
<1>0. panel # NoPanel /\ panel \in Panel /\ panel.kind \in FormKinds /\ panel.loan \in Loan
  <2>1. panel # NoPanel
    <3>1. CASE ChangeBorrowers BY <3>1, NoPanelKind DEF ChangeBorrowers
    <3>2. CASE ~ChangeBorrowers BY <3>2 DEF FormUser, Type, Editable, CancelEdits, SaveBar, Dirty, CreateRecord, SaveForm
    <3> QED BY <3>1, <3>2
  <2> QED BY <2>1, Mounted DEF Panel
<1>1. rows' = rows BY DEF FormUser, Type, CancelEdits, CreateRecord, SaveForm, ChangeBorrowers, pageVars
<1>2. Calm BY <1>1 DEF FormTypes, FormRecords, Grown, Calm
<1>3. CASE Type
  <2>1. PICK s : s = panel.form \cup {Len(typed) + 1} OBVIOUS
  <2>2. PICK p : p = [panel EXCEPT !.form = s] OBVIOUS
  <2>3. panel' = p /\ writes' = writes BY <1>3, <2>1, <2>2 DEF Type
  <2>4. s \in SUBSET Nat BY <1>0, <2>1, Members DEF Panel
  <2>5. /\ p \in Panel /\ p.kind = panel.kind /\ p.mount = panel.mount /\ p.loan = panel.loan /\ p.load = panel.load
        /\ p.row = panel.row /\ p.read = panel.read
    BY <1>0, <2>2, <2>4 DEF Panel
  <2>6. PICK ws : ws = {} OBVIOUS
  <2>7. writes' = writes \cup ws BY <2>3, <2>6
  <2> QED BY <1>0, <1>2, <2>3, <2>5, <2>6, <2>7, OneSends
<1>4. CASE CancelEdits
  <2>1. PICK p : p = [panel EXCEPT !.form = panel.saved] OBVIOUS
  <2>2. panel' = p /\ writes' = writes BY <1>4, <2>1 DEF CancelEdits
  <2>3. /\ p \in Panel /\ p.kind = panel.kind /\ p.mount = panel.mount /\ p.loan = panel.loan /\ p.load = panel.load
        /\ p.row = panel.row /\ p.read = panel.read
    BY <1>0, <2>1 DEF Panel
  <2>4. PICK ws : ws = {} OBVIOUS
  <2>5. writes' = writes \cup ws BY <2>2, <2>4
  <2> QED BY <1>0, <1>2, <2>2, <2>3, <2>4, <2>5, OneSends
<1>5. CASE SaveForm
  <2>1. PICK p : p = [panel EXCEPT !.busy = TRUE] OBVIOUS
  <2>2. panel' = p BY <1>5, <2>1 DEF SaveForm
  <2>3. /\ p \in Panel /\ p.kind = panel.kind /\ p.mount = panel.mount /\ p.loan = panel.loan /\ p.load = panel.load
        /\ p.row = panel.row /\ p.read = panel.read
    BY <1>0, <2>1 DEF Panel
  <2>4. PICK w : w = Write("save") OBVIOUS
  <2>5. w.op = "save" /\ w.row = panel.row /\ w.kind = panel.kind BY <1>0, <2>4, WriteFacts
  <2>6. w.kind \in OfList => w.row # 0 BY <1>0, <1>5, <2>5, FormFacts DEF SaveForm, OfList
  <2>7. PICK ws : ws = {w} OBVIOUS
  <2>8. writes' = writes \cup ws BY <1>5, <2>4, <2>7 DEF SaveForm
  <2> QED BY <1>0, <1>2, <2>2, <2>3, <2>5, <2>6, <2>7, <2>8, OneSends
<1>6. CASE ChangeBorrowers
  <2>1. PICK op \in {"add", "remove"} : panel' = panel /\ writes' = writes \cup {Write(op)} /\ panel.kind = "urla"
    BY <1>6 DEF ChangeBorrowers
  <2>2. PICK w : w = Write(op) OBVIOUS
  <2>3. w.op = op /\ w.kind = "urla" BY <1>0, <2>1, <2>2, WriteFacts
  <2>4. PICK p : p = panel OBVIOUS
  <2>5. panel' = p /\ p \in Panel BY <1>0, <2>1, <2>4
  <2>6. PICK ws : ws = {w} OBVIOUS
  <2>7. writes' = writes \cup ws BY <2>1, <2>2, <2>6
  <2> QED BY <1>0, <1>2, <2>3, <2>4, <2>5, <2>6, <2>7, OneSends
<1>7. CASE CreateRecord
  <2>0. Alone /\ WriteKinds /\ Awaited /\ NoneYet BY DEF OneInv
  <2>1. /\ Sections[panel.kind].create /\ panel.load = "done" /\ panel.row = 0 /\ panel' = panel /\ causes' = causes
        /\ \A w \in writes : w.mount = panel.mount => w.op # "create"
    BY <1>0, <1>7 DEF CreateRecord, Pending
  <2>2. PICK w : w = Write("create") OBVIOUS
  <2>3. writes' = writes \cup {w} BY <1>7, <2>2 DEF CreateRecord
  <2>4. w.op = "create" /\ w.kind = panel.kind /\ w.mount = panel.mount /\ w.loan = panel.loan /\ ~w.done
    BY <1>0, <2>2, WriteFacts
  <2>5. Alone' BY <1>2, <2>0, CalmAlone
  <2>6. WriteKinds'
    <3>1. \A u \in writes' : /\ u.op = "create" => Sections[u.kind].create
                             /\ u.op = "create" /\ u.done => u.row # 0 /\ u.kind # "escrow"
                             /\ u.op = "save" /\ u.kind \in OfList => u.row # 0
                             /\ u.op \in {"add", "remove"} => u.kind = "urla"
      BY <2>0, <2>1, <2>3, <2>4 DEF WriteKinds
    <3>2. \A u, x \in writes' : u.op = "create" /\ x.op = "create" /\ u.mount = x.mount => u = x
      BY <2>0, <2>1, <2>3, <2>4 DEF WriteKinds
    <3> QED BY <3>1, <3>2 DEF WriteKinds
  <2>7. \A k \in OfList : \A l : RowsOf(k, l)' = RowsOf(k, l) BY <1>2, CalmRows
  <2>8. Awaited'
    <3>1. ASSUME NEW u \in writes', Creates(u), ~Sour(u.loan, causes')
          PROVE  Awaits(panel', u) /\ (~u.done => RowsOf(u.kind, u.loan)' = {})
      <4>1. u.kind \in OfList
        <5>1. u.kind \in FormKinds /\ Sections[u.kind].create
          <6>1. CASE u \in writes
            <7>1. u \in Writing BY <6>1 DEF FormTypes, FormRecords
            <7> QED BY <2>0, <3>1, <6>1, <7>1 DEF WriteKinds, Creates, Writing
          <6>2. CASE u = w BY <1>0, <2>1, <2>4, <6>2
          <6> QED BY <2>3, <6>1, <6>2
        <5> QED BY <3>1, <5>1, FormFacts DEF Creates, OfList
      <4>2. CASE u \in writes
        <5>1. Awaits(panel, u) /\ (~u.done => RowsOf(u.kind, u.loan) = {}) BY <2>0, <2>1, <3>1, <4>2 DEF Awaited
        <5> QED BY <2>1, <2>7, <4>1, <5>1
      <4>3. CASE u = w
        <5>1. u.kind \in {"appraisal", "title"}
          <6>1. Sections[u.kind].create BY <2>1, <2>4, <4>3
          <6> QED BY <1>0, <2>4, <3>1, <4>3, <6>1, FormFacts DEF Creates
        <5>2. RowsOf(panel.kind, panel.loan) = {}
          BY <1>0, <2>0, <2>1, <2>4, <3>1, <4>3, <5>1 DEF NoneYet, Pending
        <5> QED BY <1>0, <2>1, <2>4, <2>7, <4>1, <4>3, <5>2 DEF Awaits
      <4> QED BY <2>3, <4>2, <4>3
    <3> QED BY <3>1 DEF Awaited
  <2>9. NoneYet'
    <3>1. w \in writes' /\ w.op = "create" /\ w.mount = panel'.mount /\ w.loan = panel'.loan BY <2>1, <2>3, <2>4
    <3> QED BY <2>1, <3>1 DEF NoneYet, Pending
  <2> QED BY <2>5, <2>6, <2>8, <2>9 DEF OneInv
<1> QED BY <1>3, <1>4, <1>5, <1>6, <1>7 DEF FormUser

\* Nothing but a creation adds a record of a list.
LEMMA PutCalm ==
  ASSUME FormTypes, WriteKinds, NEW w \in writes, w.op = "save", NEW part \in SUBSET w.form
  PROVE  /\ Grown(Put(w, part))
         /\ \A n \in 1..Len(Put(w, part)) : n \in 1..Len(rows) \/ Put(w, part)[n].kind \notin OfList
<1>0. w \in Writing /\ RowOf(w.row, w.kind, rows) /\ FormRecords /\ rows \in Seq(Row)
  BY DEF FormTypes, FormRecords, WriteBounds
<1>1. PICK R : R = Put(w, part) OBVIOUS
<1>2. Grown(R) BY <1>0, <1>1, PutRows
<1>3. ASSUME R = Append(rows, [kind |-> w.kind, loan |-> w.loan, form |-> part, co |-> TRUE]), Target(w) = 0
      PROVE  \A n \in 1..Len(R) : n \in 1..Len(rows) \/ R[n].kind \notin OfList
  <2>1. PICK r : r = [kind |-> w.kind, loan |-> w.loan, form |-> part, co |-> TRUE] OBVIOUS
  <2>2. Len(R) = Len(rows) + 1 /\ R[Len(rows) + 1] = r /\ r.kind = w.kind BY <1>0, <1>3, <2>1
  <2>3. w.kind \notin OfList
    <3>1. SUFFICES ASSUME w.kind \in OfList PROVE FALSE OBVIOUS
    <3>2. w.kind \in FormKinds /\ By(w.kind) = "id" BY <1>0, <3>1, FormFacts DEF Writing, OfList
    <3>3. Target(w) = w.row /\ w.row # 0 BY <1>0, <3>1, <3>2, TargetFacts DEF WriteKinds
    <3> QED BY <1>3, <3>3
  <2>4. ASSUME NEW n \in 1..Len(R) PROVE n \in 1..Len(rows) \/ R[n].kind \notin OfList
    <3>1. n \in 1..Len(rows) \/ n = Len(rows) + 1 BY <2>2, Members
    <3> QED BY <2>2, <2>3, <3>1
  <2> QED BY <2>4
<1>4. ASSUME Len(R) = Len(rows) PROVE \A n \in 1..Len(R) : n \in 1..Len(rows) \/ R[n].kind \notin OfList BY <1>4
<1>5. R = rows => Len(R) = Len(rows) OBVIOUS
<1> QED BY <1>0, <1>1, <1>2, <1>3, <1>4, <1>5, PutRows

\* Nor does any other write add one.
LEMMA ExecutedCalm ==
  ASSUME FormTypes, WriteKinds, NEW w \in writes, w.op # "create"
  PROVE  /\ Grown(Executed(w))
         /\ \A n \in 1..Len(Executed(w)) : n \in 1..Len(rows) \/ Executed(w)[n].kind \notin OfList
<1>0. w \in Writing BY DEF FormTypes, FormRecords
<1>1. Grown(Executed(w)) BY ExecutedRows DEF FormTypes
<1>2. CASE w.op = "save"
  <2>1. PICK part \in SUBSET w.form : part = Taken(w.form) BY Parts
  <2>2. Executed(w) = Put(w, part) BY <1>2, <2>1 DEF Executed
  <2> QED BY <1>2, <2>2, PutCalm
<1>3. CASE w.op = "remove"
  <2>1. PICK r : r = [rows[w.row] EXCEPT !.co = FALSE] OBVIOUS
  <2>2. Executed(w) = [rows EXCEPT ![w.row].co = FALSE] BY <1>3 DEF Executed
  <2>3. Executed(w) = [rows EXCEPT ![w.row] = r] BY <2>1, <2>2
  <2>4. w.row \in 1..Len(rows) BY <1>3 DEF FormTypes, WriteBounds, RowOf
  <2>5. rows \in Seq(Row) /\ r \in Row
    <3>1. rows[w.row] \in Row BY <2>4, Members
    <3>2. r \in Row BY <2>1, <3>1 DEF Row
    <3> QED BY <3>2 DEF FormTypes, FormRecords
  <2>6. Len(Executed(w)) = Len(rows) BY <2>3, <2>4, <2>5
  <2> QED BY <1>1, <2>6
<1>4. CASE w.op = "add"
  <2>1. Executed(w) = rows BY <1>4 DEF Executed
  <2> QED BY <1>1, <2>1
<1> QED BY <1>0, <1>2, <1>3, <1>4 DEF Writing

\* A creation that runs adds the one record of the loan.
LEMMA OneCreated ==
  ASSUME FormTypes, OneInv, NEW w \in writes, WriteRuns(w), w.op = "create"
  PROVE  OneInv'
<1>0. /\ Alone /\ WriteKinds /\ Awaited /\ NoneYet /\ w \in Writing /\ ~w.done /\ w.kind # "escrow"
      /\ panel' = panel /\ causes' = causes /\ rows' = Executed(w) /\ w.loan \in Loan
  BY DEF OneInv, FormTypes, FormRecords, WriteRuns, Refused, Writing
<1>1. Creates(w) /\ w.kind \in OfList
  <2>1. w.kind \in FormKinds /\ Sections[w.kind].create BY <1>0 DEF WriteKinds, Writing
  <2> QED BY <1>0, <2>1, FormFacts DEF Creates, OfList
<1>2. PICK r : r = [kind |-> w.kind, loan |-> w.loan, form |-> {}, co |-> TRUE] OBVIOUS
<1>3. /\ Len(rows') = Len(rows) + 1 /\ rows'[Len(rows) + 1] = r
      /\ \A n \in 1..Len(rows) : rows'[n] = rows[n]
  BY <1>0, <1>2, ExecutedRows DEF FormTypes
<1>4. r.kind = w.kind /\ r.loan = w.loan BY <1>2
<1>5. Grown(rows') /\ DOMAIN rows' = 1..Len(rows')
  <2>1. Grown(rows') BY <1>0, ExecutedRows DEF FormTypes
  <2> QED BY <2>1 DEF Grown
<1>6. PICK v \in Writing :
        /\ writes' = (writes \ {w}) \cup {v}
        /\ v.op = w.op /\ v.mount = w.mount /\ v.kind = w.kind /\ v.loan = w.loan /\ v.form = w.form /\ v.done
        /\ v.row = IF w.op = "create" THEN Len(rows) + 1 ELSE w.row
        /\ RowOf(v.row, v.kind, rows')
  BY RanFacts
<1>7. ASSUME NEW k, NEW l, l # w.loan PROVE RowsOf(k, l)' = RowsOf(k, l)
  <2>1. RowsOf(k, l)' = {n \in 1..Len(rows) + 1 : rows'[n].kind = k /\ rows'[n].loan = l} BY <1>3, <1>5 DEF RowsOf
  <2>2. RowsOf(k, l) = {n \in 1..Len(rows) : rows[n].kind = k /\ rows[n].loan = l} BY Members DEF RowsOf
  <2> QED BY <1>3, <1>4, <1>7, <2>1, <2>2, Members
<1>8. ~Sour(w.loan, causes) => Awaits(panel, w) /\ RowsOf(w.kind, w.loan) = {} BY <1>0, <1>1 DEF Awaited
<1>9. Alone'
  <2>1. ASSUME NEW m \in 1..Len(rows'), NEW n \in 1..Len(rows'), m # n, rows'[m].kind \in OfList,
               rows'[m].kind = rows'[n].kind, rows'[m].loan = rows'[n].loan
        PROVE  Sour(rows'[n].loan, causes')
    <3>1. \A i \in 1..Len(rows') : i \in 1..Len(rows) \/ i = Len(rows) + 1 BY <1>3, Members
    <3>2. CASE m \in 1..Len(rows) /\ n \in 1..Len(rows) BY <1>0, <1>3, <2>1, <3>2 DEF Alone
    <3>3. ASSUME NEW i \in 1..Len(rows), rows[i].kind = w.kind, rows[i].loan = w.loan PROVE Sour(w.loan, causes)
      <4>1. i \in RowsOf(w.kind, w.loan) BY <3>3, Members DEF RowsOf
      <4> QED BY <1>8, <4>1
    <3>4. CASE m = Len(rows) + 1 /\ n \in 1..Len(rows) BY <1>0, <1>3, <1>4, <2>1, <3>3, <3>4
    <3>5. CASE n = Len(rows) + 1 /\ m \in 1..Len(rows) BY <1>0, <1>3, <1>4, <2>1, <3>3, <3>5
    <3> QED BY <2>1, <3>1, <3>2, <3>4, <3>5
  <2> QED BY <2>1 DEF Alone
<1>10. WriteKinds'
  <2>1. \A u \in writes' : /\ u.op = "create" => Sections[u.kind].create
                           /\ u.op = "create" /\ u.done => u.row # 0 /\ u.kind # "escrow"
                           /\ u.op = "save" /\ u.kind \in OfList => u.row # 0
                           /\ u.op \in {"add", "remove"} => u.kind = "urla"
    <3>1. v.row # 0 BY <1>6, Members
    <3> QED BY <1>0, <1>6, <3>1 DEF WriteKinds
  <2>2. \A u, x \in writes' : u.op = "create" /\ x.op = "create" /\ u.mount = x.mount => u = x
    BY <1>0, <1>6 DEF WriteKinds
  <2> QED BY <2>1, <2>2 DEF WriteKinds
<1>11. Awaited'
  <2>1. ASSUME NEW u \in writes', Creates(u), ~Sour(u.loan, causes')
        PROVE  Awaits(panel', u) /\ (~u.done => RowsOf(u.kind, u.loan)' = {})
    <3>1. CASE u = v BY <1>0, <1>6, <1>8, <2>1, <3>1 DEF Awaits
    <3>2. CASE u \in writes /\ u # w
      <4>1. Awaits(panel, u) /\ (~u.done => RowsOf(u.kind, u.loan) = {}) BY <1>0, <2>1, <3>2 DEF Awaited
      <4>2. u.loan # w.loan
        <5>1. SUFFICES ASSUME u.loan = w.loan PROVE FALSE OBVIOUS
        <5>2. Awaits(panel, w) BY <1>0, <1>8, <2>1, <5>1
        <5>3. u.mount = w.mount /\ u.op = "create" BY <2>1, <4>1, <5>2 DEF Awaits, Creates
        <5> QED BY <1>0, <3>2, <5>3 DEF WriteKinds
      <4> QED BY <1>0, <1>7, <4>1, <4>2
    <3> QED BY <1>6, <3>1, <3>2
  <2> QED BY <2>1 DEF Awaited
<1>12. NoneYet'
  <2>1. ASSUME panel # NoPanel, panel.kind \in {"appraisal", "title"}, ~Sour(panel.loan, causes)
        PROVE  /\ /\ panel.load = "done" /\ panel.row = 0
                  /\ \A u \in writes' : u.mount = panel.mount => (u.op = "create" => u.loan # panel.loan)
                  => RowsOf(panel.kind, panel.loan)' = {}
               /\ panel.load # "done" /\ panel.read # NotRead /\ panel.read.at = 0
                  => RowsOf(panel.kind, panel.loan)' = {}
    <3>1. CASE panel.loan = w.loan
      <4>1. Awaits(panel, w) BY <1>8, <2>1, <3>1
      <4>2. v \in writes' /\ v.mount = panel.mount /\ v.op = "create" /\ v.loan = panel.loan /\ panel.load = "done"
        BY <1>6, <3>1, <4>1 DEF Awaits
      <4> QED BY <4>2
    <3>2. CASE panel.loan # w.loan
      <4>1. RowsOf(panel.kind, panel.loan)' = RowsOf(panel.kind, panel.loan)
        <5>1. PICK k, l : k = panel.kind /\ l = panel.loan OBVIOUS
        <5>2. RowsOf(k, l)' = RowsOf(k, l) BY <1>7, <3>2, <5>1
        <5> QED BY <1>0, <5>1, <5>2 DEF RowsOf
      <4>2. ASSUME \A u \in writes' : u.mount = panel.mount => (u.op = "create" => u.loan # panel.loan)
            PROVE  \A u \in writes : u.mount = panel.mount => (u.op = "create" => u.loan # panel.loan)
        BY <1>6, <3>2, <4>2
      <4>3. ASSUME panel.load = "done", panel.row = 0,
                   \A u \in writes' : u.mount = panel.mount => (u.op = "create" => u.loan # panel.loan)
            PROVE  RowsOf(panel.kind, panel.loan)' = {}
        BY <1>0, <2>1, <4>1, <4>2, <4>3 DEF NoneYet, Pending
      <4>4. ASSUME panel.load # "done", panel.read # NotRead, panel.read.at = 0
            PROVE  RowsOf(panel.kind, panel.loan)' = {}
        BY <1>0, <2>1, <4>1, <4>4 DEF NoneYet
      <4> QED BY <4>3, <4>4
    <3> QED BY <3>1, <3>2
  <2> QED BY <1>0, <2>1 DEF NoneYet, Pending
<1> QED BY <1>9, <1>10, <1>11, <1>12 DEF OneInv

\* So does its answer, or its failure, which is blamed when it did run.
LEMMA OneServer ==
  ASSUME FormTypes, CausesKept, OneInv, NEW w \in writes, WriteRuns(w) \/ WriteAnswered(w) \/ WriteFails(w)
  PROVE  OneInv'
<1>0. /\ Alone /\ WriteKinds /\ Awaited /\ NoneYet /\ w \in Writing /\ w.loan \in Loan
      /\ w.op \in {"create", "save", "add", "remove"}
  BY DEF OneInv, FormTypes, FormRecords, Writing
<1>1. CASE WriteRuns(w) /\ w.op = "create" BY <1>1, OneCreated
<1>2. CASE WriteRuns(w) /\ w.op # "create"
  <2>1. rows' = Executed(w) /\ panel' = panel /\ causes' = causes BY <1>2 DEF WriteRuns
  <2>2. Calm BY <1>0, <1>2, <2>1, ExecutedCalm DEF Calm
  <2>3. PICK v \in Writing :
          /\ writes' = (writes \ {w}) \cup {v}
          /\ v.op = w.op /\ v.mount = w.mount /\ v.kind = w.kind /\ v.loan = w.loan /\ v.form = w.form /\ v.done
          /\ v.row = IF w.op = "create" THEN Len(rows) + 1 ELSE w.row
          /\ RowOf(v.row, v.kind, rows')
    BY <1>2, RanFacts
  <2>4. Alone' BY <1>0, <2>2, CalmAlone
  <2>5. WriteKinds'
    <3>1. PICK ws : ws = {v} OBVIOUS
    <3>2. writes' \subseteq writes \cup ws BY <2>3, <3>1
    <3>3. \A u \in ws : /\ u.op # "create"
                        /\ u.op = "save" /\ u.kind \in OfList => u.row # 0
                        /\ u.op \in {"add", "remove"} => u.kind = "urla"
      BY <1>0, <1>2, <2>3, <3>1 DEF WriteKinds
    <3> QED BY <1>0, <3>2, <3>3, KindsKept
  <2>6. Awaited'
    <3>1. \A u \in writes' : Creates(u) => u \in writes BY <1>2, <2>3 DEF Creates
    <3> QED BY <1>0, <2>1, <2>2, <3>1, StillAwaited
  <2>7. NoneYet'
    <3>1. CASE panel = NoPanel BY <2>1, <3>1 DEF NoneYet
    <3>2. CASE panel # NoPanel
      <4>1. PICK p : p = panel OBVIOUS
      <4>2. panel' = p /\ p \in Panel BY <2>1, <3>2, <4>1, Mounted
      <4>3. \A u \in writes : u.op = "create" => u \in writes' BY <1>2, <2>3
      <4> QED BY <1>0, <2>2, <3>2, <4>1, <4>2, <4>3, StillNone
    <3> QED BY <3>1, <3>2
  <2> QED BY <2>4, <2>5, <2>6, <2>7 DEF OneInv
<1>3. ASSUME writes' = writes \ {w}, Calm,
             panel' = panel \/ (panel # NoPanel /\ Ours(w)),
             panel # NoPanel => /\ panel' \in Panel /\ panel'.kind = panel.kind /\ panel'.mount = panel.mount
                                /\ panel'.loan = panel.loan /\ panel'.load = panel.load /\ panel'.read = panel.read
                                /\ \/ panel'.row = panel.row
                                   \/ w.op = "create" /\ panel'.row # 0,
             (panel # NoPanel /\ w.op = "create" /\ Ours(w) /\ w.loan = panel.loan /\ ~Sour(w.loan, causes')
                /\ panel.kind \in {"appraisal", "title"}) =>
               RowsOf(panel.kind, panel.loan) = {} \/ panel'.row # 0
      PROVE  OneInv'
  <2>1. Alone' BY <1>0, <1>3, CalmAlone
  <2>2. WriteKinds'
    <3>1. PICK ws : ws = {} OBVIOUS
    <3>2. writes' \subseteq writes \cup ws BY <1>3
    <3> QED BY <1>0, <3>1, <3>2, KindsKept
  <2>3. Awaited'
    <3>1. \A u \in writes' : Creates(u) => u \in writes BY <1>3
    <3>2. ASSUME NEW u \in writes', Creates(u), Awaits(panel, u) PROVE Awaits(panel', u)
      <4>1. panel # NoPanel /\ panel.mount = u.mount /\ u \in writes /\ u # w /\ u.op = "create"
        BY <1>3, <3>2 DEF Awaits, Creates
      <4>2. ~(w.op = "create" /\ w.mount = u.mount) BY <1>0, <4>1 DEF WriteKinds
      <4>3. panel' \in Panel /\ panel'.mount = panel.mount /\ panel'.loan = panel.loan /\ panel'.load = panel.load
        BY <1>3, <4>1
      <4>4. panel'.row = panel.row BY <1>3, <4>1, <4>2 DEF Ours
      <4> QED BY <3>2, <4>3, <4>4, NoPanelKind DEF Awaits
    <3> QED BY <1>0, <1>3, <3>1, <3>2, StillAwaited
  <2>4. NoneYet'
    <3>1. CASE panel = NoPanel BY <1>3, <3>1 DEF NoneYet
    <3>2. CASE panel # NoPanel /\ panel.kind \notin {"appraisal", "title"} BY <1>3, <3>2 DEF NoneYet
    <3>3. CASE panel # NoPanel /\ panel.kind \in {"appraisal", "title"}
      <4>1. PICK p \in Panel : p = panel' BY <1>3, <3>3
      <4>2. /\ p.kind = panel.kind /\ p.mount = panel.mount /\ p.loan = panel.loan /\ p.load = panel.load
            /\ p.read = panel.read /\ (p.row = 0 => panel.row = 0)
        BY <1>3, <3>3, <4>1
      <4>3. ASSUME NEW u \in writes, u.op = "create", u.mount = panel.mount, u.loan = panel.loan
            PROVE  \/ \E x \in writes' : x.op = "create" /\ x.mount = u.mount /\ x.loan = u.loan
                   \/ p.load = "done" => p.row # 0
                   \/ Sour(panel.loan, causes')
                   \/ RowsOf(panel.kind, panel.loan) = {}
        <5>1. CASE u # w BY <1>3, <4>3, <5>1
        <5>2. CASE u = w BY <1>3, <3>3, <4>1, <4>3, <5>2 DEF Ours
        <5> QED BY <5>1, <5>2
      <4> QED BY <1>0, <1>3, <3>3, <4>1, <4>2, <4>3, StillNone
    <3> QED BY <3>1, <3>2, <3>3
  <2> QED BY <2>1, <2>2, <2>3, <2>4 DEF OneInv
<1>4. CASE WriteAnswered(w)
  <2>1. rows' = rows /\ writes' = writes \ {w} /\ w.done BY <1>4 DEF WriteAnswered
  <2>2. Calm BY <2>1 DEF FormTypes, FormRecords, Grown, Calm
  <2>3. CASE ~Ours(w)
    <3>1. panel' = panel BY <1>4, <2>3 DEF WriteAnswered
    <3>2. panel # NoPanel => panel' \in Panel BY <3>1, Mounted
    <3> QED BY <1>3, <2>1, <2>2, <2>3, <3>1, <3>2
  <2>4. CASE Ours(w)
    <3>1. panel # NoPanel /\ panel \in Panel BY <2>4, Mounted DEF Ours
    <3>2. PICK p : p = Answered(w) OBVIOUS
    <3>3. panel' = p BY <1>4, <2>4, <3>2 DEF WriteAnswered
    <3>4. w.op = "create" => w.row # 0 BY <1>0, <2>1 DEF WriteKinds
    <3>5. /\ p \in Panel /\ p.kind = panel.kind /\ p.mount = panel.mount /\ p.loan = panel.loan
          /\ p.load = panel.load /\ p.read = panel.read
          /\ IF w.op = "create" THEN p.row # 0 ELSE p.row = panel.row
      BY <1>0, <3>1, <3>2, <3>4, AnsweredFacts
    <3> QED BY <1>3, <2>1, <2>2, <2>4, <3>1, <3>3, <3>5
  <2> QED BY <2>3, <2>4
<1>5. CASE WriteFails(w)
  <2>1. writes' = writes \ {w} BY <1>5 DEF WriteFails
  <2>2. Calm
    <3>1. CASE rows' = rows BY <3>1 DEF FormTypes, FormRecords, Grown, Calm
    <3>2. CASE w.op = "save" /\ \E part \in SUBSET Storable(w) : rows' = Put(w, part)
      <4>1. PICK part \in SUBSET Storable(w) : rows' = Put(w, part) BY <3>2
      <4>2. part \in SUBSET w.form BY Parts
      <4> QED BY <1>0, <3>2, <4>1, <4>2, PutCalm DEF Calm
    <3> QED BY <1>5, <3>1, <3>2 DEF WriteFails
  <2>3. panel' = panel \/ (panel # NoPanel /\ Ours(w) /\ panel' = [panel EXCEPT !.busy = FALSE])
    BY <1>5 DEF WriteFails, Ours
  <2>4. ASSUME panel # NoPanel
        PROVE  /\ panel' \in Panel /\ panel'.kind = panel.kind /\ panel'.mount = panel.mount
               /\ panel'.loan = panel.loan /\ panel'.load = panel.load /\ panel'.read = panel.read
               /\ panel'.row = panel.row
    <3>1. panel \in Panel BY <2>4, Mounted
    <3>2. PICK p : p = panel' OBVIOUS
    <3>3. /\ p \in Panel /\ p.kind = panel.kind /\ p.mount = panel.mount
          /\ p.loan = panel.loan /\ p.load = panel.load /\ p.read = panel.read /\ p.row = panel.row
      BY <2>3, <3>1, <3>2 DEF Panel
    <3> QED BY <3>2, <3>3
  <2>5. ASSUME panel # NoPanel, w.op = "create", Ours(w), w.loan = panel.loan, ~Sour(w.loan, causes'),
               panel.kind \in {"appraisal", "title"}
        PROVE  RowsOf(panel.kind, panel.loan) = {} \/ panel'.row # 0
    <3>1. ~w.done
      <4>1. SUFFICES ASSUME w.done PROVE FALSE OBVIOUS
      <4>2. causes' = Blame({w.loan}, "unanswered") BY <1>5, <4>1 DEF WriteFails
      <4>3. Sour(w.loan, causes') BY <1>0, <4>2, BlameKeeps DEF Sour
      <4> QED BY <2>5, <4>3
    <3>2. w.kind = panel.kind BY <2>5 DEF FormTypes, WriteBounds
    <3>3. ~Sour(w.loan, causes) BY <1>0, <2>5, StaysSour
    <3> QED BY <1>0, <2>5, <3>1, <3>2, <3>3 DEF Awaited, Creates
  <2> QED BY <1>3, <2>1, <2>2, <2>3, <2>4, <2>5
<1> QED BY <1>1, <1>2, <1>4, <1>5

\* A creation under way when the form turns to another loan, or is left, is blamed.
LEMMA OneTurn ==
  ASSUME PageTypes, FormTypes, CausesKept, OneInv, TurnStep
  PROVE  OneInv'
<1>0. UNCHANGED <<writes, rows, typed>> /\ mounts \in Nat /\ Alone /\ WriteKinds /\ Awaited /\ NoneYet
  BY RemountCases DEF PageTypes, OneInv
<1>1. Calm BY <1>0 DEF FormTypes, FormRecords, Grown, Calm
<1>2. Alone' BY <1>0, <1>1, CalmAlone
<1>3. WriteKinds'
  <2>1. PICK ws : ws = {} OBVIOUS
  <2>2. writes' \subseteq writes \cup ws BY <1>0
  <2> QED BY <1>0, <2>1, <2>2, KindsKept
<1>4. ASSUME NEW w \in writes, Ours(w), panel' # panel PROVE Sour(w.loan, causes')
  <2>1. causes' = Blame(LeftUnderWay, "left") BY <1>4, TurnFacts
  <2>2. w.loan \in LeftUnderWay BY <1>4 DEF LeftUnderWay, Pending, Ours
  <2>3. w.loan \in Loan BY DEF FormTypes, FormRecords, Writing
  <2> QED BY <2>1, <2>2, <2>3, BlameKeeps DEF Sour
<1>5. Awaited'
  <2>1. ASSUME NEW w \in writes', ~Sour(w.loan, causes'), Awaits(panel, w) PROVE Awaits(panel', w)
    <3>1. w \in writes /\ Ours(w) BY <1>0, <2>1 DEF Awaits, Ours
    <3>2. panel' = panel BY <1>4, <2>1, <3>1
    <3> QED BY <2>1, <3>2
  <2> QED BY <1>0, <1>1, <2>1, StillAwaited
<1>6. NoneYet'
  <2>1. CASE panel' = NoPanel BY <2>1 DEF NoneYet
  <2>2. CASE panel # NoPanel /\ panel' = panel
    <3>1. PICK p : p = panel OBVIOUS
    <3>2. panel' = p /\ p \in Panel BY <2>2, <3>1, Mounted
    <3> QED BY <1>0, <1>1, <2>2, <3>1, <3>2, StillNone
  <2>3. CASE panel # NoPanel /\ shown' \in Loan /\ panel' = Switched(shown')
    <3>1. panel \in Panel BY <2>3, Mounted
    <3>2. PICK p : p = Switched(shown') OBVIOUS
    <3>3. /\ p.kind = panel.kind /\ p.read = NotRead
          /\ p.load = IF panel.load = "done" /\ From(panel.kind) # "nowhere" THEN "again" ELSE panel.load
      BY <2>3, <3>1, <3>2, SwitchedFacts
    <3>4. ASSUME p.kind \in {"appraisal", "title"} PROVE p.load # "done"
      <4>1. From(panel.kind) = "list" BY <3>3, <3>4, Kinds, FormFacts
      <4> QED BY <3>3, <4>1
    <3>5. panel' = p BY <2>3, <3>2
    <3> QED BY <3>3, <3>4, <3>5 DEF NoneYet
  <2>4. CASE shown' \in Loan /\ route'.section \in FormKinds /\ panel' = Fresh(route'.section, shown')
    <3>1. PICK p : p = Fresh(route'.section, shown') OBVIOUS
    <3>2. /\ p.kind = route'.section /\ p.read = NotRead
          /\ p.load = IF From(p.kind) = "nowhere" THEN "done" ELSE "first"
      BY <1>0, <2>4, <3>1, FreshFacts
    <3>3. ASSUME p.kind \in {"appraisal", "title"} PROVE p.load # "done"
      <4>1. From(p.kind) = "list" BY <3>3, Kinds, FormFacts
      <4> QED BY <3>2, <4>1
    <3>4. panel' = p BY <2>4, <3>1
    <3> QED BY <3>2, <3>3, <3>4 DEF NoneYet
  <2> QED BY <2>1, <2>2, <2>3, <2>4, RemountCases
<1> QED BY <1>2, <1>3, <1>5, <1>6 DEF OneInv

\* A record another user creates is of a loan that may have two from then on.
LEMMA OneElsewhere ==
  ASSUME PageTypes, FormTypes, CausesKept, OneInv, InForm(CreatedElsewhere)
  PROVE  OneInv'
<1>0. Alone /\ WriteKinds /\ Awaited /\ NoneYet BY DEF OneInv
<1>1. UNCHANGED <<panel, writes, typed>> BY CreatedFacts
<1>2. PICK r \in Row :
        /\ causes' = Blame({r.loan}, "shared")
        /\ Len(rows') = Len(rows) + 1 /\ rows'[Len(rows) + 1] = r
        /\ \A n \in 1..Len(rows) : rows'[n] = rows[n]
  BY CreatedFacts
<1>3. r.loan \in Loan BY DEF Row
<1>4. Sour(r.loan, causes')
  <2>1. "shared" \in causes'[r.loan] BY <1>2, <1>3, BlameKeeps
  <2> QED BY <2>1 DEF Sour
<1>5. Len(rows) \in Nat /\ DOMAIN rows = 1..Len(rows) /\ DOMAIN rows' = 1..(Len(rows) + 1)
  <2>1. rows' \in Seq(Row) BY CreatedFacts DEF Grown
  <2> QED BY <1>2, <2>1, Members
<1>6. ASSUME NEW k, NEW l, l # r.loan PROVE RowsOf(k, l)' = RowsOf(k, l)
  <2>1. RowsOf(k, l)' = {n \in DOMAIN rows' : rows'[n].kind = k /\ rows'[n].loan = l} BY DEF RowsOf
  <2>2. RowsOf(k, l) = {n \in DOMAIN rows : rows[n].kind = k /\ rows[n].loan = l} BY DEF RowsOf
  <2> QED BY <1>2, <1>5, <1>6, <2>1, <2>2
<1>7. ASSUME NEW m \in 1..Len(rows'), NEW n \in 1..Len(rows'), m # n, rows'[m].kind \in OfList,
             rows'[m].kind = rows'[n].kind, rows'[m].loan = rows'[n].loan
      PROVE  Sour(rows'[n].loan, causes')
  <2>1. CASE m = Len(rows) + 1 \/ n = Len(rows) + 1
    <3>1. rows'[n].loan = r.loan BY <1>2, <1>7, <2>1
    <3> QED BY <1>4, <3>1
  <2>2. CASE m \in 1..Len(rows) /\ n \in 1..Len(rows)
    <3>1. rows'[m] = rows[m] /\ rows'[n] = rows[n] /\ rows[n].loan \in Loan BY <1>2, <2>2, Members
    <3>2. Sour(rows[n].loan, causes) BY <1>0, <1>7, <2>2, <3>1 DEF Alone
    <3> QED BY <3>1, <3>2, StaysSour
  <2> QED BY <1>2, <1>5, <2>1, <2>2
<1>8. Alone' BY <1>7 DEF Alone
<1>9. WriteKinds' BY <1>0, <1>1 DEF WriteKinds
<1>10. ASSUME NEW w \in writes, Creates(w), ~Sour(w.loan, causes')
       PROVE  Awaits(panel, w) /\ (~w.done => RowsOf(w.kind, w.loan)' = {})
  <2>1. w.loan \in Loan /\ w.loan # r.loan BY <1>4, <1>10 DEF FormTypes, FormRecords, Writing
  <2>2. ~Sour(w.loan, causes) BY <1>10, <2>1, StaysSour
  <2> QED BY <1>0, <1>6, <1>10, <2>1, <2>2 DEF Awaited
<1>11. Awaited' BY <1>1, <1>10 DEF Awaited, Awaits
<1>12. ASSUME panel # NoPanel, panel.kind \in {"appraisal", "title"}, ~Sour(panel.loan, causes')
       PROVE  /\ /\ panel.load = "done" /\ panel.row = 0
                 /\ \A w \in Pending(panel) : w.op = "create" => w.loan # panel.loan
                 => RowsOf(panel.kind, panel.loan)' = {}
              /\ panel.load # "done" /\ panel.read # NotRead /\ panel.read.at = 0 => RowsOf(panel.kind, panel.loan)' = {}
  <2>1. panel.loan \in Loan /\ panel.loan # r.loan BY <1>4, <1>12, Mounted
  <2>2. ~Sour(panel.loan, causes) BY <1>12, <2>1, StaysSour
  <2>3. RowsOf(panel.kind, panel.loan)' = RowsOf(panel.kind, panel.loan) BY <1>1, <1>6, <2>1
  <2> QED BY <1>0, <1>12, <2>2, <2>3 DEF NoneYet
<1>13. NoneYet' BY <1>1, <1>12 DEF NoneYet, Pending
<1> QED BY <1>8, <1>9, <1>11, <1>13 DEF OneInv

\* Every step keeps it.
LEMMA OneNext ==
  ASSUME Typed, KinInv, OneInv, [Next]_vars
  PROVE  OneInv'
<1>0. PageTypes /\ FormTypes /\ CausesKept BY NothingForgotten DEF Typed
<1>1. CASE TurnStep BY <1>0, <1>1, OneTurn
<1>2. CASE InForm(FormStep)
  <2>1. FormStep BY <1>2 DEF InForm
  <2>2. CASE FormUser BY <1>0, <2>2, OneUser
  <2>3. CASE LoadRead \/ LoadAnswered \/ LoadFails BY <1>0, <2>3, OneLoads
  <2>4. CASE \E w \in writes : WriteRuns(w) \/ WriteAnswered(w) \/ WriteFails(w) BY <1>0, <2>4, OneServer
  <2> QED BY <2>1, <2>2, <2>3, <2>4 DEF FormStep, FormBackground
<1>3. ASSUME UNCHANGED <<panel, writes, rows, typed>> PROVE OneInv'
  <2>1. Calm BY <1>0, <1>3 DEF FormTypes, FormRecords, Grown, Calm
  <2>2. PICK ws : ws = {} OBVIOUS
  <2>3. writes' = writes \cup ws BY <1>3, <2>2
  <2>4. CASE panel # NoPanel
    <3>1. PICK p : p = panel OBVIOUS
    <3>2. panel' = p /\ p \in Panel BY <1>0, <1>3, <2>4, <3>1, Mounted
    <3> QED BY <1>0, <2>1, <2>2, <2>3, <2>4, <3>1, <3>2, OneSends
  <2>5. CASE panel = NoPanel
    <3>0. Alone /\ WriteKinds /\ Awaited BY DEF OneInv
    <3>1. Alone' BY <1>0, <2>1, <3>0, CalmAlone
    <3>2. WriteKinds' BY <2>2, <2>3, <3>0, KindsKept
    <3>3. Awaited'
      <4>1. \A w \in writes' : ~Awaits(panel, w) BY <2>5 DEF Awaits
      <4>2. \A w \in writes' : w \in writes BY <1>3
      <4> QED BY <1>0, <2>1, <3>0, <4>1, <4>2, StillAwaited
    <3>4. NoneYet' BY <1>3, <2>5 DEF NoneYet
    <3> QED BY <3>1, <3>2, <3>3, <3>4 DEF OneInv
  <2> QED BY <2>4, <2>5
<1>4. CASE InList(ListStep) BY <1>3, <1>4 DEF InList, formVars
<1>5. CASE UNCHANGED vars BY <1>3, <1>5 DEF vars, formVars
<1>6. CASE InForm(CreatedElsewhere) BY <1>0, <1>6, OneElsewhere
<1>7. CASE InList(AddedElsewhere) BY <1>3, <1>7 DEF InList, formVars
<1> QED BY <1>1, <1>2, <1>4, <1>5, <1>6, <1>7, Steps DEF Others

\* A loan has one appraisal order and one title order, though creating one asks
\* the server for none, unless a load of it failed, a creation was left or not
\* answered, or another user created one too.
THEOREM OneOfEach == Spec => []OneRecord
<1>1. ASSUME Init PROVE KinInv /\ OneInv
  <2>1. panel = NoPanel /\ writes = {} BY <1>1 DEF Init, FormsInit
  <2>2. \A n \in 1..Len(rows) : rows[n].form = {} BY <1>1, FirstRows DEF Init
  <2>3. \A m, n \in 1..Len(rows) : rows[m].kind = rows[n].kind /\ rows[m].loan = rows[n].loan => m = n
    BY <1>1, FirstRows DEF Init
  <2>4. KinInv BY <2>1, <2>2 DEF KinInv, RowsKin, WritesKin, PanelKin, EditsOf
  <2>5. Alone BY <2>3 DEF Alone
  <2> QED BY <2>1, <2>4, <2>5 DEF OneInv, WriteKinds, Awaited, NoneYet
<1>2. ASSUME Typed, OneInv PROVE OneRecord
  <2>1. ASSUME NEW l \in Loan, NEW k \in {"appraisal", "title"}, Quiet(l, {"failed", "left", "unanswered", "shared"})
        PROVE  ~(Cardinality(RowsOf(k, l)) > 1)
    <3>1. DOMAIN rows = 1..Len(rows) /\ Len(rows) \in Nat BY <1>2, Members DEF Typed
    <3>2. IsFiniteSet(1..Len(rows)) /\ RowsOf(k, l) \subseteq 1..Len(rows) BY <3>1, FS_Interval DEF RowsOf
    <3>3. IsFiniteSet(RowsOf(k, l)) BY <3>2, FS_Subset
    <3>4. \A m, n \in RowsOf(k, l) : m = n
      <4>1. ~Sour(l, causes) BY <2>1 DEF Quiet, Sour
      <4>2. \A n \in RowsOf(k, l) : n \in 1..Len(rows) /\ rows[n].kind = k /\ rows[n].loan = l BY <3>1 DEF RowsOf
      <4> QED BY <1>2, <2>1, <4>1, <4>2 DEF OneInv, Alone, OfList
    <3>5. CASE RowsOf(k, l) = {}
      <4>1. Cardinality(RowsOf(k, l)) = 0 BY <3>5, FS_EmptySet
      <4> QED BY <4>1
    <3>6. CASE RowsOf(k, l) # {}
      <4>1. PICK n : RowsOf(k, l) = {n} BY <3>4, <3>6
      <4>2. Cardinality(RowsOf(k, l)) = 1 BY <4>1, FS_Singleton
      <4> QED BY <4>2
    <3> QED BY <3>5, <3>6
  <2> QED BY <2>1 DEF OneRecord
<1>3. Init => KinInv /\ OneInv BY <1>1
<1>4. Typed /\ KinInv /\ OneInv /\ [Next]_vars => KinInv' /\ OneInv' BY KinNext, OneNext
<1>5. Typed /\ OneInv => OneRecord BY <1>2
<1> QED BY <1>3, <1>4, <1>5, AlwaysTyped, PTL DEF Spec

---------------------------------------------------------------------------
(* What is saved. While nothing bad happened to a loan, a form that is     *)
(* loaded holds what the server holds as its saved state, but for a save   *)
(* that was carried out and is not answered yet.                           *)

\* What happened to a loan after which its forms may show something else.
Bad(l, cs) == cs[l] \cap {"empty", "failed", "late", "early", "left", "unanswered"} # {}

\* What is saved is what the server holds, or is among it.
Match(form) == Taken(form) = Held \/ (panel.kind = "urla" /\ Taken(form) \subseteq Held)

\* Records hold what is taken of a form.
StoredTaken == \A n \in 1..Len(rows) : Taken(rows[n].form) = rows[n].form

\* A mount has one save under way, and waits for it.
Saving ==
  /\ \A u, w \in writes : u.op = "save" /\ w.op = "save" /\ u.mount = w.mount => u = w
  /\ \A w \in writes : Ours(w) /\ w.op = "save" => panel.busy

\* The form stands as when the write was sent; one that ran is what is held.
StandsFor(w) ==
  /\ Ours(w) /\ panel.loan = w.loan /\ panel.load = "done"
  /\ panel.row = IF w.op = "create" THEN 0 ELSE w.row
  /\ w.done => w.kind # "escrow"
  /\ w.op = "create" /\ w.done => rows[w.row].form = {}
  /\ w.op = "save" /\ w.done => Match(w.form)
  /\ w.kind = "urla" /\ w.row = 0 => Taken(w.form) = {}

Standing == \A w \in writes : By(w.kind) # "none" /\ ~Bad(w.loan, causes) => StandsFor(w)

\* What was read is what the record holds; a record had by its loan is still
\* the one that is found.
Reads(r, k, l) ==
  IF By(k) # "id" THEN r = Found(k, l)
  ELSE IF r.at = 0 THEN r.form = {}
  ELSE r.at \in 1..Len(rows) /\ rows[r.at].loan = l /\ r.form = rows[r.at].form

\* The form mounted has as saved what is held, or a save that ran is under way;
\* a load has read what is stored.
SavedShown ==
  panel # NoPanel /\ By(panel.kind) # "none" /\ ~Bad(panel.loan, causes) =>
    /\ panel.load = "done" =>
         Match(panel.saved) \/ \E w \in writes : Ours(w) /\ w.op = "save" /\ w.done /\ w.loan = panel.loan
    /\ panel.load = "done" /\ panel.kind = "urla" /\ panel.row = 0 =>
         Taken(panel.form) = {} /\ Taken(panel.saved) = {}
    /\ panel.load # "done" /\ panel.read # NotRead => Reads(panel.read, panel.kind, panel.loan)

SaveInv == StoredTaken /\ Saving /\ Standing /\ SavedShown

\* Bad loans stay bad, and mixed up ones are.
LEMMA BadFacts ==
  ASSUME CausesKept
  PROVE  /\ \A l \in Loan : Bad(l, causes) => Bad(l, causes')
         /\ \A l, cs : Foul(l, cs) => Bad(l, cs)
BY DEF Bad, Foul, CausesKept

\* What is taken of edits that were made stays.
LEMMA TakenStays ==
  ASSUME FormTypes, Longer
  PROVE  \A form : Made(form, typed) => Taken(form)' = Taken(form)
<1>1. ASSUME NEW form, Made(form, typed) PROVE Taken(form)' = Taken(form)
  <2>1. Taken(form)' = {e \in form : typed'[e].field \in {"plain", "co"}} BY DEF Taken
  <2>2. Taken(form) = {e \in form : typed[e].field \in {"plain", "co"}} BY DEF Taken
  <2>3. \A e \in form : typed'[e] = typed[e] BY <1>1 DEF Made, Longer
  <2> QED BY <2>1, <2>2, <2>3
<1> QED BY <1>1

\* Nothing is taken of nothing; what is taken is taken as it is.
LEMMA TakenFacts == Taken({}) = {} /\ \A form : Taken(Taken(form)) = Taken(form)
BY DEF Taken

\* A step that leaves the records of a loan what they hold, and adds none to it
\* but such as are had by their id.
Elsewhere(l) ==
  /\ Grown(rows')
  /\ \A n \in 1..Len(rows) : rows[n].loan = l => rows'[n].form = rows[n].form
  /\ \A n \in 1..Len(rows') : n \in 1..Len(rows) \/ rows'[n].loan # l \/ By(rows'[n].kind) = "id"

\* A load finds what it would have found before.
LEMMA FoundStays ==
  ASSUME FormTypes, NEW l, Elsewhere(l), NEW k, By(k) # "id"
  PROVE  Found(k, l)' = Found(k, l)
<1>1. /\ DOMAIN rows = 1..Len(rows) /\ DOMAIN rows' = 1..Len(rows') /\ Len(rows) \in Nat /\ Len(rows') \in Nat
      /\ Len(rows) <= Len(rows')
      /\ \A n \in 1..Len(rows) : rows'[n].kind = rows[n].kind /\ rows'[n].loan = rows[n].loan
  BY Members DEF Elsewhere, Grown
<1>2. RowsOf(k, l)' = {n \in DOMAIN rows' : rows'[n].kind = k /\ rows'[n].loan = l} BY DEF RowsOf
<1>3. RowsOf(k, l) = {n \in DOMAIN rows : rows[n].kind = k /\ rows[n].loan = l} BY DEF RowsOf
<1>4. RowsOf(k, l)' = RowsOf(k, l)
  <2>1. \A n \in 1..Len(rows') : n \in 1..Len(rows) \/ rows'[n].loan # l \/ rows'[n].kind # k
    BY DEF Elsewhere
  <2> QED BY <1>1, <1>2, <1>3, <2>1
<1>5. CASE RowsOf(k, l) = {} BY <1>4, <1>5 DEF Found
<1>6. CASE RowsOf(k, l) # {}
  <2>1. PICK n : n = Max(RowsOf(k, l)) OBVIOUS
  <2>2. RowsOf(k, l) \subseteq 0..Len(rows) BY <1>1, <1>3
  <2>3. n \in RowsOf(k, l) BY <1>1, <1>6, <2>1, <2>2, MaxOf
  <2>4. rows'[n].form = rows[n].form BY <1>1, <1>3, <2>3 DEF Elsewhere
  <2>5. Found(k, l) = [at |-> n, form |-> rows[n].form] BY <1>6, <2>1 DEF Found
  <2>6. Found(k, l)' = [at |-> n, form |-> rows'[n].form] BY <1>4, <1>6, <2>1 DEF Found
  <2> QED BY <2>4, <2>5, <2>6
<1> QED BY <1>5, <1>6

\* And what was read is what it would read.
LEMMA ReadsStay ==
  ASSUME FormTypes, NEW l, Elsewhere(l), NEW k, NEW r, Reads(r, k, l)
  PROVE  Reads(r, k, l)'
<1>1. CASE By(k) # "id" BY <1>1, FoundStays DEF Reads
<1>2. CASE By(k) = "id" /\ r.at = 0 BY <1>2 DEF Reads
<1>3. CASE By(k) = "id" /\ r.at # 0
  <2>1. r.at \in 1..Len(rows) /\ rows[r.at].loan = l /\ r.form = rows[r.at].form BY <1>3 DEF Reads
  <2>2. PICK n : n = r.at OBVIOUS
  <2>3. n \in 1..Len(rows') /\ rows'[n].loan = rows[n].loan /\ rows'[n].form = rows[n].form
    <3>1. Len(rows) \in Nat /\ Len(rows') \in Nat /\ Len(rows) <= Len(rows') BY Members DEF Elsewhere, Grown
    <3> QED BY <2>1, <2>2, <3>1 DEF Elsewhere, Grown
  <2> QED BY <1>3, <2>1, <2>2, <2>3 DEF Reads
<1> QED BY <1>1, <1>2, <1>3

\* The record of a form that is loaded, and not mixed up, is of its loan.
LEMMA OwnRecord ==
  ASSUME FormTypes, KinInv, panel # NoPanel, panel.load = "done", By(panel.kind) # "none",
         ~Foul(panel.loan, causes), panel.row # 0
  PROVE  panel.row \in 1..Len(rows) /\ rows[panel.row].loan = panel.loan /\ rows[panel.row].kind = panel.kind
<1>1. panel.row \in 1..Len(rows) /\ rows[panel.row].kind = panel.kind BY DEF FormTypes, PanelBounds, RowOf
<1>2. Kin(rows[panel.row].loan, panel.loan, causes) BY DEF KinInv, PanelKin, Fits, RecordFor
<1> QED BY <1>1, <1>2 DEF Kin

\* What is held stays held.
LEMMA HeldStays ==
  ASSUME panel'.kind = panel.kind, panel'.loan = panel.loan, panel'.row = panel.row,
         By(panel.kind) = "id" => panel.row = 0 \/ rows'[panel.row].form = rows[panel.row].form,
         By(panel.kind) # "id" => Elsewhere(panel.loan), FormTypes
  PROVE  Held' = Held
<1>1. CASE By(panel.kind) = "id"
  <2>1. Record = panel.row /\ Record' = panel.row BY <1>1 DEF Record
  <2> QED BY <1>1, <2>1 DEF Held
<1>2. CASE By(panel.kind) # "id"
  <2>1. PICK k, l : k = panel.kind /\ l = panel.loan OBVIOUS
  <2>2. Elsewhere(l) BY <1>2, <2>1
  <2>3. Found(k, l)' = Found(k, l)
    <3>1. By(k) # "id" BY <1>2, <2>1
    <3> QED BY <2>2, <3>1, FoundStays
  <2>4. PICK n : n = Record OBVIOUS
  <2>5. n = Found(k, l).at BY <1>2, <2>1, <2>4 DEF Record
  <2>6. Record' = n
    <3>1. Record' = Found(k, l)'.at BY <1>2, <2>1 DEF Record
    <3> QED BY <2>3, <2>5, <3>1
  <2>7. CASE n = 0 BY <2>4, <2>6, <2>7 DEF Held
  <2>8. CASE n # 0
    <3>1. n \in 1..Len(rows) /\ rows[n].loan = l BY <2>5, <2>8, FoundFacts DEF FormTypes
    <3>2. rows'[n].form = rows[n].form BY <2>2, <3>1 DEF Elsewhere
    <3> QED BY <2>4, <2>6, <2>8, <3>2 DEF Held
  <2> QED BY <2>7, <2>8
<1> QED BY <1>1, <1>2

\* What matched matches.
LEMMA MatchStays ==
  ASSUME FormTypes, Longer, Held' = Held, panel'.kind = panel.kind, NEW form, Made(form, typed)
  PROVE  Match(form)' <=> Match(form)
<1>1. Taken(form)' = Taken(form) BY TakenStays
<1> QED BY <1>1 DEF Match

\* A write that stays.
LEMMA StandsStill ==
  ASSUME FormTypes, CausesKept, Longer, Standing, NEW w \in writes, By(w.kind) # "none", ~Bad(w.loan, causes'),
         NEW p \in Panel, panel' = p, p.kind = panel.kind, p.mount = panel.mount, p.loan = panel.loan,
         p.load = panel.load, p.row = panel.row,
         Held' = Held, w.op = "create" /\ w.done => rows'[w.row].form = rows[w.row].form
  PROVE  StandsFor(w)'
<1>1. w.loan \in Loan /\ Made(w.form, typed) BY DEF FormTypes, FormRecords, Writing, WriteBounds
<1>2. StandsFor(w) BY <1>1, BadFacts DEF Standing
<1>3. Match(w.form)' <=> Match(w.form) BY <1>1, MatchStays
<1>4. Taken(w.form)' = Taken(w.form) BY <1>1, TakenStays
<1>5. panel' # NoPanel BY NoPanelKind
<1> QED BY <1>2, <1>3, <1>4, <1>5 DEF StandsFor, Ours

\* A form that stays.
LEMMA ShownStill ==
  ASSUME FormTypes, CausesKept, Longer, SavedShown, panel # NoPanel,
         NEW p \in Panel, panel' = p, p.kind = panel.kind, p.mount = panel.mount, p.loan = panel.loan,
         p.load = panel.load, p.row = panel.row, p.read = panel.read, p.saved = panel.saved,
         ~Bad(panel.loan, causes') /\ By(panel.kind) # "none" /\ panel.load = "done" => Held' = Held,
         ~Bad(panel.loan, causes') /\ By(panel.kind) # "none" /\ panel.load # "done" => Elsewhere(panel.loan),
         ~Bad(panel.loan, causes') =>
            \A w \in writes : Ours(w) /\ w.op = "save" /\ w.done /\ w.loan = panel.loan => w \in writes',
         \/ p.form = panel.form \/ p.form = panel.saved
         \/ panel.kind = "urla" /\ panel.row = 0 => Taken(p.form)' = Taken(panel.form)
  PROVE  SavedShown'
<1>1. panel.loan \in Loan /\ Made(panel.form, typed) /\ Made(panel.saved, typed)
  BY Mounted DEF FormTypes, PanelBounds
<1>2. ASSUME By(p.kind) # "none", ~Bad(p.loan, causes')
      PROVE  /\ p.load = "done" => Match(p.saved)' \/ \E w \in writes' : Ours(w)' /\ w.op = "save" /\ w.done /\ w.loan = p.loan
             /\ p.load = "done" /\ p.kind = "urla" /\ p.row = 0 => Taken(p.form)' = {} /\ Taken(p.saved)' = {}
             /\ p.load # "done" /\ p.read # NotRead => Reads(p.read, p.kind, p.loan)'
  <2>1. ~Bad(panel.loan, causes) BY <1>1, <1>2, BadFacts
  <2>2. ASSUME p.load = "done"
        PROVE  Match(p.saved)' \/ \E w \in writes' : Ours(w)' /\ w.op = "save" /\ w.done /\ w.loan = p.loan
    <3>1. CASE Match(panel.saved)
      <4>1. Made(p.saved, typed) /\ Match(p.saved)  BY <1>1, <3>1
      <4> QED BY <1>2, <2>2, <4>1, MatchStays
    <3>2. CASE \E w \in writes : Ours(w) /\ w.op = "save" /\ w.done /\ w.loan = panel.loan
      <4>1. PICK w \in writes : Ours(w) /\ w.op = "save" /\ w.done /\ w.loan = panel.loan BY <3>2
      <4>2. w \in writes' BY <1>2, <4>1
      <4>3. Ours(w)' BY <4>1, NoPanelKind DEF Ours
      <4> QED BY <4>1, <4>2, <4>3
    <3> QED BY <1>2, <2>1, <2>2, <3>1, <3>2 DEF SavedShown
  <2>3. ASSUME p.load = "done", p.kind = "urla", p.row = 0 PROVE Taken(p.form)' = {} /\ Taken(p.saved)' = {}
    <3>1. Taken(panel.form) = {} /\ Taken(panel.saved) = {} BY <1>2, <2>1, <2>3 DEF SavedShown
    <3>3. PICK f, s : f = panel.form /\ s = panel.saved OBVIOUS
    <3>4. Taken(f)' = Taken(f) /\ Taken(s)' = Taken(s) BY <1>1, <3>3, TakenStays
    <3>5. Taken(f) = {} /\ Taken(s) = {} BY <3>1, <3>3
    <3>6. p.saved = s /\ (p.form = f \/ p.form = s \/ Taken(p.form)' = {}) BY <2>3, <3>1, <3>3
    <3> QED BY <3>4, <3>5, <3>6
  <2>4. ASSUME p.load # "done", p.read # NotRead PROVE Reads(p.read, p.kind, p.loan)'
    <3>1. Reads(p.read, p.kind, p.loan) BY <1>2, <2>1, <2>4 DEF SavedShown
    <3>2. Elsewhere(p.loan) BY <1>2, <2>4
    <3>3. PICK r, k, l : r = p.read /\ k = p.kind /\ l = p.loan OBVIOUS
    <3>4. Reads(r, k, l)' BY <3>1, <3>2, <3>3, ReadsStay
    <3> QED BY <3>3, <3>4
  <2> QED BY <2>2, <2>3, <2>4
<1> QED BY <1>2 DEF SavedShown

\* Records that stay hold what is taken.
LEMMA StoredStays ==
  ASSUME FormTypes, Longer, StoredTaken, rows' = rows
  PROVE  StoredTaken'
<1>1. ASSUME NEW n \in 1..Len(rows'), NEW f, f = rows'[n].form PROVE Taken(f)' = f
  <2>1. f = rows[n].form /\ n \in 1..Len(rows) BY <1>1
  <2>2. Made(f, typed) BY <2>1 DEF FormTypes, RowBounds
  <2>3. Taken(f)' = Taken(f) BY <2>2, TakenStays
  <2>4. Taken(f) = f BY <2>1 DEF StoredTaken
  <2> QED BY <2>3, <2>4
<1> QED BY <1>1 DEF StoredTaken, Taken

\* A load leaves what is stored as what is saved.
LEMMA SaveLoads ==
  ASSUME FormTypes, CausesKept, KinInv, SaveInv, LoadRead \/ LoadAnswered \/ LoadFails
  PROVE  SaveInv'
<1>0. /\ UNCHANGED <<rows, typed, writes>> /\ panel # NoPanel /\ panel \in Panel /\ panel.load \in {"first", "again"}
      /\ panel.loan \in Loan /\ Longer /\ FormRecords /\ panel.kind \in FormKinds
      /\ StoredTaken /\ Saving /\ Standing /\ SavedShown
  <2>1. UNCHANGED <<rows, typed, writes>> /\ Loading BY DEF LoadRead, LoadAnswered, LoadFails
  <2> QED BY <2>1, Mounted DEF Loading, FormTypes, FormRecords, Longer, SaveInv, Panel
<1>1. StoredTaken' BY <1>0, StoredStays
<1>2. Standing'
  <2>1. ASSUME NEW w \in writes, By(w.kind) # "none" PROVE Bad(w.loan, causes')
    <3>1. w.loan \in Loan BY DEF FormTypes, FormRecords, Writing
    <3>2. Bad(w.loan, causes) BY <1>0, <2>1 DEF Standing, StandsFor
    <3> QED BY <3>1, <3>2, BadFacts
  <2> QED BY <1>0, <2>1 DEF Standing
<1>3. ASSUME panel' # NoPanel, panel'.mount = panel.mount, panel'.busy = panel.busy PROVE Saving'
  BY <1>0, <1>3 DEF Saving, Ours
<1>4. \A k, l : Found(k, l)' = Found(k, l)
  BY <1>0 DEF Found, RowsOf
<1>5. CASE LoadRead
  <2>1. PICK r : r = Found(panel.kind, panel.loan) OBVIOUS
  <2>2. PICK p : p = [panel EXCEPT !.read = r] OBVIOUS
  <2>3. panel' = p BY <1>5, <2>1, <2>2 DEF LoadRead
  <2>4. r \in Reading BY <1>0, <2>1, FoundFacts
  <2>5. /\ p \in Panel /\ p.kind = panel.kind /\ p.mount = panel.mount /\ p.loan = panel.loan /\ p.load = panel.load
        /\ p.read = r /\ p.busy = panel.busy
    BY <1>0, <2>2, <2>4 DEF Panel
  <2>6. p.load # "done" /\ Reads(p.read, p.kind, p.loan)'
    <3>1. PICK k, l : k = panel.kind /\ l = panel.loan OBVIOUS
    <3>2. r = Found(k, l) /\ Found(k, l)' = r BY <1>4, <2>1, <3>1
    <3>3. /\ r.at = 0 => r.form = {}
          /\ r.at # 0 => r.at \in 1..Len(rows) /\ rows[r.at].loan = l /\ r.form = rows[r.at].form
      BY <1>0, <3>2, FoundFacts
    <3>4. Reads(r, k, l)' BY <1>0, <3>2, <3>3 DEF Reads
    <3> QED BY <1>0, <2>5, <3>1, <3>4
  <2>7. SavedShown' BY <2>3, <2>6 DEF SavedShown
  <2> QED BY <1>1, <1>2, <1>3, <2>3, <2>5, <2>7, NoPanelKind DEF SaveInv
<1>6. CASE LoadAnswered
  <2>1. PICK r : r = panel.read OBVIOUS
  <2>2. PICK p : p = LoadedForm(r) OBVIOUS
  <2>3. panel' = p /\ r # NotRead BY <1>6, <2>1, <2>2 DEF LoadAnswered
  <2>4. r \in Reading BY <1>0, <2>1 DEF Panel
  <2>5. /\ p \in Panel /\ p.kind = panel.kind /\ p.mount = panel.mount /\ p.loan = panel.loan /\ p.load = "done"
        /\ p.busy = panel.busy
    BY <1>0, <2>2, <2>4, LoadedFacts
  <2>6. ASSUME By(p.kind) # "none", ~Bad(p.loan, causes')
        PROVE  /\ Match(p.saved)'
               /\ p.kind = "urla" /\ p.row = 0 => Taken(p.form)' = {} /\ Taken(p.saved)' = {}
    <3>1. ~Bad(panel.loan, causes) BY <1>0, <2>5, <2>6, BadFacts
    <3>2. Reads(r, panel.kind, panel.loan) BY <1>0, <2>1, <2>3, <2>5, <2>6, <3>1 DEF SavedShown
    <3>3. /\ r.at = 0 => r.form = {}
          /\ r.at # 0 => r.at \in 1..Len(rows) /\ r.form = rows[r.at].form
      BY <1>0, <3>2, FoundFacts DEF Reads
    <3>4. ASSUME p.row = r.at PROVE Record' = r.at
      <4>1. CASE By(p.kind) = "id" BY <2>3, <3>4, <4>1 DEF Record
      <4>2. CASE By(p.kind) # "id"
        <5>1. PICK k, l : k = p.kind /\ l = p.loan OBVIOUS
        <5>2. Found(k, l)' = r BY <1>4, <2>5, <3>2, <4>2, <5>1 DEF Reads
        <5>3. Record' = Found(k, l)'.at BY <2>3, <4>2, <5>1 DEF Record
        <5> QED BY <5>2, <5>3
      <4> QED BY <4>1, <4>2
    <3>5. ASSUME p.row = r.at PROVE Held' = r.form BY <1>0, <3>3, <3>4, <3>5 DEF Held
    <3>6. Taken({})' = {} BY DEF Taken
    <3>7. CASE panel.kind = "urla"
      <4>1. p.row = r.at /\ p.form = {} /\ p.saved = {} BY <1>0, <2>2, <2>4, <3>7, LoadedFacts
      <4>2. Match(p.saved)' BY <2>3, <2>5, <3>6, <3>7, <4>1 DEF Match
      <4> QED BY <3>6, <4>1, <4>2
    <3>8. CASE panel.kind # "urla" /\ (r.at # 0 \/ panel.kind = "terms")
      <4>1. p.row = r.at /\ p.saved = r.form
        <5>1. CASE r.at # 0 BY <1>0, <2>2, <2>4, <3>8, <5>1, LoadedFacts
        <5>2. CASE r.at = 0
          <6>1. panel.kind = "terms" BY <3>8, <5>2
          <6>2. panel.row = 0 /\ panel.form = {} /\ panel.saved = {}
            <7>1. SUFFICES ASSUME panel.row # 0 \/ panel.form \cup panel.saved # {} PROVE FALSE OBVIOUS
            <7>2. causes' = Blame(Involved, "empty") BY <1>6, <2>1, <5>2, <7>1 DEF LoadAnswered
            <7>3. panel.loan \in Involved BY DEF Involved
            <7>4. Bad(panel.loan, causes') BY <1>0, <7>2, <7>3, BlameKeeps DEF Bad
            <7> QED BY <2>5, <2>6, <7>4
          <6> QED BY <1>0, <2>2, <2>4, <3>3, <5>2, <6>1, <6>2, LoadedFacts
        <5> QED BY <5>1, <5>2
      <4>2. Taken(r.form)' = r.form
        <5>1. CASE r.at = 0 BY <3>3, <3>6, <5>1
        <5>2. CASE r.at # 0
          <6>1. Made(r.form, typed) /\ Taken(r.form) = r.form
            BY <1>0, <3>3, <5>2 DEF StoredTaken, FormTypes, RowBounds
          <6> QED BY <1>0, <6>1, TakenStays
        <5> QED BY <5>1, <5>2
      <4>3. Match(p.saved)' BY <3>5, <4>1, <4>2 DEF Match
      <4> QED BY <2>5, <3>8, <4>3
    <3>9. CASE panel.kind # "urla" /\ r.at = 0 /\ panel.kind # "terms"
      <4>1. panel.row = 0 /\ panel.form = {} /\ panel.saved = {}
        <5>1. SUFFICES ASSUME panel.row # 0 \/ panel.form \cup panel.saved # {} PROVE FALSE OBVIOUS
        <5>2. causes' = Blame(Involved, "empty") BY <1>6, <2>1, <3>9, <5>1 DEF LoadAnswered
        <5>3. panel.loan \in Involved BY DEF Involved
        <5>4. Bad(panel.loan, causes') BY <1>0, <5>2, <5>3, BlameKeeps DEF Bad
        <5> QED BY <2>5, <2>6, <5>4
      <4>2. p.row = 0 /\ p.saved = {} BY <1>0, <2>2, <2>4, <3>9, <4>1, LoadedFacts
      <4>3. Held' = {} BY <3>3, <3>5, <3>9, <4>2
      <4>4. Match(p.saved)' BY <3>6, <4>2, <4>3 DEF Match
      <4> QED BY <2>5, <3>9, <4>4
    <3> QED BY <3>7, <3>8, <3>9
  <2>7. SavedShown' BY <2>3, <2>5, <2>6 DEF SavedShown
  <2> QED BY <1>1, <1>2, <1>3, <2>3, <2>5, <2>7, NoPanelKind DEF SaveInv
<1>7. CASE LoadFails
  <2>1. PICK s : s = IF From(panel.kind) = "detail" THEN "error" ELSE "done" OBVIOUS
  <2>2. PICK n : n = IF panel.kind = "escrow" THEN 0 ELSE panel.row OBVIOUS
  <2>3. PICK p : p = [panel EXCEPT !.load = s, !.row = n] OBVIOUS
  <2>4. panel' = p BY <1>7, <2>1, <2>2, <2>3 DEF LoadFails
  <2>5. p.kind = panel.kind /\ p.mount = panel.mount /\ p.loan = panel.loan /\ p.busy = panel.busy
    BY <1>0, <2>3 DEF Panel
  <2>6. Bad(panel.loan, causes')
    <3>1. causes' = Blame(Involved, "failed") /\ panel.loan \in Involved BY <1>7 DEF LoadFails, Involved
    <3> QED BY <1>0, <3>1, BlameKeeps DEF Bad
  <2>7. SavedShown' BY <2>4, <2>5, <2>6 DEF SavedShown
  <2>8. p # NoPanel BY <1>0, <2>5, Kinds, NoPanelKind
  <2> QED BY <1>1, <1>2, <1>3, <2>4, <2>5, <2>7, <2>8 DEF SaveInv
<1> QED BY <1>5, <1>6, <1>7

\* A form in which one types or that sends something stands.
LEMMA SaveSends ==
  ASSUME FormTypes, CausesKept, KinInv, SaveInv, Longer, rows' = rows, panel # NoPanel,
         NEW ws, writes' = writes \cup ws,
         \A w \in ws : By(w.kind) # "none" /\ ~Bad(w.loan, causes') => StandsFor(w)',
         \A u, w \in writes' : u.op = "save" /\ w.op = "save" /\ u.mount = w.mount => u = w,
         NEW p \in Panel, panel' = p, p.kind = panel.kind, p.mount = panel.mount, p.loan = panel.loan,
         p.load = panel.load, p.row = panel.row, p.read = panel.read, p.saved = panel.saved,
         \A w \in writes' : w.mount = p.mount /\ w.op = "save" => p.busy,
         \/ p.form = panel.form \/ p.form = panel.saved
         \/ panel.kind = "urla" /\ panel.row = 0 => Taken(p.form)' = Taken(panel.form)
  PROVE  SaveInv'
<1>0. StoredTaken /\ Saving /\ Standing /\ SavedShown BY DEF SaveInv
<1>1. \A l : Elsewhere(l) BY DEF Elsewhere, Grown, FormTypes, FormRecords
<1>2. Held' = Held BY <1>1, HeldStays
<1>3. StoredTaken' BY <1>0, StoredStays
<1>4. Saving' BY NoPanelKind DEF Saving, Ours
<1>5. Standing'
  <2>1. ASSUME NEW w \in writes, By(w.kind) # "none", ~Bad(w.loan, causes') PROVE StandsFor(w)'
    <3>1. w.op = "create" /\ w.done => rows'[w.row].form = rows[w.row].form OBVIOUS
    <3> QED BY <1>0, <1>2, <2>1, <3>1, StandsStill
  <2> QED BY <2>1 DEF Standing
<1>6. SavedShown' BY <1>0, <1>1, <1>2, ShownStill
<1> QED BY <1>3, <1>4, <1>5, <1>6 DEF SaveInv

\* What is sent stands for the form, which is of the loan or blamed.
LEMMA SaveUser ==
  ASSUME PageTypes, FormTypes, CausesKept, KinInv, SaveInv, FormUser
  PROVE  SaveInv'
<1>0. /\ panel # NoPanel /\ panel \in Panel /\ panel.kind \in FormKinds /\ panel.loan \in Loan /\ panel.loan = shown
      /\ Made(panel.form, typed) /\ StoredTaken /\ Saving /\ Standing /\ SavedShown /\ PanelKin
  <2>1. panel # NoPanel
    <3>1. CASE ChangeBorrowers BY <3>1, NoPanelKind DEF ChangeBorrowers
    <3>2. CASE ~ChangeBorrowers BY <3>2 DEF FormUser, Type, Editable, CancelEdits, SaveBar, Dirty, CreateRecord, SaveForm
    <3> QED BY <3>1, <3>2
  <2> QED BY <2>1, Mounted DEF Panel, FormTypes, PanelBounds, SaveInv, KinInv
<1>1. rows' = rows BY DEF FormUser, Type, CancelEdits, CreateRecord, SaveForm, ChangeBorrowers, pageVars
<1>2. /\ \A u, w \in writes : u.op = "save" /\ w.op = "save" /\ u.mount = w.mount => u = w
      /\ \A w \in writes : w.mount = panel.mount /\ w.op = "save" => panel.busy
  BY <1>0 DEF Saving, Ours
<1>3. CASE Type
  <2>1. PICK f \in Sections[panel.kind].fields :
          /\ typed' = Append(typed, [loan |-> shown, field |-> f])
          /\ panel.kind = "urla" /\ panel.row = 0 => f = "added"
    BY <1>3 DEF Type
  <2>2. PICK d : d = [loan |-> shown, field |-> f] OBVIOUS
  <2>3. d \in Edit /\ d.field = f BY <1>0, <2>1, <2>2, FieldFacts DEF Edit
  <2>4. /\ typed' \in Seq(Edit) /\ Len(typed') = Len(typed) + 1 /\ typed'[Len(typed) + 1] = d
        /\ \A e \in 1..Len(typed) : typed'[e] = typed[e]
    BY <2>1, <2>2, <2>3 DEF FormTypes, FormRecords
  <2>5. Longer BY <2>4, Members DEF Longer
  <2>6. PICK s : s = panel.form \cup {Len(typed) + 1} OBVIOUS
  <2>7. PICK p : p = [panel EXCEPT !.form = s] OBVIOUS
  <2>8. panel' = p /\ writes' = writes BY <1>3, <2>6, <2>7 DEF Type
  <2>9. s \in SUBSET Nat BY <1>0, <2>6, Members DEF Panel
  <2>10. /\ p \in Panel /\ p.kind = panel.kind /\ p.mount = panel.mount /\ p.loan = panel.loan /\ p.load = panel.load
         /\ p.row = panel.row /\ p.form = s /\ p.saved = panel.saved /\ p.read = panel.read /\ p.busy = panel.busy
    BY <1>0, <2>7, <2>9 DEF Panel
  <2>11. ASSUME panel.kind = "urla", panel.row = 0 PROVE Taken(s)' = Taken(panel.form)
    <3>1. typed'[Len(typed) + 1].field = "added" BY <2>1, <2>3, <2>4, <2>11
    <3>2. Taken(s)' = {e \in s : typed'[e].field \in {"plain", "co"}} BY DEF Taken
    <3>3. \A e \in panel.form : typed'[e] = typed[e] BY <1>0, <2>4 DEF Made
    <3>4. Taken(panel.form) = {e \in panel.form : typed[e].field \in {"plain", "co"}} BY DEF Taken
    <3> QED BY <2>6, <3>1, <3>2, <3>3, <3>4
  <2>12. PICK ws : ws = {} OBVIOUS
  <2>13. writes' = writes \cup ws BY <2>8, <2>12
  <2>14. Taken(p.form)' = Taken(s)' BY <2>10
  <2> QED BY <1>0, <1>1, <1>2, <2>5, <2>8, <2>10, <2>11, <2>12, <2>13, <2>14, SaveSends
<1>4. CASE CancelEdits
  <2>1. PICK p : p = [panel EXCEPT !.form = panel.saved] OBVIOUS
  <2>2. panel' = p /\ writes' = writes /\ typed' = typed BY <1>4, <2>1 DEF CancelEdits
  <2>3. /\ p \in Panel /\ p.kind = panel.kind /\ p.mount = panel.mount /\ p.loan = panel.loan /\ p.load = panel.load
        /\ p.row = panel.row /\ p.form = panel.saved /\ p.saved = panel.saved /\ p.read = panel.read
        /\ p.busy = panel.busy
    BY <1>0, <2>1 DEF Panel
  <2>4. Longer BY <2>2, Members DEF Longer, FormTypes, FormRecords
  <2>5. PICK ws : ws = {} OBVIOUS
  <2>6. writes' = writes \cup ws BY <2>2, <2>5
  <2> QED BY <1>0, <1>1, <1>2, <2>2, <2>3, <2>4, <2>5, <2>6, SaveSends
<1>5. ASSUME panel.kind = "urla", panel.row = 0, panel.load = "done", ~Bad(panel.loan, causes'), typed' = typed
      PROVE  Taken(panel.form) = {}
  <2>1. By(panel.kind) # "none" BY <1>0, <1>5, FormFacts
  <2>2. ~Bad(panel.loan, causes) BY <1>0, <1>5, BadFacts
  <2> QED BY <1>0, <1>5, <2>1, <2>2 DEF SavedShown
<1>6. ASSUME NEW op \in {"create", "save", "add", "remove"}, NEW w, w = Write(op), NEW p \in Panel, panel' = p,
             typed' = typed,
             p.kind = panel.kind, p.mount = panel.mount, p.loan = panel.loan, p.load = panel.load, p.row = panel.row,
             op = "create" => panel.row = 0 /\ panel.kind # "urla",
             ~Bad(panel.loan, causes') => panel.load = "done"
      PROVE  ~Bad(w.loan, causes') => StandsFor(w)'
  <2>2. /\ w.op = op /\ w.kind = panel.kind /\ w.mount = panel.mount /\ w.loan = panel.loan /\ w.row = panel.row
        /\ w.form = panel.form /\ ~w.done
    BY <1>0, <1>6, WriteFacts
  <2>3. ASSUME ~Bad(w.loan, causes') PROVE StandsFor(w)'
    <3>1. panel.load = "done" BY <1>6, <2>2, <2>3
    <3>2. ASSUME w.kind = "urla", w.row = 0 PROVE Taken(w.form)' = {}
      <4>1. Taken(w.form) = {} BY <1>5, <1>6, <2>2, <2>3, <3>1, <3>2
      <4> QED BY <1>6, <4>1 DEF Taken
    <3> QED BY <1>6, <2>2, <3>1, <3>2, NoPanelKind DEF StandsFor, Ours
  <2> QED BY <2>3
<1>7. ASSUME typed' = typed PROVE Longer BY <1>7, Members DEF Longer, FormTypes, FormRecords
<1>8. CASE CreateRecord \/ ChangeBorrowers
  <2>1. PICK op \in {"create", "add", "remove"} :
          /\ panel' = panel /\ writes' = writes \cup {Write(op)} /\ typed' = typed /\ panel.load = "done"
          /\ op = "create" => panel.row = 0 /\ panel.kind # "urla"
    <3>1. CASE CreateRecord BY <1>0, <3>1, FormFacts DEF CreateRecord
    <3>2. CASE ChangeBorrowers BY <3>2 DEF ChangeBorrowers
    <3> QED BY <1>8, <3>1, <3>2
  <2>2. PICK w : w = Write(op) OBVIOUS
  <2>3. PICK p : p = panel OBVIOUS
  <2>4. PICK ws : ws = {w} OBVIOUS
  <2>5. writes' = writes \cup ws /\ panel' = p /\ p \in Panel BY <1>0, <2>1, <2>2, <2>3, <2>4
  <2>6. ~Bad(w.loan, causes') => StandsFor(w)' BY <1>6, <2>1, <2>2, <2>3, <2>5
  <2>7. w.op = op BY <1>0, <2>2, WriteFacts
  <2>8. \A u, v \in writes' : u.op = "save" /\ v.op = "save" /\ u.mount = v.mount => u = v
    BY <1>2, <2>4, <2>5, <2>7
  <2>9. \A v \in writes' : v.mount = p.mount /\ v.op = "save" => p.busy BY <1>2, <2>3, <2>4, <2>5, <2>7
  <2> QED BY <1>0, <1>1, <1>7, <2>1, <2>3, <2>4, <2>5, <2>6, <2>8, <2>9, SaveSends
<1>9. CASE SaveForm
  <2>1. PICK p : p = [panel EXCEPT !.busy = TRUE] OBVIOUS
  <2>2. panel' = p /\ typed' = typed /\ SaveBar BY <1>9, <2>1 DEF SaveForm
  <2>3. /\ p \in Panel /\ p.kind = panel.kind /\ p.mount = panel.mount /\ p.loan = panel.loan /\ p.load = panel.load
        /\ p.row = panel.row /\ p.form = panel.form /\ p.saved = panel.saved /\ p.read = panel.read /\ p.busy
    BY <1>0, <2>1 DEF Panel
  <2>4. PICK w : w = Write("save") OBVIOUS
  <2>5. w.op = "save" /\ w.mount = panel.mount BY <1>0, <2>4, WriteFacts
  <2>6. PICK ws : ws = {w} OBVIOUS
  <2>7. writes' = writes \cup ws BY <1>9, <2>4, <2>6 DEF SaveForm
  <2>8. ASSUME ~Bad(panel.loan, causes') PROVE panel.load = "done"
    <3>1. panel.load # "error" BY <1>0, <2>2 DEF PanelKin, SaveBar
    <3>2. panel.load # "first" BY <1>0, <2>2 DEF PanelKin, SaveBar, Dirty
    <3>3. ASSUME panel.load = "again" PROVE FALSE
      <4>1. causes' = Blame(Involved, "early") /\ panel.loan \in Involved BY <1>9, <3>3 DEF SaveForm, Involved
      <4>2. Bad(panel.loan, causes') BY <1>0, <4>1, BlameKeeps DEF Bad
      <4> QED BY <2>8, <4>2
    <3> QED BY <1>0, <3>1, <3>2, <3>3 DEF Panel
  <2>9. ~Bad(w.loan, causes') => StandsFor(w)' BY <1>6, <2>2, <2>3, <2>4, <2>8
  <2>10. ~panel.busy BY <2>2 DEF SaveBar
  <2>11. \A u, v \in writes' : u.op = "save" /\ v.op = "save" /\ u.mount = v.mount => u = v
    BY <1>2, <2>5, <2>6, <2>7, <2>10
  <2>12. \A v \in writes' : v.mount = p.mount /\ v.op = "save" => p.busy BY <2>3
  <2> QED BY <1>0, <1>1, <1>7, <2>2, <2>3, <2>6, <2>7, <2>9, <2>11, <2>12, SaveSends
<1> QED BY <1>3, <1>4, <1>8, <1>9 DEF FormUser

\* What a save puts into a record does not touch those of other loans.
LEMMA PutElsewhere ==
  ASSUME FormTypes, KinInv, NEW w \in writes, NEW part \in SUBSET w.form, rows' = Put(w, part),
         NEW l \in Loan, ~Foul(l, causes), By(w.kind) = "none" \/ l # w.loan
  PROVE  Elsewhere(l)
<1>0. w \in Writing /\ RowOf(w.row, w.kind, rows) /\ FormRecords /\ WritesKin
  BY DEF FormTypes, FormRecords, WriteBounds, KinInv
<1>1. PICK t : t = Target(w) OBVIOUS
<1>2. Grown(rows') /\ Len(rows) \in Nat /\ Len(rows') \in Nat
  <2>1. Grown(rows') BY <1>0, PutRows
  <2> QED BY <2>1, Members DEF Grown
<1>3. CASE rows' = rows BY <1>2, <1>3 DEF Elsewhere
<1>4. CASE t = 0 /\ By(w.kind) # "none"
           /\ rows' = Append(rows, [kind |-> w.kind, loan |-> w.loan, form |-> part, co |-> TRUE])
  <2>1. PICK r : r = [kind |-> w.kind, loan |-> w.loan, form |-> part, co |-> TRUE] OBVIOUS
  <2>2. r \in Row /\ r.loan = w.loan BY <1>0, <2>1 DEF Writing, Row
  <2>3. /\ Len(rows') = Len(rows) + 1 /\ rows'[Len(rows) + 1] = r
        /\ \A n \in 1..Len(rows) : rows'[n] = rows[n]
    BY <1>0, <1>4, <2>1, <2>2 DEF FormRecords
  <2> QED BY <1>2, <1>4, <2>2, <2>3 DEF Elsewhere
<1>5. CASE t \in 1..Len(rows) /\ By(w.kind) # "none" /\ Len(rows') = Len(rows)
           /\ \A n \in 1..Len(rows) : n # t => rows'[n] = rows[n]
  <2>1. rows[t].loan # l
    <3>1. CASE By(w.kind) = "id"
      <4>1. t = w.row /\ w.row # 0 BY <1>0, <1>1, <1>5, <3>1, TargetFacts, Members
      <4>2. Kin(rows[t].loan, w.loan, causes) BY <1>0, <1>5, <4>1 DEF WritesKin, RecordFor
      <4> QED BY <1>5, <4>2 DEF Kin
    <3>2. CASE By(w.kind) # "id"
      <4>1. rows[t].loan = w.loan BY <1>0, <1>1, <1>2, <1>5, <3>2, TargetFacts
      <4> QED BY <1>5, <4>1
    <3> QED BY <3>1, <3>2
  <2> QED BY <1>2, <1>5, <2>1 DEF Elsewhere
<1> QED BY <1>0, <1>1, <1>3, <1>4, <1>5, PutRows

\* A borrower who goes leaves the forms.
LEMMA RemovedForms ==
  ASSUME FormTypes, NEW w \in writes, w.op = "remove"
  PROVE  Len(Executed(w)) = Len(rows) /\ \A n \in 1..Len(rows) : Executed(w)[n].form = rows[n].form
<1>1. /\ Len(rows) \in Nat /\ DOMAIN rows = 1..Len(rows) /\ rows \in Seq(Row) /\ w.row \in 1..Len(rows)
      /\ \A n \in 1..Len(rows) : rows[n] \in Row
  BY Members DEF FormTypes, FormRecords, WriteBounds, RowOf
<1>2. PICK n : n = w.row OBVIOUS
<1>3. PICK r : r = [rows[n] EXCEPT !.co = FALSE] OBVIOUS
<1>4. r \in Row /\ r.form = rows[n].form BY <1>1, <1>2, <1>3 DEF Row
<1>5. Executed(w) = [rows EXCEPT ![n] = r] BY <1>2, <1>3 DEF Executed
<1> QED BY <1>1, <1>2, <1>4, <1>5

\* Nor does a write that runs; a borrower who comes or goes touches no form.
LEMMA RunElsewhere ==
  ASSUME FormTypes, KinInv, WriteKinds, NEW w \in writes, rows' = Executed(w),
         NEW l \in Loan, ~Foul(l, causes), By(w.kind) = "none" \/ l # w.loan \/ w.op \in {"add", "remove"}
  PROVE  Elsewhere(l)
<1>0. w \in Writing /\ w.kind \in FormKinds /\ FormRecords /\ Len(rows) \in Nat
  BY Members DEF FormTypes, FormRecords, Writing
<1>1. Grown(rows') BY ExecutedRows DEF FormTypes
<1>2. CASE w.op = "save"
  <2>1. PICK part : part = Taken(w.form) OBVIOUS
  <2>2. part \in SUBSET w.form /\ rows' = Put(w, part) BY <1>2, <2>1, Parts DEF Executed
  <2> QED BY <1>2, <2>2, PutElsewhere
<1>3. CASE w.op = "create"
  <2>1. By(w.kind) # "none"
    <3>1. Sections[w.kind].create BY <1>3 DEF WriteKinds
    <3> QED BY <1>0, <3>1, FormFacts
  <2>2. /\ Len(rows') = Len(rows) + 1 /\ rows'[Len(rows) + 1].loan = w.loan
        /\ \A n \in 1..Len(rows) : rows'[n] = rows[n]
    <3>1. PICK r : r = [kind |-> w.kind, loan |-> w.loan, form |-> {}, co |-> TRUE] OBVIOUS
    <3>2. /\ Len(rows') = Len(rows) + 1 /\ rows'[Len(rows) + 1] = r
          /\ \A n \in 1..Len(rows) : rows'[n] = rows[n]
      BY <1>3, <3>1, ExecutedRows DEF FormTypes
    <3> QED BY <3>1, <3>2
  <2> QED BY <1>0, <1>1, <1>3, <2>1, <2>2 DEF Elsewhere
<1>4. CASE w.op = "add"
  <2>1. rows' = rows BY <1>4 DEF Executed
  <2> QED BY <1>1, <2>1 DEF Elsewhere
<1>5. CASE w.op = "remove"
  <2>1. Len(rows') = Len(rows) /\ \A n \in 1..Len(rows) : rows'[n].form = rows[n].form BY <1>5, RemovedForms
  <2> QED BY <1>1, <2>1 DEF Elsewhere
<1> QED BY <1>0, <1>2, <1>3, <1>4, <1>5 DEF Writing

\* What is stored holds what is taken, after a save and after a part of it.
LEMMA PutTaken ==
  ASSUME FormTypes, StoredTaken, NEW w \in writes, NEW part \in SUBSET w.form, Taken(part) = part,
         rows' = Put(w, part), typed' = typed
  PROVE  StoredTaken'
<1>0. w \in Writing /\ RowOf(w.row, w.kind, rows) /\ FormRecords BY DEF FormTypes, FormRecords, WriteBounds
<1>1. \A form : Taken(form)' = Taken(form) BY DEF Taken
<1>2. Len(rows) \in Nat BY Members
<1>3. CASE rows' = rows BY <1>1, <1>3 DEF StoredTaken
<1>4. CASE Target(w) = 0 /\ rows' = Append(rows, [kind |-> w.kind, loan |-> w.loan, form |-> part, co |-> TRUE])
  <2>1. PICK r : r = [kind |-> w.kind, loan |-> w.loan, form |-> part, co |-> TRUE] OBVIOUS
  <2>2. r \in Row /\ r.form = part BY <1>0, <2>1 DEF Writing, Row
  <2>3. /\ Len(rows') = Len(rows) + 1 /\ rows'[Len(rows) + 1] = r
        /\ \A n \in 1..Len(rows) : rows'[n] = rows[n]
    BY <1>0, <1>4, <2>1, <2>2 DEF FormRecords
  <2>4. ASSUME NEW n \in 1..Len(rows'), NEW f, f = rows'[n].form PROVE Taken(f)' = f
    BY <1>1, <1>2, <2>2, <2>3, <2>4 DEF StoredTaken
  <2> QED BY <2>4 DEF StoredTaken, Taken
<1>5. ASSUME NEW t \in 1..Len(rows), Len(rows') = Len(rows), \A n \in 1..Len(rows) : n # t => rows'[n] = rows[n],
             rows'[t].form = IF w.kind = "urla" THEN rows[t].form \cup part ELSE part
      PROVE  StoredTaken'
  <2>1. ASSUME NEW n \in 1..Len(rows'), NEW f, f = rows'[n].form PROVE Taken(f)' = f
    <3>1. CASE n # t BY <1>1, <1>5, <2>1, <3>1 DEF StoredTaken
    <3>2. CASE n = t
      <4>1. PICK g : g = rows[t].form OBVIOUS
      <4>2. Taken(g) = g BY <1>5, <4>1 DEF StoredTaken
      <4>3. f = part \/ f = g \cup part BY <1>5, <2>1, <3>2, <4>1
      <4>4. Taken(f) = f BY <4>2, <4>3 DEF Taken
      <4> QED BY <1>1, <4>4
    <3> QED BY <3>1, <3>2
  <2> QED BY <2>1 DEF StoredTaken, Taken
<1>6. PICK t : t = Target(w) OBVIOUS
<1>7. \/ rows' = rows
      \/ Target(w) = 0 /\ rows' = Append(rows, [kind |-> w.kind, loan |-> w.loan, form |-> part, co |-> TRUE])
      \/ /\ t \in 1..Len(rows) /\ Len(rows') = Len(rows)
         /\ \A n \in 1..Len(rows) : n # t => rows'[n] = rows[n]
         /\ rows'[t].form = IF w.kind = "urla" THEN rows[t].form \cup part ELSE part
  BY <1>0, <1>6, PutRows
<1> QED BY <1>3, <1>4, <1>5, <1>7

\* So it does after a write.
LEMMA RunTaken ==
  ASSUME FormTypes, StoredTaken, NEW w \in writes, rows' = Executed(w), typed' = typed
  PROVE  StoredTaken'
<1>0. w \in Writing /\ FormRecords /\ Len(rows) \in Nat BY Members DEF FormTypes, FormRecords
<1>1. \A form : Taken(form)' = Taken(form) BY DEF Taken
<1>2. CASE w.op = "save"
  <2>1. PICK part : part = Taken(w.form) OBVIOUS
  <2>2. part \in SUBSET w.form /\ rows' = Put(w, part) /\ Taken(part) = part
    BY <1>2, <2>1, Parts, TakenFacts DEF Executed
  <2> QED BY <2>2, PutTaken
<1>3. CASE w.op = "create"
  <2>2. PICK r : r = [kind |-> w.kind, loan |-> w.loan, form |-> {}, co |-> TRUE] OBVIOUS
  <2>3. /\ Len(rows') = Len(rows) + 1 /\ rows'[Len(rows) + 1] = r /\ r.form = {}
        /\ \A n \in 1..Len(rows) : rows'[n] = rows[n]
    BY <1>3, <2>2, ExecutedRows DEF FormTypes
  <2>4. ASSUME NEW n \in 1..Len(rows'), NEW f, f = rows'[n].form PROVE Taken(f)' = f
    <3>1. CASE n = Len(rows) + 1
      <4>1. f = {} BY <2>3, <2>4, <3>1
      <4> QED BY <1>1, <4>1, TakenFacts
    <3>2. CASE n \in 1..Len(rows) BY <1>1, <2>3, <2>4, <3>2 DEF StoredTaken
    <3> QED BY <1>0, <2>3, <2>4, <3>1, <3>2
  <2> QED BY <2>4 DEF StoredTaken, Taken
<1>4. CASE w.op = "add"
  <2>1. rows' = rows BY <1>4 DEF Executed
  <2> QED BY <1>1, <2>1 DEF StoredTaken
<1>5. CASE w.op = "remove"
  <2>2. Len(rows') = Len(rows) /\ \A n \in 1..Len(rows) : rows'[n].form = rows[n].form BY <1>5, RemovedForms
  <2>3. ASSUME NEW n \in 1..Len(rows'), NEW f, f = rows'[n].form PROVE Taken(f)' = f
    BY <1>1, <2>2, <2>3 DEF StoredTaken
  <2> QED BY <2>3 DEF StoredTaken, Taken
<1> QED BY <1>0, <1>2, <1>3, <1>4, <1>5 DEF Writing

\* A form that stands goes on holding what it holds when its loan is not touched.
LEMMA HeldApart ==
  ASSUME FormTypes, KinInv, panel # NoPanel, panel.load = "done", By(panel.kind) # "none",
         ~Foul(panel.loan, causes), Elsewhere(panel.loan),
         panel'.kind = panel.kind, panel'.loan = panel.loan, panel'.row = panel.row
  PROVE  Held' = Held
<1>1. PICK n : n = panel.row OBVIOUS
<1>2. n # 0 => n \in 1..Len(rows) /\ rows[n].loan = panel.loan BY <1>1, OwnRecord
<1>3. n # 0 => rows'[n].form = rows[n].form BY <1>2 DEF Elsewhere
<1>4. By(panel.kind) = "id" => panel.row = 0 \/ rows'[panel.row].form = rows[panel.row].form BY <1>1, <1>3
<1> QED BY <1>4, HeldStays

\* Where no loan that is not blamed is touched, what is saved stays what is stored.
LEMMA SaveStays ==
  ASSUME FormTypes, CausesKept, Longer, KinInv, WriteKinds, SaveInv, StoredTaken', Saving',
         \A l \in Loan : ~Bad(l, causes') => Elsewhere(l),
         NEW p, panel' = p, panel = NoPanel => p = NoPanel,
         panel # NoPanel =>
           /\ p \in Panel /\ p.kind = panel.kind /\ p.mount = panel.mount /\ p.loan = panel.loan
           /\ p.load = panel.load /\ p.row = panel.row /\ p.read = panel.read /\ p.saved = panel.saved
           /\ p.form = panel.form,
         NEW ws, writes' \subseteq writes \cup ws,
         \A w \in ws : By(w.kind) # "none" /\ ~Bad(w.loan, causes') => StandsFor(w)',
         \A w \in writes : Ours(w) /\ w.op = "save" /\ w.done /\ ~Bad(w.loan, causes') => w \in writes'
  PROVE  SaveInv'
<1>0. Standing /\ SavedShown BY DEF SaveInv
<1>1. CASE panel = NoPanel
  <2>1. SavedShown' BY <1>1 DEF SavedShown
  <2>2. ASSUME NEW w \in writes', By(w.kind) # "none", ~Bad(w.loan, causes') PROVE StandsFor(w)'
    <3>1. CASE w \in ws BY <2>2, <3>1
    <3>2. CASE w \in writes
      <4>1. w.loan \in Loan BY <3>2 DEF FormTypes, FormRecords, Writing
      <4>2. Ours(w) BY <1>0, <2>2, <3>2, <4>1, BadFacts DEF Standing, StandsFor
      <4> QED BY <1>1, <4>2 DEF Ours
    <3> QED BY <2>2, <3>1, <3>2
  <2>3. Standing' BY <2>2 DEF Standing
  <2> QED BY <2>1, <2>3 DEF SaveInv
<1>2. CASE panel # NoPanel
  <2>0. panel \in Panel /\ panel.loan \in Loan BY <1>2, Mounted
  <2>1. ASSUME ~Bad(panel.loan, causes'), By(panel.kind) # "none", panel.load = "done" PROVE Held' = Held
    <3>1. ~Foul(panel.loan, causes) BY <2>0, <2>1, BadFacts
    <3>2. Elsewhere(panel.loan) BY <2>0, <2>1
    <3> QED BY <1>2, <2>1, <3>1, <3>2, HeldApart
  <2>2. ASSUME NEW w \in writes, By(w.kind) # "none", ~Bad(w.loan, causes') PROVE StandsFor(w)'
    <3>1. w \in Writing /\ w.loan \in Loan BY DEF FormTypes, FormRecords, Writing
    <3>2. ~Bad(w.loan, causes) BY <2>2, <3>1, BadFacts
    <3>3. Ours(w) /\ panel.loan = w.loan /\ panel.load = "done" BY <1>0, <2>2, <3>2 DEF Standing, StandsFor
    <3>4. panel.kind = w.kind BY <3>3 DEF FormTypes, WriteBounds
    <3>5. Held' = Held BY <2>1, <2>2, <3>3, <3>4
    <3>6. ASSUME w.op = "create", w.done PROVE rows'[w.row].form = rows[w.row].form
      <4>1. w.row # 0 /\ w.row \in 1..Len(rows) BY <3>6 DEF FormTypes, WriteBounds, RowOf, WriteKinds
      <4>2. Kin(rows[w.row].loan, w.loan, causes) BY <2>2, <4>1 DEF KinInv, WritesKin, RecordFor
      <4>3. rows[w.row].loan = w.loan BY <3>1, <3>2, <4>2, BadFacts DEF Kin
      <4>4. Elsewhere(w.loan) BY <2>2, <3>1
      <4> QED BY <4>1, <4>3, <4>4 DEF Elsewhere
    <3> QED BY <1>0, <1>2, <2>2, <3>5, <3>6, StandsStill
  <2>3. Standing' BY <2>2 DEF Standing
  <2>4. \A w \in writes : Ours(w) /\ w.op = "save" /\ w.done /\ w.loan = panel.loan /\ ~Bad(panel.loan, causes') => w \in writes'
    OBVIOUS
  <2>5. SavedShown' BY <1>0, <1>2, <2>0, <2>1, <2>4, ShownStill
  <2> QED BY <2>3, <2>5 DEF SaveInv
<1> QED BY <1>1, <1>2

\* Mounts have one save after a write ran, was answered or failed as before.
LEMMA SavingRuns ==
  ASSUME Saving, NEW w \in writes, NEW ws, writes' = (writes \ {w}) \cup ws,
         \A v \in ws : v.op = w.op /\ v.mount = w.mount, \A u, v \in ws : u = v,
         NEW p, panel' = p, panel = NoPanel => p = NoPanel, panel # NoPanel => p # NoPanel /\ p.mount = panel.mount,
         panel # NoPanel /\ panel.busy => p.busy \/ (ws = {} /\ Ours(w) /\ w.op = "save")
  PROVE  Saving'
<1>1. ASSUME NEW u \in writes', NEW v \in writes', u.op = "save", v.op = "save", u.mount = v.mount PROVE u = v
  <2>1. CASE u \in writes /\ v \in writes BY <1>1, <2>1 DEF Saving
  <2>2. CASE u \in ws /\ v \in ws BY <2>2
  <2>3. CASE u \in writes \ {w} /\ v \in ws
    <3>1. w.op = "save" /\ w.mount = u.mount BY <1>1, <2>3
    <3> QED BY <1>1, <2>3, <3>1 DEF Saving
  <2>4. CASE u \in ws /\ v \in writes \ {w}
    <3>1. w.op = "save" /\ w.mount = v.mount BY <1>1, <2>4
    <3> QED BY <1>1, <2>4, <3>1 DEF Saving
  <2> QED BY <1>1, <2>1, <2>2, <2>3, <2>4
<1>2. ASSUME NEW u \in writes', p # NoPanel, p.mount = u.mount, u.op = "save" PROVE p.busy
  <2>1. PICK x \in writes : x.op = "save" /\ x.mount = u.mount /\ (u \in ws \/ x # w) BY <1>2
  <2>2. Ours(x) BY <1>2, <2>1 DEF Ours
  <2>3. panel # NoPanel /\ panel.busy BY <2>1, <2>2 DEF Saving, Ours
  <2>4. ASSUME ws = {}, Ours(w), w.op = "save" PROVE FALSE
    <3>1. x # w BY <2>1, <2>4
    <3> QED BY <2>1, <2>2, <2>4, <3>1 DEF Saving, Ours
  <2> QED BY <2>3, <2>4
<1> QED BY <1>1, <1>2 DEF Saving, Ours

\* What a save put is what the record of the form holds.
LEMMA PutHeld ==
  ASSUME FormTypes, NEW w \in writes, By(w.kind) # "none", NEW part \in SUBSET w.form, rows' = Put(w, part),
         panel' = panel, panel.kind = w.kind, panel.loan = w.loan, panel.row = w.row,
         By(w.kind) = "id" => w.row # 0
  PROVE  Held' = part \/ (panel.kind = "urla" /\ part \subseteq Held')
<1>0. w \in Writing /\ w.kind \in FormKinds /\ RowOf(w.row, w.kind, rows) /\ FormRecords /\ Len(rows) \in Nat
  BY Members DEF FormTypes, FormRecords, WriteBounds, Writing
<1>1. PICK t : t = Target(w) OBVIOUS
<1>2. CASE By(w.kind) = "id"
  <2>1. t = w.row /\ t \in 1..Len(rows) BY <1>0, <1>1, <1>2, TargetFacts DEF RowOf
  <2>2. t # 0 /\ ~(w.kind = "urla" /\ t = 0) BY <1>0, <2>1
  <2>3. PICK f : f = IF w.kind = "urla" THEN rows[t].form \cup part ELSE part OBVIOUS
  <2>4. rows[t] \in Row BY <2>1, Members
  <2>5. PICK r : r = [rows[t] EXCEPT !.form = f] OBVIOUS
  <2>6. r.form = f BY <2>4, <2>5 DEF Row
  <2>7. rows' = [rows EXCEPT ![t] = r] BY <1>1, <2>2, <2>3, <2>5 DEF Put
  <2>8. rows'[t].form = f BY <1>0, <2>1, <2>6, <2>7 DEF FormRecords
  <2>9. Record' = t BY <1>2, <2>1 DEF Record
  <2>10. Held' = f BY <2>2, <2>8, <2>9 DEF Held
  <2> QED BY <2>3, <2>10
<1>3. CASE By(w.kind) = "loan"
  <2>0. w.kind # "urla" BY <1>0, <1>3, FormFacts
  <2>1. PICK k, l : k = w.kind /\ l = w.loan OBVIOUS
  <2>2. t = Found(k, l).at BY <1>1, <1>3, <2>1 DEF Target
  <2>3. Record' = Found(k, l)'.at BY <1>3, <2>1 DEF Record
  <2>4. RowsOf(k, l)' = {n \in DOMAIN rows' : rows'[n].kind = k /\ rows'[n].loan = l} BY DEF RowsOf
  <2>5. RowsOf(k, l) = {n \in DOMAIN rows : rows[n].kind = k /\ rows[n].loan = l} BY DEF RowsOf
  <2>6. CASE t = 0
    <3>0. Found(k, l).at = 0 BY <2>2, <2>6
    <3>1. RowsOf(k, l) = {} BY <1>0, <3>0, FoundFacts
    <3>2. PICK r : r = [kind |-> w.kind, loan |-> w.loan, form |-> part, co |-> TRUE] OBVIOUS
    <3>3. r \in Row /\ r.form = part /\ r.kind = k /\ r.loan = l BY <1>0, <2>1, <3>2 DEF Writing, Row
    <3>4. rows' = Append(rows, r) BY <1>1, <1>3, <2>0, <2>6, <3>2 DEF Put
    <3>5. /\ DOMAIN rows' = 1..Len(rows) + 1 /\ rows'[Len(rows) + 1] = r /\ DOMAIN rows = 1..Len(rows)
          /\ \A n \in 1..Len(rows) : rows'[n] = rows[n]
      BY <1>0, <3>3, <3>4 DEF FormRecords
    <3>6. RowsOf(k, l)' = {Len(rows) + 1} BY <1>0, <2>4, <2>5, <3>1, <3>3, <3>5
    <3>7. PICK S : S = RowsOf(k, l)' OBVIOUS
    <3>8. S \subseteq 0..Len(rows) + 1 /\ S # {} /\ Len(rows) + 1 \in Nat BY <1>0, <3>6, <3>7
    <3>9. Max(S) \in S BY <3>8, MaxOf
    <3>10. Max(S) = Len(rows) + 1 BY <3>6, <3>7, <3>9
    <3>11. Found(k, l)' = [at |-> Max(S), form |-> rows'[Max(S)].form] BY <3>7, <3>8 DEF Found
    <3>12. Record' = Len(rows) + 1 BY <2>3, <3>10, <3>11
    <3>13. Held' = part BY <1>0, <3>3, <3>5, <3>12 DEF Held
    <3> QED BY <3>13
  <2>7. CASE t # 0
    <3>1. t \in 1..Len(rows) /\ t \in RowsOf(k, l)
      BY <1>0, <2>2, <2>5, <2>7, FoundFacts, Members
    <3>2. /\ Grown(rows') /\ Len(rows') = Len(rows) /\ rows'[t].form = part
      <4>1. Grown(rows') BY <1>0, PutRows
      <4>2. rows[t] \in Row BY <3>1, Members
      <4>3. PICK r : r = [rows[t] EXCEPT !.form = part] OBVIOUS
      <4>4. r.form = part BY <4>2, <4>3 DEF Row
      <4>5. rows' = [rows EXCEPT ![t] = r] BY <1>1, <1>3, <2>0, <2>7, <4>3 DEF Put
      <4>6. rows'[t] = r /\ Len(rows') = Len(rows) BY <1>0, <3>1, <4>5 DEF FormRecords
      <4> QED BY <4>1, <4>4, <4>6
    <3>3. DOMAIN rows = 1..Len(rows) /\ DOMAIN rows' = 1..Len(rows) BY <3>2, Members DEF Grown
    <3>4. RowsOf(k, l)' = RowsOf(k, l)
      <4>1. \A n \in 1..Len(rows) : rows'[n].kind = rows[n].kind /\ rows'[n].loan = rows[n].loan BY <3>2 DEF Grown
      <4> QED BY <2>4, <2>5, <3>3, <4>1
    <3>5. PICK m : m = Max(RowsOf(k, l)) OBVIOUS
    <3>6. Found(k, l).at = m BY <3>1, <3>5 DEF Found
    <3>7. Found(k, l)' = [at |-> m, form |-> rows'[m].form] BY <3>1, <3>4, <3>5 DEF Found
    <3>8. Record' = t BY <2>2, <2>3, <3>6, <3>7
    <3>9. Held' = part BY <2>7, <3>2, <3>8 DEF Held
    <3> QED BY <3>9
  <2> QED BY <2>6, <2>7
<1> QED BY <1>0, <1>2, <1>3, FormFacts

\* A write that runs.
LEMMA SaveRuns ==
  ASSUME FormTypes, CausesKept, KinInv, WriteKinds, SaveInv, NEW w \in writes, WriteRuns(w)
  PROVE  SaveInv'
<1>0. /\ ~w.done /\ ~Refused(w) /\ rows' = Executed(w) /\ UNCHANGED <<panel, typed, causes>>
      /\ StoredTaken /\ Saving /\ Standing /\ SavedShown
      /\ w \in Writing /\ w.loan \in Loan /\ w.kind \in FormKinds /\ w.kind # "escrow"
  BY DEF WriteRuns, SaveInv, FormTypes, FormRecords, Writing, Refused
<1>1. PICK v \in Writing :
        /\ writes' = (writes \ {w}) \cup {v}
        /\ v.op = w.op /\ v.mount = w.mount /\ v.kind = w.kind /\ v.loan = w.loan /\ v.form = w.form /\ v.done
        /\ v.row = IF w.op = "create" THEN Len(rows) + 1 ELSE w.row
  BY RanFacts
<1>2. PICK ws : ws = {v} OBVIOUS
<1>3. PICK p : p = panel OBVIOUS
<1>4. Longer BY <1>0, Members DEF Longer, FormTypes, FormRecords
<1>5. StoredTaken' BY <1>0, RunTaken
<1>6. writes' = (writes \ {w}) \cup ws BY <1>1, <1>2
<1>7. Saving'
  <2>1. \A u \in ws : u.op = w.op /\ u.mount = w.mount BY <1>1, <1>2
  <2>2. \A u, x \in ws : u = x BY <1>2
  <2> QED BY <1>0, <1>3, <1>6, <2>1, <2>2, SavingRuns
<1>8. \A form : Taken(form)' = Taken(form) BY <1>0 DEF Taken
<1>9. ASSUME By(w.kind) # "none", ~Bad(w.loan, causes)
      PROVE  /\ panel # NoPanel /\ panel \in Panel /\ Ours(w) /\ panel.loan = w.loan /\ panel.load = "done"
             /\ panel.row = (IF w.op = "create" THEN 0 ELSE w.row) /\ panel.kind = w.kind
             /\ w.kind = "urla" /\ w.row = 0 => Taken(w.form) = {}
  <2>1. StandsFor(w) BY <1>0, <1>9 DEF Standing
  <2>2. panel # NoPanel /\ panel.kind = w.kind BY <2>1 DEF StandsFor, Ours, FormTypes, WriteBounds
  <2> QED BY <2>1, <2>2, Mounted DEF StandsFor
<1>10. CASE By(w.kind) = "none" \/ Bad(w.loan, causes) \/ w.op \in {"add", "remove"}
  <2>1. ASSUME NEW l \in Loan, ~Bad(l, causes') PROVE Elsewhere(l)
    <3>1. ~Foul(l, causes) BY <1>0, <2>1, BadFacts
    <3> QED BY <1>0, <1>10, <2>1, <3>1, RunElsewhere
  <2>2. ASSUME By(v.kind) # "none", ~Bad(v.loan, causes') PROVE StandsFor(v)'
    <3>1. w.op \in {"add", "remove"} BY <1>0, <1>1, <1>10, <2>2
    <3>2. Taken(v.form)' = Taken(w.form) BY <1>1, <1>8
    <3> QED BY <1>0, <1>1, <1>9, <2>2, <3>1, <3>2 DEF StandsFor, Ours
  <2>3. \A u \in ws : By(u.kind) # "none" /\ ~Bad(u.loan, causes') => StandsFor(u)' BY <1>2, <2>2
  <2>4. \A u \in writes : Ours(u) /\ u.op = "save" /\ u.done /\ ~Bad(u.loan, causes') => u \in writes' BY <1>0, <1>6
  <2>5. panel # NoPanel => p \in Panel BY <1>3, Mounted
  <2>6. writes' \subseteq writes \cup ws BY <1>6
  <2> QED BY <1>0, <1>3, <1>4, <1>5, <1>7, <2>1, <2>3, <2>4, <2>5, <2>6, SaveStays
<1>11. CASE By(w.kind) # "none" /\ ~Bad(w.loan, causes) /\ w.op = "create"
  <2>1. Sections[w.kind].create BY <1>11 DEF WriteKinds
  <2>2. w.kind \in {"appraisal", "title"} /\ By(w.kind) = "id" BY <1>0, <2>1, FormFacts
  <2>3. Held = {} /\ Held' = {}
    <3>1. Record = 0 /\ Record' = 0 BY <1>0, <1>9, <1>11, <2>2 DEF Record
    <3> QED BY <3>1 DEF Held
  <2>4. rows'[Len(rows) + 1].form = {}
    <3>1. PICK r : r = [kind |-> w.kind, loan |-> w.loan, form |-> {}, co |-> TRUE] OBVIOUS
    <3>2. rows'[Len(rows) + 1] = r BY <1>0, <1>11, <3>1, ExecutedRows DEF FormTypes
    <3> QED BY <3>1, <3>2
  <2>5. StandsFor(v)'
    <3>1. rows'[v.row].form = {} BY <1>1, <1>11, <2>4
    <3> QED BY <1>0, <1>1, <1>9, <1>11, <2>2, <3>1 DEF StandsFor, Ours
  <2>6. ASSUME NEW u \in writes \ {w}, By(u.kind) # "none", ~Bad(u.loan, causes') PROVE StandsFor(u)'
    <3>1. u.loan \in Loan BY DEF FormTypes, FormRecords, Writing
    <3>2. Ours(u) BY <1>0, <2>6, <3>1 DEF Standing, StandsFor
    <3>3. u.op # "create" BY <1>9, <1>11, <3>2 DEF WriteKinds, Ours
    <3> QED BY <1>0, <1>4, <1>9, <1>11, <2>3, <2>6, <3>3, StandsStill
  <2>7. Standing' BY <1>1, <2>5, <2>6 DEF Standing
  <2>8. \A u \in writes : Ours(u) /\ u.op = "save" /\ u.done /\ u.loan = panel.loan => u \in writes' BY <1>0, <1>6
  <2>9. SavedShown' BY <1>0, <1>3, <1>4, <1>9, <1>11, <2>3, <2>8, ShownStill
  <2> QED BY <1>5, <1>7, <2>7, <2>9 DEF SaveInv
<1>12. CASE By(w.kind) # "none" /\ ~Bad(w.loan, causes) /\ w.op = "save"
  <2>1. PICK T : T = Taken(w.form) OBVIOUS
  <2>2. T \in SUBSET w.form /\ rows' = Put(w, T) BY <1>0, <1>12, <2>1, Parts DEF Executed
  <2>3. Match(w.form)'
    <3>1. CASE By(w.kind) = "id" /\ w.row = 0
      <4>1. w.kind = "urla"
        <5>1. w.kind \notin OfList BY <1>12, <3>1 DEF WriteKinds
        <5> QED BY <1>0, <3>1, <5>1, FormFacts DEF OfList
      <4>2. Record' = 0 BY <1>0, <1>9, <1>12, <3>1 DEF Record
      <4>3. Held' = {} BY <4>2 DEF Held
      <4>4. Taken(w.form)' = {} BY <1>8, <1>9, <1>12, <3>1, <4>1
      <4> QED BY <4>3, <4>4 DEF Match
    <3>2. CASE By(w.kind) = "id" => w.row # 0
      <4>1. Held' = T \/ (panel.kind = "urla" /\ T \subseteq Held')
        BY <1>0, <1>9, <1>12, <2>2, <3>2, PutHeld
      <4>2. Taken(w.form)' = T BY <1>8, <2>1
      <4> QED BY <1>0, <4>1, <4>2 DEF Match
    <3> QED BY <3>1, <3>2
  <2>4. Match(v.form)' <=> Match(w.form)' BY <1>1 DEF Match, Taken
  <2>5. Taken(v.form)' = Taken(w.form) BY <1>1, <1>8
  <2>6. StandsFor(v)' BY <1>0, <1>1, <1>9, <1>12, <2>3, <2>4, <2>5 DEF StandsFor, Ours
  <2>7. ASSUME NEW u \in writes \ {w}, By(u.kind) # "none", ~Bad(u.loan, causes') PROVE StandsFor(u)'
    <3>1. u \in Writing /\ u.loan \in Loan /\ u.kind \in FormKinds BY DEF FormTypes, FormRecords, Writing
    <3>2. StandsFor(u) BY <1>0, <2>7, <3>1 DEF Standing
    <3>3. Ours(u) /\ panel.kind = u.kind BY <3>2 DEF StandsFor, FormTypes, WriteBounds
    <3>4. u.op # "save" BY <1>0, <1>9, <1>12, <2>7, <3>3 DEF Saving, Ours
    <3>5. u.op # "create"
      <4>1. SUFFICES ASSUME u.op = "create" PROVE FALSE OBVIOUS
      <4>2. Sections[u.kind].create BY <4>1 DEF WriteKinds
      <4>3. u.kind \in {"appraisal", "title"} BY <1>0, <1>9, <1>12, <3>1, <3>3, <4>2, FormFacts
      <4>4. w.row # 0 BY <1>9, <1>12, <3>3, <4>3 DEF WriteKinds, OfList
      <4>5. panel.row = 0 BY <3>2, <4>1 DEF StandsFor
      <4> QED BY <1>9, <1>12, <4>4, <4>5
    <3>6. Taken(u.form)' = Taken(u.form) BY <1>8
    <3> QED BY <1>0, <3>2, <3>4, <3>5, <3>6 DEF StandsFor, Ours
  <2>8. Standing' BY <1>1, <2>6, <2>7 DEF Standing
  <2>9. SavedShown'
    <3>1. v \in writes' /\ Ours(v)' /\ v.op = "save" /\ v.done /\ v.loan = panel.loan
      BY <1>0, <1>1, <1>9, <1>12 DEF Ours
    <3>2. ASSUME panel.kind = "urla", panel.row = 0 PROVE Taken(panel.form)' = {} /\ Taken(panel.saved)' = {}
      <4>1. Taken(panel.form) = {} /\ Taken(panel.saved) = {} BY <1>0, <1>9, <1>12, <3>2 DEF SavedShown
      <4> QED BY <1>0, <4>1 DEF Taken
    <3> QED BY <1>0, <1>9, <1>12, <3>1, <3>2 DEF SavedShown
  <2> QED BY <1>5, <1>7, <2>8, <2>9 DEF SaveInv
<1> QED BY <1>0, <1>10, <1>11, <1>12 DEF Writing

\* One that is answered: what it created or saved is what the form now stands for.
LEMMA SaveAnswers ==
  ASSUME FormTypes, CausesKept, KinInv, WriteKinds, SaveInv, NEW w \in writes, WriteAnswered(w)
  PROVE  SaveInv'
<1>0. /\ w.done /\ writes' = writes \ {w} /\ UNCHANGED <<rows, typed>> /\ w.op # "remove"
      /\ StoredTaken /\ Saving /\ Standing /\ SavedShown
      /\ w \in Writing /\ w.loan \in Loan /\ w.kind \in FormKinds
  BY DEF WriteAnswered, SaveInv, FormTypes, FormRecords, Writing
<1>1. Longer BY <1>0, Members DEF Longer, FormTypes, FormRecords
<1>2. StoredTaken' BY <1>0, <1>1, StoredStays
<1>3. \A l : Elsewhere(l) BY <1>0 DEF Elsewhere, Grown, FormTypes, FormRecords
<1>4. \A form : Taken(form)' = Taken(form) BY <1>0 DEF Taken
<1>5. PICK ws : ws = {} OBVIOUS
<1>6. writes' = (writes \ {w}) \cup ws /\ writes' \subseteq writes \cup ws BY <1>0, <1>5
<1>7. CASE ~Ours(w)
  <2>1. PICK p : p = panel OBVIOUS
  <2>2. panel' = p /\ (panel # NoPanel => p \in Panel) BY <1>7, <2>1, Mounted DEF WriteAnswered
  <2>3. Saving' BY <1>0, <1>5, <1>6, <2>1, <2>2, SavingRuns
  <2>4. \A u \in writes : Ours(u) /\ u.op = "save" /\ u.done /\ ~Bad(u.loan, causes') => u \in writes' BY <1>0, <1>7
  <2> QED BY <1>1, <1>2, <1>3, <1>5, <1>6, <2>1, <2>2, <2>3, <2>4, SaveStays
<1>8. CASE Ours(w)
  <2>0. panel # NoPanel /\ panel \in Panel /\ panel.loan \in Loan /\ panel.kind = w.kind /\ panel.mount = w.mount
    BY <1>8, Mounted DEF Ours, FormTypes, WriteBounds
  <2>1. PICK p : p = Answered(w) OBVIOUS
  <2>2. panel' = p BY <1>8, <2>1 DEF WriteAnswered
  <2>3. /\ p \in Panel /\ p.kind = panel.kind /\ p.mount = panel.mount /\ p.loan = panel.loan
        /\ p.read = panel.read /\ p.load = panel.load
        /\ \/ /\ w.op = "create" /\ p.row = w.row /\ p.form = {} /\ p.saved = {} /\ p.busy = panel.busy
           \/ /\ w.op = "save" /\ p.row = panel.row /\ p.form = panel.form /\ p.saved = w.form /\ p.busy = FALSE
           \/ /\ w.op \in {"add", "remove"} /\ p.row = panel.row /\ p.form = panel.form /\ p.saved = panel.saved
              /\ p.busy = panel.busy
    BY <1>0, <2>0, <2>1, AnsweredFacts
  <2>4. p # NoPanel BY <2>3, NoPanelKind
  <2>5. Saving'
    <3>1. panel # NoPanel /\ panel.busy => p.busy \/ (ws = {} /\ Ours(w) /\ w.op = "save") BY <1>5, <1>8, <2>3
    <3> QED BY <1>0, <1>5, <1>6, <2>0, <2>2, <2>3, <2>4, <3>1, SavingRuns
  <2>6. CASE w.op = "add"
    <3>1. \A u \in writes : Ours(u) /\ u.op = "save" /\ u.done /\ ~Bad(u.loan, causes') => u \in writes'
      BY <1>0, <2>6
    <3> QED BY <1>1, <1>2, <1>3, <1>5, <1>6, <2>0, <2>2, <2>3, <2>5, <2>6, <3>1, SaveStays
  <2>7. ASSUME By(panel.kind) = "none" \/ Bad(panel.loan, causes') PROVE SaveInv'
    <3>1. SavedShown' BY <2>2, <2>3, <2>7 DEF SavedShown
    <3>2. ASSUME NEW u \in writes', By(u.kind) # "none" PROVE Bad(u.loan, causes')
      <4>1. SUFFICES ASSUME ~Bad(u.loan, causes') PROVE FALSE OBVIOUS
      <4>2. u \in writes /\ u.loan \in Loan BY <1>0, <3>2 DEF FormTypes, FormRecords, Writing
      <4>3. StandsFor(u) BY <1>0, <3>2, <4>1, <4>2, BadFacts DEF Standing
      <4>4. panel.loan = u.loan /\ panel.kind = u.kind BY <4>2, <4>3 DEF StandsFor, FormTypes, WriteBounds
      <4> QED BY <2>7, <3>2, <4>1, <4>4
    <3>3. Standing' BY <3>2 DEF Standing
    <3> QED BY <1>2, <2>5, <3>1, <3>3 DEF SaveInv
  <2>8. CASE panel.loan # w.loan
    <3>1. causes' = Blame(Involved \cup {w.loan}, "late") BY <1>8, <2>8 DEF WriteAnswered
    <3>2. panel.loan \in Involved \cup {w.loan} BY DEF Involved
    <3>3. Bad(panel.loan, causes') BY <2>0, <3>1, <3>2, BlameKeeps DEF Bad
    <3> QED BY <2>7, <3>3
  <2>9. CASE panel.loan = w.loan /\ By(panel.kind) # "none" /\ ~Bad(panel.loan, causes') /\ w.op # "add"
    <3>0. ~Bad(w.loan, causes) BY <1>0, <2>9, BadFacts
    <3>1. /\ panel.load = "done" /\ panel.row = (IF w.op = "create" THEN 0 ELSE w.row) /\ w.kind # "escrow"
          /\ w.op = "create" => rows[w.row].form = {}
          /\ w.op = "save" => Match(w.form)
          /\ w.kind = "urla" /\ w.row = 0 => Taken(w.form) = {}
      BY <1>0, <2>0, <2>9, <3>0 DEF Standing, StandsFor
    <3>2. CASE w.op = "create"
      <4>1. w.row # 0 /\ Sections[w.kind].create BY <1>0, <3>2 DEF WriteKinds
      <4>2. w.kind \in {"appraisal", "title"} /\ By(w.kind) = "id" BY <1>0, <3>1, <4>1, FormFacts
      <4>3. p.row = w.row /\ p.form = {} /\ p.saved = {} BY <2>3, <3>2
      <4>4. Record' = w.row BY <2>0, <2>2, <2>3, <4>2, <4>3 DEF Record
      <4>5. Held' = {} BY <1>0, <3>1, <3>2, <4>1, <4>4 DEF Held
      <4>6. Taken({})' = {} BY <1>4, TakenFacts
      <4>7. Match(p.saved)' BY <4>3, <4>5, <4>6 DEF Match
      <4>8. SavedShown' BY <2>0, <2>2, <2>3, <3>1, <4>2, <4>7 DEF SavedShown
      <4>9. ASSUME NEW u \in writes', By(u.kind) # "none" PROVE Bad(u.loan, causes')
        <5>1. SUFFICES ASSUME ~Bad(u.loan, causes') PROVE FALSE OBVIOUS
        <5>2. u \in writes /\ u # w /\ u \in Writing /\ u.loan \in Loan BY <1>0, <4>9 DEF FormTypes, FormRecords, Writing
        <5>3. StandsFor(u) BY <1>0, <4>9, <5>1, <5>2, BadFacts DEF Standing
        <5>4. Ours(u) /\ u.mount = w.mount /\ u.kind = w.kind
          BY <2>0, <5>2, <5>3 DEF StandsFor, Ours, FormTypes, WriteBounds
        <5>5. u.op # "create" BY <3>2, <5>2, <5>4 DEF WriteKinds
        <5>6. u.row = 0 BY <3>1, <3>2, <5>3, <5>5 DEF StandsFor
        <5>7. u.op = "save" BY <4>2, <5>2, <5>4, <5>5 DEF WriteKinds, Writing
        <5> QED BY <4>2, <5>2, <5>4, <5>6, <5>7 DEF WriteKinds, OfList
      <4>10. Standing' BY <4>9 DEF Standing
      <4> QED BY <1>2, <2>5, <4>8, <4>10 DEF SaveInv
    <3>3. CASE w.op = "save"
      <4>1. p.row = panel.row /\ p.saved = w.form /\ p.form = panel.form BY <2>3, <3>3
      <4>2. panel'.kind = panel.kind /\ panel'.loan = panel.loan /\ panel'.row = panel.row BY <2>2, <2>3, <4>1
      <4>3. Held' = Held BY <1>0, <1>3, <4>2, HeldStays
      <4>4. Made(w.form, typed) BY DEF FormTypes, WriteBounds
      <4>5. Match(w.form)' BY <1>1, <3>1, <3>3, <4>2, <4>3, <4>4, MatchStays
      <4>6. ASSUME panel.kind = "urla", panel.row = 0 PROVE Taken(p.form)' = {} /\ Taken(p.saved)' = {}
        <5>1. Taken(panel.form) = {} BY <1>0, <2>0, <2>9, <3>0, <3>1, <4>6 DEF SavedShown
        <5>2. Taken(w.form) = {} BY <2>0, <3>1, <3>3, <4>6
        <5> QED BY <1>0, <4>1, <5>1, <5>2 DEF Taken
      <4>7. Match(p.saved)' <=> Match(w.form)' BY <4>1 DEF Match, Taken
      <4>8. SavedShown' BY <2>0, <2>2, <2>3, <2>9, <3>1, <4>1, <4>5, <4>6, <4>7 DEF SavedShown
      <4>9. ASSUME NEW u \in writes', By(u.kind) # "none", ~Bad(u.loan, causes') PROVE StandsFor(u)'
        <5>1. u \in writes BY <1>0, <4>9
        <5>2. u.op = "create" /\ u.done => rows'[u.row].form = rows[u.row].form BY <1>0
        <5> QED BY <1>0, <1>1, <2>2, <2>3, <4>1, <4>3, <4>9, <5>1, <5>2, StandsStill
      <4>10. Standing' BY <4>9 DEF Standing
      <4> QED BY <1>2, <2>5, <4>8, <4>10 DEF SaveInv
    <3> QED BY <1>0, <2>9, <3>2, <3>3 DEF Writing
  <2> QED BY <2>6, <2>7, <2>8, <2>9
<1> QED BY <1>7, <1>8

\* One that fails: if the server did any of it, it is blamed.
LEMMA SaveFails ==
  ASSUME FormTypes, CausesKept, KinInv, WriteKinds, SaveInv, NEW w \in writes, WriteFails(w)
  PROVE  SaveInv'
<1>0. /\ writes' = writes \ {w} /\ typed' = typed /\ StoredTaken /\ Saving /\ Standing /\ SavedShown
      /\ w \in Writing /\ w.loan \in Loan
  BY DEF WriteFails, SaveInv, FormTypes, FormRecords, Writing
<1>1. Longer BY <1>0, Members DEF Longer, FormTypes, FormRecords
<1>2. w.done \/ rows' # rows => Bad(w.loan, causes')
  <2>1. SUFFICES ASSUME w.done \/ rows' # rows PROVE Bad(w.loan, causes') OBVIOUS
  <2>2. causes' = Blame({w.loan}, "unanswered") BY <2>1 DEF WriteFails
  <2>3. w.loan \in {w.loan} OBVIOUS
  <2> QED BY <1>0, <2>2, <2>3, BlameKeeps DEF Bad
<1>3. rows' = rows \/ \E part \in SUBSET Storable(w) : rows' = Put(w, part) BY DEF WriteFails
<1>4. StoredTaken' /\ \A l \in Loan : ~Bad(l, causes') => Elsewhere(l)
  <2>1. CASE rows' = rows
    <3>1. \A l : Elsewhere(l) BY <2>1 DEF Elsewhere, Grown, FormTypes, FormRecords
    <3> QED BY <1>0, <1>1, <2>1, <3>1, StoredStays
  <2>2. CASE rows' # rows
    <3>1. PICK part \in SUBSET Storable(w) : rows' = Put(w, part) BY <1>3, <2>2
    <3>2. part \in SUBSET w.form /\ Taken(part) = part BY Parts DEF Storable, Taken
    <3>3. StoredTaken' BY <1>0, <3>1, <3>2, PutTaken
    <3>4. ASSUME NEW l \in Loan, ~Bad(l, causes') PROVE Elsewhere(l)
      <4>1. ~Foul(l, causes) /\ l # w.loan BY <1>2, <2>2, <3>4, BadFacts
      <4> QED BY <3>1, <3>2, <4>1, PutElsewhere
    <3> QED BY <3>3, <3>4
  <2> QED BY <2>1, <2>2
<1>5. PICK ws : ws = {} OBVIOUS
<1>6. writes' = (writes \ {w}) \cup ws /\ writes' \subseteq writes \cup ws BY <1>0, <1>5
<1>7. PICK p : p = IF Ours(w) /\ w.op = "save" THEN [panel EXCEPT !.busy = FALSE] ELSE panel OBVIOUS
<1>8. panel' = p BY <1>7 DEF WriteFails
<1>9. panel = NoPanel => p = NoPanel BY <1>7 DEF Ours
<1>10. ASSUME panel # NoPanel
       PROVE  /\ p \in Panel /\ p.kind = panel.kind /\ p.mount = panel.mount /\ p.loan = panel.loan
              /\ p.load = panel.load /\ p.row = panel.row /\ p.read = panel.read /\ p.saved = panel.saved
              /\ p.form = panel.form
              /\ panel.busy => p.busy \/ (ws = {} /\ Ours(w) /\ w.op = "save")
  <2>1. panel \in Panel BY <1>10, Mounted
  <2>2. CASE Ours(w) /\ w.op = "save"
    <3>1. p = [panel EXCEPT !.busy = FALSE] BY <1>7, <2>2
    <3> QED BY <1>5, <2>1, <2>2, <3>1 DEF Panel
  <2>3. CASE ~(Ours(w) /\ w.op = "save") BY <1>7, <2>1, <2>3
  <2> QED BY <2>2, <2>3
<1>11. Saving' BY <1>0, <1>5, <1>6, <1>8, <1>9, <1>10, NoPanelKind, SavingRuns
<1>12. \A u \in writes : Ours(u) /\ u.op = "save" /\ u.done /\ ~Bad(u.loan, causes') => u \in writes' BY <1>0, <1>2
<1> QED BY <1>1, <1>4, <1>5, <1>6, <1>8, <1>9, <1>10, <1>11, <1>12, SaveStays

\* A write of a form that is left, or gets another loan, is blamed.
LEMMA SaveTurn ==
  ASSUME PageTypes, FormTypes, CausesKept, KinInv, WriteKinds, SaveInv, TurnStep
  PROVE  SaveInv'
<1>0. UNCHANGED <<writes, rows, typed>> /\ mounts \in Nat /\ StoredTaken /\ Saving /\ Standing
  BY RemountCases DEF PageTypes, SaveInv
<1>1. Longer BY <1>0, Members DEF Longer, FormTypes, FormRecords
<1>2. StoredTaken' BY <1>0, <1>1, StoredStays
<1>3. CASE panel' = panel
  <2>1. \A l : Elsewhere(l) BY <1>0 DEF Elsewhere, Grown, FormTypes, FormRecords
  <2>2. Saving' BY <1>0, <1>3 DEF Saving, Ours
  <2>3. PICK p : p = panel OBVIOUS
  <2>4. PICK ws : ws = {} OBVIOUS
  <2>5. writes' \subseteq writes \cup ws BY <1>0
  <2>6. \A w \in writes : Ours(w) /\ w.op = "save" /\ w.done /\ ~Bad(w.loan, causes') => w \in writes' BY <1>0
  <2>7. panel' = p /\ (panel # NoPanel => p \in Panel) BY <1>3, <2>3, Mounted
  <2> QED BY <1>1, <1>2, <2>1, <2>2, <2>3, <2>4, <2>5, <2>6, <2>7, SaveStays
<1>4. CASE panel' # panel
  <2>1. Standing'
    <3>1. ASSUME NEW w \in writes, By(w.kind) # "none" PROVE Bad(w.loan, causes')
      <4>1. SUFFICES ASSUME ~Bad(w.loan, causes') PROVE FALSE OBVIOUS
      <4>2. w.loan \in Loan BY DEF FormTypes, FormRecords, Writing
      <4>3. Ours(w) BY <1>0, <3>1, <4>1, <4>2, BadFacts DEF Standing, StandsFor
      <4>4. causes' = Blame(LeftUnderWay, "left") BY <1>4, TurnFacts
      <4>5. w.loan \in LeftUnderWay BY <4>3 DEF LeftUnderWay, Pending, Ours
      <4> QED BY <4>1, <4>2, <4>4, <4>5, BlameKeeps DEF Bad
    <3> QED BY <1>0, <3>1 DEF Standing
  <2>2. CASE panel' = NoPanel
    <3>1. Saving' /\ SavedShown' BY <1>0, <2>2 DEF Saving, SavedShown, Ours
    <3> QED BY <1>2, <2>1, <3>1 DEF SaveInv
  <2>3. CASE panel # NoPanel /\ shown' \in Loan /\ panel' = Switched(shown')
    <3>1. panel \in Panel /\ panel.kind \in FormKinds BY <2>3, Mounted DEF Panel
    <3>2. PICK p : p = Switched(shown') OBVIOUS
    <3>3. /\ p.kind = panel.kind /\ p.read = NotRead /\ p.mount = panel.mount /\ p.busy = panel.busy
          /\ p.load = IF panel.load = "done" /\ From(panel.kind) # "nowhere" THEN "again" ELSE panel.load
      BY <2>3, <3>1, <3>2, SwitchedFacts
    <3>4. ASSUME By(p.kind) # "none" PROVE p.load # "done"
      <4>1. From(panel.kind) # "nowhere" BY <3>1, <3>3, <3>4, FormFacts
      <4> QED BY <3>3, <4>1
    <3>5. panel' = p BY <2>3, <3>2
    <3>6. SavedShown' BY <3>3, <3>4, <3>5 DEF SavedShown
    <3>7. Saving' BY <1>0, <2>3, <3>3, <3>5 DEF Saving, Ours
    <3> QED BY <1>2, <2>1, <3>6, <3>7 DEF SaveInv
  <2>4. CASE shown' \in Loan /\ route'.section \in FormKinds /\ panel' = Fresh(route'.section, shown')
    <3>1. PICK p : p = Fresh(route'.section, shown') OBVIOUS
    <3>2. /\ p.kind = route'.section /\ p.read = NotRead /\ p.mount = mounts + 1
          /\ p.load = IF From(p.kind) = "nowhere" THEN "done" ELSE "first"
      BY <1>0, <2>4, <3>1, FreshFacts
    <3>3. ASSUME By(p.kind) # "none" PROVE p.load # "done"
      <4>1. From(p.kind) # "nowhere" BY <2>4, <3>2, <3>3, FormFacts
      <4> QED BY <3>2, <4>1
    <3>4. panel' = p BY <2>4, <3>1
    <3>5. SavedShown' BY <3>2, <3>3, <3>4 DEF SavedShown
    <3>6. \A w \in writes : w.mount # p.mount BY <1>0, <3>2 DEF FormTypes, WriteBounds
    <3>7. Saving' BY <1>0, <3>4, <3>6 DEF Saving, Ours
    <3> QED BY <1>2, <2>1, <3>5, <3>7 DEF SaveInv
  <2> QED BY <1>4, <2>2, <2>3, <2>4, RemountCases
<1> QED BY <1>3, <1>4

\* A record another user creates is none that a form has.
LEMMA SaveElsewhere ==
  ASSUME PageTypes, FormTypes, CausesKept, KinInv, WriteKinds, SaveInv, InForm(CreatedElsewhere)
  PROVE  SaveInv'
<1>1. UNCHANGED <<panel, writes, typed>> /\ Grown(rows') BY CreatedFacts
<1>2. PICK r \in Row :
        /\ r.kind \in {"appraisal", "title"} /\ r.form = {}
        /\ Len(rows') = Len(rows) + 1 /\ rows'[Len(rows) + 1] = r
        /\ \A n \in 1..Len(rows) : rows'[n] = rows[n]
  BY CreatedFacts
<1>3. Len(rows) \in Nat /\ By(r.kind) = "id" BY <1>2, Members, Kinds, FormFacts
<1>4. \A l : Elsewhere(l)
  <2>1. \A n \in 1..Len(rows') : n \in 1..Len(rows) \/ rows'[n] = r BY <1>2, <1>3
  <2> QED BY <1>1, <1>2, <1>3, <2>1 DEF Elsewhere
<1>5. Longer BY <1>1, Members DEF Longer, FormTypes, FormRecords
<1>6. ASSUME NEW n \in 1..Len(rows'), NEW f, f = rows'[n].form PROVE Taken(f)' = f
  <2>1. CASE n = Len(rows) + 1
    <3>1. f = {} BY <1>2, <1>6, <2>1
    <3> QED BY <3>1 DEF Taken
  <2>2. CASE n \in 1..Len(rows)
    <3>1. f = rows[n].form BY <1>2, <1>6, <2>2
    <3>2. Made(f, typed) BY <2>2, <3>1 DEF FormTypes, RowBounds
    <3>3. Taken(f) = f BY <2>2, <3>1 DEF SaveInv, StoredTaken
    <3> QED BY <1>5, <3>2, <3>3, TakenStays
  <2> QED BY <1>2, <1>3, <2>1, <2>2
<1>7. StoredTaken' BY <1>6 DEF StoredTaken, Taken
<1>8. Saving' BY <1>1 DEF SaveInv, Saving, Ours
<1>9. PICK p : p = panel OBVIOUS
<1>10. panel' = p /\ (panel # NoPanel => p \in Panel) BY <1>1, <1>9, Mounted
<1>11. PICK ws : ws = {} OBVIOUS
<1>12. writes' \subseteq writes \cup ws BY <1>1
<1>13. \A w \in writes : Ours(w) /\ w.op = "save" /\ w.done /\ ~Bad(w.loan, causes') => w \in writes' BY <1>1
<1> QED BY <1>4, <1>5, <1>7, <1>8, <1>9, <1>10, <1>11, <1>12, <1>13, SaveStays

\* Every step keeps it.
LEMMA SaveNext ==
  ASSUME Typed, KinInv, OneInv, SaveInv, [Next]_vars
  PROVE  SaveInv'
<1>0. PageTypes /\ FormTypes /\ CausesKept /\ WriteKinds BY NothingForgotten DEF Typed, OneInv
<1>1. CASE TurnStep BY <1>0, <1>1, SaveTurn
<1>2. CASE InForm(FormStep)
  <2>1. FormStep BY <1>2 DEF InForm
  <2>2. CASE FormUser BY <1>0, <2>2, SaveUser
  <2>3. CASE LoadRead \/ LoadAnswered \/ LoadFails BY <1>0, <2>3, SaveLoads
  <2>4. ASSUME NEW w \in writes, WriteRuns(w) PROVE SaveInv' BY <1>0, <2>4, SaveRuns
  <2>5. ASSUME NEW w \in writes, WriteAnswered(w) PROVE SaveInv' BY <1>0, <2>5, SaveAnswers
  <2>6. ASSUME NEW w \in writes, WriteFails(w) PROVE SaveInv' BY <1>0, <2>6, SaveFails
  <2> QED BY <2>1, <2>2, <2>3, <2>4, <2>5, <2>6 DEF FormStep, FormBackground
<1>3. ASSUME UNCHANGED <<panel, writes, rows, typed>> PROVE SaveInv'
  <2>1. Longer BY <1>0, <1>3, Members DEF Longer, FormTypes, FormRecords
  <2>2. StoredTaken' BY <1>0, <1>3, <2>1, StoredStays DEF SaveInv
  <2>3. Saving' BY <1>3 DEF SaveInv, Saving, Ours
  <2>4. \A l : Elsewhere(l) BY <1>0, <1>3 DEF Elsewhere, Grown, FormTypes, FormRecords
  <2>5. PICK p : p = panel OBVIOUS
  <2>6. panel' = p /\ (panel # NoPanel => p \in Panel) BY <1>0, <1>3, <2>5, Mounted
  <2>7. PICK ws : ws = {} OBVIOUS
  <2>8. writes' \subseteq writes \cup ws BY <1>3
  <2>9. \A w \in writes : Ours(w) /\ w.op = "save" /\ w.done /\ ~Bad(w.loan, causes') => w \in writes' BY <1>3
  <2> QED BY <1>0, <2>1, <2>2, <2>3, <2>4, <2>5, <2>6, <2>7, <2>8, <2>9, SaveStays
<1>4. CASE InList(ListStep) BY <1>3, <1>4 DEF InList, formVars
<1>5. CASE UNCHANGED vars BY <1>3, <1>5 DEF vars, formVars
<1>6. CASE InForm(CreatedElsewhere) BY <1>0, <1>6, SaveElsewhere
<1>7. CASE InList(AddedElsewhere) BY <1>3, <1>7 DEF InList, formVars
<1> QED BY <1>1, <1>2, <1>4, <1>5, <1>6, <1>7, Steps DEF Others

\* A form with nothing to save shows what the server holds, through loads that
\* come late, typing during a save, saves of the whole form and cancelled edits,
\* unless it is known what happened to the loan.
THEOREM ShownIsStored == Spec => []SavedIsStored
<1>1. ASSUME Init PROVE KinInv /\ OneInv /\ SaveInv
  <2>1. panel = NoPanel /\ writes = {} BY <1>1 DEF Init, FormsInit
  <2>2. \A n \in 1..Len(rows) : rows[n].form = {} BY <1>1, FirstRows DEF Init
  <2>3. \A m, n \in 1..Len(rows) : rows[m].kind = rows[n].kind /\ rows[m].loan = rows[n].loan => m = n
    BY <1>1, FirstRows DEF Init
  <2>4. KinInv BY <2>1, <2>2 DEF KinInv, RowsKin, WritesKin, PanelKin, EditsOf
  <2>5. Alone BY <2>3 DEF Alone
  <2>6. OneInv BY <2>1, <2>5 DEF OneInv, WriteKinds, Awaited, NoneYet
  <2>7. StoredTaken BY <2>2, TakenFacts DEF StoredTaken
  <2>8. SaveInv BY <2>1, <2>7 DEF SaveInv, Saving, Standing, SavedShown
  <2> QED BY <2>4, <2>6, <2>8
<1>2. ASSUME Typed, SaveInv PROVE SavedIsStored
  <2>1. ASSUME Untouched, By(panel.kind) # "none", ~Bad(panel.loan, causes)
        PROVE  Taken(panel.form) = Held \/ (panel.kind = "urla" /\ Taken(panel.form) \subseteq Held)
    <3>1. panel # NoPanel /\ panel.load = "done" /\ ~panel.busy /\ panel.form = panel.saved BY <2>1 DEF Untouched
    <3>2. \A w \in writes : ~(Ours(w) /\ w.op = "save") BY <1>2, <3>1 DEF SaveInv, Saving
    <3>3. Match(panel.saved) BY <1>2, <2>1, <3>1, <3>2 DEF SaveInv, SavedShown
    <3> QED BY <3>1, <3>3 DEF Match
  <2> QED BY <2>1 DEF SavedIsStored, Quiet, Bad
<1>3. Init => KinInv /\ OneInv /\ SaveInv BY <1>1
<1>4. Typed /\ KinInv /\ OneInv /\ SaveInv /\ [Next]_vars => KinInv' /\ OneInv' /\ SaveInv'
  BY KinNext, OneNext, SaveNext
<1>5. Typed /\ SaveInv => SavedIsStored BY <1>2
<1> QED BY <1>3, <1>4, <1>5, AlwaysTyped, PTL DEF Spec

=============================================================================
