--------------------------- MODULE WorkspaceLists ----------------------------
(***************************************************************************)
(* Proofs about the lists of Workspace: the numbers of the conditions, and *)
(* what a list at rest shows of the server's items.                        *)
(***************************************************************************)
EXTENDS WorkspaceProofs

---------------------------------------------------------------------------
(* Numbers. While nothing muddled the conditions of a loan, the list       *)
(* counts all of them, but for those of a creation that is under way, and  *)
(* there is one creation at a time.                                        *)

\* The conditions of a loan, and whether something muddled their numbers.
ConditionsOf(l, is) == {n \in 1..Len(is) : is[n].kind = "conditions" /\ is[n].loan = l}
Muddled(l, is, cs) ==
  \/ \E n \in ConditionsOf(l, is) : is[n].status = "deleted"
  \/ cs[l] \cap {"miscounted", "overlap", "left", "unanswered", "shared"} # {}

\* A creation of conditions; those it has made may not be counted.
Numbers(w) == w.n = 0 /\ w.kind = "conditions"
Uncounted(l, ws) == \E w \in ws : Numbers(w) /\ w.loan = l /\ w.made # {}
Due(l, is, ws, cs) == ~Muddled(l, is, cs) /\ ~Uncounted(l, ws)

Numbered(l, is) ==
  /\ \A m, n \in ConditionsOf(l, is) : is[m].num = is[n].num => m = n
  /\ \A n \in ConditionsOf(l, is) : is[n].num <= Cardinality(ConditionsOf(l, is))

\* A creation is the list's, the only one of its loan, and has the next number.
Follows(w, p, is, ws) ==
  /\ p # NoList /\ p.mount = w.mount /\ p.loan = w.loan
  /\ ~w.done => w.num = Cardinality(ConditionsOf(w.loan, is)) + 1
  /\ \A u \in ws : Numbers(u) /\ u.loan = w.loan => u = w

AllNumbered == \A l \in Loan : Muddled(l, items, causes) \/ Numbered(l, items)
AllFollow == \A w \in acts : Numbers(w) /\ ~Muddled(w.loan, items, causes) => Follows(w, list, items, acts)
LoadsCount ==
  list # NoList /\ list.kind = "conditions" =>
    \A ld \in loads : ld.got # Unread /\ Due(ld.loan, items, acts, causes) => DOMAIN ld.got = ConditionsOf(ld.loan, items)
SeenCounts ==
  list # NoList /\ list.kind = "conditions" /\ list.shows /\ ~list.broken =>
    /\ list.of \in Loan
    /\ Due(list.of, items, acts, causes) => DOMAIN list.seen = ConditionsOf(list.of, items)

NumberInv == AllNumbered /\ AllFollow /\ LoadsCount /\ SeenCounts

\* Items stay what they are, and what is deleted stays deleted.
ItemsGoOn ==
  /\ Len(items) <= Len(items')
  /\ \A n \in 1..Len(items) : /\ items'[n].kind = items[n].kind /\ items'[n].loan = items[n].loan
                              /\ items'[n].num = items[n].num
                              /\ items[n].status = "deleted" => items'[n].status = "deleted"

\* Every step leaves them so: no request is carried out on an item that is deleted.
LEMMA ItemsRemain ==
  ASSUME Typed, [Next]_vars
  PROVE  ItemsGoOn
<1>0. ListTypes /\ Len(items) \in Nat BY DEF Typed, ListTypes, ListRecords
<1>1. CASE items' = items BY <1>0, <1>1 DEF ItemsGoOn
<1>3. CASE Len(items') = Len(items) + 1 /\ \A n \in 1..Len(items) : items'[n] = items[n]
  BY <1>0, <1>3 DEF ItemsGoOn
<1>2. CASE \E w \in acts : ActRuns(w)
  <2>1. PICK w \in acts : ActRuns(w) BY <1>2
  <2>2. items' = Committed(w) /\ ~(w.n # 0 /\ items[w.n].status = "deleted") BY <2>1 DEF ActRuns, ActRefused, Gone
  <2>3. GrownItems(items') BY <1>0, <2>2, CommittedFacts
  <2>4. ASSUME NEW n \in 1..Len(items), items[n].status = "deleted" PROVE items'[n].status = "deleted"
    <3>1. CASE w.n = 0 BY <1>0, <2>2, <2>4, <3>1, CommittedFacts
    <3>2. CASE w.n # 0 /\ n # w.n BY <1>0, <2>2, <2>4, <3>2, CommittedFacts
    <3> QED BY <2>2, <2>4, <3>1, <3>2
  <2> QED BY <2>3, <2>4 DEF ItemsGoOn, GrownItems
<1> QED BY <1>1, <1>2, <1>3, StatusChanges

\* What another user adds is of one loan; the items of the others are the same.
LEMMA AddedApart ==
  ASSUME Typed, InList(AddedElsewhere)
  PROVE  /\ list' = list /\ loads' = loads /\ acts' = acts /\ items' \in Seq(Thing) /\ items \in Seq(Thing)
         /\ \A n \in 1..Len(items) : items'[n] = items[n]
         /\ \E x \in Loan :
              /\ causes' = Blame({x}, "shared")
              /\ \A l, m : l # x =>
                   (m \in 1..Len(items') /\ items'[m].loan = l <=> m \in 1..Len(items) /\ items[m].loan = l)
<1>0. PageTypes /\ ListTypes BY DEF Typed
<1>1. /\ list' = list /\ loads' = loads /\ acts' = acts /\ items \in Seq(Thing) /\ Len(items) \in Nat
      /\ GrownItems(items')
  BY <1>0, AddedFacts DEF ListTypes, ListRecords
<1>2. PICK t \in Thing :
        /\ causes' = Blame({t.loan}, "shared") /\ Len(items') = Len(items) + 1 /\ items'[Len(items) + 1] = t
        /\ \A n \in 1..Len(items) : items'[n] = items[n]
  BY <1>0, AddedFacts
<1>3. t.loan \in Loan BY DEF Thing
<1>4. \A m : m \in 1..Len(items') <=> m \in 1..Len(items) \/ m = Len(items) + 1 BY <1>1, <1>2
<1>5. \A l, m : l # t.loan =>
        (m \in 1..Len(items') /\ items'[m].loan = l <=> m \in 1..Len(items) /\ items[m].loan = l)
  BY <1>2, <1>4
<1>6. items' \in Seq(Thing) BY <1>1 DEF GrownItems
<1> QED BY <1>1, <1>2, <1>3, <1>5, <1>6

\* A loan stays muddled, and keeps its conditions.
LEMMA StaysMuddled ==
  ASSUME ListTypes, CausesKept, ItemsGoOn, items' \in Seq(Thing)
  PROVE  /\ \A l \in Loan : Muddled(l, items, causes) => Muddled(l, items', causes')
         /\ \A l : ConditionsOf(l, items) \subseteq ConditionsOf(l, items')
<1>0. Len(items) \in Nat /\ Len(items') \in Nat BY DEF ListTypes, ListRecords
<1>1. \A l : ConditionsOf(l, items) \subseteq ConditionsOf(l, items') BY <1>0 DEF ConditionsOf, ItemsGoOn
<1>2. \A l, n : n \in ConditionsOf(l, items) => n \in 1..Len(items) BY DEF ConditionsOf
<1>3. \A l \in Loan : Muddled(l, items, causes) => Muddled(l, items', causes')
  BY <1>1, <1>2 DEF Muddled, CausesKept, ItemsGoOn
<1> QED BY <1>1, <1>3

\* A cause that muddles.
LEMMA MuddledBy ==
  ASSUME NEW ls, NEW cause \in {"miscounted", "overlap", "left", "unanswered", "shared"}, causes' = Blame(ls, cause)
  PROVE  \A l \in Loan : l \in ls => \A is : Muddled(l, is, causes')
BY BlameKeeps DEF Muddled

\* The conditions of a loan can be counted.
LEMMA CountedFacts ==
  ASSUME NEW is \in Seq(Thing), NEW l
  PROVE  /\ IsFiniteSet(ConditionsOf(l, is)) /\ Cardinality(ConditionsOf(l, is)) \in Nat
         /\ ConditionsOf(l, is) \subseteq 1..Len(is)
<1>1. ConditionsOf(l, is) \subseteq 1..Len(is) BY DEF ConditionsOf
<1>2. Len(is) \in Nat OBVIOUS
<1>3. IsFiniteSet(1..Len(is)) BY <1>2, FS_Interval
<1>4. IsFiniteSet(ConditionsOf(l, is)) BY <1>1, <1>3, FS_Subset
<1> QED BY <1>1, <1>4, FS_CardinalityType

\* Where the items stay, so do their numbers.
LEMMA NumbersStill ==
  ASSUME Typed, AllNumbered, CausesKept, items' = items
  PROVE  /\ AllNumbered'
         /\ \A l \in Loan : Muddled(l, items, causes) => Muddled(l, items', causes')
<1>1. \A l \in Loan : Muddled(l, items, causes) => Muddled(l, items', causes') BY DEF Muddled, CausesKept
<1> QED BY <1>1 DEF AllNumbered

\* A creation is of a loan.
LEMMA CreationFacts ==
  ASSUME ListTypes, NEW w \in acts
  PROVE  w \in Act /\ w.loan \in Loan /\ w.loan \in LoansOf(w) /\ (OurAct(w) <=> list # NoList /\ list.mount = w.mount)
BY DEF ListTypes, ListRecords, Act, LoansOf, OurAct

\* Creations under way go on as they were, if their list is still there.
LEMMA FollowsStill ==
  ASSUME Typed, NumberInv, CausesKept, items' = items,
         \A w \in acts' : Numbers(w) => w \in acts,
         \/ list' # NoList /\ list # NoList /\ list'.mount = list.mount /\ list'.loan = list.loan
         \/ \A w \in acts : Numbers(w) => Muddled(w.loan, items', causes')
  PROVE  AllFollow'
<1> SUFFICES ASSUME NEW w \in acts', Numbers(w), ~Muddled(w.loan, items', causes')
             PROVE  Follows(w, list', items', acts')
  BY DEF AllFollow, Numbers
<1>1. w \in acts /\ w.loan \in Loan BY CreationFacts DEF Typed
<1>2. ~Muddled(w.loan, items, causes) BY <1>1, NumbersStill DEF NumberInv
<1>3. Follows(w, list, items, acts) BY <1>1, <1>2 DEF NumberInv, AllFollow
<1>4. list' # NoList /\ list'.mount = list.mount /\ list'.loan = list.loan BY <1>1
<1> QED BY <1>3, <1>4 DEF Follows

\* What was counted is still all, where no condition comes and none is noticed.
LEMMA CountsStill ==
  ASSUME ListTypes', NumberInv,
         \A l \in Loan : Due(l, items', acts', causes') =>
           Due(l, items, acts, causes) /\ ConditionsOf(l, items') = ConditionsOf(l, items),
         list' # NoList /\ list'.kind = "conditions" =>
           /\ \A ld \in loads' : ld.got # Unread => list # NoList /\ list.kind = "conditions" /\ ld \in loads
           /\ list'.shows /\ ~list'.broken =>
                /\ list # NoList /\ list.kind = "conditions" /\ list.shows /\ ~list.broken
                /\ list'.seen = list.seen /\ list'.of = list.of
  PROVE  LoadsCount' /\ SeenCounts'
<1>1. LoadsCount'
  <2> SUFFICES ASSUME list' # NoList, list'.kind = "conditions", NEW ld \in loads', ld.got # Unread,
                      Due(ld.loan, items', acts', causes')
               PROVE  DOMAIN ld.got = ConditionsOf(ld.loan, items')
    BY DEF LoadsCount, Unread
  <2>1. ld.loan \in Loan BY DEF ListTypes, ListRecords, Fetch
  <2> QED BY <2>1 DEF NumberInv, LoadsCount
<1>2. SeenCounts' BY DEF NumberInv, SeenCounts
<1> QED BY <1>1, <1>2

\* Requests that are not creations come and go without a difference.
LEMMA DueStill ==
  ASSUME Typed, CausesKept, items' = items,
         \A w \in acts : Numbers(w) /\ w.made # {} => w \in acts' \/ Muddled(w.loan, items', causes')
  PROVE  \A l \in Loan : Due(l, items', acts', causes') =>
           Due(l, items, acts, causes) /\ ConditionsOf(l, items') = ConditionsOf(l, items)
<1>1. \A l \in Loan : Muddled(l, items, causes) => Muddled(l, items', causes') BY DEF Muddled, CausesKept
<1> QED BY <1>1 DEF Due, Uncounted

\* Turning the page: creations under way are left.
LEMMA NumberTurn ==
  ASSUME Typed, NumberInv, CausesKept, ListTypes', TurnStep
  PROVE  NumberInv'
<1>0. PageTypes /\ ListTypes /\ items' = items /\ acts' = acts BY RelistCases DEF Typed
<1>1. AllNumbered' BY <1>0, NumbersStill DEF NumberInv
<1>2. \A w \in acts' : Numbers(w) => w \in acts BY <1>0
<1>3. list' # NoList /\ list'.kind = "conditions" =>
         /\ \A ld \in loads' : ld.got # Unread => list # NoList /\ list.kind = "conditions" /\ ld \in loads
         /\ list'.shows /\ ~list'.broken =>
              /\ list # NoList /\ list.kind = "conditions" /\ list.shows /\ ~list.broken
              /\ list'.seen = list.seen /\ list'.of = list.of
  <2> SUFFICES ASSUME list' # NoList, list'.kind = "conditions"
               PROVE  /\ \A ld \in loads' : ld.got # Unread => list # NoList /\ list.kind = "conditions" /\ ld \in loads
                      /\ list'.shows /\ ~list'.broken =>
                           /\ list # NoList /\ list.kind = "conditions" /\ list.shows /\ ~list.broken
                           /\ list'.seen = list.seen /\ list'.of = list.of
    OBVIOUS
  <2>1. CASE /\ list # NoList /\ shown' \in Loan /\ shown' # list.loan
             /\ list' = HiddenIf([list EXCEPT !.loan = shown'], "switch")
             /\ loads' = Kept(list.kind) \cup {Load(shown', TRUE, {})}
    <3>1. PICK p : p = [list EXCEPT !.loan = shown'] OBVIOUS
    <3>2. list \in Listing BY <1>0, <2>1, ListMounted
    <3>3. /\ p \in Listing /\ p.kind = list.kind /\ p.shows = list.shows /\ p.broken = list.broken
          /\ p.seen = list.seen /\ p.of = list.of
      BY <2>1, <3>1, <3>2 DEF Listing
    <3>4. list'.kind = p.kind BY <2>1, <3>1, <3>3, HiddenIfFacts
    <3>5. "switch" \notin Section(p.kind).hides
      <4>1. p.kind = "conditions" BY <3>4
      <4>2. Section("conditions").hides = {"again"} BY DEF Section, ListSections, ConditionsList, ReadOnly
      <4> QED BY <4>1, <4>2
    <3>6. list' = p BY <2>1, <3>1, <3>3, <3>5, HiddenIfFacts
    <3>7. Load(shown', TRUE, {}).got = Unread BY <1>0, <2>1, EffectLoad
    <3>8. \A ld \in loads' : ld.got # Unread => ld \in loads BY <2>1, <3>7 DEF Kept
    <3> QED BY <2>1, <3>3, <3>4, <3>6, <3>8
  <2>2. CASE /\ shown' \in Loan /\ route'.section \in ListKinds
             /\ list' = FreshList(route'.section, shown')
             /\ loads' = {Load(shown', TRUE, {})}
    <3>1. Load(shown', TRUE, {}).got = Unread BY <1>0, <2>2, EffectLoad
    <3>2. mounts \in Nat BY <1>0 DEF PageTypes
    <3>3. ~list'.shows BY <2>2, <3>2, FreshListFacts
    <3> QED BY <2>2, <3>1, <3>3
  <2>3. CASE list # NoList /\ list' = list /\ loads' = loads BY <2>3
  <2> QED BY <1>0, <2>1, <2>2, <2>3, RelistCases
<1>4. LoadsCount' /\ SeenCounts' BY <1>0, <1>3, DueStill, CountsStill
<1>5. CASE list' = list
  <2>1. ASSUME list = NoList, NEW w \in acts, Numbers(w) PROVE Muddled(w.loan, items', causes')
    <3>1. Muddled(w.loan, items, causes) BY <2>1 DEF NumberInv, AllFollow, Follows
    <3> QED BY <1>0, <3>1, NumbersStill, CreationFacts DEF NumberInv
  <2>2. \/ list' # NoList /\ list # NoList /\ list'.mount = list.mount /\ list'.loan = list.loan
        \/ \A w \in acts : Numbers(w) => Muddled(w.loan, items', causes')
    BY <1>5, <2>1
  <2>3. AllFollow' BY <1>0, <1>2, <2>2, FollowsStill
  <2> QED BY <1>1, <1>4, <2>3 DEF NumberInv
<1>6. CASE list' # list
  <2>1. causes' = Blame(LeftUnderWay, "left") BY <1>0, <1>6, TurnFacts
  <2>2. ASSUME NEW w \in acts, Numbers(w) PROVE Muddled(w.loan, items', causes')
    <3>1. w.loan \in Loan /\ w.loan \in LoansOf(w) BY <1>0, CreationFacts
    <3>2. CASE Muddled(w.loan, items, causes) BY <1>0, <3>1, <3>2, NumbersStill DEF NumberInv
    <3>3. CASE ~Muddled(w.loan, items, causes)
      <4>1. OurAct(w) BY <2>2, <3>3 DEF NumberInv, AllFollow, Follows, OurAct
      <4>2. w.loan \in LeftUnderWay BY <3>1, <4>1 DEF LeftUnderWay
      <4> QED BY <2>1, <3>1, <4>2, MuddledBy
    <3> QED BY <3>2, <3>3
  <2>3. AllFollow' BY <1>0, <1>2, <2>2, FollowsStill
  <2> QED BY <1>1, <1>4, <2>3 DEF NumberInv
<1> QED BY <1>5, <1>6

\* A creation has the next number: it counts the loan's own conditions, all of
\* them, and no other creation is under way.
LEMMA NumberCreated ==
  ASSUME Typed, NumberInv, CausesKept, ListTypes', list # NoList, Create
  PROVE  NumberInv'
<1>0. PageTypes /\ ListTypes BY DEF Typed
<1>1. PICK w \in Act : Sends(w) /\ w.n = 0 BY <1>0, CreateFacts
<1>2. /\ items' = items /\ acts' = acts \cup {w} /\ loads' = loads /\ w.kind = list.kind /\ w.mount = list.mount
      /\ w.loan = list.loan /\ w.made = {} /\ w.num = Cardinality(DOMAIN list.seen) + 1
      /\ list'.kind = list.kind /\ list'.mount = list.mount /\ list'.loan = list.loan /\ list'.seen = list.seen
      /\ list'.shows = list.shows /\ list'.broken = list.broken /\ list'.of = list.of /\ list' # NoList
  BY <1>1, NoListKind DEF Sends
<1>3. /\ list.kind = "conditions" => list.shows /\ ~list.broken
      /\ causes' = IF list.of # list.loan THEN Blame({list.loan}, "miscounted")
                   ELSE IF \E u \in acts : u.n = 0 THEN Blame({list.loan}, "overlap") ELSE causes
  BY DEF Create, Whole, OfThisLoan
<1>4. AllNumbered' /\ \A l \in Loan : Muddled(l, items, causes) => Muddled(l, items', causes')
  BY <1>2, NumbersStill DEF NumberInv
<1>5. LoadsCount' /\ SeenCounts'
  <2>1. \A u \in acts : Numbers(u) /\ u.made # {} => u \in acts' \/ Muddled(u.loan, items', causes') BY <1>2
  <2> QED BY <1>2, <2>1, DueStill, CountsStill
<1>6. w.loan \in Loan BY DEF Act
<1>7. ASSUME NEW u \in acts, Numbers(u), Muddled(w.loan, items', causes') \/ w.loan # u.loan \/ ~Numbers(w),
             ~Muddled(u.loan, items', causes')
      PROVE  Follows(u, list', items', acts')
  <2>1. u.loan \in Loan BY <1>0, CreationFacts
  <2>2. Follows(u, list, items, acts) BY <1>4, <1>7, <2>1 DEF NumberInv, AllFollow
  <2>3. \A v \in acts' : Numbers(v) /\ v.loan = u.loan => v = u BY <1>2, <1>7, <2>2 DEF Follows
  <2> QED BY <1>2, <2>2, <2>3 DEF Follows
<1>8. ASSUME Numbers(w), ~Muddled(w.loan, items', causes')
      PROVE  /\ list.of = list.loan /\ \A u \in acts : u.n # 0
             /\ Follows(w, list', items', acts')
  <2>1. list.of = list.loan
    <3>1. ASSUME list.of # list.loan PROVE FALSE
      <4>1. causes' = Blame({list.loan}, "miscounted") BY <1>3, <3>1
      <4> QED BY <1>2, <1>6, <1>8, <4>1, MuddledBy
    <3> QED BY <3>1
  <2>2. \A u \in acts : u.n # 0
    <3>1. ASSUME NEW u \in acts, u.n = 0 PROVE FALSE
      <4>1. causes' = Blame({list.loan}, "overlap") BY <1>3, <2>1, <3>1
      <4> QED BY <1>2, <1>6, <1>8, <4>1, MuddledBy
    <3> QED BY <3>1
  <2>3. Due(list.of, items, acts, causes) BY <1>2, <1>4, <1>6, <1>8, <2>1, <2>2 DEF Due, Uncounted, Numbers
  <2>4. list.kind = "conditions" BY <1>2, <1>8 DEF Numbers
  <2>5. DOMAIN list.seen = ConditionsOf(w.loan, items) BY <1>2, <1>3, <2>1, <2>3, <2>4 DEF NumberInv, SeenCounts
  <2>6. \A u \in acts' : Numbers(u) => u = w BY <1>2, <2>2 DEF Numbers
  <2> QED BY <1>2, <2>1, <2>2, <2>5, <2>6 DEF Follows
<1>9. AllFollow'
  <2> SUFFICES ASSUME NEW u \in acts', Numbers(u), ~Muddled(u.loan, items', causes')
               PROVE  Follows(u, list', items', acts')
    BY DEF AllFollow, Numbers
  <2>1. CASE u = w BY <1>8, <2>1
  <2>2. CASE u \in acts
    <3>1. Muddled(w.loan, items', causes') \/ ~Numbers(w) BY <1>8, <2>2 DEF Numbers
    <3> QED BY <1>7, <2>2, <3>1
  <2> QED BY <1>2, <2>1, <2>2
<1> QED BY <1>4, <1>5, <1>9 DEF NumberInv

\* A list that stays mounted on its loan, or is loaded again: no creation comes.
LEMMA NumberRest ==
  ASSUME Typed, NumberInv, CausesKept, ListTypes', items' = items,
         \A w \in acts' : Numbers(w) => w \in acts,
         \A w \in acts : Numbers(w) /\ w.made # {} => w \in acts' \/ Muddled(w.loan, items', causes'),
         \/ list' = list
         \/ list' # NoList /\ list # NoList /\ list'.mount = list.mount /\ list'.loan = list.loan,
         list' # NoList /\ list'.kind = "conditions" =>
           /\ \A ld \in loads' : ld.got # Unread => list # NoList /\ list.kind = "conditions" /\ ld \in loads
           /\ list'.shows /\ ~list'.broken =>
                /\ list # NoList /\ list.kind = "conditions" /\ list.shows /\ ~list.broken
                /\ list'.seen = list.seen /\ list'.of = list.of
  PROVE  NumberInv'
<1>1. AllNumbered' BY NumbersStill DEF NumberInv
<1>2. LoadsCount' /\ SeenCounts' BY DueStill, CountsStill
<1>3. ASSUME list = NoList, NEW w \in acts, Numbers(w) PROVE Muddled(w.loan, items', causes')
  <2>1. Muddled(w.loan, items, causes) BY <1>3 DEF NumberInv, AllFollow, Follows
  <2> QED BY <2>1, NumbersStill, CreationFacts DEF NumberInv, Typed
<1>4. \/ list' # NoList /\ list # NoList /\ list'.mount = list.mount /\ list'.loan = list.loan
      \/ \A w \in acts : Numbers(w) => Muddled(w.loan, items', causes')
  BY <1>3
<1>5. AllFollow' BY <1>4, FollowsStill
<1> QED BY <1>1, <1>2, <1>5 DEF NumberInv

\* What else the user does.
LEMMA NumberUser ==
  ASSUME Typed, NumberInv, CausesKept, ListTypes', ListUser
  PROVE  NumberInv'
<1>0. PageTypes /\ ListTypes /\ list # NoList /\ list \in Listing BY ListMounted DEF Typed, ListUser
<1>1. CASE Create BY <1>0, <1>1, NumberCreated
<1>2. ASSUME NEW w \in Act, Sends(w), w.n # 0 PROVE NumberInv'
  <2>1. /\ items' = items /\ acts' = acts \cup {w} /\ loads' = loads
        /\ list'.kind = list.kind /\ list'.mount = list.mount /\ list'.loan = list.loan /\ list'.seen = list.seen
        /\ list'.shows = list.shows /\ list'.broken = list.broken /\ list'.of = list.of /\ list' # NoList
    BY <1>2, NoListKind DEF Sends
  <2>2. /\ \A u \in acts' : Numbers(u) => u \in acts
        /\ \A u \in acts : Numbers(u) /\ u.made # {} => u \in acts' \/ Muddled(u.loan, items', causes')
    BY <1>2, <2>1 DEF Numbers
  <2> QED BY <1>0, <2>1, <2>2, NumberRest
<1>3. CASE Step
  <2>1. PICK w \in Act, n \in DOMAIN list.seen : Sends(w) /\ w.n \in 1..Len(items) BY <1>0, <1>3, StepFacts
  <2>2. w.n # 0 BY <1>0, <2>1 DEF ListTypes, ListRecords
  <2> QED BY <1>2, <2>1, <2>2
<1>4. CASE RemoveItem
  <2>1. PICK w \in Act : Sends(w) /\ w.n \in 1..Len(items) BY <1>0, <1>4, RemoveFacts
  <2>2. w.n # 0 BY <1>0, <2>1 DEF ListTypes, ListRecords
  <2> QED BY <1>2, <2>1, <2>2
<1>5. CASE Retry
  <2>1. items' = items /\ acts' = acts /\ list.broken /\ Refetched(list, FALSE) BY <1>5 DEF Retry
  <2>2. /\ list' \in Listing /\ list'.kind = list.kind /\ list'.mount = list.mount /\ list'.loan = list.loan
        /\ ~list'.shows /\ loads' = {Load(list.loan, TRUE, {})}
    BY <1>0, <2>1, RefetchedFacts
  <2>3. list.loan \in Loan BY <1>0 DEF Listing
  <2>4. \A ld \in loads' : ld.got = Unread BY <1>0, <2>2, <2>3, EffectLoad
  <2>5. /\ \A u \in acts' : Numbers(u) => u \in acts
        /\ \A u \in acts : Numbers(u) /\ u.made # {} => u \in acts' \/ Muddled(u.loan, items', causes')
    BY <2>1
  <2> QED BY <1>0, <2>1, <2>2, <2>4, <2>5, NoListKind, NumberRest
<1> QED BY <1>1, <1>3, <1>4, <1>5 DEF ListUser

\* A load reads all conditions of a loan of which none was removed; what comes
\* is what was read.
LEMMA NumberLoads ==
  ASSUME Typed, NumberInv, CausesKept, ListTypes', NEW ld \in loads, ListRead(ld) \/ ListArrives(ld) \/ ListLoadFails(ld)
  PROVE  NumberInv'
<1>0. /\ PageTypes /\ ListTypes /\ list # NoList /\ list \in Listing /\ ld \in Fetch /\ ld.loan \in Loan
      /\ items' = items /\ acts' = acts
  <2>1. list # NoList /\ ld \in Fetch BY DEF Typed, ListTypes, ListRecords, LoadBounds
  <2>2. items' = items /\ acts' = acts BY DEF ListRead, ListArrives, ListLoadFails
  <2> QED BY <2>1, <2>2, ListMounted DEF Typed, Fetch
<1>1. /\ \A u \in acts' : Numbers(u) => u \in acts
      /\ \A u \in acts : Numbers(u) /\ u.made # {} => u \in acts' \/ Muddled(u.loan, items', causes')
  BY <1>0
<1>2. AllNumbered' BY <1>0, NumbersStill DEF NumberInv
<1>3. \A l \in Loan : Due(l, items', acts', causes') =>
        Due(l, items, acts, causes) /\ ConditionsOf(l, items') = ConditionsOf(l, items)
  BY <1>0, <1>1, DueStill
<1>4. CASE ListRead(ld)
  <2>1. PICK r : r = [ld EXCEPT !.got = Live(list.kind, ld.loan)] OBVIOUS
  <2>2. list' = list /\ loads' = (loads \ {ld}) \cup {r} BY <1>4, <2>1 DEF ListRead
  <2>3. r.got = Live(list.kind, ld.loan) /\ r.loan = ld.loan BY <1>0, <2>1 DEF Fetch
  <2>4. ASSUME list.kind = "conditions", Due(ld.loan, items', acts', causes')
        PROVE  DOMAIN r.got = ConditionsOf(ld.loan, items')
    <3>1. ~Muddled(ld.loan, items, causes) BY <1>0, <1>3, <2>4 DEF Due
    <3>2. \A n \in ConditionsOf(ld.loan, items) : items[n].status # "deleted" BY <3>1 DEF Muddled
    <3>3. \A n : n \in DOMAIN r.got <=>
            n \in 1..Len(items) /\ items[n].kind = "conditions" /\ items[n].loan = ld.loan /\ items[n].status # "deleted"
      BY <1>0, <2>3, <2>4, LiveFacts DEF ListTypes
    <3> QED BY <1>0, <3>2, <3>3 DEF ConditionsOf
  <2>5. LoadsCount'
    <3> SUFFICES ASSUME list'.kind = "conditions", NEW e \in loads', e.got # Unread, Due(e.loan, items', acts', causes')
                 PROVE  DOMAIN e.got = ConditionsOf(e.loan, items')
      BY DEF LoadsCount, Unread
    <3>1. CASE e = r BY <2>2, <2>3, <2>4, <3>1
    <3>2. CASE e \in loads
      <4>1. e.loan \in Loan BY <1>0, <3>2 DEF ListTypes, ListRecords, Fetch
      <4> QED BY <1>0, <1>3, <2>2, <3>2, <4>1 DEF NumberInv, LoadsCount
    <3> QED BY <2>2, <3>1, <3>2
  <2>6. SeenCounts' BY <1>3, <2>2 DEF NumberInv, SeenCounts
  <2>7. AllFollow' BY <1>0, <1>1, <2>2, FollowsStill
  <2> QED BY <1>2, <2>5, <2>6, <2>7 DEF NumberInv
<1>5. CASE ListArrives(ld)
  <2>1. ld.got # Unread BY <1>5 DEF ListArrives
  <2>2. /\ list' \in Listing /\ list'.kind = list.kind /\ list'.mount = list.mount /\ list'.loan = list.loan
        /\ list'.broken = list.broken /\ list'.seen = ld.got /\ list'.of = ld.loan
        /\ loads' = (loads \ {ld}) \cup IF list.again THEN {Load(list.loan, TRUE, {})} ELSE {}
    BY <1>0, <1>5, ArrivedFacts
  <2>3. Load(list.loan, TRUE, {}).got = Unread BY <1>0, EffectLoad DEF Listing
  <2>4. LoadsCount'
    <3> SUFFICES ASSUME list'.kind = "conditions", NEW e \in loads', e.got # Unread, Due(e.loan, items', acts', causes')
                 PROVE  DOMAIN e.got = ConditionsOf(e.loan, items')
      BY DEF LoadsCount, Unread
    <3>1. e \in loads BY <2>2, <2>3
    <3>2. e.loan \in Loan BY <1>0, <3>1 DEF ListTypes, ListRecords, Fetch
    <3> QED BY <1>0, <1>3, <2>2, <3>1, <3>2 DEF NumberInv, LoadsCount
  <2>5. SeenCounts' BY <1>0, <1>3, <2>1, <2>2 DEF NumberInv, SeenCounts, LoadsCount
  <2>6. AllFollow' BY <1>0, <1>1, <2>2, NoListKind, FollowsStill
  <2> QED BY <1>2, <2>4, <2>5, <2>6 DEF NumberInv
<1>6. CASE ListLoadFails(ld) /\ ~ListArrives(ld)
  <2>2. /\ list' \in Listing /\ list'.kind = list.kind /\ list'.mount = list.mount /\ list'.loan = list.loan
        /\ list'.broken = (list.kind = "conditions")
        /\ loads' = (loads \ {ld}) \cup IF list.again THEN {Load(list.loan, TRUE, {})} ELSE {}
    BY <1>0, <1>6, ArrivedFacts
  <2>3. Load(list.loan, TRUE, {}).got = Unread BY <1>0, EffectLoad DEF Listing
  <2>4. list'.kind = "conditions" =>
           /\ \A e \in loads' : e.got # Unread => e \in loads
           /\ list'.broken
    BY <2>2, <2>3
  <2> QED BY <1>0, <1>1, <2>2, <2>4, NoListKind, NumberRest
<1> QED BY <1>4, <1>5, <1>6

\* A request that is checked, or carried out, stays the list's: what it adds is
\* not counted yet, and has the number after all others.
LEMMA NumberCarried ==
  ASSUME Typed, NumberInv, CausesKept, ListTypes', NEW w \in acts, NEW v, acts' = (acts \ {w}) \cup {v}, list' = list,
         v.n = w.n, v.kind = w.kind, v.loan = w.loan, v.mount = w.mount,
         \A l \in Loan : Muddled(l, items, causes) => Muddled(l, items', causes'),
         \A l \in Loan : (Numbers(w) => l # w.loan) => ConditionsOf(l, items') = ConditionsOf(l, items),
         Numbers(w) /\ ~v.done /\ ~Muddled(w.loan, items', causes') /\ Follows(w, list, items, acts)
           => v.num = Cardinality(ConditionsOf(w.loan, items')) + 1
  PROVE  AllFollow'
<1> SUFFICES ASSUME NEW u \in acts', Numbers(u), ~Muddled(u.loan, items', causes')
             PROVE  Follows(u, list', items', acts')
  BY DEF AllFollow, Numbers
<1>1. u.loan \in Loan BY CreationFacts DEF ListTypes, ListRecords, Act
<1>2. CASE u = v
  <2>1. Numbers(w) /\ u.loan = w.loan BY <1>2 DEF Numbers
  <2>2. Follows(w, list, items, acts) BY <1>1, <2>1 DEF NumberInv, AllFollow
  <2>3. \A x \in acts' : Numbers(x) /\ x.loan = u.loan => x = u BY <1>2, <2>1, <2>2 DEF Follows
  <2> QED BY <1>2, <2>1, <2>2, <2>3 DEF Follows
<1>3. CASE u \in acts \ {w}
  <2>1. Follows(u, list, items, acts) BY <1>1, <1>3 DEF NumberInv, AllFollow
  <2>2. Numbers(w) => w.loan # u.loan BY <1>3, <2>1 DEF Follows
  <2>3. \A x \in acts' : Numbers(x) /\ x.loan = u.loan => x = u
    <3>1. Numbers(v) <=> Numbers(w) BY DEF Numbers
    <3> QED BY <2>1, <2>2, <3>1 DEF Follows
  <2>4. ConditionsOf(u.loan, items') = ConditionsOf(u.loan, items) BY <1>1, <2>2
  <2> QED BY <2>1, <2>3, <2>4 DEF Follows
<1> QED BY <1>2, <1>3

\* The server checks a request.
LEMMA NumberChecked ==
  ASSUME Typed, NumberInv, CausesKept, ListTypes', NEW w \in acts, ActChecked(w)
  PROVE  NumberInv'
<1>0. ListTypes BY DEF Typed
<1>1. PICK v \in Act :
        /\ acts' = (acts \ {w}) \cup {v}
        /\ v.mount = w.mount /\ v.kind = w.kind /\ v.loan = w.loan /\ v.n = w.n
        /\ v.num = w.num /\ v.made = w.made /\ v.done = w.done
        /\ list' = list /\ loads' = loads /\ items' = items
  BY <1>0, CheckedFacts
<1>2. AllNumbered' /\ \A l \in Loan : Muddled(l, items, causes) => Muddled(l, items', causes')
  BY <1>1, NumbersStill DEF NumberInv
<1>3. \A l \in Loan : Due(l, items', acts', causes') =>
        Due(l, items, acts, causes) /\ ConditionsOf(l, items') = ConditionsOf(l, items)
  <2>1. ASSUME NEW l \in Loan, Uncounted(l, acts) PROVE Uncounted(l, acts')
    <3>1. PICK u \in acts : Numbers(u) /\ u.loan = l /\ u.made # {} BY <2>1 DEF Uncounted
    <3>2. CASE u = w
      <4>1. v \in acts' /\ Numbers(v) /\ v.loan = l /\ v.made # {} BY <1>1, <3>1, <3>2 DEF Numbers
      <4> QED BY <4>1 DEF Uncounted
    <3>3. CASE u # w BY <1>1, <3>1, <3>3 DEF Uncounted
    <3> QED BY <3>2, <3>3
  <2> QED BY <1>1, <1>2, <2>1 DEF Due
<1>4. LoadsCount' /\ SeenCounts' BY <1>1, <1>3, CountsStill
<1>5. AllFollow'
  <2>1. \A l \in Loan : ConditionsOf(l, items') = ConditionsOf(l, items) BY <1>1
  <2>2. ~v.done /\ Follows(w, list, items, acts) => v.num = Cardinality(ConditionsOf(w.loan, items')) + 1
    BY <1>1 DEF Follows
  <2> QED BY <1>1, <1>2, <2>1, <2>2, NumberCarried
<1> QED BY <1>2, <1>4, <1>5 DEF NumberInv

\* The server carries one out: a condition that is added has the number after
\* all others, and is not counted yet.
LEMMA NumberRuns ==
  ASSUME Typed, NumberInv, CausesKept, ItemsGoOn, ListTypes', NEW w \in acts, ActRuns(w)
  PROVE  NumberInv'
<1>0. /\ ListTypes /\ items \in Seq(Thing) /\ items' \in Seq(Thing) /\ Len(items) \in Nat /\ w.n \in 0..Len(items)
      /\ w \in Act /\ w.loan \in Loan /\ ~w.done
  BY CreationFacts DEF Typed, ListTypes, ListRecords, ActBounds, ActRuns
<1>1. PICK v \in Act :
        /\ acts' = (acts \ {w}) \cup {v}
        /\ v.mount = w.mount /\ v.kind = w.kind /\ v.loan = w.loan /\ v.n = w.n /\ v.num = w.num + 1
        /\ v.made = IF w.n = 0 THEN w.made \cup {Len(items) + 1} ELSE {w.n}
        /\ list' = list /\ loads' = loads /\ items' = Committed(w)
  BY <1>0, RunFacts
<1>2. \A l \in Loan : Muddled(l, items, causes) => Muddled(l, items', causes') BY <1>0, StaysMuddled
<1>3. /\ \A n \in 1..Len(items) : items'[n].kind = items[n].kind /\ items'[n].loan = items[n].loan
                                  /\ items'[n].num = items[n].num
      /\ w.n # 0 => Len(items') = Len(items)
      /\ w.n = 0 => /\ Len(items') = Len(items) + 1
                    /\ items'[Len(items) + 1].kind = w.kind /\ items'[Len(items) + 1].loan = w.loan
                    /\ w.kind = "conditions" => items'[Len(items) + 1].num = w.num
  BY <1>0, <1>1, CommittedFacts DEF ItemsGoOn
<1>4. \A l : (Numbers(w) => l # w.loan) => ConditionsOf(l, items') = ConditionsOf(l, items)
  <2>1. CASE w.n # 0 BY <1>3, <2>1 DEF ConditionsOf
  <2>2. CASE w.n = 0
    <3>1. \A n : n \in 1..Len(items') <=> n \in 1..Len(items) \/ n = Len(items) + 1 BY <1>0, <1>3, <2>2
    <3> QED BY <1>3, <2>2, <3>1 DEF ConditionsOf, Numbers
  <2> QED BY <2>1, <2>2
<1>5. Numbers(w) =>
        /\ ConditionsOf(w.loan, items') = ConditionsOf(w.loan, items) \cup {Len(items) + 1}
        /\ Cardinality(ConditionsOf(w.loan, items)) \in Nat
        /\ Cardinality(ConditionsOf(w.loan, items')) = Cardinality(ConditionsOf(w.loan, items)) + 1
  <2> SUFFICES ASSUME Numbers(w)
               PROVE  /\ ConditionsOf(w.loan, items') = ConditionsOf(w.loan, items) \cup {Len(items) + 1}
                      /\ Cardinality(ConditionsOf(w.loan, items)) \in Nat
                      /\ Cardinality(ConditionsOf(w.loan, items')) = Cardinality(ConditionsOf(w.loan, items)) + 1
    OBVIOUS
  <2>1. w.n = 0 /\ w.kind = "conditions" BY DEF Numbers
  <2>2. \A n : n \in 1..Len(items') <=> n \in 1..Len(items) \/ n = Len(items) + 1 BY <1>0, <1>3, <2>1
  <2>3. ConditionsOf(w.loan, items') = ConditionsOf(w.loan, items) \cup {Len(items) + 1}
    BY <1>3, <2>1, <2>2 DEF ConditionsOf
  <2>4. /\ IsFiniteSet(ConditionsOf(w.loan, items)) /\ Cardinality(ConditionsOf(w.loan, items)) \in Nat
        /\ Len(items) + 1 \notin ConditionsOf(w.loan, items)
    <3>1. ConditionsOf(w.loan, items) \subseteq 1..Len(items) BY <1>0, CountedFacts
    <3>2. Len(items) + 1 \notin 1..Len(items) BY <1>0
    <3> QED BY <1>0, <3>1, <3>2, CountedFacts
  <2> QED BY <2>3, <2>4, FS_AddElement
<1>6. \A l \in Loan : Due(l, items', acts', causes') =>
        Due(l, items, acts, causes) /\ ConditionsOf(l, items') = ConditionsOf(l, items)
  <2>1. v \in acts' /\ (Numbers(v) <=> Numbers(w)) BY <1>1 DEF Numbers
  <2>2. Numbers(w) => Uncounted(w.loan, acts')
    <3>1. Numbers(w) => v.made # {} BY <1>1 DEF Numbers
    <3> QED BY <1>1, <2>1, <3>1 DEF Uncounted
  <2>3. ASSUME NEW l \in Loan, Uncounted(l, acts) PROVE Uncounted(l, acts')
    <3>1. PICK u \in acts : Numbers(u) /\ u.loan = l /\ u.made # {} BY <2>3 DEF Uncounted
    <3>2. CASE u = w BY <2>2, <3>1, <3>2
    <3>3. CASE u # w BY <1>1, <3>1, <3>3 DEF Uncounted
    <3> QED BY <3>2, <3>3
  <2> QED BY <1>2, <1>4, <2>2, <2>3 DEF Due
<1>7. LoadsCount' /\ SeenCounts' BY <1>1, <1>6, CountsStill
<1>8. AllNumbered'
  <2> SUFFICES ASSUME NEW l \in Loan, ~Muddled(l, items', causes') PROVE Numbered(l, items') BY DEF AllNumbered
  <2>1. Numbered(l, items) BY <1>2 DEF NumberInv, AllNumbered
  <2>2. \A n \in ConditionsOf(l, items) : n \in 1..Len(items) /\ items'[n].num = items[n].num BY <1>3 DEF ConditionsOf
  <2>3. CASE Numbers(w) => l # w.loan BY <1>4, <2>1, <2>2, <2>3 DEF Numbered
  <2>4. CASE Numbers(w) /\ l = w.loan
    <3>1. w.num = Cardinality(ConditionsOf(l, items)) + 1
      BY <1>0, <1>2, <2>4 DEF NumberInv, AllFollow, Follows
    <3>2. items'[Len(items) + 1].num = w.num BY <1>3, <2>4 DEF Numbers
    <3>3. \A n \in ConditionsOf(l, items) : items[n].num \in Nat
      <4>1. \A n \in 1..Len(items) : items[n] \in Thing BY <1>0
      <4> QED BY <2>2, <4>1 DEF Thing
    <3> QED BY <1>5, <2>1, <2>2, <2>4, <3>1, <3>2, <3>3 DEF Numbered
  <2> QED BY <2>3, <2>4
<1>9. AllFollow'
  <2>1. Numbers(w) /\ Follows(w, list, items, acts) => v.num = Cardinality(ConditionsOf(w.loan, items')) + 1
    BY <1>0, <1>1, <1>5 DEF Follows
  <2> QED BY <1>0, <1>1, <1>2, <1>4, <2>1, NumberCarried
<1> QED BY <1>7, <1>8, <1>9 DEF NumberInv

\* It is answered: a list whose condition was added is loaded again.
LEMMA NumberAnswered ==
  ASSUME Typed, NumberInv, CausesKept, ListTypes', NEW w \in acts, ActAnswered(w)
  PROVE  NumberInv'
<1>0. PageTypes /\ ListTypes /\ w.loan \in Loan /\ items' = items /\ acts' = acts \ {w}
  BY CreationFacts DEF Typed, ActAnswered
<1>1. \A u \in acts' : Numbers(u) => u \in acts BY <1>0
<1>2. CASE ~OurAct(w)
  <2>1. list' = list /\ loads' = loads BY <1>2 DEF ActAnswered
  <2>2. Numbers(w) => Muddled(w.loan, items', causes')
    <3>1. Numbers(w) => Muddled(w.loan, items, causes) BY <1>2 DEF NumberInv, AllFollow, Follows, OurAct
    <3> QED BY <1>0, <3>1, NumbersStill DEF NumberInv
  <2>3. \A u \in acts : Numbers(u) /\ u.made # {} => u \in acts' \/ Muddled(u.loan, items', causes') BY <1>0, <2>2
  <2> QED BY <1>0, <1>1, <2>1, <2>3, NumberRest
<1>3. CASE OurAct(w)
  <2>0. list # NoList /\ list \in Listing /\ list.kind = w.kind
    BY <1>0, <1>3, ListMounted DEF OurAct, ListTypes, ActBounds
  <2>1. /\ Freed(w) \in Listing /\ Freed(w).kind = list.kind /\ Freed(w).mount = list.mount
        /\ Freed(w).loan = list.loan /\ Freed(w).seen = list.seen /\ Freed(w).of = list.of /\ Freed(w).shows = list.shows
        /\ Freed(w).broken = list.broken
    BY <2>0, FreedFacts
  <2>2. IF Section(w.kind).patches THEN Patch(w) ELSE Refresh(w) BY <1>3 DEF ActAnswered
  <2>3. CASE w.kind # "conditions"
    <3>1. list' # NoList /\ list'.kind = list.kind /\ list'.mount = list.mount /\ list'.loan = list.loan
      <4>1. CASE Section(w.kind).patches
        <5>1. PICK s : s = Patched(w) OBVIOUS
        <5>2. list' = [Freed(w) EXCEPT !.seen = s] BY <2>2, <4>1, <5>1 DEF Patch
        <5>3. s \in View BY <1>0, <2>0, <5>1, PatchedFacts
        <5>4. list' \in Listing /\ list'.kind = list.kind /\ list'.mount = list.mount /\ list'.loan = list.loan
          BY <2>1, <5>2, <5>3 DEF Listing
        <5> QED BY <5>4, NoListKind
      <4>2. CASE ~Section(w.kind).patches
        <5>1. list' = HiddenIf(list, "again") BY <2>0, <2>2, <2>3, <4>2 DEF Refresh, LoadAgain
        <5> QED BY <2>0, <5>1, HiddenIfFacts, NoListKind
      <4> QED BY <4>1, <4>2
    <3>2. \A u \in acts : Numbers(u) /\ u.made # {} => u \in acts' \/ Muddled(u.loan, items', causes')
      BY <1>0, <2>3 DEF Numbers
    <3> QED BY <1>0, <1>1, <2>0, <2>3, <3>1, <3>2, NumberRest
  <2>4. CASE w.kind = "conditions"
    <3>1. ~Section("conditions").patches BY DEF Section, ListSections, ConditionsList, ReadOnly
    <3>2. Refetched(Freed(w), w.n = 0) BY <2>0, <2>2, <2>4, <3>1 DEF Refresh
    <3>3. /\ list' \in Listing /\ list'.kind = list.kind /\ list'.mount = list.mount /\ list'.loan = list.loan
          /\ list'.seen = list.seen /\ list'.of = list.of
          /\ \/ ~list'.shows /\ loads' = {Load(list.loan, TRUE, {})}
             \/ list'.shows = list.shows /\ list'.broken = list.broken /\ loads' = loads /\ w.n # 0
      BY <2>1, <3>2, RefetchedFacts
    <3>4. list' # NoList BY <3>3, NoListKind
    <3>5. Load(list.loan, TRUE, {}).got = Unread BY <1>0, <2>0, EffectLoad DEF Listing
    <3>6. CASE w.n # 0
      <4>1. \A u \in acts : Numbers(u) /\ u.made # {} => u \in acts' \/ Muddled(u.loan, items', causes')
        BY <1>0, <3>6 DEF Numbers
      <4> QED BY <1>0, <1>1, <2>0, <2>4, <3>3, <3>4, <3>5, <4>1, NumberRest
    <3>7. CASE w.n = 0
      <4>1. AllNumbered' BY <1>0, NumbersStill DEF NumberInv
      <4>2. AllFollow' BY <1>0, <1>1, <2>0, <3>3, <3>4, FollowsStill
      <4>3. ~list'.shows /\ \A ld \in loads' : ld.got = Unread BY <3>3, <3>5, <3>7
      <4>4. LoadsCount' /\ SeenCounts' BY <4>3 DEF LoadsCount, SeenCounts, Unread
      <4> QED BY <4>1, <4>2, <4>4 DEF NumberInv
    <3> QED BY <3>6, <3>7
  <2> QED BY <2>3, <2>4
<1> QED BY <1>2, <1>3

\* It fails: what it may have made is not counted, and the loan is blamed for it.
LEMMA NumberFails ==
  ASSUME Typed, NumberInv, CausesKept, ListTypes', NEW w \in acts, ActFails(w)
  PROVE  NumberInv'
<1>0. PageTypes /\ ListTypes /\ w.loan \in Loan /\ w.loan \in LoansOf(w) /\ w \in Act BY CreationFacts DEF Typed
<1>1. /\ loads' = loads /\ items' = items
      /\ list' = IF OurAct(w) THEN Freed(w) ELSE list
      /\ \/ acts' = acts \ {w}
         \/ \E v \in Act : acts' = (acts \ {w}) \cup {v} /\ v.n = w.n /\ v.kind = w.kind
                           /\ Section(w.kind).template = "together"
  BY <1>0, FailedFacts
<1>2. \A u \in acts' : Numbers(u) => u \in acts
  <2>1. Section("conditions").template = "serial" BY DEF Section, ListSections, ConditionsList, ReadOnly
  <2> QED BY <1>1, <2>1 DEF Numbers
<1>3. \A u \in acts : Numbers(u) /\ u.made # {} => u \in acts' \/ Muddled(u.loan, items', causes')
  <2>1. ASSUME Numbers(w), w.made # {} PROVE Muddled(w.loan, items', causes')
    <3>1. Parsed(w)
      <4>1. w.op # "remove" BY <1>0, <2>1 DEF Numbers, ListTypes, ActBounds
      <4> QED BY <4>1 DEF Parsed
    <3>2. causes' = Blame(LoansOf(w), "unanswered") BY <2>1, <3>1 DEF ActFails
    <3> QED BY <1>0, <3>2, MuddledBy
  <2>2. \A u \in acts : u # w => u \in acts' BY <1>1
  <2> QED BY <2>1, <2>2
<1>4. CASE OurAct(w)
  <2>1. list # NoList /\ list \in Listing BY <1>0, <1>4, ListMounted DEF OurAct
  <2>2. /\ list' \in Listing /\ list'.kind = list.kind /\ list'.mount = list.mount
        /\ list'.loan = list.loan /\ list'.seen = list.seen /\ list'.of = list.of /\ list'.shows = list.shows
        /\ list'.broken = list.broken
    BY <1>1, <1>4, <2>1, FreedFacts
  <2> QED BY <1>0, <1>1, <1>2, <1>3, <2>1, <2>2, NoListKind, NumberRest
<1>5. CASE ~OurAct(w)
  <2>1. list' = list BY <1>1, <1>5
  <2> QED BY <1>0, <1>1, <1>2, <1>3, <2>1, NumberRest
<1> QED BY <1>4, <1>5

\* Another user adds a condition: its loan is blamed, the others are as they were.
LEMMA NumberAdded ==
  ASSUME Typed, NumberInv, CausesKept, ListTypes', ItemsGoOn, InList(AddedElsewhere)
  PROVE  NumberInv'
<1>0. /\ ListTypes /\ list' = list /\ loads' = loads /\ acts' = acts /\ items' \in Seq(Thing)
      /\ \A n \in 1..Len(items) : items'[n] = items[n]
  BY AddedApart DEF Typed
<1>1. PICK x \in Loan :
        /\ causes' = Blame({x}, "shared")
        /\ \A l, m : l # x =>
             (m \in 1..Len(items') /\ items'[m].loan = l <=> m \in 1..Len(items) /\ items[m].loan = l)
  BY AddedApart
<1>2. \A l \in Loan : Muddled(l, items, causes) => Muddled(l, items', causes') BY <1>0, StaysMuddled
<1>3. Muddled(x, items', causes') BY <1>1, MuddledBy
<1>4. \A l : l # x => ConditionsOf(l, items') = ConditionsOf(l, items)
  BY <1>0, <1>1 DEF ConditionsOf
<1>5. \A l, n : n \in ConditionsOf(l, items) => items'[n] = items[n] BY <1>0 DEF ConditionsOf
<1>6. AllNumbered'
  <2> SUFFICES ASSUME NEW l \in Loan, ~Muddled(l, items', causes') PROVE Numbered(l, items')
    BY DEF AllNumbered, Muddled, Numbered, ConditionsOf
  <2>1. l # x /\ ~Muddled(l, items, causes) BY <1>2, <1>3
  <2>2. Numbered(l, items) BY <2>1 DEF NumberInv, AllNumbered
  <2> QED BY <1>4, <1>5, <2>1, <2>2 DEF Numbered
<1>7. AllFollow'
  <2> SUFFICES ASSUME NEW w \in acts, Numbers(w), ~Muddled(w.loan, items', causes')
               PROVE  Follows(w, list, items', acts)
    BY <1>0 DEF AllFollow, Muddled, Follows, ConditionsOf
  <2>1. w.loan \in Loan BY <1>0, CreationFacts
  <2>2. w.loan # x /\ ~Muddled(w.loan, items, causes) BY <1>2, <1>3, <2>1
  <2>3. Follows(w, list, items, acts) BY <2>2 DEF NumberInv, AllFollow
  <2> QED BY <1>4, <2>2, <2>3 DEF Follows
<1>8. \A l \in Loan : Due(l, items', acts', causes') =>
        Due(l, items, acts, causes) /\ ConditionsOf(l, items') = ConditionsOf(l, items)
  BY <1>0, <1>2, <1>3, <1>4 DEF Due, Uncounted
<1>9. LoadsCount' /\ SeenCounts' BY <1>0, <1>8, CountsStill
<1> QED BY <1>6, <1>7, <1>9 DEF NumberInv

\* Every step keeps it.
LEMMA NumberNext ==
  ASSUME Typed, NumberInv, [Next]_vars
  PROVE  NumberInv'
<1>0. CausesKept /\ PageTypes /\ FormTypes /\ ListTypes /\ ListTypes' /\ ItemsGoOn
  BY NothingForgotten, NextTyped, ItemsRemain DEF Typed
<1>1. CASE TurnStep BY <1>0, <1>1, NumberTurn
<1>2. ASSUME items' = items, acts' = acts, list' = list, loads' = loads PROVE NumberInv'
  BY <1>0, <1>2, NumberRest
<1>3. CASE InForm(FormStep) BY <1>2, <1>3 DEF InForm, listVars
<1>4. CASE InList(ListStep)
  <2>1. CASE ListUser BY <1>0, <2>1, NumberUser
  <2>2. CASE \E ld \in loads : ListRead(ld) \/ ListArrives(ld) \/ ListLoadFails(ld) BY <1>0, <2>2, NumberLoads
  <2>3. CASE \E w \in acts : ActChecked(w) \/ ActRuns(w) \/ ActAnswered(w) \/ ActFails(w)
    BY <1>0, <2>3, NumberChecked, NumberRuns, NumberAnswered, NumberFails
  <2> QED BY <1>4, <2>1, <2>2, <2>3 DEF InList, ListStep, ListBackground
<1>5. CASE UNCHANGED vars BY <1>2, <1>5 DEF vars, listVars
<1>6. CASE InForm(CreatedElsewhere) BY <1>2, <1>6 DEF InForm, listVars
<1>7. CASE InList(AddedElsewhere) BY <1>0, <1>7, NumberAdded
<1> QED BY <1>1, <1>3, <1>4, <1>5, <1>6, <1>7, Steps DEF Others

\* At the start a loan's conditions are numbered from 1.
LEMMA NumberInit ==
  ASSUME Init
  PROVE  NumberInv
<1>0. PageTypes /\ ListTypes /\ ListsInit /\ list = NoList /\ loads = {} /\ acts = {}
  BY InitTyped DEF Init, ListsInit, Typed
<1>1. PICK I : I = 1..limit.items OBVIOUS
<1>2. limit.items \in Nat BY <1>0, ListsAssumption DEF PageTypes
<1>3. /\ items \in Seq(Thing)
      /\ \A n \in 1..Len(items) : items[n].num \in I /\ items[n].kind \in limit.sections \cap ListKinds
      /\ \A m, n \in 1..Len(items) :
           items[m].kind = items[n].kind /\ items[m].loan = items[n].loan /\ items[m].num = items[n].num => m = n
      /\ \A k \in limit.sections \cap ListKinds, l \in Loan, i \in I :
           \E n \in 1..Len(items) : items[n].kind = k /\ items[n].loan = l /\ items[n].num = i
  BY <1>0, <1>1, FirstItems
<1>4. AllNumbered
  <2> SUFFICES ASSUME NEW l \in Loan PROVE Numbered(l, items) BY DEF AllNumbered
  <2>1. PICK C : C = ConditionsOf(l, items) OBVIOUS
  <2>2. IsFiniteSet(C) /\ Cardinality(C) \in Nat BY <1>3, <2>1, CountedFacts
  <2>3. \A m, n \in C : items[m].num = items[n].num => m = n BY <1>3, <2>1 DEF ConditionsOf
  <2>4. ASSUME NEW n \in C PROVE items[n].num <= Cardinality(C)
    <3>1. n \in 1..Len(items) /\ "conditions" \in limit.sections \cap ListKinds
      BY <1>3, <2>1, <2>4 DEF ConditionsOf
    <3>2. \A i \in I : \E m \in C : items[m].num = i BY <1>3, <2>1, <3>1 DEF ConditionsOf
    <3>3. PICK f : f = [m \in C |-> items[m].num] OBVIOUS
    <3>4. f \in Surjection(C, I)
      <4>1. \A m \in C : items[m].num \in I BY <1>3, <2>1 DEF ConditionsOf
      <4>2. f \in [C -> I] BY <3>3, <4>1
      <4>3. \A i \in I : \E m \in C : f[m] = i BY <3>2, <3>3
      <4> QED BY <4>2, <4>3 DEF Surjection
    <3>5. Cardinality(I) <= Cardinality(C) BY <2>2, <3>4, FS_Surjection
    <3>6. Cardinality(I) = limit.items
      <4>1. Cardinality(1..limit.items) = IF 1 > limit.items THEN 0 ELSE limit.items - 1 + 1 BY <1>2, FS_Interval
      <4> QED BY <1>1, <1>2, <4>1
    <3>7. items[n].num \in 1..limit.items BY <1>1, <1>3, <3>1
    <3> QED BY <1>2, <2>2, <3>5, <3>6, <3>7
  <2> QED BY <2>1, <2>3, <2>4 DEF Numbered
<1> QED BY <1>0, <1>4 DEF NumberInv, AllFollow, LoadsCount, SeenCounts

\* The conditions of a loan have different numbers, though the page numbers a
\* new one by how many it shows, as long as none was removed, another loan's
\* were not counted, none was added while a template was applied, no request
\* was left or unanswered, and no other user added one.
THEOREM NumbersApart == Spec => []NumbersDistinct
<1>1. ASSUME Typed, NumberInv PROVE NumbersDistinct
  <2> SUFFICES ASSUME NEW m \in DOMAIN items, NEW n \in DOMAIN items,
                      items[m].kind = "conditions", items[n].kind = "conditions", m # n,
                      items[m].loan = items[n].loan, items[m].num = items[n].num,
                      ~Muddled(items[n].loan, items, causes)
               PROVE  FALSE
    <3>1. \A l : Muddled(l, items, causes) => Renumbered(l) \/ ~Quiet(l, {"miscounted", "overlap", "left", "unanswered", "shared"})
      <4>1. DOMAIN items = 1..Len(items) BY <1>1 DEF Typed, ListTypes, ListRecords
      <4> QED BY <4>1 DEF Muddled, ConditionsOf, Renumbered, Quiet
    <3> QED BY <3>1 DEF NumbersDistinct
  <2>1. /\ items \in Seq(Thing) /\ DOMAIN items = 1..Len(items) /\ \A i \in 1..Len(items) : items[i] \in Thing
    BY <1>1 DEF Typed, ListTypes, ListRecords
  <2>2. items[n].loan \in Loan BY <2>1 DEF Thing
  <2>3. Numbered(items[n].loan, items) BY <1>1, <2>2 DEF NumberInv, AllNumbered
  <2> QED BY <2>1, <2>3 DEF Numbered, ConditionsOf
<1>2. Init => NumberInv BY NumberInit
<1>3. Typed /\ NumberInv /\ [Next]_vars => NumberInv' BY NumberNext
<1>4. Typed /\ NumberInv => NumbersDistinct BY <1>1
<1> QED BY <1>2, <1>3, <1>4, AlwaysTyped, PTL DEF Spec

---------------------------------------------------------------------------
(* What a list shows. First its course: whose loads and requests are under *)
(* way, while nothing that happened to a loan keeps its list from the      *)
(* server's items.                                                         *)

\* What happened to a loan that its list does not survive.
Off(l, cs) == cs[l] \cap {"failed", "late", "crossed", "left", "unanswered", "unparsed", "shared"} # {}

\* The loans a request touches: the one it is sent for and its item's.
Touches(w, is) == {w.loan} \cup IF w.n = 0 THEN {} ELSE {is[w.n].loan}

\* They are touched by the list mounted, for its loan; so are its loads.
Attended == \A w \in acts : \A l \in Touches(w, items) : Off(l, causes) \/ (OurAct(w) /\ list.loan = w.loan)
Asked == \A ld \in loads : Off(ld.loan, causes) \/ ld.loan = list.loan

\* What is hidden is being loaded; conditions are loaded once at a time.
Waited == list # NoList /\ ~list.shows => loads # {}
Single == list # NoList /\ list.kind = "conditions" => \A ld \in loads : ld.effect /\ \A e \in loads : e = ld

\* A request makes items of its loan, or changes its item.
MakesOwn(w, is) ==
  /\ w.n # 0 => w.made \subseteq {w.n}
  /\ w.n = 0 => w.to = "open" /\ \A n \in w.made : is[n].loan = w.loan
AllMake == \A w \in acts : MakesOwn(w, items)

CourseInv == Attended /\ Asked /\ Waited /\ Single /\ AllMake

\* What a list does not survive stays; a cause of it.
LEMMA OffStays ==
  ASSUME CausesKept
  PROVE  \A l \in Loan : Off(l, causes) => Off(l, causes')
BY DEF Off, CausesKept

\* A cause for which a list is not the server's.
LEMMA OffBy ==
  ASSUME NEW ls, NEW cause \in {"failed", "late", "crossed", "left", "unanswered", "unparsed", "shared"},
         causes' = Blame(ls, cause)
  PROVE  \A l \in Loan : l \in ls => Off(l, causes')
BY BlameKeeps DEF Off

\* A request touches loans, and goes on to touch them.
LEMMA TouchFacts ==
  ASSUME ListTypes, NEW w \in acts
  PROVE  /\ w \in Act /\ w.loan \in Loan /\ Touches(w, items) = LoansOf(w) /\ LoansOf(w) \subseteq Loan
         /\ w.loan \in LoansOf(w) /\ (w.n # 0 => w.n \in 1..Len(items) /\ items[w.n].loan \in LoansOf(w))
         /\ ItemsGoOn => Touches(w, items') = LoansOf(w)
         /\ \A is : Touches(w, is) = {w.loan} \cup IF w.n = 0 THEN {} ELSE {is[w.n].loan}
<1>1. /\ w \in Act /\ w.n \in 0..Len(items) /\ Len(items) \in Nat /\ \A n \in 1..Len(items) : items[n] \in Thing
  BY DEF ListTypes, ListRecords, ActBounds
<1>2. w.n # 0 => w.n \in 1..Len(items) BY <1>1
<1>3. w.loan \in Loan /\ (w.n # 0 => items[w.n].loan \in Loan) BY <1>1, <1>2 DEF Act, Thing
<1>4. ItemsGoOn => (w.n # 0 => items'[w.n].loan = items[w.n].loan) BY <1>2 DEF ItemsGoOn
<1> QED BY <1>1, <1>2, <1>3, <1>4 DEF Touches, LoansOf

\* What is under way stays attended, or is blamed.
LEMMA AttendedStill ==
  ASSUME Typed, CourseInv, CausesKept, ItemsGoOn,
         \/ list' = list
         \/ list # NoList /\ list' # NoList /\ list'.mount = list.mount /\ list'.loan = list.loan
         \/ \A w \in acts : OurAct(w) => \A l \in LoansOf(w) : Off(l, causes'),
         \A w \in acts' :
           \/ \E u \in acts : u.n = w.n /\ u.loan = w.loan /\ u.mount = w.mount
           \/ \A l \in Touches(w, items') : Off(l, causes')
           \/ list' # NoList /\ w.mount = list'.mount /\ w.loan = list'.loan
  PROVE  Attended'
<1> SUFFICES ASSUME NEW w \in acts', NEW l \in Touches(w, items'), ~Off(l, causes')
             PROVE  list' # NoList /\ list'.mount = w.mount /\ list'.loan = w.loan
  BY DEF Attended, Touches, Off, OurAct
<1>1. CASE \E u \in acts : u.n = w.n /\ u.loan = w.loan /\ u.mount = w.mount
  <2>1. PICK u \in acts : u.n = w.n /\ u.loan = w.loan /\ u.mount = w.mount BY <1>1
  <2>2. l \in LoansOf(u) /\ l \in Touches(u, items) /\ l \in Loan
    <3>1. Touches(w, items') = Touches(u, items') BY <2>1 DEF Touches
    <3> QED BY <2>1, <3>1, TouchFacts DEF Typed
  <2>3. OurAct(u) /\ list.loan = u.loan BY <2>1, <2>2, OffStays DEF CourseInv, Attended
  <2> QED BY <2>1, <2>2, <2>3 DEF OurAct
<1> QED BY <1>1

\* Items that are made are their request's.
LEMMA MakeStill ==
  ASSUME Typed, CourseInv, ItemsGoOn,
         \A w \in acts' : (w.made = {} /\ (w.n = 0 => w.to = "open"))
                            \/ \E u \in acts : u.n = w.n /\ u.loan = w.loan /\ u.made = w.made /\ u.to = w.to
  PROVE  AllMake'
<1> SUFFICES ASSUME NEW w \in acts' PROVE MakesOwn(w, items')
  BY DEF AllMake, MakesOwn
<1>1. CASE w.made = {} /\ (w.n = 0 => w.to = "open") BY <1>1 DEF MakesOwn
<1>2. CASE \E u \in acts : u.n = w.n /\ u.loan = w.loan /\ u.made = w.made /\ u.to = w.to
  <2>1. PICK u \in acts : u.n = w.n /\ u.loan = w.loan /\ u.made = w.made /\ u.to = w.to BY <1>2
  <2>2. MakesOwn(u, items) BY DEF CourseInv, AllMake
  <2>3. \A n \in w.made : n \in 1..Len(items) BY <2>1 DEF Typed, ListTypes, ActBounds, Products
  <2> QED BY <2>1, <2>2, <2>3 DEF MakesOwn, ItemsGoOn
<1> QED BY <1>1, <1>2

\* The page turns: what is under way is left.
LEMMA CourseTurn ==
  ASSUME Typed, CourseInv, CausesKept, ItemsGoOn, TurnStep
  PROVE  /\ CourseInv'
         /\ list' # list => /\ \A w \in acts : \A l \in LoansOf(w) : Off(l, causes')
                            /\ list' # NoList => loads' # {}
                            /\ \A ld \in loads' : ld.got = Unread \/ (ld \in loads /\ Off(ld.loan, causes'))
         /\ list' = list => loads' = loads
<1>0. PageTypes /\ ListTypes /\ items' = items /\ acts' = acts BY RelistCases DEF Typed
<1>1. ASSUME list' # list, NEW w \in acts, NEW l \in LoansOf(w) PROVE Off(l, causes')
  <2>1. l \in Loan /\ Touches(w, items) = LoansOf(w) BY <1>0, <1>1, TouchFacts
  <2>2. CASE OurAct(w)
    <3>1. causes' = Blame(LeftUnderWay, "left") BY <1>0, <1>1, TurnFacts
    <3>2. l \in LeftUnderWay BY <1>1, <2>2 DEF LeftUnderWay
    <3> QED BY <2>1, <3>1, <3>2, OffBy
  <2>3. CASE ~OurAct(w) BY <1>1, <2>1, <2>3, OffStays DEF CourseInv, Attended
  <2> QED BY <2>2, <2>3
<1>2. ASSUME list' # list, NEW ld \in loads', ld \in loads PROVE Off(ld.loan, causes')
  <2>1. ld.loan \in Loan BY <1>0, <1>2 DEF ListTypes, ListRecords, Fetch
  <2>2. causes' = Blame(LeftUnderWay, "left") BY <1>0, <1>2, TurnFacts
  <2>3. ld.loan \in LeftUnderWay
    <3>1. ld \in loads' \cap loads BY <1>2
    <3> QED BY <3>1 DEF LeftUnderWay
  <2> QED BY <2>1, <2>2, <2>3, OffBy
<1>3. AllMake' BY <1>0, MakeStill
<1>4. Attended'
  <2>1. \A w \in acts' :
           \/ \E u \in acts : u.n = w.n /\ u.loan = w.loan /\ u.mount = w.mount
           \/ \A l \in Touches(w, items') : Off(l, causes')
           \/ list' # NoList /\ w.mount = list'.mount /\ w.loan = list'.loan
    BY <1>0
  <2>2. \/ list' = list
        \/ \A w \in acts : OurAct(w) => \A l \in LoansOf(w) : Off(l, causes')
    BY <1>1
  <2> QED BY <2>1, <2>2, AttendedStill
<1>5. CASE list' = NoList /\ loads' = {}
  <2>1. list' = list => loads' = loads BY <1>0, <1>5 DEF ListTypes, LoadBounds
  <2>2. (Asked /\ Waited /\ Single)' BY <1>5 DEF Asked, Waited, Single
  <2> QED BY <1>1, <1>3, <1>4, <1>5, <2>1, <2>2 DEF CourseInv
<1>6. CASE list # NoList /\ list' = list /\ loads' = loads
  <2>1. \A ld \in loads : Off(ld.loan, causes') \/ ld.loan = list'.loan
    <3>1. \A ld \in loads : ld.loan \in Loan BY <1>0 DEF ListTypes, ListRecords, Fetch
    <3> QED BY <1>6, <3>1, OffStays DEF CourseInv, Asked
  <2>2. Asked' BY <1>6, <2>1 DEF Asked, Off
  <2>3. (Waited /\ Single)' BY <1>6 DEF CourseInv, Waited, Single
  <2> QED BY <1>3, <1>4, <1>6, <2>2, <2>3 DEF CourseInv
<1>7. CASE /\ list # NoList /\ shown' \in Loan /\ shown' # list.loan
           /\ list' = HiddenIf([list EXCEPT !.loan = shown'], "switch")
           /\ loads' = Kept(list.kind) \cup {Load(shown', TRUE, {})}
  <2>1. PICK p : p = [list EXCEPT !.loan = shown'] OBVIOUS
  <2>2. list \in Listing BY <1>0, <1>7, ListMounted
  <2>3. p \in Listing /\ p.loan = shown' /\ p.kind = list.kind BY <1>7, <2>1, <2>2 DEF Listing
  <2>4. list'.loan = shown' /\ list'.kind = list.kind /\ list' # list
    <3>1. list' = HiddenIf(p, "switch") BY <1>7, <2>1
    <3>2. list'.loan = p.loan /\ list'.kind = p.kind BY <2>3, <3>1, HiddenIfFacts
    <3> QED BY <1>7, <2>3, <3>2
  <2>5. PICK e : e = Load(shown', TRUE, {}) OBVIOUS
  <2>6. e.loan = shown' /\ e.effect /\ e.got = Unread BY <1>0, <1>7, <2>5, EffectLoad
  <2>7. Kept(list.kind) \subseteq loads /\ (list.kind = "conditions" => Kept(list.kind) = {})
    <3>1. Section("conditions").cancels BY DEF Section, ListSections, ConditionsList, ReadOnly
    <3> QED BY <1>7, <3>1 DEF Kept, CourseInv, Single
  <2>8. loads' = Kept(list.kind) \cup {e} BY <1>7, <2>5
  <2>9. \A ld \in loads' : ld = e \/ (ld \in loads /\ Off(ld.loan, causes')) BY <1>2, <2>4, <2>7, <2>8
  <2>10. Asked' BY <2>4, <2>6, <2>9 DEF Asked, Off
  <2>11. Waited' BY <2>8 DEF Waited
  <2>12. Single' BY <2>4, <2>6, <2>7, <2>8 DEF Single
  <2> QED BY <1>1, <1>3, <1>4, <2>4, <2>6, <2>8, <2>9, <2>10, <2>11, <2>12 DEF CourseInv
<1>8. CASE /\ shown' \in Loan /\ route'.section \in ListKinds /\ list' = FreshList(route'.section, shown')
           /\ loads' = {Load(shown', TRUE, {})}
  <2>1. mounts \in Nat BY <1>0 DEF PageTypes
  <2>2. list' \in Listing /\ list'.loan = shown' /\ list'.mount = mounts + 1 BY <1>8, <2>1, FreshListFacts
  <2>3. list' # list
    <3>1. list # NoList => list.mount \in 1..mounts BY <1>0, ListMounted
    <3> QED BY <2>1, <2>2, <3>1, NoListKind
  <2>4. PICK e : e = Load(shown', TRUE, {}) OBVIOUS
  <2>5. e.loan = shown' /\ e.effect /\ e.got = Unread BY <1>0, <1>8, <2>4, EffectLoad
  <2>6. loads' = {e} BY <1>8, <2>4
  <2>7. (Asked /\ Waited /\ Single)' BY <2>2, <2>5, <2>6 DEF Asked, Waited, Single
  <2> QED BY <1>1, <1>3, <1>4, <2>3, <2>5, <2>6, <2>7 DEF CourseInv
<1> QED BY <1>0, <1>5, <1>6, <1>7, <1>8, RelistCases

\* A list on its loan, with loads of it: what is asked for is for that loan.
LEMMA AskedStill ==
  ASSUME Typed, CourseInv, CausesKept,
         list' # NoList => list # NoList /\ list'.loan = list.loan,
         \A ld \in loads' : \/ list' # NoList /\ ld.loan = list'.loan
                            \/ Off(ld.loan, causes')
                            \/ list' # NoList /\ \E e \in loads : e.loan = ld.loan
  PROVE  Asked'
<1> SUFFICES ASSUME NEW ld \in loads' PROVE Off(ld.loan, causes') \/ ld.loan = list'.loan
  BY DEF Asked, Off
<1>1. CASE list' # NoList /\ \E e \in loads : e.loan = ld.loan
  <2>1. PICK e \in loads : e.loan = ld.loan BY <1>1
  <2>2. ld.loan \in Loan BY <2>1 DEF Typed, ListTypes, ListRecords, Fetch
  <2>3. Off(ld.loan, causes) \/ ld.loan = list.loan BY <2>1 DEF CourseInv, Asked
  <2> QED BY <1>1, <2>2, <2>3, OffStays
<1> QED BY <1>1

\* The user acts on the loan's list.
LEMMA CourseUser ==
  ASSUME Typed, CourseInv, CausesKept, ItemsGoOn, ListUser
  PROVE  CourseInv'
<1>0. PageTypes /\ ListTypes /\ list # NoList /\ list \in Listing /\ list.loan \in Loan
  BY ListMounted DEF Typed, ListUser, Listing
<1>1. ASSUME NEW w \in Act, Sends(w), w.n = 0 => w.to = "open" PROVE CourseInv'
  <2>1. /\ items' = items /\ acts' = acts \cup {w} /\ loads' = loads /\ w.made = {}
        /\ w.mount = list.mount /\ w.loan = list.loan
        /\ list'.kind = list.kind /\ list'.mount = list.mount /\ list'.loan = list.loan
        /\ list'.shows = list.shows /\ list' # NoList
    BY <1>1, NoListKind DEF Sends
  <2>2. \A v \in acts' :
           \/ \E u \in acts : u.n = v.n /\ u.loan = v.loan /\ u.mount = v.mount
           \/ \A l \in Touches(v, items') : Off(l, causes')
           \/ list' # NoList /\ v.mount = list'.mount /\ v.loan = list'.loan
    BY <2>1
  <2>3. Attended' BY <1>0, <2>1, <2>2, AttendedStill
  <2>4. \A v \in acts' : (v.made = {} /\ (v.n = 0 => v.to = "open"))
                            \/ \E u \in acts : u.n = v.n /\ u.loan = v.loan /\ u.made = v.made /\ u.to = v.to
    BY <1>1, <2>1
  <2>5. AllMake' BY <2>4, MakeStill
  <2>6. Asked' BY <1>0, <2>1, AskedStill
  <2>7. (Waited /\ Single)' BY <1>0, <2>1 DEF CourseInv, Waited, Single
  <2> QED BY <2>3, <2>5, <2>6, <2>7 DEF CourseInv
<1>2. CASE Create
  <2>1. PICK w \in Act : Sends(w) /\ w.to = "open" BY <1>0, <1>2, CreateFacts
  <2> QED BY <1>1, <2>1
<1>3. CASE Step
  <2>1. PICK w \in Act, n \in DOMAIN list.seen : Sends(w) /\ w.n \in 1..Len(items) BY <1>0, <1>3, StepFacts
  <2>2. w.n # 0 BY <1>0, <2>1 DEF ListTypes, ListRecords
  <2> QED BY <1>1, <2>1, <2>2
<1>4. CASE RemoveItem
  <2>1. PICK w \in Act : Sends(w) /\ w.n \in 1..Len(items) BY <1>0, <1>4, RemoveFacts
  <2>2. w.n # 0 BY <1>0, <2>1 DEF ListTypes, ListRecords
  <2> QED BY <1>1, <2>1, <2>2
<1>5. CASE Retry
  <2>1. items' = items /\ acts' = acts /\ list.broken /\ Refetched(list, FALSE) BY <1>5 DEF Retry
  <2>2. /\ list' \in Listing /\ list'.kind = list.kind /\ list'.mount = list.mount /\ list'.loan = list.loan
        /\ ~list'.shows /\ loads' = {Load(list.loan, TRUE, {})}
    BY <1>0, <2>1, RefetchedFacts
  <2>3. PICK e : e = Load(list.loan, TRUE, {}) OBVIOUS
  <2>4. loads' = {e} /\ e.loan = list.loan /\ e.effect BY <1>0, <2>2, <2>3, EffectLoad
  <2>5. list' # NoList BY <2>2, NoListKind
  <2>6. \A v \in acts' :
           \/ \E u \in acts : u.n = v.n /\ u.loan = v.loan /\ u.mount = v.mount
           \/ \A l \in Touches(v, items') : Off(l, causes')
           \/ list' # NoList /\ v.mount = list'.mount /\ v.loan = list'.loan
    BY <2>1
  <2>7. Attended' BY <1>0, <2>2, <2>5, <2>6, AttendedStill
  <2>8. AllMake' BY <2>1, MakeStill
  <2>9. (Asked /\ Waited /\ Single)' BY <2>2, <2>4, <2>5 DEF Asked, Waited, Single
  <2> QED BY <2>7, <2>8, <2>9 DEF CourseInv
<1> QED BY <1>2, <1>3, <1>4, <1>5 DEF ListUser

\* Its loads are read and come, or fail.
LEMMA CourseLoads ==
  ASSUME Typed, CourseInv, CausesKept, ItemsGoOn, NEW ld \in loads, ListRead(ld) \/ ListArrives(ld) \/ ListLoadFails(ld)
  PROVE  CourseInv'
<1>0. /\ PageTypes /\ ListTypes /\ list # NoList /\ list \in Listing /\ ld \in Fetch /\ list.loan \in Loan
      /\ items' = items /\ acts' = acts
  <2>1. list # NoList /\ ld \in Fetch BY DEF Typed, ListTypes, ListRecords, LoadBounds
  <2>2. items' = items /\ acts' = acts BY DEF ListRead, ListArrives, ListLoadFails
  <2> QED BY <2>1, <2>2, ListMounted DEF Typed
<1>1. AllMake' BY <1>0, MakeStill
<1>2. \A v \in acts' :
         \/ \E u \in acts : u.n = v.n /\ u.loan = v.loan /\ u.mount = v.mount
         \/ \A l \in Touches(v, items') : Off(l, causes')
         \/ list' # NoList /\ v.mount = list'.mount /\ v.loan = list'.loan
  BY <1>0
<1>3. CASE ListRead(ld)
  <2>1. PICK r : r = [ld EXCEPT !.got = Live(list.kind, ld.loan)] OBVIOUS
  <2>2. list' = list /\ loads' = (loads \ {ld}) \cup {r} BY <1>3, <2>1 DEF ListRead
  <2>3. r.loan = ld.loan /\ r.effect = ld.effect BY <1>0, <2>1 DEF Fetch
  <2>4. Asked' BY <1>0, <2>2, <2>3, AskedStill
  <2>5. Waited' BY <2>2 DEF Waited
  <2>6. list.kind = "conditions" => loads' = {r} BY <1>0, <2>2 DEF CourseInv, Single
  <2>7. Single' BY <1>0, <2>2, <2>3, <2>6 DEF CourseInv, Single
  <2>8. Attended' BY <1>2, <2>2, AttendedStill
  <2> QED BY <1>1, <2>4, <2>5, <2>7, <2>8 DEF CourseInv
<1>4. CASE ListArrives(ld) \/ ListLoadFails(ld)
  <2>1. /\ list' \in Listing /\ list'.kind = list.kind /\ list'.mount = list.mount /\ list'.loan = list.loan
        /\ list'.shows
        /\ loads' = (loads \ {ld}) \cup IF list.again THEN {Load(list.loan, TRUE, {})} ELSE {}
    BY <1>0, <1>4, ArrivedFacts
  <2>2. list' # NoList BY <2>1, NoListKind
  <2>3. PICK e : e = Load(list.loan, TRUE, {}) OBVIOUS
  <2>4. e.loan = list.loan /\ e.effect BY <1>0, <2>3, EffectLoad
  <2>5. loads' = (loads \ {ld}) \cup IF list.again THEN {e} ELSE {} BY <2>1, <2>3
  <2>6. Asked' BY <1>0, <2>1, <2>2, <2>4, <2>5, AskedStill
  <2>7. list.kind = "conditions" => loads' \subseteq {e} BY <1>0, <2>5 DEF CourseInv, Single
  <2>8. (Waited /\ Single)' BY <2>1, <2>4, <2>7 DEF Waited, Single
  <2>9. Attended' BY <1>0, <1>2, <2>1, <2>2, AttendedStill
  <2> QED BY <1>1, <2>6, <2>8, <2>9 DEF CourseInv
<1> QED BY <1>3, <1>4

\* An answer to the list mounted patches it, has it loaded again, or started again.
LEMMA AnswerCases ==
  ASSUME Typed, NEW w \in acts, ActAnswered(w), OurAct(w)
  PROVE  /\ list # NoList /\ list \in Listing /\ list.kind = w.kind /\ list' # NoList /\ list' \in Listing
         /\ list'.kind = list.kind /\ list'.mount = list.mount /\ list'.loan = list.loan
         /\ \/ /\ Section(list.kind).patches /\ list.kind # "conditions"
               /\ list'.seen = Patched(w) /\ list'.shows = list.shows /\ loads' = loads
               /\ list'.busy = list.busy \ {Key(w.n)}
            \/ /\ ~Section(list.kind).patches /\ list.kind # "conditions"
               /\ list'.seen = list.seen /\ list'.again = list.again
               /\ \E e \in Fetch : /\ loads' = loads \cup {e}
                                   /\ e.loan = w.loan /\ ~e.effect /\ e.got = Unread
            \/ /\ ~Section(list.kind).patches /\ list.kind = "conditions"
               /\ list'.seen = list.seen
               /\ \/ /\ ~list'.shows /\ list'.again = list.again
                     /\ \E e \in Fetch : loads' = {e} /\ e.loan = list.loan /\ e.effect /\ e.got = Unread
                  \/ /\ loads' = loads /\ list'.again /\ list'.shows = list.shows /\ ~list.shows
<1>0. /\ PageTypes /\ ListTypes /\ w \in Act /\ w.n \in Nat /\ list # NoList /\ list \in Listing /\ list.kind = w.kind
      /\ list.loan \in Loan /\ w.loan \in Loan
  BY CreationFacts, ListMounted DEF Typed, OurAct, ListTypes, ActBounds, Act
<1>1. IF Section(w.kind).patches THEN Patch(w) ELSE Refresh(w) BY DEF ActAnswered
<1>2. PICK p : p = Freed(w) OBVIOUS
<1>3. /\ p \in Listing /\ p.kind = list.kind /\ p.mount = list.mount /\ p.loan = list.loan /\ p.seen = list.seen
      /\ p.shows = list.shows /\ p.broken = list.broken /\ p.again = list.again
      /\ p.busy = list.busy \ {Key(w.n)}
  BY <1>0, <1>2, FreedFacts
<1>4. ~Section("conditions").patches BY DEF Section, ListSections, ConditionsList, ReadOnly
<1>5. CASE Section(list.kind).patches
  <2>1. PICK s : s = Patched(w) OBVIOUS
  <2>2. list' = [p EXCEPT !.seen = s] /\ loads' = loads BY <1>0, <1>1, <1>2, <1>5, <2>1 DEF Patch
  <2>3. s \in View BY <1>0, <2>1, PatchedFacts
  <2>4. /\ list' \in Listing /\ list'.kind = list.kind /\ list'.mount = list.mount /\ list'.loan = list.loan
        /\ list'.seen = s /\ list'.shows = list.shows /\ list'.busy = p.busy
    BY <1>3, <2>2, <2>3 DEF Listing
  <2> QED BY <1>0, <1>3, <1>4, <1>5, <2>1, <2>2, <2>4, NoListKind
<1>6. CASE ~Section(list.kind).patches /\ list.kind # "conditions"
  <2>1. list' = HiddenIf(list, "again") /\ loads' = loads \cup {Load(w.loan, FALSE, {Key(w.n)})}
    BY <1>0, <1>1, <1>6 DEF Refresh, LoadAgain
  <2>2. /\ list' \in Listing /\ list'.kind = list.kind /\ list'.mount = list.mount /\ list'.loan = list.loan
        /\ list'.seen = list.seen /\ list'.again = list.again
    BY <1>0, <2>1, HiddenIfFacts
  <2>3. PICK f : f = {Key(w.n)} OBVIOUS
  <2>6. PICK no \in BOOLEAN : no = FALSE OBVIOUS
  <2>4. PICK e : e = Load(w.loan, no, f) OBVIOUS
  <2>5. e \in Fetch /\ e.loan = w.loan /\ ~e.effect /\ e.got = Unread
    <3>1. f \in SUBSET Nat /\ moves \in Nat BY <1>0, <2>3 DEF Key, PageTypes
    <3>2. e \in Fetch /\ e.loan = w.loan /\ e.effect = no /\ e.got = Unread BY <1>0, <2>4, <3>1, LoadFacts
    <3> QED BY <2>6, <3>2
  <2> QED BY <1>0, <1>6, <2>1, <2>2, <2>3, <2>4, <2>5, <2>6, NoListKind
<1>7. CASE list.kind = "conditions"
  <2>1. Refetched(p, w.n = 0) BY <1>0, <1>1, <1>2, <1>4, <1>7 DEF Refresh
  <2>2. /\ list' \in Listing /\ list'.kind = p.kind /\ list'.mount = p.mount /\ list'.loan = p.loan
        /\ list'.seen = p.seen
        /\ \/ ~list'.shows /\ list'.again = p.again /\ loads' = {Load(p.loan, TRUE, {})}
           \/ list'.again /\ list'.shows = p.shows /\ loads' = loads /\ ~p.shows
    BY <1>3, <2>1, RefetchedFacts
  <2>3. PICK e : e = Load(p.loan, TRUE, {}) OBVIOUS
  <2>4. e \in Fetch /\ e.loan = list.loan /\ e.effect /\ e.got = Unread BY <1>0, <1>3, <2>3, EffectLoad
  <2> QED BY <1>0, <1>3, <1>4, <1>7, <2>2, <2>3, <2>4, NoListKind
<1> QED BY <1>5, <1>6, <1>7

\* The requests while a list and its loads stay as they are.
LEMMA CourseStays ==
  ASSUME Typed, CourseInv, CausesKept, loads' = loads, list # NoList <=> list' # NoList,
         list # NoList => list'.kind = list.kind /\ list'.loan = list.loan /\ list'.shows = list.shows
  PROVE  (Asked /\ Waited /\ Single)'
<1>1. list = NoList => loads = {} BY DEF Typed, ListTypes, LoadBounds
<1>2. Asked' BY <1>1, AskedStill
<1> QED BY <1>2 DEF CourseInv, Waited, Single

\* The server's part: requests are checked, carried out, answered, and fail.
LEMMA CourseServer ==
  ASSUME Typed, CourseInv, CausesKept, ItemsGoOn, NEW w \in acts,
         ActChecked(w) \/ ActRuns(w) \/ ActAnswered(w) \/ ActFails(w)
  PROVE  CourseInv'
<1>0. /\ PageTypes /\ ListTypes /\ w \in Act /\ w.loan \in Loan /\ MakesOwn(w, items) /\ LoansOf(w) \subseteq Loan
      /\ w.loan \in LoansOf(w) /\ Touches(w, items') = LoansOf(w)
  BY TouchFacts DEF Typed, CourseInv, AllMake
<1>1. ASSUME NEW v, acts' = (acts \ {w}) \cup {v}, v.n = w.n, v.loan = w.loan, v.mount = w.mount, list' = list
      PROVE  Attended'
  <2>1. \A u \in acts' :
           \/ \E x \in acts : x.n = u.n /\ x.loan = u.loan /\ x.mount = u.mount
           \/ \A l \in Touches(u, items') : Off(l, causes')
           \/ list' # NoList /\ u.mount = list'.mount /\ u.loan = list'.loan
    BY <1>1
  <2> QED BY <1>1, <2>1, AttendedStill
<1>2. CASE ActChecked(w)
  <2>1. PICK v \in Act :
          /\ acts' = (acts \ {w}) \cup {v}
          /\ v.mount = w.mount /\ v.loan = w.loan /\ v.n = w.n /\ v.made = w.made /\ v.to = w.to
          /\ list' = list /\ loads' = loads /\ items' = items
    BY <1>0, <1>2, CheckedFacts
  <2>2. \A u \in acts' : (u.made = {} /\ (u.n = 0 => u.to = "open"))
                            \/ \E x \in acts : x.n = u.n /\ x.loan = u.loan /\ x.made = u.made /\ x.to = u.to
    BY <2>1
  <2>3. AllMake' BY <2>2, MakeStill
  <2> QED BY <1>1, <2>1, <2>3, CourseStays DEF CourseInv
<1>3. CASE ActRuns(w)
  <2>1. PICK v \in Act :
          /\ acts' = (acts \ {w}) \cup {v}
          /\ v.mount = w.mount /\ v.loan = w.loan /\ v.n = w.n /\ v.to = w.to
          /\ v.made = IF w.n = 0 THEN w.made \cup {Len(items) + 1} ELSE {w.n}
          /\ list' = list /\ loads' = loads /\ items' = Committed(w)
    BY <1>0, <1>3, RunFacts
  <2>2. ASSUME NEW u \in acts' PROVE MakesOwn(u, items')
    <3>1. \A x \in acts : \A n \in x.made : n \in 1..Len(items) /\ items'[n].loan = items[n].loan
      BY DEF Typed, ListTypes, ActBounds, Products, ItemsGoOn
    <3>2. CASE u \in acts
      <4>1. MakesOwn(u, items) BY <3>2 DEF CourseInv, AllMake
      <4> QED BY <3>1, <3>2, <4>1 DEF MakesOwn
    <3>3. CASE u = v
      <4>1. w.n = 0 => items'[Len(items) + 1].loan = w.loan BY <1>0, <2>1, CommittedFacts
      <4> QED BY <1>0, <2>1, <3>1, <3>3, <4>1 DEF MakesOwn
    <3> QED BY <2>1, <3>2, <3>3
  <2>3. AllMake' BY <2>2 DEF AllMake, MakesOwn
  <2> QED BY <1>1, <2>1, <2>3, CourseStays DEF CourseInv
<1>4. CASE ActAnswered(w)
  <2>0. acts' = acts \ {w} /\ items' = items BY <1>4 DEF ActAnswered
  <2>1. AllMake' BY <2>0, MakeStill
  <2>2. \A u \in acts' :
           \/ \E x \in acts : x.n = u.n /\ x.loan = u.loan /\ x.mount = u.mount
           \/ \A l \in Touches(u, items') : Off(l, causes')
           \/ list' # NoList /\ u.mount = list'.mount /\ u.loan = list'.loan
    BY <2>0
  <2>3. CASE ~OurAct(w)
    <3>1. list' = list /\ loads' = loads BY <1>4, <2>3 DEF ActAnswered
    <3>2. Attended' BY <2>2, <3>1, AttendedStill
    <3> QED BY <2>1, <3>1, <3>2, CourseStays DEF CourseInv
  <2>4. CASE OurAct(w)
    <3>1. /\ list # NoList /\ list' # NoList /\ list'.kind = list.kind /\ list'.mount = list.mount
          /\ list'.loan = list.loan
      BY <1>4, <2>4, AnswerCases
    <3>2. Attended' BY <2>2, <3>1, AttendedStill
    <3>3. CASE loads' = loads /\ list'.shows = list.shows
      BY <2>1, <3>1, <3>2, <3>3, CourseStays DEF CourseInv
    <3>4. CASE list.kind # "conditions" /\ \E e \in Fetch : loads' = loads \cup {e} /\ e.loan = w.loan
      <4>1. PICK e \in Fetch : loads' = loads \cup {e} /\ e.loan = w.loan BY <3>4
      <4>2. w.loan = list.loan \/ Off(w.loan, causes')
        <5>1. w.loan # list.loan => causes' = Blame({list.loan} \cup LoansOf(w), "late")
          BY <1>4, <2>4 DEF ActAnswered
        <5> QED BY <1>0, <5>1, OffBy
      <4>3. Asked' BY <3>1, <4>1, <4>2, AskedStill
      <4>4. (Waited /\ Single)' BY <3>1, <3>4, <4>1 DEF Waited, Single
      <4> QED BY <2>1, <3>2, <4>3, <4>4 DEF CourseInv
    <3>5. CASE \E e \in Fetch : loads' = {e} /\ e.loan = list.loan /\ e.effect
      <4>1. PICK e \in Fetch : loads' = {e} /\ e.loan = list.loan /\ e.effect BY <3>5
      <4>2. (Asked /\ Waited /\ Single)' BY <3>1, <4>1 DEF Asked, Waited, Single
      <4> QED BY <2>1, <3>2, <4>2 DEF CourseInv
    <3> QED BY <1>4, <2>4, <3>3, <3>4, <3>5, AnswerCases
  <2> QED BY <2>3, <2>4
<1>5. CASE ActFails(w)
  <2>1. /\ loads' = loads /\ items' = items /\ list' = IF OurAct(w) THEN Freed(w) ELSE list
        /\ \/ acts' = acts \ {w}
           \/ \E v \in Act : /\ acts' = (acts \ {w}) \cup {v}
                             /\ v.loan = w.loan /\ v.n = w.n /\ v.to = w.to /\ v.made = w.made /\ w.left = 2
    BY <1>0, <1>5, FailedFacts
  <2>2. \A u \in acts' : (u.made = {} /\ (u.n = 0 => u.to = "open"))
                            \/ \E x \in acts : x.n = u.n /\ x.loan = u.loan /\ x.made = u.made /\ x.to = u.to
    BY <2>1
  <2>3. AllMake' BY <2>2, MakeStill
  <2>4. /\ list # NoList <=> list' # NoList
        /\ list # NoList => /\ list'.kind = list.kind /\ list'.mount = list.mount /\ list'.loan = list.loan
                            /\ list'.shows = list.shows
    <3>1. CASE OurAct(w)
      <4>1. list # NoList /\ list \in Listing BY <1>0, <3>1, ListMounted DEF OurAct
      <4>2. list' = Freed(w) BY <2>1, <3>1
      <4>3. /\ list' \in Listing /\ list'.kind = list.kind /\ list'.mount = list.mount /\ list'.loan = list.loan
            /\ list'.shows = list.shows
        BY <4>1, <4>2, FreedFacts
      <4> QED BY <4>1, <4>3, NoListKind
    <3>2. CASE ~OurAct(w) BY <2>1, <3>2
    <3> QED BY <3>1, <3>2
  <2>5. w.left = 2 => \A l \in LoansOf(w) : Off(l, causes')
    <3>1. w.left = 2 => causes' = Blame(LoansOf(w), "unparsed") \/ causes' = Blame(LoansOf(w), "unanswered")
      BY <1>5 DEF ActFails
    <3> QED BY <1>0, <3>1, OffBy
  <2>6. \A u \in acts' :
           \/ \E x \in acts : x.n = u.n /\ x.loan = u.loan /\ x.mount = u.mount
           \/ \A l \in Touches(u, items') : Off(l, causes')
           \/ list' # NoList /\ u.mount = list'.mount /\ u.loan = list'.loan
    <3> SUFFICES ASSUME NEW u \in acts', u \notin acts PROVE \A l \in Touches(u, items') : Off(l, causes')
      BY DEF Touches, Off
    <3>1. u.loan = w.loan /\ u.n = w.n /\ w.left = 2 BY <2>1
    <3>2. Touches(u, items') = Touches(w, items') BY <3>1 DEF Touches
    <3> QED BY <1>0, <2>5, <3>1, <3>2
  <2>7. Attended' BY <2>4, <2>6, AttendedStill
  <2> QED BY <2>1, <2>3, <2>4, <2>7, CourseStays DEF CourseInv
<1> QED BY <1>2, <1>3, <1>4, <1>5

\* The course of a list, in every step.
LEMMA CourseNext ==
  ASSUME Typed, CourseInv, [Next]_vars
  PROVE  CourseInv'
<1>0. CausesKept /\ ItemsGoOn BY NothingForgotten, ItemsRemain
<1>1. CASE TurnStep BY <1>0, <1>1, CourseTurn
<1>2. ASSUME items' = items, acts' = acts, list' = list, loads' = loads PROVE CourseInv'
  <2>1. AllMake' BY <1>0, <1>2, MakeStill
  <2>2. \A w \in acts' :
           \/ \E u \in acts : u.n = w.n /\ u.loan = w.loan /\ u.mount = w.mount
           \/ \A l \in Touches(w, items') : Off(l, causes')
           \/ list' # NoList /\ w.mount = list'.mount /\ w.loan = list'.loan
    BY <1>2
  <2>3. Attended' BY <1>0, <1>2, <2>2, AttendedStill
  <2> QED BY <1>0, <1>2, <2>1, <2>3, CourseStays DEF CourseInv
<1>3. CASE InForm(FormStep) BY <1>2, <1>3 DEF InForm, listVars
<1>4. CASE InList(ListStep)
  <2>1. CASE ListUser BY <1>0, <2>1, CourseUser
  <2>2. CASE \E ld \in loads : ListRead(ld) \/ ListArrives(ld) \/ ListLoadFails(ld) BY <1>0, <2>2, CourseLoads
  <2>3. CASE \E w \in acts : ActChecked(w) \/ ActRuns(w) \/ ActAnswered(w) \/ ActFails(w)
    BY <1>0, <2>3, CourseServer
  <2> QED BY <1>4, <2>1, <2>2, <2>3 DEF InList, ListStep, ListBackground
<1>5. CASE UNCHANGED vars BY <1>2, <1>5 DEF vars, listVars
<1>6. CASE InForm(CreatedElsewhere) BY <1>2, <1>6 DEF InForm, listVars
<1>7. CASE InList(AddedElsewhere)
  <2>0. list' = list /\ loads' = loads /\ acts' = acts BY <1>7, AddedApart
  <2>1. AllMake' BY <1>0, <2>0, MakeStill
  <2>2. \A w \in acts' :
           \/ \E u \in acts : u.n = w.n /\ u.loan = w.loan /\ u.mount = w.mount
           \/ \A l \in Touches(w, items') : Off(l, causes')
           \/ list' # NoList /\ w.mount = list'.mount /\ w.loan = list'.loan
    BY <2>0
  <2>3. Attended' BY <1>0, <2>0, <2>2, AttendedStill
  <2> QED BY <1>0, <2>0, <2>1, <2>3, CourseStays DEF CourseInv
<1> QED BY <1>1, <1>3, <1>4, <1>5, <1>6, <1>7, Steps DEF Others

---------------------------------------------------------------------------
(* The lists that are loaded again. Where nothing went wrong and no request *)
(* is on its way back, what was read is what the server has.                *)

\* The items of a loan, by status: Live of given items.
LiveOf(k, l, is) ==
  [n \in {m \in DOMAIN is : is[m].kind = k /\ is[m].loan = l /\ is[m].status # "deleted"} |-> is[n].status]

\* A request that has changed the items of a loan is still to be answered.
Stirred(l, ws, is) == \E w \in ws : w.made # {} /\ l \in Touches(w, is)

\* What a list read of a loan need not be what the server has now.
Owed(l, ws, is, cs) == Off(l, cs) \/ Stirred(l, ws, is)

Reloads == list # NoList /\ ~Section(list.kind).patches
ReadsLive ==
  Reloads => \A ld \in loads : ld.got # Unread =>
    \/ Owed(ld.loan, acts, items, causes) \/ ld.got = LiveOf(list.kind, ld.loan, items)
    \/ list.again /\ list.kind = "conditions"
ShowsLive ==
  Reloads /\ loads = {} => Owed(list.loan, acts, items, causes) \/ list.seen = LiveOf(list.kind, list.loan, items)

ReloadInv == ReadsLive /\ ShowsLive

\* A list that stays, with loads that stay, come anew or no longer count.
LEMMA ReloadStill ==
  ASSUME Reloads' => Reloads /\ list'.kind = list.kind /\ list'.loan = list.loan,
         ReloadInv, list.loan \in Loan, \A ld \in loads : ld.loan \in Loan,
         \A l \in Loan : Owed(l, acts, items, causes) => Owed(l, acts', items', causes'),
         \A l \in Loan : \/ Owed(l, acts', items', causes')
                         \/ LiveOf(list.kind, l, items') = LiveOf(list.kind, l, items),
         \A ld \in loads' :
           \/ ld.got = Unread \/ ld.got = LiveOf(list.kind, ld.loan, items')
           \/ ld \in loads /\ (list.kind = "conditions" /\ list.again => list'.again),
         loads' = {} => \/ Owed(list.loan, acts', items', causes')
                        \/ loads = {} /\ list'.seen = list.seen
                        \/ list'.seen = LiveOf(list.kind, list.loan, items')
  PROVE  ReloadInv'
<1>1. ReadsLive'
  <2> SUFFICES ASSUME Reloads', NEW ld \in loads', ld.got # Unread
               PROVE  \/ Owed(ld.loan, acts', items', causes') \/ ld.got = LiveOf(list'.kind, ld.loan, items')
                      \/ list'.again /\ list'.kind = "conditions"
    BY DEF ReadsLive, Owed, Off, Stirred, Touches, LiveOf
  <2>1. CASE ld \in loads /\ (list.kind = "conditions" /\ list.again => list'.again)
    <3>1. \/ Owed(ld.loan, acts, items, causes) \/ ld.got = LiveOf(list.kind, ld.loan, items)
          \/ list.again /\ list.kind = "conditions"
      BY <2>1 DEF ReloadInv, ReadsLive
    <3>2. ld.loan \in Loan BY <2>1
    <3> QED BY <2>1, <3>1, <3>2
  <2> QED BY <2>1
<1>2. ShowsLive'
  <2> SUFFICES ASSUME Reloads', loads' = {}
               PROVE  Owed(list'.loan, acts', items', causes') \/ list'.seen = LiveOf(list'.kind, list'.loan, items')
    BY DEF ShowsLive, Owed, Off, Stirred, Touches, LiveOf
  <2>1. CASE loads = {} /\ list'.seen = list.seen
    <3>1. Owed(list.loan, acts, items, causes) \/ list.seen = LiveOf(list.kind, list.loan, items)
      BY <2>1 DEF ReloadInv, ShowsLive
    <3> QED BY <2>1, <3>1
  <2> QED BY <2>1
<1> QED BY <1>1, <1>2 DEF ReloadInv

\* Where all that is loaded is yet to be read there is nothing to compare.
LEMMA ReloadAnew ==
  ASSUME Reloads' => loads' # {},
         \A ld \in loads' : ld.got = Unread \/ Off(ld.loan, causes')
  PROVE  ReloadInv'
BY DEF ReloadInv, ReadsLive, ShowsLive, Reloads, Owed, Off

\* What is owed to a loan stays, where the requests that changed its items do.
LEMMA OwedStays ==
  ASSUME Typed, CausesKept, ItemsGoOn,
         \A w \in acts : w.made # {} =>
           \/ \E v \in acts' : v.made # {} /\ v.n = w.n /\ v.loan = w.loan
           \/ \A l \in LoansOf(w) : Off(l, causes')
  PROVE  \A l \in Loan : Owed(l, acts, items, causes) => Owed(l, acts', items', causes')
<1> SUFFICES ASSUME NEW l \in Loan, Owed(l, acts, items, causes) PROVE Owed(l, acts', items', causes')
  OBVIOUS
<1>1. CASE Off(l, causes) BY <1>1, OffStays DEF Owed
<1>2. CASE Stirred(l, acts, items)
  <2>1. PICK w \in acts : w.made # {} /\ l \in Touches(w, items) BY <1>2 DEF Stirred
  <2>2. Touches(w, items) = LoansOf(w) /\ Touches(w, items') = LoansOf(w) BY TouchFacts DEF Typed
  <2>3. CASE \E v \in acts' : v.made # {} /\ v.n = w.n /\ v.loan = w.loan
    <3>1. PICK v \in acts' : v.made # {} /\ v.n = w.n /\ v.loan = w.loan BY <2>3
    <3>2. Touches(v, items') = Touches(w, items') BY <3>1 DEF Touches
    <3>3. Stirred(l, acts', items') BY <2>1, <2>2, <3>1, <3>2 DEF Stirred
    <3> QED BY <3>3 DEF Owed
  <2>4. CASE \A x \in LoansOf(w) : Off(x, causes') BY <2>1, <2>2, <2>4 DEF Owed
  <2> QED BY <2>1, <2>3, <2>4
<1> QED BY <1>1, <1>2 DEF Owed

\* The answers to a list's loads.
LEMMA ReloadLoads ==
  ASSUME Typed, CourseInv, CausesKept, ItemsGoOn, ReloadInv, NEW ld \in loads,
         ListRead(ld) \/ ListArrives(ld) \/ ListLoadFails(ld)
  PROVE  ReloadInv'
<1>0. /\ PageTypes /\ ListTypes /\ list # NoList /\ list \in Listing /\ ld \in Fetch /\ ld.loan \in Loan
      /\ list.loan \in Loan /\ items' = items /\ acts' = acts /\ \A e \in loads : e.loan \in Loan
  <2>1. list # NoList /\ ld \in Fetch /\ ld.loan \in Loan /\ \A e \in loads : e.loan \in Loan
    BY DEF Typed, ListTypes, ListRecords, LoadBounds, Fetch
  <2>2. items' = items /\ acts' = acts BY DEF ListRead, ListArrives, ListLoadFails
  <2> QED BY <2>1, <2>2, ListMounted DEF Typed
<1>1. \A l \in Loan : Owed(l, acts, items, causes) => Owed(l, acts', items', causes') BY <1>0, OwedStays
<1>2. \A l \in Loan : LiveOf(list.kind, l, items') = LiveOf(list.kind, l, items) BY <1>0
<1>3. CASE ListRead(ld)
  <2>1. PICK g : g = LiveOf(list.kind, ld.loan, items) OBVIOUS
  <2>2. g = Live(list.kind, ld.loan) BY <2>1 DEF Live, LiveOf
  <2>3. PICK r : r = [ld EXCEPT !.got = g] OBVIOUS
  <2>4. list' = list /\ loads' = (loads \ {ld}) \cup {r} BY <1>3, <2>2, <2>3 DEF ListRead
  <2>5. r.loan = ld.loan /\ r.got = g BY <1>0, <2>3 DEF Fetch
  <2>6. \A e \in loads' :
           \/ e.got = Unread \/ e.got = LiveOf(list.kind, e.loan, items')
           \/ e \in loads /\ (list.kind = "conditions" /\ list.again => list'.again)
    BY <1>0, <2>1, <2>4, <2>5
  <2>7. Reloads' => Reloads BY <2>4 DEF Reloads
  <2> QED BY <1>0, <1>1, <1>2, <2>4, <2>6, <2>7, ReloadStill
<1>4. CASE ListArrives(ld) \/ ListLoadFails(ld)
  <2>1. /\ list' \in Listing /\ list'.kind = list.kind /\ list'.loan = list.loan
        /\ list'.seen = IF ListArrives(ld) THEN ld.got
                        ELSE IF Section(list.kind).empties THEN <<>> ELSE list.seen
        /\ loads' = (loads \ {ld}) \cup IF list.again THEN {Load(list.loan, TRUE, {})} ELSE {}
    BY <1>0, <1>4, ArrivedFacts
  <2>2. PICK e : e = Load(list.loan, TRUE, {}) OBVIOUS
  <2>3. e.got = Unread BY <1>0, <2>2, EffectLoad
  <2>4. loads' = (loads \ {ld}) \cup IF list.again THEN {e} ELSE {} BY <2>1, <2>2
  <2>5. \A x \in loads' :
           \/ x.got = Unread \/ x.got = LiveOf(list.kind, x.loan, items')
           \/ x \in loads /\ (list.kind = "conditions" /\ list.again => list'.again)
    <3>1. list.kind = "conditions" => loads \ {ld} = {} BY <1>0 DEF CourseInv, Single
    <3> QED BY <2>3, <2>4, <3>1
  <2>6. Reloads' => Reloads BY <1>0, <2>1 DEF Reloads
  <2>7. ASSUME loads' = {}, Reloads PROVE \/ Owed(list.loan, acts', items', causes')
                                 \/ list'.seen = LiveOf(list.kind, list.loan, items')
    <3>1. CASE ListArrives(ld)
      <4>1. list'.seen = ld.got /\ ~list.again /\ ld.got # Unread BY <2>1, <2>4, <2>7, <3>1 DEF ListArrives
      <4>2. CASE ld.loan # list.loan
        <5>1. causes' = Blame({list.loan}, "late") BY <3>1, <4>2 DEF ListArrives
        <5> QED BY <1>0, <5>1, OffBy DEF Owed
      <4>3. CASE ld.loan = list.loan
        <5>1. Owed(ld.loan, acts, items, causes) \/ ld.got = LiveOf(list.kind, ld.loan, items)
          BY <2>7, <4>1 DEF ReloadInv, ReadsLive
        <5> QED BY <1>0, <1>1, <4>1, <4>3, <5>1
      <4> QED BY <4>2, <4>3
    <3>2. CASE ListLoadFails(ld)
      <4>1. causes' = Blame({list.loan}, "failed") BY <3>2 DEF ListLoadFails
      <4> QED BY <1>0, <4>1, OffBy DEF Owed
    <3> QED BY <1>4, <3>1, <3>2
  <2>8. CASE Reloads BY <1>0, <1>1, <1>2, <2>1, <2>5, <2>6, <2>7, <2>8, ReloadStill
  <2>9. CASE ~Reloads BY <2>6, <2>9 DEF ReloadInv, ReadsLive, ShowsLive
  <2> QED BY <2>8, <2>9
<1> QED BY <1>3, <1>4

\* What a request does not touch stays as the server has it.
LEMMA LiveElsewhere ==
  ASSUME Typed, ItemsGoOn, NEW w \in acts, ActRuns(w)
  PROVE  \A k, l : l \notin LoansOf(w) => LiveOf(k, l, items') = LiveOf(k, l, items)
<1>0. /\ ListTypes /\ w \in Act /\ w.loan \in LoansOf(w) /\ items' \in Seq(Thing) /\ items \in Seq(Thing)
      /\ w.n # 0 => w.n \in 1..Len(items) /\ items[w.n].loan \in LoansOf(w)
      /\ items' = Committed(w) /\ Len(items) \in Nat
  <2>1. items' = Committed(w) BY DEF ActRuns
  <2>2. items' \in Seq(Thing) BY <2>1, CommittedFacts DEF Typed, GrownItems
  <2> QED BY <2>1, <2>2, TouchFacts DEF Typed, ListTypes, ListRecords
<1>1. /\ w.n # 0 => Len(items') = Len(items) /\ \A m \in 1..Len(items) : m # w.n => items'[m] = items[m]
      /\ w.n = 0 => /\ Len(items') = Len(items) + 1 /\ items'[Len(items) + 1].loan = w.loan
                    /\ \A m \in 1..Len(items) : items'[m] = items[m]
  BY <1>0, CommittedFacts
<1> SUFFICES ASSUME NEW k, NEW l, l \notin LoansOf(w) PROVE LiveOf(k, l, items') = LiveOf(k, l, items)
  OBVIOUS
<1>2. DOMAIN items = 1..Len(items) /\ DOMAIN items' = 1..Len(items') BY <1>0
<1>3. \A m : m \in DOMAIN items' /\ items'[m].loan = l <=> m \in DOMAIN items /\ items[m].loan = l
  <2>1. \A m \in 1..Len(items) : items'[m].loan = items[m].loan BY DEF ItemsGoOn
  <2>2. CASE w.n # 0 BY <1>1, <1>2, <2>1, <2>2
  <2>3. CASE w.n = 0
    <3>1. \A m : m \in 1..Len(items') <=> m \in 1..Len(items) \/ m = Len(items) + 1 BY <1>0, <1>1, <2>3
    <3> QED BY <1>0, <1>1, <1>2, <2>1, <2>3, <3>1
  <2> QED BY <2>2, <2>3
<1>4. \A m \in DOMAIN items : items[m].loan = l => items'[m] = items[m] BY <1>0, <1>1, <1>2
<1> QED BY <1>3, <1>4 DEF LiveOf

\* The page turns.
LEMMA ReloadTurn ==
  ASSUME Typed, CourseInv, CausesKept, ItemsGoOn, ReloadInv, TurnStep
  PROVE  ReloadInv'
<1>0. /\ ListTypes /\ items' = items /\ acts' = acts /\ \A e \in loads : e.loan \in Loan
      /\ list # NoList => list.loan \in Loan
  BY RelistCases, ListMounted DEF Typed, ListTypes, ListRecords, Fetch
<1>1. CASE list' = list
  <2>1. loads' = loads BY <1>1, CourseTurn
  <2>2. \A l \in Loan : Owed(l, acts, items, causes) => Owed(l, acts', items', causes') BY <1>0, OwedStays
  <2>3. \A ld \in loads' : ld \in loads /\ (list.kind = "conditions" /\ list.again => list'.again)
    BY <1>1, <2>1
  <2>4. CASE list # NoList BY <1>0, <1>1, <2>1, <2>2, <2>3, <2>4, ReloadStill DEF Reloads
  <2>5. CASE list = NoList BY <1>1, <2>5 DEF ReloadInv, ReadsLive, ShowsLive, Reloads
  <2> QED BY <2>4, <2>5
<1>2. CASE list' # list
  <2>1. /\ list' # NoList => loads' # {}
        /\ \A ld \in loads' : ld.got = Unread \/ Off(ld.loan, causes')
    BY <1>2, CourseTurn
  <2> QED BY <2>1, ReloadAnew DEF Reloads
<1> QED BY <1>1, <1>2

\* Steps after which the list and its loads are the same.
LEMMA ReloadSame ==
  ASSUME Typed, CourseInv, CausesKept, ItemsGoOn, ReloadInv, loads' = loads, list # NoList <=> list' # NoList,
         list # NoList => /\ list'.kind = list.kind /\ list'.loan = list.loan /\ list'.seen = list.seen
                          /\ list'.again = list.again,
         \A w \in acts : w.made # {} =>
           \/ \E v \in acts' : v.made # {} /\ v.n = w.n /\ v.loan = w.loan
           \/ \A l \in LoansOf(w) : Off(l, causes'),
         \A l \in Loan : \/ Owed(l, acts', items', causes')
                         \/ LiveOf(list.kind, l, items') = LiveOf(list.kind, l, items)
  PROVE  ReloadInv'
<1>0. ListTypes /\ (\A e \in loads : e.loan \in Loan) /\ (list # NoList => list.loan \in Loan)
  BY ListMounted DEF Typed, ListTypes, ListRecords, Fetch
<1>1. \A l \in Loan : Owed(l, acts, items, causes) => Owed(l, acts', items', causes') BY OwedStays
<1>2. CASE list # NoList BY <1>0, <1>1, <1>2, ReloadStill DEF Reloads
<1>3. CASE list = NoList BY <1>3 DEF ReloadInv, ReadsLive, ShowsLive, Reloads
<1> QED BY <1>2, <1>3

\* The user acts on the list.
LEMMA ReloadUser ==
  ASSUME Typed, CourseInv, CausesKept, ItemsGoOn, ReloadInv, ListUser
  PROVE  ReloadInv'
<1>0. PageTypes /\ ListTypes /\ list # NoList /\ list \in Listing /\ list.loan \in Loan
  BY ListMounted DEF Typed, ListUser
<1>1. ASSUME NEW w \in Act, Sends(w) PROVE ReloadInv'
  <2>1. /\ items' = items /\ acts' = acts \cup {w} /\ loads' = loads
        /\ list'.kind = list.kind /\ list'.loan = list.loan /\ list'.seen = list.seen
        /\ list'.again = list.again /\ list' # NoList
    BY <1>1, NoListKind DEF Sends
  <2> QED BY <1>0, <2>1, ReloadSame
<1>2. CASE Create BY <1>0, <1>1, <1>2, CreateFacts
<1>3. CASE Step BY <1>0, <1>1, <1>3, StepFacts
<1>4. CASE RemoveItem BY <1>0, <1>1, <1>4, RemoveFacts
<1>5. CASE Retry
  <2>1. list.broken /\ Refetched(list, FALSE) BY <1>5 DEF Retry
  <2>2. loads' = {Load(list.loan, TRUE, {})} BY <1>0, <2>1, RefetchedFacts
  <2>3. PICK e : e = Load(list.loan, TRUE, {}) OBVIOUS
  <2>4. loads' = {e} /\ e.got = Unread BY <1>0, <2>2, <2>3, EffectLoad
  <2> QED BY <2>4, ReloadAnew
<1> QED BY <1>2, <1>3, <1>4, <1>5 DEF ListUser

\* The server's part, and its answers.
LEMMA ReloadServer ==
  ASSUME Typed, CourseInv, CausesKept, ItemsGoOn, ReloadInv, NEW w \in acts,
         ActChecked(w) \/ ActRuns(w) \/ ActAnswered(w) \/ ActFails(w)
  PROVE  ReloadInv'
<1>0. /\ PageTypes /\ ListTypes /\ w \in Act /\ w.loan \in Loan /\ LoansOf(w) \subseteq Loan
      /\ w.loan \in LoansOf(w) /\ Touches(w, items) = LoansOf(w) /\ Touches(w, items') = LoansOf(w)
  BY TouchFacts DEF Typed
<1>1. CASE ActChecked(w)
  <2>1. PICK v \in Act : /\ acts' = (acts \ {w}) \cup {v}
                         /\ v.loan = w.loan /\ v.n = w.n /\ v.made = w.made
                         /\ list' = list /\ loads' = loads /\ items' = items
    BY <1>0, <1>1, CheckedFacts
  <2>2. \A u \in acts : u.made # {} =>
           \/ \E x \in acts' : x.made # {} /\ x.n = u.n /\ x.loan = u.loan
           \/ \A l \in LoansOf(u) : Off(l, causes')
    BY <2>1
  <2> QED BY <2>1, <2>2, ReloadSame
<1>2. CASE ActRuns(w)
  <2>1. PICK v \in Act : /\ acts' = (acts \ {w}) \cup {v}
                         /\ v.loan = w.loan /\ v.n = w.n /\ v.made # {}
                         /\ list' = list /\ loads' = loads
    <3>1. PICK v \in Act :
            /\ acts' = (acts \ {w}) \cup {v}
            /\ v.loan = w.loan /\ v.n = w.n /\ list' = list /\ loads' = loads
            /\ v.made = IF w.n = 0 THEN w.made \cup {Len(items) + 1} ELSE {w.n}
      BY <1>0, <1>2, RunFacts
    <3> QED BY <3>1
  <2>2. \A u \in acts : u.made # {} =>
           \/ \E x \in acts' : x.made # {} /\ x.n = u.n /\ x.loan = u.loan
           \/ \A l \in LoansOf(u) : Off(l, causes')
    BY <2>1
  <2>3. \A l \in Loan : \/ Owed(l, acts', items', causes')
                        \/ LiveOf(list.kind, l, items') = LiveOf(list.kind, l, items)
    <3> SUFFICES ASSUME NEW l \in LoansOf(w) PROVE Owed(l, acts', items', causes') BY <1>2, LiveElsewhere
    <3>1. Touches(v, items') = Touches(w, items') BY <2>1 DEF Touches
    <3> QED BY <1>0, <2>1, <3>1 DEF Owed, Stirred
  <2> QED BY <2>1, <2>2, <2>3, ReloadSame
<1>3. CASE ActAnswered(w)
  <2>0. acts' = acts \ {w} /\ items' = items BY <1>3 DEF ActAnswered
  <2>1. ASSUME \A l \in LoansOf(w) : Off(l, causes')
        PROVE  \A u \in acts : u.made # {} =>
                 \/ \E x \in acts' : x.made # {} /\ x.n = u.n /\ x.loan = u.loan
                 \/ \A l \in LoansOf(u) : Off(l, causes')
    BY <2>0, <2>1
  <2>2. CASE ~OurAct(w)
    <3>1. list' = list /\ loads' = loads BY <1>3, <2>2 DEF ActAnswered
    <3>2. \A l \in LoansOf(w) : Off(l, causes')
      BY <1>0, <2>2, OffStays DEF CourseInv, Attended
    <3> QED BY <2>0, <2>1, <3>1, <3>2, ReloadSame
  <2>3. CASE OurAct(w) /\ Section(list.kind).patches
    <3>1. ~Reloads' BY <1>3, <2>3, AnswerCases DEF Reloads
    <3> QED BY <3>1 DEF ReloadInv, ReadsLive, ShowsLive
  <2>4. CASE OurAct(w) /\ ~Section(list.kind).patches /\ list.kind # "conditions"
    <3>1. PICK e \in Fetch : loads' = loads \cup {e} /\ e.got = Unread BY <1>3, <2>4, AnswerCases
    <3>2. /\ list # NoList /\ list' # NoList /\ list'.kind = list.kind /\ list'.loan = list.loan
          /\ list.loan \in Loan
      BY <1>0, <1>3, <2>4, AnswerCases, ListMounted
    <3>3. CASE loads = {} BY <3>1, <3>3, ReloadAnew
    <3>4. CASE loads # {}
      <4>1. causes' = Blame({list.loan} \cup LoansOf(w), "late") \/ causes' = Blame(LoansOf(w), "crossed")
        BY <1>3, <2>4, <3>4 DEF ActAnswered
      <4>2. \A l \in LoansOf(w) : Off(l, causes') BY <1>0, <4>1, OffBy
      <4>3. \A l \in Loan : Owed(l, acts, items, causes) => Owed(l, acts', items', causes')
        BY <2>1, <4>2, OwedStays
      <4>4. \A x \in loads' : x.got = Unread \/ x \in loads BY <3>1
      <4>5. \A x \in loads : x.loan \in Loan BY <1>0 DEF ListTypes, ListRecords, Fetch
      <4>6. Reloads' => Reloads BY <3>2 DEF Reloads
      <4> QED BY <2>0, <2>4, <3>1, <3>2, <4>3, <4>4, <4>5, <4>6, ReloadStill
    <3> QED BY <3>3, <3>4
  <2>5. CASE OurAct(w) /\ list.kind = "conditions"
    <3>1. /\ list # NoList /\ list' # NoList /\ list'.kind = list.kind /\ list'.loan = list.loan
          /\ \/ \E e \in Fetch : loads' = {e} /\ e.got = Unread
             \/ loads' = loads /\ list'.again /\ ~list.shows
      BY <1>3, <2>5, AnswerCases
    <3>2. CASE \E e \in Fetch : loads' = {e} /\ e.got = Unread BY <3>2, ReloadAnew
    <3>3. CASE loads' = loads /\ list'.again /\ ~list.shows
      <4>1. loads' # {} BY <3>1, <3>3 DEF CourseInv, Waited
      <4> QED BY <2>5, <3>1, <3>3, <4>1 DEF ReloadInv, ReadsLive, ShowsLive
    <3> QED BY <3>1, <3>2, <3>3
  <2> QED BY <2>2, <2>3, <2>4, <2>5
<1>4. CASE ActFails(w)
  <2>1. /\ loads' = loads /\ items' = items /\ list' = IF OurAct(w) THEN Freed(w) ELSE list
        /\ acts \ {w} \subseteq acts'
    BY <1>0, <1>4, FailedFacts
  <2>2. w.made # {} => \A l \in LoansOf(w) : Off(l, causes')
    <3>1. w.made # {} => causes' = Blame(LoansOf(w), "unparsed") \/ causes' = Blame(LoansOf(w), "unanswered")
      BY <1>4 DEF ActFails
    <3> QED BY <1>0, <3>1, OffBy
  <2>3. \A u \in acts : u.made # {} =>
           \/ \E x \in acts' : x.made # {} /\ x.n = u.n /\ x.loan = u.loan
           \/ \A l \in LoansOf(u) : Off(l, causes')
    BY <2>1, <2>2
  <2>4. CASE OurAct(w)
    <3>1. list # NoList /\ list \in Listing BY <1>0, <2>4, ListMounted DEF OurAct
    <3>2. list' = Freed(w) BY <2>1, <2>4
    <3>3. /\ list' \in Listing /\ list'.kind = list.kind /\ list'.loan = list.loan /\ list'.seen = list.seen
          /\ list'.again = list.again
      BY <3>1, <3>2, FreedFacts
    <3> QED BY <2>1, <2>3, <3>1, <3>3, NoListKind, ReloadSame
  <2>5. CASE ~OurAct(w)
    <3>1. list' = list BY <2>1, <2>5
    <3> QED BY <2>1, <2>3, <3>1, ReloadSame
  <2> QED BY <2>4, <2>5
<1> QED BY <1>1, <1>2, <1>3, <1>4

\* An item another user adds: its loan is blamed, the lists of the others stay.
LEMMA LiveAdded ==
  ASSUME Typed, InList(AddedElsewhere), NEW k
  PROVE  \A l \in Loan : Off(l, causes') \/ LiveOf(k, l, items') = LiveOf(k, l, items)
<1>0. items' \in Seq(Thing) /\ items \in Seq(Thing) /\ \A n \in 1..Len(items) : items'[n] = items[n]
  BY AddedApart
<1>1. PICK x \in Loan :
        /\ causes' = Blame({x}, "shared")
        /\ \A l, m : l # x =>
             (m \in 1..Len(items') /\ items'[m].loan = l <=> m \in 1..Len(items) /\ items[m].loan = l)
  BY AddedApart
<1>2. Off(x, causes') BY <1>1, OffBy
<1>3. DOMAIN items = 1..Len(items) /\ DOMAIN items' = 1..Len(items') BY <1>0
<1>4. \A l, m : l # x =>
        (m \in DOMAIN items' /\ items'[m].loan = l <=> m \in DOMAIN items /\ items[m].loan = l)
  BY <1>1, <1>3
<1>5. \A m \in DOMAIN items : items'[m] = items[m] BY <1>0, <1>3
<1>6. ASSUME NEW l, l # x PROVE LiveOf(k, l, items') = LiveOf(k, l, items) BY <1>4, <1>5, <1>6 DEF LiveOf
<1> QED BY <1>2, <1>6

\* What the lists that are loaded again show, in every step.
LEMMA ReloadNext ==
  ASSUME Typed, CourseInv, ReloadInv, [Next]_vars
  PROVE  ReloadInv'
<1>0. CausesKept /\ ItemsGoOn BY NothingForgotten, ItemsRemain
<1>1. CASE TurnStep BY <1>0, <1>1, ReloadTurn
<1>2. ASSUME items' = items, acts' = acts, list' = list, loads' = loads PROVE ReloadInv'
  BY <1>0, <1>2, ReloadSame
<1>3. CASE InForm(FormStep) BY <1>2, <1>3 DEF InForm, listVars
<1>4. CASE InList(ListStep)
  <2>1. CASE ListUser BY <1>0, <2>1, ReloadUser
  <2>2. CASE \E ld \in loads : ListRead(ld) \/ ListArrives(ld) \/ ListLoadFails(ld) BY <1>0, <2>2, ReloadLoads
  <2>3. CASE \E w \in acts : ActChecked(w) \/ ActRuns(w) \/ ActAnswered(w) \/ ActFails(w)
    BY <1>0, <2>3, ReloadServer
  <2> QED BY <1>4, <2>1, <2>2, <2>3 DEF InList, ListStep, ListBackground
<1>5. CASE UNCHANGED vars BY <1>2, <1>5 DEF vars, listVars
<1>6. CASE InForm(CreatedElsewhere) BY <1>2, <1>6 DEF InForm, listVars
<1>7. CASE InList(AddedElsewhere)
  <2>0. list' = list /\ loads' = loads /\ acts' = acts BY <1>7, AddedApart
  <2>1. \A l \in Loan : Off(l, causes') \/ LiveOf(list.kind, l, items') = LiveOf(list.kind, l, items)
    BY <1>7, LiveAdded
  <2>2. \A l \in Loan : \/ Owed(l, acts', items', causes')
                        \/ LiveOf(list.kind, l, items') = LiveOf(list.kind, l, items)
    BY <2>1 DEF Owed
  <2> QED BY <1>0, <2>0, <2>2, ReloadSame
<1> QED BY <1>1, <1>3, <1>4, <1>5, <1>6, <1>7, Steps DEF Others

---------------------------------------------------------------------------
(* The lists that are patched. Such a list shows the server's items but for *)
(* those whose request is on its way back, and each answer puts its own     *)
(* right.                                                                   *)

ItemsOf(k, l, is) == {n \in 1..Len(is) : is[n].kind = k /\ is[n].loan = l}

\* An item is shown as it is, and not where it was removed.
Agrees(n, seen, is) ==
  IF is[n].status = "deleted" THEN n \notin DOMAIN seen ELSE n \in DOMAIN seen /\ seen[n] = is[n].status

\* The answer of a request that made or changed an item puts it right: the item
\* is as the request left it, and there to be changed, or not yet and nobody
\* else's.
PutRight(w, n, seen, is, ws) ==
  /\ is[n].status = w.to
  /\ w.n # 0 => n \in DOMAIN seen
  /\ w.n = 0 => n \notin DOMAIN seen /\ \A u \in ws : u.n # n /\ (n \in u.made => u = w)

Matches(k, l, seen, is, ws) ==
  /\ DOMAIN seen \subseteq ItemsOf(k, l, is)
  /\ \A n \in ItemsOf(k, l, is) : (\E w \in ws : n \in w.made) \/ Agrees(n, seen, is)
  /\ \A w \in ws : \A n \in w.made : is[n].loan = l => PutRight(w, n, seen, is, ws)

Patches == list # NoList /\ Section(list.kind).patches

\* What is loaded is what the server has, and no request changes it meanwhile.
PatchReads ==
  Patches => \A ld \in loads :
    /\ ld.frees = {}
    /\ ld.got = Unread \/ Off(ld.loan, causes) \/ ld.got = LiveOf(list.kind, ld.loan, items)
PatchWaits == Patches /\ loads # {} => Off(list.loan, causes) \/ ~Stirred(list.loan, acts, items)
PatchShows ==
  Patches /\ loads = {} => Off(list.loan, causes) \/ Matches(list.kind, list.loan, list.seen, items, acts)

\* A task has one request at a time; a title exception has only one step.
OneAtATime ==
  /\ \A w \in acts : OurAct(w) /\ list.kind = "tasks" /\ w.n # 0 =>
       w.n \in list.busy /\ \A u \in acts : OurAct(u) /\ u.n = w.n => u = w
  /\ \A w \in acts : w.kind = "titleExceptions" /\ w.n # 0 => w.to = "done"

PatchInv == PatchReads /\ PatchWaits /\ PatchShows /\ OneAtATime

\* The lists that are patched: neither hides its items, or removes one so that
\* the answer can be read.
LEMMA PatchKinds ==
  \A k \in ListKinds : Section(k).patches =>
    /\ k \in {"tasks", "titleExceptions"} /\ Section(k).removal # "parsed"
    /\ k = "tasks" => Section(k).hides = {}
    /\ k = "titleExceptions" => Section(k).removal = "none" /\ Section(k).offers = {<<"open", "done">>}
<1>1. \A k \in ListKinds : Section(k).patches => k \in {"tasks", "titleExceptions"}
  <2>1. ~Section("credit").patches BY DEF Section, ListSections, CreditList, ReadOnly
  <2>2. ~Section("audit").patches BY DEF Section, ListSections, AuditList, ReadOnly
  <2>3. ~Section("runs").patches BY DEF Section, ListSections, RunsList, ReadOnly
  <2>4. ~Section("conversation").patches BY DEF Section, ListSections, ConversationList, ReadOnly
  <2>5. ~Section("documents").patches BY DEF Section, ListSections, DocumentList, ReadOnly
  <2>6. ~Section("exceptions").patches BY DEF Section, ListSections, ExceptionList, ReadOnly
  <2>7. ~Section("activity").patches BY DEF Section, ListSections, ActivityList, ConversationList, ReadOnly
  <2>8. ~Section("status").patches BY DEF Section, ListSections, StatusList, ReadOnly
  <2>9. ~Section("conditions").patches BY DEF Section, ListSections, ConditionsList, ReadOnly
  <2> QED BY <2>1, <2>2, <2>3, <2>4, <2>5, <2>6, <2>7, <2>8, <2>9, Kinds
<1>2. Section("tasks").removal = "unparsed" /\ Section("tasks").hides = {}
  BY DEF Section, ListSections, TaskList, ReadOnly
<1>3. Section("titleExceptions").removal = "none" /\ Section("titleExceptions").offers = {<<"open", "done">>}
  BY DEF Section, ListSections, TitleExceptionList, ReadOnly
<1> QED BY <1>1, <1>2, <1>3

\* The items a request made are of the loans it touches.
LEMMA MadeTouch ==
  ASSUME ListTypes, AllMake, NEW w \in acts, NEW n \in w.made
  PROVE  n \in 1..Len(items) /\ items[n].loan \in LoansOf(w) /\ items[n].kind = w.kind
<1>1. n \in 1..Len(items) /\ items[n].kind = w.kind BY DEF ListTypes, ActBounds, Products
<1>2. MakesOwn(w, items) BY DEF AllMake
<1>3. CASE w.n # 0 BY <1>1, <1>2, <1>3, TouchFacts DEF MakesOwn
<1>4. CASE w.n = 0 BY <1>1, <1>2, <1>4, TouchFacts DEF MakesOwn
<1> QED BY <1>1, <1>3, <1>4

\* A list that was just loaded shows what the server has.
LEMMA MatchesLive ==
  ASSUME ListTypes, AllMake, NEW k, NEW l, ~Stirred(l, acts, items)
  PROVE  Matches(k, l, LiveOf(k, l, items), items, acts)
<1>1. PICK seen : seen = LiveOf(k, l, items) OBVIOUS
<1>2. DOMAIN items = 1..Len(items) BY DEF ListTypes, ListRecords
<1>3. DOMAIN seen \subseteq ItemsOf(k, l, items) BY <1>1, <1>2 DEF LiveOf, ItemsOf
<1>4. \A n \in ItemsOf(k, l, items) : Agrees(n, seen, items) BY <1>1, <1>2 DEF LiveOf, ItemsOf, Agrees
<1>5. \A w \in acts : \A n \in w.made : items[n].loan # l
  <2> SUFFICES ASSUME NEW w \in acts, NEW n \in w.made, items[n].loan = l PROVE FALSE OBVIOUS
  <2>1. l \in LoansOf(w) /\ Touches(w, items) = LoansOf(w) BY MadeTouch, TouchFacts
  <2> QED BY <2>1 DEF Stirred
<1> QED BY <1>1, <1>3, <1>4, <1>5 DEF Matches

\* A request is sent for a loan whose items are shown.
LEMMA MatchesSent ==
  ASSUME ListTypes, NEW k, NEW l, NEW seen, Matches(k, l, seen, items, acts), NEW w,
         w.made = {}, w.n = 0 \/ w.n \in DOMAIN seen
  PROVE  Matches(k, l, seen, items, acts \cup {w})
<1>1. ASSUME NEW u \in acts, NEW n \in u.made, items[n].loan = l
      PROVE  PutRight(u, n, seen, items, acts \cup {w})
  <2>1. PutRight(u, n, seen, items, acts) BY <1>1 DEF Matches
  <2>2. n # 0 BY <1>1 DEF ListTypes, ListRecords, ActBounds, Products
  <2> QED BY <2>1, <2>2 DEF PutRight
<1>2. \A n \in ItemsOf(k, l, items) : (\E u \in acts \cup {w} : n \in u.made) \/ Agrees(n, seen, items)
  BY DEF Matches
<1> QED BY <1>1, <1>2 DEF Matches

\* A request is replaced by one that has made the same, or ends without having
\* touched the loan.
LEMMA MatchesLeft ==
  ASSUME ListTypes, AllMake, NEW k, NEW l, NEW seen, Matches(k, l, seen, items, acts), NEW w \in acts, NEW V,
         \A v \in V : v.n = w.n /\ v.made = w.made /\ v.to = w.to,
         \A u, v \in V : u = v,
         V = {} => w.made = {} \/ l \notin LoansOf(w)
  PROVE  Matches(k, l, seen, items, (acts \ {w}) \cup V)
<1> DEFINE ws == (acts \ {w}) \cup V
<1>1. ASSUME NEW u \in ws, NEW n \in u.made, items[n].loan = l
      PROVE  PutRight(u, n, seen, items, ws)
  <2>1. CASE u \in acts \ {w}
    <3>1. PutRight(u, n, seen, items, acts) BY <1>1, <2>1 DEF Matches
    <3> QED BY <2>1, <3>1 DEF PutRight
  <2>2. CASE u \in V
    <3>1. n \in w.made /\ u.n = w.n /\ u.to = w.to BY <1>1, <2>2
    <3>2. PutRight(w, n, seen, items, acts) BY <1>1, <3>1 DEF Matches
    <3>3. w.n = 0 => \A x \in ws : x.n # n /\ (n \in x.made => x = u)
      <4> SUFFICES ASSUME w.n = 0, NEW x \in ws PROVE x.n # n /\ (n \in x.made => x = u) OBVIOUS
      <4>1. CASE x \in acts \ {w} BY <3>2, <4>1 DEF PutRight
      <4>2. CASE x \in V BY <2>2, <3>2, <4>2 DEF PutRight
      <4> QED BY <4>1, <4>2
    <3> QED BY <3>1, <3>2, <3>3 DEF PutRight
  <2> QED BY <2>1, <2>2
<1>2. ASSUME NEW n \in ItemsOf(k, l, items), ~Agrees(n, seen, items) PROVE \E u \in ws : n \in u.made
  <2>1. PICK x \in acts : n \in x.made BY <1>2 DEF Matches
  <2>2. CASE x = w
    <3>1. items[n].loan = l BY <1>2 DEF ItemsOf
    <3>2. V # {} BY <2>1, <2>2, <3>1, MadeTouch
    <3> QED BY <2>1, <2>2, <3>2
  <2> QED BY <2>1, <2>2
<1>3. DOMAIN seen \subseteq ItemsOf(k, l, items) BY DEF Matches
<1> HIDE DEF ws
<1>4. Matches(k, l, seen, items, ws) BY <1>1, <1>2, <1>3 DEF Matches
<1> QED BY <1>4 DEF ws

\* A request that does not touch a loan is carried out.
LEMMA MatchesElsewhere ==
  ASSUME Typed, CourseInv, ItemsGoOn, NEW w \in acts, NEW v, NEW k, NEW l, NEW seen,
         Matches(k, l, seen, items, acts), l \notin LoansOf(w), acts' = (acts \ {w}) \cup {v},
         v.n = w.n, v.loan = w.loan, AllMake', ListTypes', ActRuns(w)
  PROVE  Matches(k, l, seen, items', acts')
<1>0. /\ ListTypes /\ AllMake /\ w \in Act /\ w.loan \in LoansOf(w) /\ Len(items) \in Nat /\ items' = Committed(w)
      /\ w.n # 0 => w.n \in 1..Len(items) /\ items[w.n].loan \in LoansOf(w)
      /\ Touches(w, items') = LoansOf(w) /\ Touches(v, items') = Touches(w, items')
  BY TouchFacts DEF Typed, ListTypes, ListRecords, CourseInv, ActRuns, Touches
<1>1. /\ w.n # 0 => Len(items') = Len(items) /\ \A m \in 1..Len(items) : m # w.n => items'[m] = items[m]
      /\ w.n = 0 => /\ Len(items') = Len(items) + 1 /\ items'[Len(items) + 1].loan = w.loan
                    /\ \A m \in 1..Len(items) : items'[m] = items[m]
  BY <1>0, CommittedFacts
<1>2. \A m : m \in 1..Len(items') /\ items'[m].loan = l <=> m \in 1..Len(items) /\ items[m].loan = l
  <2>1. \A m \in 1..Len(items) : items'[m].loan = items[m].loan BY DEF ItemsGoOn
  <2>2. CASE w.n # 0 BY <1>1, <2>1, <2>2
  <2>3. CASE w.n = 0
    <3>1. \A m : m \in 1..Len(items') <=> m \in 1..Len(items) \/ m = Len(items) + 1 BY <1>0, <1>1, <2>3
    <3> QED BY <1>0, <1>1, <2>1, <2>3, <3>1
  <2> QED BY <2>2, <2>3
<1>3. \A m \in 1..Len(items) : items[m].loan = l => items'[m] = items[m] BY <1>0, <1>1
<1>4. ItemsOf(k, l, items') = ItemsOf(k, l, items) BY <1>2, <1>3 DEF ItemsOf
<1>5. \A n \in v.made : items'[n].loan # l
  <2>1. v \in acts' BY DEF ActRuns
  <2>2. MakesOwn(v, items') BY <2>1 DEF AllMake, MakesOwn
  <2> QED BY <1>0, <2>2 DEF MakesOwn, Touches
<1>6. \A x \in acts : \A n \in x.made : n \in 1..Len(items) BY <1>0, MadeTouch
<1>7. \A n \in w.made : items[n].loan # l BY <1>0, MadeTouch
<1>8. ASSUME NEW n \in ItemsOf(k, l, items'), ~Agrees(n, seen, items') PROVE \E u \in acts' : n \in u.made
  <2>1. n \in 1..Len(items) /\ items'[n] = items[n] /\ items[n].loan = l BY <1>3, <1>4, <1>8 DEF ItemsOf
  <2>2. ~Agrees(n, seen, items) BY <1>8, <2>1 DEF Agrees
  <2>3. PICK x \in acts : n \in x.made BY <1>4, <1>8, <2>2 DEF Matches
  <2>4. x # w BY <1>7, <2>1, <2>3
  <2> QED BY <2>3, <2>4
<1>9. ASSUME NEW u \in acts', NEW n \in u.made, items'[n].loan = l PROVE PutRight(u, n, seen, items', acts')
  <2>1. u \in acts \ {w} BY <1>5, <1>9
  <2>2. n \in 1..Len(items) /\ items'[n] = items[n] /\ items[n].loan = l BY <1>2, <1>3, <1>6, <1>9, <2>1 DEF ItemsGoOn
  <2>3. PutRight(u, n, seen, items, acts) BY <1>9, <2>1, <2>2 DEF Matches
  <2>4. u.n = 0 => \A x \in acts' : x.n # n /\ (n \in x.made => x = u)
    BY <1>5, <1>9, <2>1, <2>3 DEF PutRight
  <2> QED BY <2>2, <2>3, <2>4 DEF PutRight
<1>10. DOMAIN seen \subseteq ItemsOf(k, l, items') BY <1>4 DEF Matches
<1> QED BY <1>8, <1>9, <1>10 DEF Matches

\* An item is added to the loan the list is on.
LEMMA MatchesAdded ==
  ASSUME Typed, CourseInv, NEW w \in acts, w.n = 0, NEW v, NEW l, NEW seen,
         Matches(w.kind, l, seen, items, acts), l = w.loan,
         v.n = 0, v.to = w.to, v.made = w.made \cup {Len(items) + 1},
         items' = Committed(w)
  PROVE  Matches(w.kind, l, seen, items', (acts \ {w}) \cup {v})
<1> DEFINE ws == (acts \ {w}) \cup {v}
           new == Len(items) + 1
<1>0. ListTypes /\ AllMake /\ Len(items) \in Nat /\ w.to = "open" BY DEF Typed, ListTypes, ListRecords, CourseInv, AllMake, MakesOwn
<1>1. /\ Len(items') = new /\ items'[new].loan = w.loan /\ items'[new].kind = w.kind /\ items'[new].status = "open"
      /\ \A m \in 1..Len(items) : items'[m] = items[m]
  BY <1>0, CommittedFacts
<1>2. \A m : m \in 1..Len(items') <=> m \in 1..Len(items) \/ m = new BY <1>0, <1>1
<1>3. new \notin 1..Len(items) BY <1>0
<1>4. ItemsOf(w.kind, l, items') = ItemsOf(w.kind, l, items) \cup {new} BY <1>1, <1>2, <1>3 DEF ItemsOf
<1>5. \A x \in acts : x.n \in 0..Len(items) /\ \A n \in x.made : n \in 1..Len(items)
  BY <1>0, MadeTouch DEF ListTypes, ActBounds
<1>6. \A x \in acts : x.n # new BY <1>0, <1>5
<1>7. DOMAIN seen \subseteq ItemsOf(w.kind, l, items) BY DEF Matches
<1>8. new \notin DOMAIN seen BY <1>3, <1>7 DEF ItemsOf
<1> HIDE DEF new
<1>9. ASSUME NEW n \in ItemsOf(w.kind, l, items'), ~Agrees(n, seen, items') PROVE \E u \in ws : n \in u.made
  <2>1. CASE n = new BY <2>1 DEF new
  <2>2. CASE n # new
    <3>1. n \in ItemsOf(w.kind, l, items) /\ items'[n] = items[n] BY <1>1, <1>4, <1>9, <2>2 DEF ItemsOf
    <3>2. ~Agrees(n, seen, items) BY <1>9, <3>1 DEF Agrees
    <3>3. PICK x \in acts : n \in x.made BY <3>1, <3>2 DEF Matches
    <3> QED BY <3>3
  <2> QED BY <2>1, <2>2
<1>10. ASSUME NEW u \in ws, NEW n \in u.made, items'[n].loan = l PROVE PutRight(u, n, seen, items', ws)
  <2>1. CASE u \in acts \ {w}
    <3>1. n \in 1..Len(items) /\ items'[n] = items[n] BY <1>1, <1>5, <1>10, <2>1
    <3>2. PutRight(u, n, seen, items, acts) BY <1>10, <2>1, <3>1 DEF Matches
    <3>3. u.n = 0 => \A x \in ws : x.n # n /\ (n \in x.made => x = u)
      <4> SUFFICES ASSUME u.n = 0, NEW x \in ws PROVE x.n # n /\ (n \in x.made => x = u) OBVIOUS
      <4>1. CASE x \in acts \ {w} BY <3>2, <4>1 DEF PutRight
      <4>2. CASE x = v
        <5>1. n # 0 /\ n # new BY <1>0, <1>3, <3>1
        <5>2. n \notin w.made BY <2>1, <3>2 DEF PutRight
        <5> QED BY <4>2, <5>1, <5>2 DEF new
      <4> QED BY <4>1, <4>2
    <3> QED BY <3>1, <3>2, <3>3 DEF PutRight
  <2>2. CASE u = v /\ n \in w.made
    <3>1. n \in 1..Len(items) /\ items'[n] = items[n] BY <1>1, <1>5, <2>2
    <3>2. PutRight(w, n, seen, items, acts) BY <1>10, <2>2, <3>1 DEF Matches
    <3>3. \A x \in ws : x.n # n /\ (n \in x.made => x = u)
      <4> SUFFICES ASSUME NEW x \in ws PROVE x.n # n /\ (n \in x.made => x = u) OBVIOUS
      <4>1. CASE x \in acts \ {w} BY <3>2, <4>1 DEF PutRight
      <4>2. CASE x = v BY <1>0, <2>2, <3>1, <4>2
      <4> QED BY <4>1, <4>2
    <3> QED BY <2>2, <3>1, <3>2, <3>3 DEF PutRight
  <2>3. CASE u = v /\ n = new
    <3>1. \A x \in ws : x.n # n /\ (n \in x.made => x = u)
      <4>1. new # 0 BY <1>0 DEF new
      <4> QED BY <1>3, <1>5, <1>6, <2>3, <4>1
    <3> QED BY <1>0, <1>1, <1>8, <2>3, <3>1 DEF PutRight
  <2> QED BY <1>10, <2>1, <2>2, <2>3 DEF new
<1>11. DOMAIN seen \subseteq ItemsOf(w.kind, l, items') BY <1>4, <1>7
<1> HIDE DEF ws
<1>12. Matches(w.kind, l, seen, items', ws) BY <1>9, <1>10, <1>11 DEF Matches
<1> QED BY <1>12 DEF ws

\* An item is changed, of the loan the list is on or of another: no other
\* request that changed it is on its way back to a different end.
LEMMA MatchesChanged ==
  ASSUME Typed, CourseInv, ItemsGoOn, NEW w \in acts, w.n # 0, NEW v, NEW l, NEW seen,
         Matches(w.kind, l, seen, items, acts), items[w.n].status # "deleted",
         v.n = w.n, v.to = w.to, v.made = {w.n}, items' = Committed(w),
         \A u \in acts : u.n = w.n /\ items[w.n].loan = l => u.to = w.to
  PROVE  Matches(w.kind, l, seen, items', (acts \ {w}) \cup {v})
<1> DEFINE ws == (acts \ {w}) \cup {v}
<1>0. /\ ListTypes /\ AllMake /\ Len(items) \in Nat /\ w.n \in 1..Len(items) /\ items[w.n].kind = w.kind
      /\ \A u \in acts : \A n \in u.made : n \in 1..Len(items) /\ (u.n # 0 => n = u.n)
  <2>1. \A u \in acts : MakesOwn(u, items) BY DEF CourseInv, AllMake
  <2>2. ListTypes /\ AllMake BY DEF Typed, CourseInv
  <2> QED BY <2>1, <2>2, TouchFacts, MadeTouch DEF ListTypes, ListRecords, MakesOwn, ActBounds
<1>1. /\ Len(items') = Len(items) /\ items'[w.n].status = w.to
      /\ \A m \in 1..Len(items) : m # w.n => items'[m] = items[m]
      /\ \A m \in 1..Len(items) : items'[m].kind = items[m].kind /\ items'[m].loan = items[m].loan
  BY <1>0, CommittedFacts DEF ItemsGoOn
<1>2. ItemsOf(w.kind, l, items') = ItemsOf(w.kind, l, items) BY <1>1 DEF ItemsOf
<1>3. DOMAIN seen \subseteq ItemsOf(w.kind, l, items') BY <1>2 DEF Matches
<1>4. ASSUME NEW n \in ItemsOf(w.kind, l, items'), ~Agrees(n, seen, items') PROVE \E u \in ws : n \in u.made
  <2>1. CASE n = w.n BY <2>1
  <2>2. CASE n # w.n
    <3>1. n \in ItemsOf(w.kind, l, items) /\ items'[n] = items[n] BY <1>1, <1>2, <1>4, <2>2 DEF ItemsOf
    <3>2. ~Agrees(n, seen, items) BY <1>4, <3>1 DEF Agrees
    <3>3. PICK x \in acts : n \in x.made BY <3>1, <3>2 DEF Matches
    <3>4. x # w BY <1>0, <2>2, <3>3
    <3> QED BY <3>3, <3>4
  <2> QED BY <2>1, <2>2
<1>5. items[w.n].loan = l => w.n \in DOMAIN seen
  <2> SUFFICES ASSUME items[w.n].loan = l, w.n \notin DOMAIN seen PROVE FALSE OBVIOUS
  <2>1. w.n \in ItemsOf(w.kind, l, items) BY <1>0 DEF ItemsOf
  <2>2. PICK x \in acts : w.n \in x.made BY <2>1 DEF Matches, Agrees
  <2>3. PutRight(x, w.n, seen, items, acts) BY <2>2 DEF Matches
  <2>4. x.n # 0 BY <2>3 DEF PutRight
  <2> QED BY <2>3, <2>4 DEF PutRight
<1>6. ASSUME NEW u \in ws, NEW n \in u.made, items'[n].loan = l PROVE PutRight(u, n, seen, items', ws)
  <2>1. CASE u \in acts \ {w}
    <3>1. n \in 1..Len(items) /\ items[n].loan = l BY <1>0, <1>1, <1>6, <2>1
    <3>2. PutRight(u, n, seen, items, acts) BY <1>6, <2>1, <3>1 DEF Matches
    <3>3. items'[n].status = u.to
      <4>1. CASE n = w.n
        <5>1. u.n # 0 BY <3>2, <4>1 DEF PutRight
        <5>2. u.n = w.n BY <1>0, <1>6, <2>1, <4>1, <5>1
        <5> QED BY <1>1, <2>1, <3>1, <4>1, <5>2
      <4>2. CASE n # w.n BY <1>1, <3>1, <3>2, <4>2 DEF PutRight
      <4> QED BY <4>1, <4>2
    <3>4. u.n = 0 => \A x \in ws : x.n # n /\ (n \in x.made => x = u) BY <3>2 DEF PutRight
    <3> QED BY <3>2, <3>3, <3>4 DEF PutRight
  <2>2. CASE u = v
    <3>1. n = w.n /\ items[w.n].loan = l BY <1>0, <1>1, <1>6, <2>2
    <3> QED BY <1>1, <1>5, <2>2, <3>1 DEF PutRight
  <2> QED BY <2>1, <2>2
<1> HIDE DEF ws
<1>7. Matches(w.kind, l, seen, items', ws) BY <1>3, <1>4, <1>6 DEF Matches
<1> QED BY <1>7 DEF ws

\* An answer is put in its place.
LEMMA MatchesPatched ==
  ASSUME Typed, CourseInv, NEW w \in acts, list # NoList, w.kind = list.kind, w.to # "deleted",
         Matches(w.kind, w.loan, list.seen, items, acts), items' = items
  PROVE  Matches(w.kind, w.loan, Patched(w), items, acts \ {w})
<1> DEFINE ws == acts \ {w}
<1>0. ListTypes /\ AllMake /\ (w.n = 0 => \A n \in w.made : n \in ItemsOf(w.kind, w.loan, items))
  <2>1. ListTypes /\ AllMake /\ MakesOwn(w, items) BY DEF Typed, CourseInv, AllMake
  <2> QED BY <2>1, MadeTouch DEF MakesOwn, ItemsOf
<1>1. PICK seen : seen = Patched(w) OBVIOUS
<1>2. /\ DOMAIN seen = IF w.n = 0 THEN DOMAIN list.seen \cup w.made ELSE DOMAIN list.seen
      /\ \A n \in DOMAIN seen : seen[n] = IF n \in w.made THEN w.to ELSE list.seen[n]
  BY <1>0, <1>1, PatchedFacts
<1>3. DOMAIN seen \subseteq ItemsOf(w.kind, w.loan, items) BY <1>0, <1>2 DEF Matches
<1>4. ASSUME NEW n \in ItemsOf(w.kind, w.loan, items), ~Agrees(n, seen, items) PROVE \E u \in ws : n \in u.made
  <2>1. CASE n \in w.made
    <3>1. PutRight(w, n, list.seen, items, acts) BY <1>4, <2>1 DEF Matches, ItemsOf
    <3>2. n \in DOMAIN seen BY <1>2, <2>1, <3>1 DEF PutRight
    <3> QED BY <1>2, <1>4, <2>1, <3>1, <3>2 DEF PutRight, Agrees
  <2>2. CASE n \notin w.made
    <3>1. n \in DOMAIN seen <=> n \in DOMAIN list.seen BY <1>2, <2>2
    <3>2. ~Agrees(n, list.seen, items) BY <1>2, <1>4, <2>2, <3>1 DEF Agrees
    <3>3. PICK x \in acts : n \in x.made BY <1>4, <3>2 DEF Matches
    <3> QED BY <2>2, <3>3
  <2> QED BY <2>1, <2>2
<1>5. ASSUME NEW u \in ws, NEW n \in u.made, items[n].loan = w.loan PROVE PutRight(u, n, seen, items, ws)
  <2>1. PutRight(u, n, list.seen, items, acts) BY <1>5 DEF Matches
  <2>2. u.n # 0 => n \in DOMAIN seen BY <1>2, <2>1 DEF PutRight
  <2>3. u.n = 0 => n \notin DOMAIN seen
    <3>1. u.n = 0 => n \notin w.made BY <2>1 DEF PutRight
    <3> QED BY <1>2, <2>1, <3>1 DEF PutRight
  <2> QED BY <2>1, <2>2, <2>3 DEF PutRight
<1> HIDE DEF ws
<1>6. Matches(w.kind, w.loan, seen, items, ws) BY <1>3, <1>4, <1>5 DEF Matches
<1> QED BY <1>1, <1>6 DEF ws

\* What a patched list read goes on to be what the server has.
LEMMA PatchReadsStill ==
  ASSUME CausesKept, PatchReads, Patches' => Patches /\ list'.kind = list.kind,
         \A ld \in loads : ld.loan \in Loan,
         \A l \in Loan : Off(l, causes') \/ LiveOf(list.kind, l, items') = LiveOf(list.kind, l, items),
         \A ld \in loads' :
           \/ ld \in loads
           \/ ld.frees = {} /\ (ld.got = Unread \/ ld.got = LiveOf(list.kind, ld.loan, items'))
  PROVE  PatchReads'
<1> SUFFICES ASSUME Patches', NEW ld \in loads'
             PROVE  /\ ld.frees = {}
                    /\ ld.got = Unread \/ Off(ld.loan, causes') \/ ld.got = LiveOf(list'.kind, ld.loan, items')
  BY DEF PatchReads, Off, LiveOf
<1>1. CASE ld \in loads
  <2>1. ld.loan \in Loan BY <1>1
  <2>2. /\ ld.frees = {}
        /\ ld.got = Unread \/ Off(ld.loan, causes) \/ ld.got = LiveOf(list.kind, ld.loan, items)
    BY <1>1 DEF PatchReads
  <2> QED BY <2>1, <2>2, OffStays
<1> QED BY <1>1

\* Nothing new is on its way back to a loan while its list is loaded.
LEMMA PatchWaitsStill ==
  ASSUME Typed, CausesKept, ItemsGoOn, PatchWaits, Patches' => Patches /\ list'.loan = list.loan,
         loads' # {} => loads # {},
         \A w \in acts' : w.made # {} =>
           \/ \E u \in acts : u.made # {} /\ u.n = w.n /\ u.loan = w.loan
           \/ loads # {} => \A l \in Touches(w, items') : Off(l, causes')
  PROVE  PatchWaits'
<1> SUFFICES ASSUME Patches', loads' # {}, ~Off(list'.loan, causes'), Stirred(list'.loan, acts', items')
             PROVE  FALSE
  BY DEF PatchWaits, Off, Stirred, Touches
<1>0. list.loan \in Loan /\ Patches /\ list'.loan = list.loan /\ loads # {} BY ListMounted DEF Typed, Patches
<1>1. ~Off(list.loan, causes) BY <1>0, OffStays
<1>2. ~Stirred(list.loan, acts, items) BY <1>0, <1>1 DEF PatchWaits
<1>3. PICK w \in acts' : w.made # {} /\ list.loan \in Touches(w, items') BY <1>0 DEF Stirred
<1>4. CASE \E u \in acts : u.made # {} /\ u.n = w.n /\ u.loan = w.loan
  <2>1. PICK u \in acts : u.made # {} /\ u.n = w.n /\ u.loan = w.loan BY <1>4
  <2>2. Touches(w, items') = Touches(u, items') BY <2>1 DEF Touches
  <2>3. list.loan \in Touches(u, items) BY <1>3, <2>2, TouchFacts DEF Typed
  <2> QED BY <1>2, <2>1, <2>3 DEF Stirred
<1> QED BY <1>0, <1>3, <1>4

\* What it shows, on the loan it stays on.
LEMMA PatchShowsStill ==
  ASSUME Typed, CausesKept, PatchShows, Patches' => Patches /\ list'.loan = list.loan /\ list'.kind = list.kind,
         /\ Patches /\ loads' = {} /\ ~Off(list.loan, causes')
         /\ (loads = {} => Matches(list.kind, list.loan, list.seen, items, acts))
       => Matches(list.kind, list.loan, list'.seen, items', acts')
  PROVE  PatchShows'
<1> SUFFICES ASSUME Patches', loads' = {}, ~Off(list'.loan, causes')
             PROVE  Matches(list'.kind, list'.loan, list'.seen, items', acts')
  BY DEF PatchShows, Off, Matches, ItemsOf, Agrees, PutRight
<1>0. list.loan \in Loan /\ Patches /\ list'.loan = list.loan /\ list'.kind = list.kind BY ListMounted DEF Typed, Patches
<1>1. ~Off(list.loan, causes) BY <1>0, OffStays
<1>2. loads = {} => Matches(list.kind, list.loan, list.seen, items, acts) BY <1>0, <1>1 DEF PatchShows
<1> QED BY <1>0, <1>2

\* One request of a task at a time, as long as the list gives back no key.
LEMMA OneStill ==
  ASSUME Typed, OneAtATime,
         list' # NoList /\ list'.kind = "tasks" =>
           /\ list # NoList /\ list.kind = "tasks" /\ list'.mount = list.mount
           /\ \A w \in acts' : OurAct(w) /\ w.n # 0 /\ w.n \in list.busy => w.n \in list'.busy,
         \A w \in acts' : w.mount = 0 \/ \E u \in acts : u.n = w.n /\ u.mount = w.mount,
         \A v, w \in acts' : v # w /\ v.mount # 0 /\ w.mount # 0 =>
            \E t, u \in acts : t # u /\ t.n = v.n /\ u.n = w.n /\ t.mount = v.mount /\ u.mount = w.mount,
         \A w \in acts' : \E u \in acts : u.n = w.n /\ u.kind = w.kind /\ u.to = w.to
  PROVE  OneAtATime'
<1>1. \A w \in acts' : w.kind = "titleExceptions" /\ w.n # 0 => w.to = "done" BY DEF OneAtATime
<1>2. ASSUME NEW w \in acts', list' # NoList, list'.mount = w.mount, list'.kind = "tasks", w.n # 0
      PROVE  w.n \in list'.busy /\ \A u \in acts' : list'.mount = u.mount /\ u.n = w.n => u = w
  <2>1. list # NoList /\ list.kind = "tasks" /\ list'.mount = list.mount /\ w.mount # 0
    BY <1>2, ListMounted DEF Typed, PageTypes
  <2>2. PICK x \in acts : x.n = w.n /\ x.mount = w.mount BY <1>2, <2>1
  <2>3. OurAct(x) /\ OurAct(w) BY <1>2, <2>1, <2>2 DEF OurAct
  <2>4. w.n \in list.busy BY <1>2, <2>1, <2>2, <2>3 DEF OneAtATime
  <2>5. w.n \in list'.busy BY <1>2, <2>3, <2>4
  <2>6. ASSUME NEW u \in acts', list'.mount = u.mount, u.n = w.n, u # w PROVE FALSE
    <3>1. PICK t \in acts, y \in acts : t # y /\ t.n = u.n /\ y.n = w.n /\ t.mount = u.mount /\ y.mount = w.mount
      BY <1>2, <2>1, <2>6
    <3>2. OurAct(t) /\ OurAct(y) BY <1>2, <2>1, <2>6, <3>1 DEF OurAct
    <3> QED BY <1>2, <2>1, <2>6, <3>1, <3>2 DEF OneAtATime
  <2> QED BY <2>5, <2>6
<1> QED BY <1>1, <1>2 DEF OneAtATime, OurAct

\* The page turns.
LEMMA PatchTurn ==
  ASSUME Typed, CourseInv, CausesKept, ItemsGoOn, PatchInv, TurnStep
  PROVE  PatchInv'
<1>0. /\ PageTypes /\ ListTypes /\ items' = items /\ acts' = acts /\ \A e \in loads : e.loan \in Loan
      /\ \A w \in acts : w.mount \in 0..mounts
  BY RelistCases DEF Typed, ListTypes, ListRecords, Fetch, ActBounds
<1>1. CASE list' = list
  <2>1. loads' = loads BY <1>1, CourseTurn
  <2>2. PatchReads' BY <1>0, <1>1, <2>1, PatchReadsStill DEF PatchInv, Patches
  <2>3. PatchWaits' BY <1>0, <1>1, <2>1, PatchWaitsStill DEF PatchInv, Patches
  <2>4. PatchShows' BY <1>0, <1>1, <2>1, PatchShowsStill DEF PatchInv, Patches
  <2>5. OneAtATime' BY <1>0, <1>1 DEF PatchInv, OneAtATime, OurAct
  <2> QED BY <2>2, <2>3, <2>4, <2>5 DEF PatchInv
<1>2. CASE list' # list
  <2>1. /\ \A w \in acts : \A l \in LoansOf(w) : Off(l, causes')
        /\ list' # NoList => loads' # {}
        /\ \A ld \in loads' : ld.got = Unread \/ (ld \in loads /\ Off(ld.loan, causes'))
    BY <1>2, CourseTurn
  <2>2. PatchShows' BY <2>1 DEF PatchShows, Patches
  <2>3. PatchWaits'
    <3> SUFFICES ASSUME Stirred(list'.loan, acts', items') PROVE Off(list'.loan, causes')
      BY DEF PatchWaits, Off, Stirred, Touches
    <3>1. PICK w \in acts : list'.loan \in Touches(w, items) BY <1>0 DEF Stirred
    <3> QED BY <1>0, <2>1, <3>1, TouchFacts
  <2>4. CASE list' = NoList
    <3>1. OneAtATime' BY <1>0, <2>4 DEF PatchInv, OneAtATime, OurAct
    <3>2. PatchReads' BY <2>4 DEF PatchReads, Patches
    <3> QED BY <2>2, <2>3, <3>1, <3>2 DEF PatchInv
  <2>5. CASE /\ list # NoList /\ shown' \in Loan /\ list' = HiddenIf([list EXCEPT !.loan = shown'], "switch")
             /\ loads' = Kept(list.kind) \cup {Load(shown', TRUE, {})}
    <3>1. PICK p : p = [list EXCEPT !.loan = shown'] OBVIOUS
    <3>2. list \in Listing BY <1>0, <2>5, ListMounted
    <3>3. p \in Listing /\ p.kind = list.kind /\ p.mount = list.mount /\ p.busy = list.busy
      BY <2>5, <3>1, <3>2 DEF Listing
    <3>4. /\ list'.kind = list.kind /\ list'.mount = list.mount
          /\ list.kind = "tasks" => list'.busy = list.busy
      <4>1. list' = HiddenIf(p, "switch") BY <2>5, <3>1
      <4>2. list'.kind = p.kind /\ list'.mount = p.mount /\ ("switch" \notin Section(p.kind).hides => list' = p)
        BY <3>3, <4>1, HiddenIfFacts
      <4>3. Section("tasks").hides = {} BY DEF Section, ListSections, TaskList, ReadOnly
      <4> QED BY <3>3, <4>2, <4>3
    <3>5. PICK e : e = Load(shown', TRUE, {}) OBVIOUS
    <3>6. e.frees = {} BY <1>0, <2>5, <3>5, EffectLoad
    <3>7. \A ld \in loads' : ld \in loads \/ ld = e BY <2>5, <3>5 DEF Kept
    <3>8. PatchReads' BY <2>1, <2>5, <3>4, <3>6, <3>7 DEF PatchInv, PatchReads, Patches, Off
    <3>9. OneAtATime' BY <1>0, <2>5, <3>4 DEF PatchInv, OneAtATime, OurAct
    <3> QED BY <2>2, <2>3, <3>8, <3>9 DEF PatchInv
  <2>6. CASE /\ shown' \in Loan /\ route'.section \in ListKinds
             /\ list' = FreshList(route'.section, shown') /\ loads' = {Load(shown', TRUE, {})}
    <3>1. mounts \in Nat BY <1>0 DEF PageTypes
    <3>2. list'.mount = mounts + 1 BY <2>6, <3>1, FreshListFacts
    <3>3. \A w \in acts' : list'.mount # w.mount BY <1>0, <3>1, <3>2
    <3>4. OneAtATime' BY <1>0, <3>3 DEF PatchInv, OneAtATime, OurAct
    <3>5. PICK e : e = Load(shown', TRUE, {}) OBVIOUS
    <3>6. e.frees = {} /\ e.got = Unread BY <1>0, <2>6, <3>5, EffectLoad
    <3>7. PatchReads' BY <2>6, <3>5, <3>6 DEF PatchReads
    <3> QED BY <2>2, <2>3, <3>4, <3>7 DEF PatchInv
  <2> QED BY <1>0, <1>2, <2>4, <2>5, <2>6, RelistCases
<1> QED BY <1>1, <1>2

\* The user acts on the list.
LEMMA PatchUser ==
  ASSUME Typed, CourseInv, CausesKept, ItemsGoOn, PatchInv, ListUser
  PROVE  PatchInv'
<1>0. /\ PageTypes /\ ListTypes /\ list # NoList /\ list \in Listing /\ list.kind \in ListKinds
      /\ \A e \in loads : e.loan \in Loan
  BY ListMounted DEF Typed, ListUser, ListTypes, ListRecords, Fetch
<1>1. ASSUME NEW w \in Act, Sends(w), Patches => w.n = 0 \/ w.n \in DOMAIN list.seen,
             list.kind = "titleExceptions" /\ w.n # 0 => w.to = "done"
      PROVE  PatchInv'
  <2>1. /\ items' = items /\ acts' = acts \cup {w} /\ loads' = loads /\ w.made = {}
        /\ w.mount = list.mount /\ w.kind = list.kind
        /\ list'.kind = list.kind /\ list'.mount = list.mount /\ list'.loan = list.loan /\ list'.seen = list.seen
        /\ list' # NoList /\ list.busy \subseteq list'.busy
        /\ w.n # 0 /\ list.kind = "tasks" => w.n \notin list.busy /\ w.n \in list'.busy
    BY <1>1, NoListKind DEF Sends
  <2>2. Patches' => Patches BY <1>0, <2>1 DEF Patches
  <2>3. PatchReads' BY <1>0, <2>1, <2>2, PatchReadsStill DEF PatchInv
  <2>4. PatchWaits' BY <2>1, <2>2, PatchWaitsStill DEF PatchInv
  <2>5. PatchShows'
    <3>1. Patches /\ Matches(list.kind, list.loan, list.seen, items, acts)
            => Matches(list.kind, list.loan, list.seen, items, acts \cup {w})
      BY <1>0, <1>1, <2>1, MatchesSent
    <3> QED BY <2>1, <2>2, <3>1, PatchShowsStill DEF PatchInv
  <2>6. OneAtATime'
    <3>1. ASSUME NEW x \in acts', list'.mount = x.mount, list'.kind = "tasks", x.n # 0
          PROVE  x.n \in list'.busy /\ \A u \in acts' : list'.mount = u.mount /\ u.n = x.n => u = x
      <4>1. \A u \in acts : u.mount = list.mount /\ u.n # 0 =>
              u.n \in list.busy /\ \A t \in acts : t.mount = list.mount /\ t.n = u.n => t = u
        BY <1>0, <2>1, <3>1 DEF PatchInv, OneAtATime, OurAct
      <4> QED BY <2>1, <3>1, <4>1
    <3>2. \A x \in acts' : x.kind = "titleExceptions" /\ x.n # 0 => x.to = "done"
      BY <1>1, <2>1 DEF PatchInv, OneAtATime
    <3> QED BY <3>1, <3>2 DEF OneAtATime, OurAct
  <2> QED BY <2>3, <2>4, <2>5, <2>6 DEF PatchInv
<1>2. CASE Create
  <2>1. PICK w \in Act : Sends(w) /\ w.n = 0 BY <1>0, <1>2, CreateFacts
  <2> QED BY <1>1, <2>1
<1>3. CASE Step
  <2>1. PICK w \in Act, n \in DOMAIN list.seen :
          /\ Sends(w) /\ <<list.seen[n], w.to>> \in Section(list.kind).offers
          /\ list.kind # "status" => w.n = n
    BY <1>0, <1>3, StepFacts
  <2>2. Patches => w.n \in DOMAIN list.seen BY <1>0, <2>1, PatchKinds DEF Patches
  <2>3. list.kind = "titleExceptions" => w.to = "done"
    <3>1. Section("titleExceptions").offers = {<<"open", "done">>} BY DEF Section, ListSections, TitleExceptionList, ReadOnly
    <3> QED BY <2>1, <3>1
  <2> QED BY <1>1, <2>1, <2>2, <2>3
<1>4. CASE RemoveItem
  <2>1. PICK w \in Act : Sends(w) /\ w.n \in DOMAIN list.seen /\ Section(list.kind).removal # "none"
    BY <1>0, <1>4, RemoveFacts
  <2>2. list.kind # "titleExceptions"
    <3>1. Section("titleExceptions").removal = "none" BY DEF Section, ListSections, TitleExceptionList, ReadOnly
    <3> QED BY <2>1, <3>1
  <2> QED BY <1>1, <2>1, <2>2
<1>5. CASE Retry
  <2>1. acts' = acts /\ list.kind = "conditions" /\ Refetched(list, FALSE) BY <1>5 DEF Retry
  <2>2. list'.kind = "conditions" BY <1>0, <2>1, RefetchedFacts
  <2>3. ~Patches'
    <3>1. ~Section("conditions").patches BY DEF Section, ListSections, ConditionsList, ReadOnly
    <3> QED BY <2>2, <3>1 DEF Patches
  <2>4. OneAtATime' BY <2>1, <2>2 DEF PatchInv, OneAtATime, OurAct
  <2> QED BY <2>3, <2>4 DEF PatchInv, PatchReads, PatchWaits, PatchShows
<1> QED BY <1>2, <1>3, <1>4, <1>5 DEF ListUser

\* Its loads are read and come, or fail.
LEMMA PatchLoads ==
  ASSUME Typed, CourseInv, CausesKept, ItemsGoOn, PatchInv, NEW ld \in loads,
         ListRead(ld) \/ ListArrives(ld) \/ ListLoadFails(ld)
  PROVE  PatchInv'
<1>0. /\ PageTypes /\ ListTypes /\ list # NoList /\ list \in Listing /\ ld \in Fetch
      /\ list.loan \in Loan /\ items' = items /\ acts' = acts /\ (\A e \in loads : e.loan \in Loan) /\ AllMake
  <2>1. list # NoList /\ ld \in Fetch /\ \A e \in loads : e.loan \in Loan
    BY DEF Typed, ListTypes, ListRecords, LoadBounds, Fetch
  <2>2. items' = items /\ acts' = acts BY DEF ListRead, ListArrives, ListLoadFails
  <2> QED BY <2>1, <2>2, ListMounted DEF Typed, CourseInv
<1>1. CASE ListRead(ld)
  <2>1. PICK g : g = LiveOf(list.kind, ld.loan, items) OBVIOUS
  <2>2. g = Live(list.kind, ld.loan) BY <2>1 DEF Live, LiveOf
  <2>3. PICK r : r = [ld EXCEPT !.got = g] OBVIOUS
  <2>4. list' = list /\ loads' = (loads \ {ld}) \cup {r} BY <1>1, <2>2, <2>3 DEF ListRead
  <2>5. r.loan = ld.loan /\ r.got = g /\ r.frees = ld.frees BY <1>0, <2>3 DEF Fetch
  <2>6. Patches' <=> Patches BY <2>4 DEF Patches
  <2>7. CASE Patches
    <3>1. ld.frees = {} BY <2>7 DEF PatchInv, PatchReads
    <3>2. PatchReads' BY <1>0, <2>1, <2>4, <2>5, <2>6, <3>1, PatchReadsStill DEF PatchInv
    <3>3. PatchWaits' BY <1>0, <2>4, <2>6, PatchWaitsStill DEF PatchInv
    <3>4. PatchShows' BY <2>4 DEF PatchShows
    <3>5. OneAtATime' BY <1>0, <2>4 DEF PatchInv, OneAtATime, OurAct
    <3> QED BY <3>2, <3>3, <3>4, <3>5 DEF PatchInv
  <2>8. CASE ~Patches
    <3>1. OneAtATime' BY <1>0, <2>4 DEF PatchInv, OneAtATime, OurAct
    <3> QED BY <2>6, <2>8, <3>1 DEF PatchInv, PatchReads, PatchWaits, PatchShows
  <2> QED BY <2>7, <2>8
<1>2. CASE ListArrives(ld) \/ ListLoadFails(ld)
  <2>1. /\ list' \in Listing /\ list'.kind = list.kind /\ list'.mount = list.mount /\ list'.loan = list.loan
        /\ list'.busy = list.busy \ ld.frees
        /\ ListArrives(ld) => list'.seen = ld.got
        /\ loads' = (loads \ {ld}) \cup IF list.again THEN {Load(list.loan, TRUE, {})} ELSE {}
    BY <1>0, <1>2, ArrivedFacts
  <2>2. PICK e : e = Load(list.loan, TRUE, {}) OBVIOUS
  <2>3. e.got = Unread /\ e.frees = {} BY <1>0, <2>2, EffectLoad
  <2>4. loads' = (loads \ {ld}) \cup IF list.again THEN {e} ELSE {} BY <2>1, <2>2
  <2>5. Patches' <=> Patches BY <1>0, <2>1, NoListKind DEF Patches
  <2>6. CASE Patches
    <3>1. PatchReads' BY <1>0, <2>1, <2>3, <2>4, <2>5, PatchReadsStill DEF PatchInv
    <3>2. PatchWaits' BY <1>0, <2>1, <2>5, PatchWaitsStill DEF PatchInv
    <3>3. PatchShows'
      <4> SUFFICES ASSUME ~Off(list.loan, causes') PROVE Matches(list.kind, list.loan, list'.seen, items', acts')
        BY <2>1, <2>5, PatchShowsStill DEF PatchInv
      <4>1. CASE ListArrives(ld)
        <5>1. ld.loan # list.loan => causes' = Blame({list.loan}, "late") BY <4>1 DEF ListArrives
        <5>2. ld.loan = list.loan /\ ~Off(list.loan, causes) BY <1>0, <5>1, OffBy, OffStays
        <5>3. ld.got # Unread BY <4>1 DEF ListArrives
        <5>4. list'.seen = LiveOf(list.kind, list.loan, items)
          BY <2>1, <2>6, <4>1, <5>2, <5>3 DEF PatchInv, PatchReads
        <5>5. ~Stirred(list.loan, acts, items) BY <2>6, <5>2 DEF PatchInv, PatchWaits
        <5> QED BY <1>0, <5>4, <5>5, MatchesLive
      <4>2. CASE ListLoadFails(ld)
        <5>1. causes' = Blame({list.loan}, "failed") BY <4>2 DEF ListLoadFails
        <5> QED BY <1>0, <5>1, OffBy
      <4> QED BY <1>2, <4>1, <4>2
    <3>4. OneAtATime'
      <4>1. list'.busy = list.busy BY <2>1, <2>6 DEF PatchInv, PatchReads
      <4> QED BY <1>0, <2>1, <4>1 DEF PatchInv, OneAtATime, OurAct
    <3> QED BY <3>1, <3>2, <3>3, <3>4 DEF PatchInv
  <2>7. CASE ~Patches
    <3>1. list.kind # "tasks"
      <4>1. Section("tasks").patches BY DEF Section, ListSections, TaskList, ReadOnly
      <4> QED BY <1>0, <2>7, <4>1 DEF Patches
    <3>2. OneAtATime' BY <1>0, <2>1, <3>1 DEF PatchInv, OneAtATime, OurAct
    <3> QED BY <2>5, <2>7, <3>2 DEF PatchInv, PatchReads, PatchWaits, PatchShows
  <2> QED BY <2>6, <2>7
<1> QED BY <1>1, <1>2

\* A request is replaced by one for the same item, which may no longer be the
\* list's, or ends.
LEMMA OneReplaced ==
  ASSUME Typed, OneAtATime, NEW w \in acts, NEW V, acts' = (acts \ {w}) \cup V,
         \A v \in V : v.n = w.n /\ v.kind = w.kind /\ v.to = w.to /\ v.mount \in {w.mount, 0},
         \A u, v \in V : u = v,
         list' # NoList /\ list'.kind = "tasks" =>
           /\ list # NoList /\ list.kind = "tasks" /\ list'.mount = list.mount
           /\ \/ list'.busy = list.busy
              \/ /\ list'.busy = list.busy \ {w.n} /\ OurAct(w)
                 /\ \A v \in V : v.mount = 0
  PROVE  OneAtATime'
<1>1. \A x \in acts' : x.mount = 0 \/ \E u \in acts : u.n = x.n /\ u.mount = x.mount OBVIOUS
<1>2. ASSUME NEW x \in acts', NEW y \in acts', x # y, x.mount # 0, y.mount # 0
      PROVE  \E t, u \in acts : t # u /\ t.n = x.n /\ u.n = y.n /\ t.mount = x.mount /\ u.mount = y.mount
  <2>1. CASE x \in V
    <3>1. y \in acts \ {w} BY <1>2, <2>1
    <3>2. w \in acts /\ w # y /\ w.n = x.n /\ w.mount = x.mount BY <1>2, <2>1, <3>1
    <3> QED BY <3>1, <3>2
  <2>2. CASE y \in V
    <3>1. x \in acts \ {w} BY <1>2, <2>2
    <3>2. w \in acts /\ w # x /\ w.n = y.n /\ w.mount = y.mount BY <1>2, <2>2, <3>1
    <3> QED BY <3>1, <3>2
  <2>3. CASE x \in acts /\ y \in acts BY <1>2, <2>3
  <2> QED BY <2>1, <2>2, <2>3
<1>3. \A x \in acts' : \E u \in acts : u.n = x.n /\ u.kind = x.kind /\ u.to = x.to OBVIOUS
<1>4. ASSUME list' # NoList, list'.kind = "tasks", NEW x \in acts', OurAct(x), x.n # 0, x.n \in list.busy
      PROVE  x.n \in list'.busy
  <2>1. CASE list'.busy = list.busy BY <1>4, <2>1
  <2>2. CASE list'.busy = list.busy \ {w.n} /\ OurAct(w) /\ \A v \in V : v.mount = 0
    <3>1. list.mount # 0 BY <1>4, ListMounted DEF Typed, PageTypes
    <3>2. x \in acts \ {w} BY <1>4, <2>2, <3>1 DEF OurAct
    <3>3. x.n # w.n BY <1>4, <2>2, <3>2 DEF OneAtATime
    <3> QED BY <1>4, <2>2, <3>3
  <2> QED BY <1>4, <2>1, <2>2
<1> QED BY <1>1, <1>2, <1>3, <1>4, OneStill

\* The server checks a request.
LEMMA PatchChecked ==
  ASSUME Typed, CourseInv, CausesKept, ItemsGoOn, PatchInv, NEW w \in acts, ActChecked(w)
  PROVE  PatchInv'
<1>0. ListTypes /\ AllMake /\ \A e \in loads : e.loan \in Loan
  BY DEF Typed, CourseInv, ListTypes, ListRecords, Fetch
<1>1. PICK v \in Act : /\ acts' = (acts \ {w}) \cup {v}
                       /\ v.loan = w.loan /\ v.n = w.n /\ v.made = w.made /\ v.to = w.to /\ v.kind = w.kind
                       /\ v.mount = w.mount /\ list' = list /\ loads' = loads /\ items' = items
  BY <1>0, CheckedFacts
<1>2. Patches' => Patches BY <1>1 DEF Patches
<1>3. PatchReads' BY <1>0, <1>1, <1>2, PatchReadsStill DEF PatchInv
<1>4. PatchWaits' BY <1>1, <1>2, PatchWaitsStill DEF PatchInv
<1>5. PatchShows'
  <2>1. PICK V : V = {v} OBVIOUS
  <2>2. Matches(list.kind, list.loan, list.seen, items, acts)
          => Matches(list.kind, list.loan, list.seen, items, (acts \ {w}) \cup V)
    BY <1>0, <1>1, <2>1, MatchesLeft
  <2> QED BY <1>1, <1>2, <2>1, <2>2, PatchShowsStill DEF PatchInv
<1>6. OneAtATime'
  <2>1. PICK V : V = {v} OBVIOUS
  <2>2. acts' = (acts \ {w}) \cup V BY <1>1, <2>1
  <2>3. /\ \A x \in V : x.n = w.n /\ x.kind = w.kind /\ x.to = w.to /\ x.mount \in {w.mount, 0}
        /\ \A x, y \in V : x = y
    BY <1>1, <2>1
  <2> QED BY <1>1, <2>2, <2>3, OneReplaced DEF PatchInv
<1> QED BY <1>3, <1>4, <1>5, <1>6 DEF PatchInv

\* The server carries one out.
LEMMA PatchRuns ==
  ASSUME Typed, CourseInv, CausesKept, ItemsGoOn, PatchInv, NEW w \in acts, ActRuns(w), ListTypes', AllMake'
  PROVE  PatchInv'
<1>0. /\ PageTypes /\ ListTypes /\ AllMake /\ w \in Act /\ w.loan \in Loan /\ LoansOf(w) \subseteq Loan
      /\ w.loan \in LoansOf(w) /\ Touches(w, items) = LoansOf(w) /\ Touches(w, items') = LoansOf(w)
      /\ \A e \in loads : e.loan \in Loan
  BY TouchFacts DEF Typed, CourseInv, ListTypes, ListRecords, Fetch
<1>1. PICK v \in Act : /\ acts' = (acts \ {w}) \cup {v}
                       /\ v.loan = w.loan /\ v.n = w.n /\ v.to = w.to /\ v.kind = w.kind /\ v.mount = w.mount
                       /\ v.made = IF w.n = 0 THEN w.made \cup {Len(items) + 1} ELSE {w.n}
                       /\ list' = list /\ loads' = loads /\ items' = Committed(w)
  BY <1>0, RunFacts
<1>2. Patches' => Patches BY <1>1 DEF Patches
<1>3. Patches /\ loads # {} => \A l \in LoansOf(w) : Off(l, causes')
  <2>1. CASE OurAct(w)
    <3>1. list.kind = w.kind BY <1>0, <2>1 DEF ListTypes, ActBounds
    <3>2. Patches /\ loads # {} => causes' = Blame(LoansOf(w), "crossed") BY <2>1, <3>1 DEF ActRuns, Patches
    <3> QED BY <1>0, <3>2, OffBy
  <2>2. CASE ~OurAct(w) BY <1>0, <2>2, OffStays DEF CourseInv, Attended
  <2> QED BY <2>1, <2>2
<1>4. PatchReads'
  <2>1. CASE Patches /\ loads # {}
    <3>1. \A l \in Loan : Off(l, causes') \/ LiveOf(list.kind, l, items') = LiveOf(list.kind, l, items)
      BY <1>3, <2>1, LiveElsewhere
    <3> QED BY <1>0, <1>1, <1>2, <3>1, PatchReadsStill DEF PatchInv
  <2>2. CASE loads = {} BY <1>1, <2>2 DEF PatchReads
  <2>3. CASE ~Patches BY <1>2, <2>3 DEF PatchReads
  <2> QED BY <2>1, <2>2, <2>3
<1>5. PatchWaits'
  <2>1. Touches(v, items') = LoansOf(w) BY <1>0, <1>1 DEF Touches
  <2>2. CASE Patches
    <3>1. \A x \in acts' : x.made # {} =>
             \/ \E u \in acts : u.made # {} /\ u.n = x.n /\ u.loan = x.loan
             \/ loads # {} => \A l \in Touches(x, items') : Off(l, causes')
      BY <1>1, <1>3, <2>1, <2>2
    <3> QED BY <1>1, <1>2, <3>1, PatchWaitsStill DEF PatchInv
  <2>3. CASE ~Patches BY <1>2, <2>3 DEF PatchWaits
  <2> QED BY <2>2, <2>3
<1>6. PatchShows'
  <2> SUFFICES ASSUME Patches, loads = {}, ~Off(list.loan, causes'),
                      Matches(list.kind, list.loan, list.seen, items, acts)
               PROVE  Matches(list.kind, list.loan, list.seen, items', acts')
    BY <1>1, <1>2, PatchShowsStill DEF PatchInv
  <2>0. list # NoList /\ list.loan \in Loan /\ list.kind \in ListKinds BY <1>0, ListMounted DEF Patches
  <2>1. CASE list.loan \notin LoansOf(w) BY <1>1, <2>1, MatchesElsewhere
  <2>2. CASE list.loan \in LoansOf(w)
    <3>1. ~Off(list.loan, causes) BY <2>0, OffStays
    <3>2. OurAct(w) /\ list.loan = w.loan BY <1>0, <2>2, <3>1 DEF CourseInv, Attended
    <3>3. list.kind = w.kind BY <1>0, <3>2 DEF ListTypes, ActBounds
    <3>4. CASE w.n = 0
      <4>1. Matches(w.kind, w.loan, list.seen, items, acts) BY <3>2, <3>3
      <4>2. v.n = 0 /\ v.to = w.to /\ v.made = w.made \cup {Len(items) + 1} /\ items' = Committed(w) BY <1>1, <3>4
      <4>3. Matches(w.kind, w.loan, list.seen, items', (acts \ {w}) \cup {v}) BY <3>4, <4>1, <4>2, MatchesAdded
      <4> QED BY <1>1, <3>2, <3>3, <4>3
    <3>5. CASE w.n # 0
      <4>1. items[w.n].status # "deleted" BY <3>5 DEF ActRuns, ActRefused, Gone
      <4>2. ASSUME NEW u \in acts, u.n = w.n, items[w.n].loan = list.loan PROVE u.to = w.to
        <5>1. list.loan \in Touches(u, items) BY <3>5, <4>2 DEF Touches
        <5>2. OurAct(u) BY <3>1, <5>1 DEF CourseInv, Attended
        <5>3. CASE list.kind = "tasks" BY <3>2, <3>5, <4>2, <5>2, <5>3 DEF PatchInv, OneAtATime
        <5>4. CASE list.kind = "titleExceptions"
          <6>1. u.kind = "titleExceptions" BY <1>0, <5>2, <5>4 DEF ListTypes, ActBounds
          <6> QED BY <3>3, <3>5, <4>2, <5>4, <6>1 DEF PatchInv, OneAtATime
        <5> QED BY <2>0, <5>3, <5>4, PatchKinds DEF Patches
      <4>3. v.made = {w.n} BY <1>1, <3>5
      <4>4. Matches(w.kind, list.loan, list.seen, items', (acts \ {w}) \cup {v})
        BY <1>1, <3>3, <3>5, <4>1, <4>2, <4>3, MatchesChanged
      <4> QED BY <1>1, <3>3, <4>4
    <3> QED BY <3>4, <3>5
  <2> QED BY <2>1, <2>2
<1>7. OneAtATime'
  <2>1. PICK V : V = {v} OBVIOUS
  <2>2. acts' = (acts \ {w}) \cup V BY <1>1, <2>1
  <2>3. /\ \A x \in V : x.n = w.n /\ x.kind = w.kind /\ x.to = w.to /\ x.mount \in {w.mount, 0}
        /\ \A x, y \in V : x = y
    BY <1>1, <2>1
  <2> QED BY <1>1, <2>2, <2>3, OneReplaced DEF PatchInv
<1> QED BY <1>4, <1>5, <1>6, <1>7 DEF PatchInv

\* It is answered.
LEMMA PatchAnswered ==
  ASSUME Typed, CourseInv, CausesKept, ItemsGoOn, PatchInv, NEW w \in acts, Orderly(w), ActAnswered(w)
  PROVE  PatchInv'
<1>0. /\ PageTypes /\ ListTypes /\ AllMake /\ w \in Act /\ w.loan \in Loan /\ LoansOf(w) \subseteq Loan
      /\ w.loan \in LoansOf(w) /\ Touches(w, items) = LoansOf(w)
      /\ (\A e \in loads : e.loan \in Loan) /\ acts' = acts \ {w} /\ items' = items /\ w.n \in Nat
  BY TouchFacts DEF Typed, CourseInv, ListTypes, ListRecords, Fetch, ActAnswered, Act
<1>1. PICK V : V = {} OBVIOUS
<1>2. acts' = (acts \ {w}) \cup V BY <1>0, <1>1
<1>3. CASE ~OurAct(w)
  <2>1. list' = list /\ loads' = loads BY <1>3 DEF ActAnswered
  <2>2. Patches' => Patches BY <2>1 DEF Patches
  <2>3. PatchReads' BY <1>0, <2>1, <2>2, PatchReadsStill DEF PatchInv
  <2>4. PatchWaits' BY <1>0, <2>1, <2>2, PatchWaitsStill DEF PatchInv
  <2>5. PatchShows'
    <3> SUFFICES ASSUME Patches, ~Off(list.loan, causes'), Matches(list.kind, list.loan, list.seen, items, acts)
                 PROVE  Matches(list.kind, list.loan, list.seen, items, acts')
      BY <1>0, <2>1, <2>2, PatchShowsStill DEF PatchInv
    <3>1. list.loan \notin LoansOf(w)
      <4>1. \A l \in LoansOf(w) : Off(l, causes') BY <1>0, <1>3, OffStays DEF CourseInv, Attended
      <4> QED BY <4>1
    <3>2. Matches(list.kind, list.loan, list.seen, items, (acts \ {w}) \cup V)
      BY <1>0, <1>1, <3>1, MatchesLeft
    <3> QED BY <1>2, <3>2
  <2>6. OneAtATime' BY <1>1, <1>2, <2>1, OneReplaced DEF PatchInv
  <2> QED BY <2>3, <2>4, <2>5, <2>6 DEF PatchInv
<1>4. CASE OurAct(w) /\ ~Section(list.kind).patches
  <2>1. list' # NoList /\ list'.kind = list.kind BY <1>4, AnswerCases
  <2>2. ~Patches' BY <1>4, <2>1 DEF Patches
  <2>3. list.kind # "tasks"
    <3>1. Section("tasks").patches BY DEF Section, ListSections, TaskList, ReadOnly
    <3> QED BY <1>4, <3>1
  <2>4. OneAtATime' BY <1>1, <1>2, <2>1, <2>3, OneReplaced DEF PatchInv
  <2> QED BY <2>2, <2>4 DEF PatchInv, PatchReads, PatchWaits, PatchShows
<1>5. CASE OurAct(w) /\ Section(list.kind).patches
  <2>1. /\ list # NoList /\ list \in Listing /\ list.kind = w.kind /\ list' # NoList
        /\ list'.kind = list.kind /\ list'.mount = list.mount /\ list'.loan = list.loan
        /\ list.kind # "conditions" /\ list'.seen = Patched(w) /\ loads' = loads
        /\ list'.busy = list.busy \ {Key(w.n)} /\ list.loan \in Loan /\ list.kind \in ListKinds
    BY <1>0, <1>5, AnswerCases, ListMounted
  <2>2. Patches /\ Patches' BY <1>5, <2>1 DEF Patches
  <2>3. PatchReads' BY <1>0, <2>1, <2>2, PatchReadsStill DEF PatchInv
  <2>4. PatchWaits' BY <1>0, <2>1, <2>2, PatchWaitsStill DEF PatchInv
  <2>5. PatchShows'
    <3> SUFFICES ASSUME ~Off(list.loan, causes'), Matches(list.kind, list.loan, list.seen, items, acts)
                 PROVE  Matches(list.kind, list.loan, Patched(w), items, acts')
      BY <1>0, <2>1, <2>2, PatchShowsStill DEF PatchInv
    <3>1. list.loan = w.loan
      <4>1. list.loan # w.loan => causes' = Blame({list.loan} \cup LoansOf(w), "late") BY <1>5 DEF ActAnswered
      <4> QED BY <2>1, <4>1, OffBy
    <3>2. w.to # "deleted"
      <4>1. w.op # "remove" BY <1>5, <2>1, PatchKinds DEF ActAnswered, Parsed
      <4>2. w.op = "step" => w.to # "deleted" BY DEF Orderly, Statuses, Final
      <4>3. w.n = 0 => w.to = "open" BY <1>0 DEF AllMake, MakesOwn
      <4> QED BY <1>0, <4>1, <4>2, <4>3 DEF ListTypes, ActBounds, Act
    <3> QED BY <1>0, <2>1, <3>1, <3>2, MatchesPatched
  <2>6. OneAtATime'
    <3>1. list.kind = "tasks" => list'.busy = list.busy \ {w.n} BY <2>1 DEF Key
    <3> QED BY <1>1, <1>2, <1>5, <2>1, <3>1, OneReplaced DEF PatchInv
  <2> QED BY <2>3, <2>4, <2>5, <2>6 DEF PatchInv
<1> QED BY <1>3, <1>4, <1>5

\* It fails.
LEMMA PatchFails ==
  ASSUME Typed, CourseInv, CausesKept, ItemsGoOn, PatchInv, NEW w \in acts, ActFails(w)
  PROVE  PatchInv'
<1>0. /\ PageTypes /\ ListTypes /\ AllMake /\ w \in Act /\ LoansOf(w) \subseteq Loan
      /\ \A e \in loads : e.loan \in Loan
  BY TouchFacts DEF Typed, CourseInv, ListTypes, ListRecords, Fetch
<1>1. /\ loads' = loads /\ items' = items /\ list' = IF OurAct(w) THEN Freed(w) ELSE list
      /\ \/ acts' = acts \ {w}
         \/ \E v \in Act : /\ acts' = (acts \ {w}) \cup {v} /\ v.kind = w.kind /\ v.mount = 0
                           /\ v.loan = w.loan /\ v.n = w.n /\ v.to = w.to /\ v.made = w.made
  BY <1>0, FailedFacts
<1>2. PICK V : /\ acts' = (acts \ {w}) \cup V
               /\ \A v \in V : /\ v.kind = w.kind /\ v.mount = 0
                               /\ v.loan = w.loan /\ v.n = w.n /\ v.to = w.to /\ v.made = w.made
               /\ \A u, v \in V : u = v
  <2>1. CASE acts' = acts \ {w}
    <3>1. PICK V : V = {} OBVIOUS
    <3>2. acts' = (acts \ {w}) \cup V BY <2>1, <3>1
    <3>3. \A x : x \notin V BY <3>1
    <3> QED BY <3>2, <3>3
  <2>2. CASE \E v \in Act : /\ acts' = (acts \ {w}) \cup {v} /\ v.kind = w.kind /\ v.mount = 0
                            /\ v.loan = w.loan /\ v.n = w.n /\ v.to = w.to /\ v.made = w.made
    <3>1. PICK v \in Act : /\ acts' = (acts \ {w}) \cup {v} /\ v.kind = w.kind /\ v.mount = 0
                           /\ v.loan = w.loan /\ v.n = w.n /\ v.to = w.to /\ v.made = w.made
      BY <2>2
    <3>2. PICK V : V = {v} OBVIOUS
    <3> QED BY <3>1, <3>2
  <2> QED BY <1>1, <2>1, <2>2
<1>3. w.made # {} => \A l \in LoansOf(w) : Off(l, causes')
  <2>1. w.made # {} => causes' = Blame(LoansOf(w), "unparsed") \/ causes' = Blame(LoansOf(w), "unanswered")
    BY DEF ActFails
  <2> QED BY <1>0, <2>1, OffBy
<1>4. /\ list # NoList <=> list' # NoList
      /\ list # NoList => /\ list'.kind = list.kind /\ list'.mount = list.mount /\ list'.loan = list.loan
                          /\ list'.seen = list.seen
                          /\ list'.busy = list.busy \/ (OurAct(w) /\ list'.busy = list.busy \ {Key(w.n)})
  <2>1. CASE OurAct(w)
    <3>1. list # NoList /\ list \in Listing BY <1>0, <2>1, ListMounted DEF OurAct
    <3>2. list' = Freed(w) BY <1>1, <2>1
    <3>3. /\ list' \in Listing /\ list'.kind = list.kind /\ list'.mount = list.mount /\ list'.loan = list.loan
          /\ list'.seen = list.seen /\ list'.busy = list.busy \ {Key(w.n)}
      BY <3>1, <3>2, FreedFacts
    <3> QED BY <2>1, <3>1, <3>3, NoListKind
  <2>2. CASE ~OurAct(w) BY <1>1, <2>2
  <2> QED BY <2>1, <2>2
<1>5. Patches' => Patches BY <1>4 DEF Patches
<1>6. PatchReads' BY <1>0, <1>1, <1>4, <1>5, PatchReadsStill DEF PatchInv, Patches
<1>7. PatchWaits'
  <2>1. \A x \in acts' : x.made # {} => \E u \in acts : u.made # {} /\ u.n = x.n /\ u.loan = x.loan BY <1>2
  <2> QED BY <1>1, <1>4, <1>5, <2>1, PatchWaitsStill DEF PatchInv, Patches
<1>8. PatchShows'
  <2> SUFFICES ASSUME Patches, ~Off(list.loan, causes'), Matches(list.kind, list.loan, list.seen, items, acts)
               PROVE  Matches(list.kind, list.loan, list.seen, items, acts')
    BY <1>1, <1>4, <1>5, PatchShowsStill DEF PatchInv, Patches
  <2>1. w.made = {} \/ list.loan \notin LoansOf(w) BY <1>3
  <2> QED BY <1>0, <1>2, <2>1, MatchesLeft
<1>9. OneAtATime'
  <2>1. list' # NoList /\ list'.kind = "tasks" =>
           /\ list # NoList /\ list.kind = "tasks" /\ list'.mount = list.mount
           /\ list'.busy = list.busy \/ (list'.busy = list.busy \ {w.n} /\ OurAct(w))
    BY <1>4 DEF Key
  <2> QED BY <1>2, <2>1, OneReplaced DEF PatchInv
<1> QED BY <1>6, <1>7, <1>8, <1>9 DEF PatchInv

\* Another user adds an item of another loan.
LEMMA MatchesBeside ==
  ASSUME Typed, AllMake, InList(AddedElsewhere), Patches, ~Off(list.loan, causes'),
         NEW k, NEW seen, Matches(k, list.loan, seen, items, acts)
  PROVE  Matches(k, list.loan, seen, items', acts)
<1>0. \A n \in 1..Len(items) : items'[n] = items[n] BY AddedApart
<1>1. PICK x \in Loan :
        /\ causes' = Blame({x}, "shared")
        /\ \A l, m : l # x =>
             (m \in 1..Len(items') /\ items'[m].loan = l <=> m \in 1..Len(items) /\ items[m].loan = l)
  BY AddedApart
<1>2. PICK l : l = list.loan OBVIOUS
<1>3. l # x BY <1>1, <1>2, OffBy
<1>4. ItemsOf(k, l, items') = ItemsOf(k, l, items) BY <1>0, <1>1, <1>3 DEF ItemsOf
<1>5. \A n \in ItemsOf(k, l, items) : items'[n] = items[n] BY <1>0 DEF ItemsOf
<1>6. \A w \in acts : \A n \in w.made : items'[n] = items[n] BY <1>0, MadeTouch DEF Typed
<1>7. Matches(k, l, seen, items, acts) BY <1>2
<1>8. DOMAIN seen \subseteq ItemsOf(k, l, items') BY <1>4, <1>7 DEF Matches
<1>9. \A n \in ItemsOf(k, l, items') : (\E w \in acts : n \in w.made) \/ Agrees(n, seen, items')
  BY <1>4, <1>5, <1>7 DEF Matches, Agrees
<1>10. \A w \in acts : \A n \in w.made : items'[n].loan = l => PutRight(w, n, seen, items', acts)
  BY <1>6, <1>7 DEF Matches, PutRight
<1>11. Matches(k, l, seen, items', acts) BY <1>8, <1>9, <1>10 DEF Matches
<1> QED BY <1>2, <1>11

\* What the lists that are patched show, in every step.
LEMMA PatchNext ==
  ASSUME Typed, CourseInv, PatchInv, VerdictInv, [Next]_vars
  PROVE  PatchInv'
<1>0. CausesKept /\ ItemsGoOn /\ ListTypes' /\ AllMake'
  BY NothingForgotten, ItemsRemain, NextTyped, CourseNext DEF Typed, CourseInv
<1>1. CASE TurnStep BY <1>0, <1>1, PatchTurn
<1>2. ASSUME items' = items, acts' = acts, list' = list, loads' = loads PROVE PatchInv'
  <2>1. \A e \in loads : e.loan \in Loan BY DEF Typed, ListTypes, ListRecords, Fetch
  <2>2. PatchReads' BY <1>0, <1>2, <2>1, PatchReadsStill DEF PatchInv, Patches
  <2>3. PatchWaits' BY <1>0, <1>2, PatchWaitsStill DEF PatchInv, Patches
  <2>4. PatchShows' BY <1>0, <1>2, PatchShowsStill DEF PatchInv, Patches
  <2>5. OneAtATime' BY <1>2 DEF PatchInv, OneAtATime, OurAct
  <2> QED BY <2>2, <2>3, <2>4, <2>5 DEF PatchInv
<1>3. CASE InForm(FormStep) BY <1>2, <1>3 DEF InForm, listVars
<1>4. CASE InList(ListStep)
  <2>1. CASE ListUser BY <1>0, <2>1, PatchUser
  <2>2. CASE \E ld \in loads : ListRead(ld) \/ ListArrives(ld) \/ ListLoadFails(ld) BY <1>0, <2>2, PatchLoads
  <2>3. CASE \E w \in acts : ActChecked(w) \/ ActRuns(w) \/ ActAnswered(w) \/ ActFails(w)
    <3>1. \A w \in acts : Orderly(w) BY DEF VerdictInv
    <3> QED BY <1>0, <2>3, <3>1, PatchChecked, PatchRuns, PatchAnswered, PatchFails
  <2> QED BY <1>4, <2>1, <2>2, <2>3 DEF InList, ListStep, ListBackground
<1>5. CASE UNCHANGED vars BY <1>2, <1>5 DEF vars, listVars
<1>6. CASE InForm(CreatedElsewhere) BY <1>2, <1>6 DEF InForm, listVars
<1>7. CASE InList(AddedElsewhere)
  <2>0. list' = list /\ loads' = loads /\ acts' = acts /\ \A e \in loads : e.loan \in Loan
    BY <1>7, AddedApart DEF Typed, ListTypes, ListRecords, Fetch
  <2>1. \A l \in Loan : Off(l, causes') \/ LiveOf(list.kind, l, items') = LiveOf(list.kind, l, items)
    BY <1>7, LiveAdded
  <2>2. PatchReads' BY <1>0, <2>0, <2>1, PatchReadsStill DEF PatchInv, Patches
  <2>3. PatchWaits' BY <1>0, <2>0, PatchWaitsStill DEF PatchInv, Patches
  <2>4. Matches(list.kind, list.loan, list.seen, items, acts) /\ Patches /\ ~Off(list.loan, causes')
          => Matches(list.kind, list.loan, list.seen, items', acts)
    BY <1>7, MatchesBeside DEF CourseInv
  <2>5. PatchShows' BY <1>0, <2>0, <2>4, PatchShowsStill DEF PatchInv, Patches
  <2>6. OneAtATime' BY <2>0 DEF PatchInv, OneAtATime, OurAct
  <2> QED BY <2>2, <2>3, <2>5, <2>6 DEF PatchInv
<1> QED BY <1>1, <1>3, <1>4, <1>5, <1>6, <1>7, Steps DEF Others

\* A list at rest shows the loan's items as the server has them, patched or
\* loaded again, unless a load failed, an answer came for a former loan, two
\* requests crossed, one was left or not answered, an item was removed whose
\* answer cannot be parsed, or another user added one.
THEOREM ShownIsServer == Spec => []ListIsServer
<1>1. ASSUME Typed, CourseInv, ReloadInv, PatchInv PROVE ListIsServer
  <2> SUFFICES ASSUME Settled, ~Off(list.loan, causes) PROVE list.seen = Live(list.kind, list.loan)
    BY DEF ListIsServer, Off, Quiet
  <2>1. /\ ListTypes /\ list # NoList /\ loads = {} /\ acts = {} /\ DOMAIN items = 1..Len(items)
        /\ list.seen \in View
    BY <1>1, ListMounted DEF Settled, Typed, ListTypes, ListRecords, Listing
  <2>2. Live(list.kind, list.loan) = LiveOf(list.kind, list.loan, items) BY DEF Live, LiveOf
  <2>3. CASE Reloads
    <3>1. ~Stirred(list.loan, acts, items) BY <2>1 DEF Stirred
    <3> QED BY <1>1, <2>1, <2>2, <2>3, <3>1 DEF ReloadInv, ShowsLive, Owed
  <2>4. CASE Patches
    <3>1. Matches(list.kind, list.loan, list.seen, items, acts) BY <1>1, <2>1, <2>4 DEF PatchInv, PatchShows
    <3>2. \A n : n \in DOMAIN list.seen <=>
            n \in 1..Len(items) /\ items[n].kind = list.kind /\ items[n].loan = list.loan /\ items[n].status # "deleted"
      BY <2>1, <3>1 DEF Matches, ItemsOf, Agrees
    <3>3. \A n \in DOMAIN list.seen : list.seen[n] = items[n].status
      BY <2>1, <3>1 DEF Matches, ItemsOf, Agrees
    <3>4. list.seen = [n \in DOMAIN list.seen |-> list.seen[n]] BY <2>1, ViewIs
    <3>5. PICK S : S = LiveOf(list.kind, list.loan, items) OBVIOUS
    <3>6. DOMAIN S = DOMAIN list.seen /\ \A n \in DOMAIN S : S[n] = list.seen[n]
      BY <2>1, <3>2, <3>3, <3>5 DEF LiveOf
    <3>7. S = [n \in DOMAIN S |-> S[n]] BY <3>5 DEF LiveOf
    <3> QED BY <2>2, <3>4, <3>5, <3>6, <3>7
  <2> QED BY <2>1, <2>3, <2>4 DEF Reloads, Patches
<1>2. Init => CourseInv /\ ReloadInv /\ PatchInv /\ VerdictInv
  <2> SUFFICES ASSUME Init PROVE CourseInv /\ ReloadInv /\ PatchInv BY VerdictInit
  <2>1. list = NoList /\ loads = {} /\ acts = {} BY DEF Init, ListsInit
  <2>2. CourseInv BY <2>1 DEF CourseInv, Attended, Asked, Waited, Single, AllMake
  <2>3. ReloadInv BY <2>1 DEF ReloadInv, ReadsLive, ShowsLive, Reloads
  <2>4. PatchInv BY <2>1 DEF PatchInv, PatchReads, PatchWaits, PatchShows, Patches, OneAtATime
  <2> QED BY <2>2, <2>3, <2>4
<1>3. Typed /\ CourseInv /\ ReloadInv /\ PatchInv /\ VerdictInv /\ [Next]_vars
        => (CourseInv /\ ReloadInv /\ PatchInv /\ VerdictInv)'
  BY CourseNext, ReloadNext, PatchNext, VerdictNext
<1>4. Typed /\ CourseInv /\ ReloadInv /\ PatchInv => ListIsServer BY <1>1
<1> QED BY <1>2, <1>3, <1>4, AlwaysTyped, PTL DEF Spec

=============================================================================
