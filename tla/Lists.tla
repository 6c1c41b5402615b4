------------------------------- MODULE Lists -------------------------------
(***************************************************************************)
(* The sections of a loan's workspace that are lists: tasks, conversation, *)
(* documents, exceptions, title exceptions, conditions, the loan's status, *)
(* those only looked at (credit, audit log, underwriting runs), and the    *)
(* activity rail, which is there with any of them. Each loads its items    *)
(* when it mounts and when the loan under it changes; what the user does   *)
(* to an item is a request of its own, after which the list is patched or  *)
(* loaded again.                                                           *)
(***************************************************************************)
EXTENDS LoanPage, SequencesExt

ASSUME ListsAssumption == \A m \in Limits : m.items \in Nat

VARIABLES
    list,      \* the list mounted, or NoList
    loads,     \* its loads under way
    acts,      \* the requests of this list and of former ones
    items      \* the server's items

listVars == <<list, loads, acts, items>>

(* The sections: whether a load for a former loan is cancelled; when the   *)
(* items are hidden until the load ends; whether the list is patched with  *)
(* an answer or loaded again; whether a failed load empties it; whether    *)
(* items are added and how a template is (all at once, or one after the    *)
(* other); whether an item is removed, and if so whether the answer can be *)
(* read: a 204 has no body to parse; and the steps of an item's status it  *)
(* offers.                                                                 *)
ReadOnly ==
    [cancels |-> TRUE, hides |-> {}, patches |-> FALSE, empties |-> FALSE, adds |-> FALSE,
     template |-> "none", removal |-> "none", offers |-> {}]
CreditList == ReadOnly
AuditList == [ReadOnly EXCEPT !.empties = TRUE]
RunsList == [ReadOnly EXCEPT !.cancels = FALSE, !.hides = {"switch"}, !.empties = TRUE]
TaskList ==
    [ReadOnly EXCEPT !.patches = TRUE, !.adds = TRUE, !.template = "together", !.removal = "unparsed",
                     !.offers = {<<"open", "done">>, <<"done", "open">>}]
ConversationList == [ReadOnly EXCEPT !.cancels = FALSE, !.hides = {"switch"}, !.adds = TRUE]
DocumentList ==
    [ReadOnly EXCEPT !.cancels = FALSE, !.hides = {"switch", "again"}, !.empties = TRUE, !.adds = TRUE,
                     !.removal = "parsed"]
ExceptionList ==
    [ReadOnly EXCEPT !.cancels = FALSE, !.hides = {"switch", "again"}, !.adds = TRUE,
                     !.offers = {<<"open", "done">>}]
TitleExceptionList ==
    [ReadOnly EXCEPT !.hides = {"switch"}, !.patches = TRUE, !.adds = TRUE, !.offers = {<<"open", "done">>}]
ActivityList == [ConversationList EXCEPT !.hides = {}]
StatusList == [ReadOnly EXCEPT !.offers = {<<"open", "done">>}]
ConditionsList ==
    [ReadOnly EXCEPT !.hides = {"again"}, !.adds = TRUE, !.template = "serial", !.removal = "unparsed",
                     !.offers = {<<"open", "submitted">>} \cup
                                {"open", "submitted"} \X {"cleared", "waived"} \cup {<<"submitted", "rejected">>}]

ListSections ==
    [credit |-> CreditList, audit |-> AuditList, runs |-> RunsList, tasks |-> TaskList,
     conversation |-> ConversationList, documents |-> DocumentList, exceptions |-> ExceptionList,
     titleExceptions |-> TitleExceptionList, activity |-> ActivityList, status |-> StatusList, conditions |-> ConditionsList]
ListKinds == DOMAIN ListSections
Section(k) == ListSections[k]

Final == {"cleared", "waived", "rejected"}
Statuses == Final \cup {"open", "submitted", "done"}

(* What steps the server takes: any of a task's, and of the others those   *)
(* of their life cycle. That of a condition is less than the page offers.  *)
Checks(k) == k \in {"conditions", "exceptions", "status"}
AllowedAnything(k) == Statuses \X Statuses
Allowed(k) == Section(k).offers \ IF k = "conditions" THEN {<<"open", "cleared">>} ELSE {}

NoList == [kind |-> "none"]
Unread == [n \in {0} |-> "unread"]

(* The items of a loan, by status: what a load reads. *)
Live(k, l) ==
    [n \in {m \in DOMAIN items : items[m].kind = k /\ items[m].loan = l /\ items[m].status # "deleted"}
        |-> items[n].status]

Item(k, l, num) == [kind |-> k, loan |-> l, num |-> num, status |-> "open"]

ListsInit ==
    /\ list = NoList /\ loads = {} /\ acts = {}
    /\ items = SetToSeq({Item(k, l, n) : k \in limit.sections \cap ListKinds, l \in Loan, n \in 1..limit.items})

---------------------------------------------------------------------------
(* Loads. Those of a list that was unmounted are of no consequence.        *)

Load(l, effect, frees) == [loan |-> l, at |-> moves, effect |-> effect, frees |-> frees, got |-> Unread]

FreshList(k, l) ==
    [kind |-> k, mount |-> mounts + 1, loan |-> l, seen |-> <<>>, of |-> NoLoan, shows |-> FALSE, broken |-> FALSE,
     again |-> FALSE, busy |-> {}]

Kept(k) == {ld \in loads : ~(Section(k).cancels /\ ld.effect)}

(* The items disappear, and their cards, busy or not, with them; what is   *)
(* kept by the section (0) stays busy.                                     *)
Hidden(p) == [p EXCEPT !.shows = FALSE, !.busy = @ \cap {0}]
HiddenIf(p, occasion) == IF occasion \in Section(p.kind).hides THEN Hidden(p) ELSE p

(* The section is mounted, unmounted, or has the loan changed under it.    *)
Relist ==
    /\ LET k == route'.section
       IN  IF shown' = NoLoan \/ k \notin ListKinds THEN list' = NoList /\ loads' = {}
           ELSE IF list = NoList \/ list.kind # k
           THEN list' = FreshList(k, shown') /\ loads' = {Load(shown', TRUE, {})}
           ELSE IF shown' = list.loan THEN UNCHANGED <<list, loads>>
           ELSE /\ list' = HiddenIf([list EXCEPT !.loan = shown'], "switch")
                /\ loads' = Kept(k) \cup {Load(shown', TRUE, {})}
    /\ UNCHANGED <<acts, items>>

ListRead(ld) ==
    /\ ld.got = Unread
    /\ loads' = (loads \ {ld}) \cup {[ld EXCEPT !.got = Live(list.kind, ld.loan)]}
    /\ UNCHANGED <<pageVars, causes, list, acts, items>>

(* An answer, whatever loan it is for. With it useConditions runs the load *)
(* again that was asked for meanwhile.                                     *)
ListArrives(ld) ==
    /\ ld.got # Unread
    /\ list' = [list EXCEPT !.seen = ld.got, !.of = ld.loan, !.shows = TRUE, !.again = FALSE, !.busy = @ \ ld.frees]
    /\ loads' = (loads \ {ld}) \cup IF list.again THEN {Load(list.loan, TRUE, {})} ELSE {}
    /\ causes' = IF ld.loan # list.loan THEN Blame({list.loan}, "late") ELSE causes
    /\ UNCHANGED <<pageVars, acts, items>>

ListLoadFails(ld) ==
    /\ fails < limit.fails /\ fails' = fails + 1
    /\ list' = [list EXCEPT !.seen = IF Section(list.kind).empties THEN <<>> ELSE @, !.shows = TRUE,
                            !.broken = (list.kind = "conditions"), !.again = FALSE, !.busy = @ \ ld.frees]
    /\ loads' = (loads \ {ld}) \cup IF list.again THEN {Load(list.loan, TRUE, {})} ELSE {}
    /\ causes' = Blame({list.loan}, "failed")
    /\ UNCHANGED <<route, shown, asked, mounts, limit, moves, acts, items>>

(* useConditions' refetch: the list is forgotten and its effect runs       *)
(* again, at once if that changes anything to render and otherwise with    *)
(* the next answer.                                                        *)
RefetchedNever(p, rendered) == list' = Hidden(p) /\ UNCHANGED loads
Refetched(p, rendered) ==
    IF p.shows \/ p.broken \/ rendered
    THEN /\ list' = [Hidden(p) EXCEPT !.broken = FALSE]
         /\ loads' = {Load(p.loan, TRUE, {})}
    ELSE list' = [p EXCEPT !.again = TRUE] /\ UNCHANGED loads

(* What keeps the user from sending another: the section for what it       *)
(* creates and for the status, a card for what is done to its item.        *)
Key(n) == IF list.kind = "status" THEN 0 ELSE n
Freed(w) == [list EXCEPT !.busy = @ \ {Key(w.n)}]

(* The others load again, for the loan of the request, which ends only     *)
(* with that load.                                                         *)
LoadAgain(w) ==
    /\ list' = HiddenIf(list, "again")
    /\ loads' = loads \cup {Load(w.loan, FALSE, {Key(w.n)})}

Retry ==
    /\ list.kind = "conditions" /\ list.broken /\ Click
    /\ Refetched(list, FALSE)
    /\ UNCHANGED <<route, shown, asked, mounts, limit, fails, causes, acts, items>>

---------------------------------------------------------------------------
(* What the user does.                                                     *)

OurAct(w) == list # NoList /\ list.mount = w.mount
LoansOf(w) == {w.loan} \cup IF w.n = 0 THEN {} ELSE {items[w.n].loan}
Whole == list.shows /\ ~list.broken

NumberOfShown == Cardinality(DOMAIN list.seen)
NextNumber == Cardinality(DOMAIN list.seen) + 1

Request(op, n, to) ==
    [at |-> moves, op |-> op, kind |-> list.kind, mount |-> list.mount, loan |-> list.loan, n |-> n, to |-> to,
     num |-> NextNumber, left |-> IF op = "template" THEN 2 ELSE 1, made |-> {},
     saw |-> NoLoan, checked |-> ~(op = "step" /\ Checks(list.kind)), done |-> FALSE]

Send(w) ==
    /\ Click
    /\ acts' = acts \cup {w}
    /\ UNCHANGED <<route, shown, asked, mounts, limit, fails, loads, items>>

(* Whether the items shown are the loan's: they are not while the former   *)
(* loan's are still there, be they none.                                   *)
OfThisLoan == list.of = list.loan

(* A new item, or a template of two. A condition gets the number after the *)
(* count of those shown.                                                   *)
Create ==
    /\ Section(list.kind).adds /\ (list.kind = "conditions" => Whole)
    /\ \E op \in {"add", "template"} :
         /\ op \in limit.fields
         /\ op = "template" => Section(list.kind).template # "none"
         /\ op = "add" => 0 \notin list.busy
         /\ list' = IF op = "add" THEN [list EXCEPT !.busy = @ \cup {0}] ELSE list
         /\ Send(Request(op, 0, "open"))
         /\ causes' = IF ~OfThisLoan THEN Blame({list.loan}, "miscounted")
                      ELSE IF \E w \in acts : w.n = 0 THEN Blame({list.loan}, "overlap") ELSE causes

Free(n) == list.kind \in {"tasks", "conditions", "status"} => Key(n) \notin list.busy

(* A step of an item. The status is moved by the loan, whichever loan's    *)
(* status is shown.                                                        *)
Step ==
    /\ Whole
    /\ \E n \in DOMAIN list.seen, to \in Statuses :
         /\ Free(n) /\ <<list.seen[n], to>> \in Section(list.kind).offers
         /\ \E m \in DOMAIN items :
              /\ IF list.kind = "status" THEN items[m].kind = "status" /\ items[m].loan = list.loan
                 ELSE m = n
              /\ Send([Request("step", m, to) EXCEPT !.saw = items[n].loan])
         /\ list' = [list EXCEPT !.busy = @ \cup {Key(n)}]
    /\ UNCHANGED causes

RemoveItem ==
    /\ Whole /\ Section(list.kind).removal # "none" /\ "remove" \in limit.fields
    /\ \E n \in DOMAIN list.seen :
         /\ Free(n) /\ list.seen[n] \notin {"cleared", "waived"}
         /\ Send(Request("remove", n, "deleted"))
         /\ list' = [list EXCEPT !.busy = @ \cup {Key(n)}]
    /\ UNCHANGED causes

---------------------------------------------------------------------------
(* What the server does: the handler loads the item and checks the step    *)
(* against the status it finds, then commits. Of a template each item is a *)
(* request.                                                                *)

Gone(w) == w.n # 0 /\ items[w.n].status = "deleted"
ActRefused(w) == Gone(w) \/ (~w.checked /\ <<items[w.n].status, w.to>> \notin Allowed(w.kind))

ActChecked(w) ==
    /\ ~w.checked /\ ~ActRefused(w)
    /\ acts' = (acts \ {w}) \cup {[w EXCEPT !.checked = TRUE]}
    /\ causes' = IF \E v \in acts \ {w} : v.n = w.n /\ v.op = "step" /\ v.checked /\ ~v.done
                 THEN Blame({items[w.n].loan}, "raced") ELSE causes
    /\ UNCHANGED <<pageVars, list, loads, items>>

Committed(w) ==
    IF w.n # 0 THEN [items EXCEPT ![w.n].status = w.to]
    ELSE Append(items, Item(w.kind, w.loan, IF w.kind = "conditions" THEN w.num ELSE 0))

(* Another user's addition, in another browser: a condition numbered after *)
(* as many as that browser's list showed when it was loaded.               *)
AddedElsewhere ==
    /\ "shared" \in limit.fields /\ Click
    /\ \E k \in limit.sections \cap ListKinds, l \in Loan :
         /\ Section(k).adds
         /\ \E n \in IF k = "conditions" THEN 1..(Cardinality(DOMAIN Live(k, l)) + 1) ELSE {0} :
              items' = Append(items, Item(k, l, n))
         /\ causes' = Blame({l}, "shared")
    /\ UNCHANGED <<route, shown, asked, mounts, limit, fails, list, loads, acts>>

ActRuns(w) ==
    /\ w.checked /\ ~w.done /\ ~ActRefused(w)
    /\ items' = Committed(w)
    /\ acts' = (acts \ {w}) \cup
                 {[w EXCEPT !.left = @ - 1, !.num = @ + 1, !.done = (w.left = 1),
                            !.made = IF w.n = 0 THEN @ \cup {Len(items) + 1} ELSE {w.n}]}
    /\ causes' = IF OurAct(w) /\ Section(w.kind).patches /\ loads # {} THEN Blame(LoansOf(w), "crossed") ELSE causes
    /\ UNCHANGED <<pageVars, list, loads>>

---------------------------------------------------------------------------
(* The answer. A list that is patched gets what was created in front, and  *)
(* a changed item in its place if it is there; the others load again.      *)

PatchedByRequest(w) == [n \in DOMAIN list.seen \cup {w.n} |-> IF n = w.n THEN w.to ELSE list.seen[n]]
Patched(w) ==
    LET ns == IF w.n = 0 THEN DOMAIN list.seen \cup w.made ELSE DOMAIN list.seen
    IN  [n \in ns |-> IF n \in w.made THEN w.to ELSE list.seen[n]]

Patch(w) ==
    /\ list' = [Freed(w) EXCEPT !.seen = Patched(w)]
    /\ UNCHANGED loads

RefreshNothing(w) == list' = Freed(w) /\ UNCHANGED loads
Refresh(w) ==
    IF list.kind = "conditions" THEN Refetched(Freed(w), w.n = 0) ELSE LoadAgain(w)

Parsed(w) == w.op = "remove" => Section(w.kind).removal = "parsed"

ActAnswered(w) ==
    /\ w.done /\ Parsed(w)
    /\ acts' = acts \ {w}
    /\ IF ~OurAct(w) THEN UNCHANGED <<list, loads>>
       ELSE IF Section(w.kind).patches THEN Patch(w) ELSE Refresh(w)
    /\ causes' = IF ~OurAct(w) THEN causes
                 ELSE IF list.loan # w.loan THEN Blame({list.loan} \cup LoansOf(w), "late")
                 ELSE IF loads # {} /\ list.kind # "conditions" THEN Blame(LoansOf(w), "crossed") ELSE causes
    /\ UNCHANGED <<pageVars, items>>

(* A request fails: refused, cut off before or after it ran, or answered   *)
(* with nothing to parse. The list stays as it is. Of a template sent all  *)
(* at once the rest may still run, of one sent in turn it is not sent.     *)
ActFails(w) ==
    /\ IF ActRefused(w) \/ (w.done /\ ~Parsed(w)) THEN UNCHANGED fails
       ELSE fails < limit.fails /\ fails' = fails + 1
    /\ acts' = (acts \ {w}) \cup
                 IF w.left > 1 /\ Section(w.kind).template = "together"
                 THEN {[w EXCEPT !.mount = 0, !.left = @ - 1]} ELSE {}
    /\ list' = IF OurAct(w) THEN Freed(w) ELSE list
    /\ causes' = IF w.done /\ ~Parsed(w) THEN Blame(LoansOf(w), "unparsed")
                 ELSE IF w.made # {} \/ w.left > 1 THEN Blame(LoansOf(w), "unanswered") ELSE causes
    /\ UNCHANGED <<route, shown, asked, mounts, limit, moves, loads, items>>

ListUser == list # NoList /\ (Create \/ Step \/ RemoveItem \/ Retry)
ListBackground ==
    \/ \E ld \in loads : ListRead(ld) \/ ListArrives(ld)
    \/ \E w \in acts : ActChecked(w) \/ ActRuns(w) \/ ActAnswered(w) \/ ActFails(w)
===========================================================================
