--------------------------------- MODULE Feed ---------------------------------
(***************************************************************************)
(* Notes on an order and the bell they ring.  A notification is written    *)
(* once per person, when the thing happens; nobody is told of what they    *)
(* did themselves.  With access and billing, one organisation's day.       *)
(***************************************************************************)
EXTENDS Billing

CONSTANTS MaxComments

NoteShape == [author : People, pinned : BOOLEAN, deleted : BOOLEAN]

ASSUME FeedAssumptions == MaxComments \in Nat /\ None \notin NoteShape

VARIABLES
    comment,   \* order_comments of the order: [author, pinned, deleted]
    feed       \* feed[u]: notifications of u, as [kind, about, read]

feedVars == <<comment, feed>>

vars == <<accessVars, billingVars, feedVars, desk, overlapped, left>>

Comments == 1..MaxComments

NoticeOf(kind, about) == [kind |-> kind, about |-> about, read |-> FALSE]

(* Everyone in the list but the one who did it. *)
Notify(users, actor, kind, about) ==
    [u \in People |-> IF u \in users \ {actor} THEN Append(feed[u], NoticeOf(kind, about)) ELSE feed[u]]

ActiveUsers == {u \in People : role[u] # None /\ active[u]}

(* An order is made: the whole office hears of it, but for the one who made it. *)
OrderNews(k, e) ==
    /\ InsertOrder(k)
    /\ IF desk[k].account = Home
       THEN e \in ActiveUsers /\ feed' = Notify(ActiveUsers, e, "order_created", 0)
       ELSE e = None /\ UNCHANGED feed
    /\ UNCHANGED comment

(* A payment: only those who may see finances. *)
RecordPayment(e) ==
    /\ "finance.record_payment" \in May(e)
    /\ Spend("news")
    /\ feed' = Notify({u \in ActiveUsers : "finance.read" \in May(u)}, e, "payment", 0)
    /\ UNCHANGED <<accessVars, billingVars, comment, desk, overlapped>>

-----------------------------------------------------------------------------
Mentioned(names, e) == (names \cap ActiveUsers) \ {e}

(* Whoever has written in the thread, a note that was removed since included. *)
Participants == {comment[c].author : c \in {d \in Comments : comment[d] # None}}

EveryoneElse(names, e) == Participants \ {e}   \* a plausible bug: whoever was mentioned is told a second time

Rest(names, e) == Participants \ ({e} \cup Mentioned(names, e))

CreateComment(e, names) ==
    LET c == Min({d \in Comments : comment[d] = None})
        mentions == Mentioned(names, e)
    IN  /\ "orders.read" \in May(e) /\ \E d \in Comments : comment[d] = None
        /\ Spend("news")
        /\ comment' = [comment EXCEPT ![c] = [author |-> e, pinned |-> FALSE, deleted |-> FALSE]]
        /\ feed' = [u \in People |->
              feed[u] \o (IF u \in mentions THEN <<NoticeOf("mention", c)>> ELSE <<>>)
                      \o (IF u \in Rest(names, e) THEN <<NoticeOf("comment", c)>> ELSE <<>>)]
        /\ UNCHANGED <<accessVars, billingVars, desk, overlapped>>

PinComment(e, c) ==
    /\ "orders.read" \in May(e) /\ comment[c] # None /\ ~comment[c].deleted
    /\ Spend("news")
    /\ comment' = [comment EXCEPT ![c].pinned = ~@]
    /\ UNCHANGED <<accessVars, billingVars, feed, desk, overlapped>>

DeleteComment(e, c) ==
    /\ "orders.read" \in May(e) /\ comment[c] # None /\ ~comment[c].deleted
    /\ comment[c].author = e \/ "orders.delete" \in May(e)
    /\ Spend("news")
    /\ comment' = [comment EXCEPT ![c].deleted = TRUE]
    /\ UNCHANGED <<accessVars, billingVars, feed, desk, overlapped>>

(* The bell is there on the bureau plan only. *)
RequireFeature(p) == p = "bureau"

HasFeed(e) == e \in ActiveUsers /\ RequireFeature(plan[Home])

MarkRead(e, i) ==
    /\ HasFeed(e) /\ i \in DOMAIN feed[e] /\ ~feed[e][i].read
    /\ Spend("news")
    /\ feed' = [feed EXCEPT ![e][i].read = TRUE]
    /\ UNCHANGED <<accessVars, billingVars, comment, desk, overlapped>>

MarkAllRead(e) ==
    /\ HasFeed(e) /\ feed[e] # <<>>
    /\ Spend("news")
    /\ feed' = [feed EXCEPT ![e] = [i \in DOMAIN @ |-> [@[i] EXCEPT !.read = TRUE]]]
    /\ UNCHANGED <<accessVars, billingVars, comment, desk, overlapped>>

-----------------------------------------------------------------------------
Init ==
    /\ plan = [a \in Accounts |-> IF a = Home THEN "bureau" ELSE "freelancer"]
    /\ role = Roster
    /\ active = [u \in People |-> TRUE]
    /\ override = [u \in People |-> [NoOverride EXCEPT !.take = Withheld[u]]]
    /\ package = Listed
    /\ tier = [a \in Accounts |-> 1]
    /\ month = [a \in Accounts |-> 1]
    /\ orders = [a \in Accounts |-> [m \in Months |-> [counted |-> 0, cancelled |-> 0]]]
    /\ free = [a \in Accounts |-> {}]
    /\ invoice = [a \in Accounts |-> [m \in Months |-> None]]
    /\ comment = [c \in Comments |-> None]
    /\ feed = [u \in People |-> <<>>]
    /\ desk = [k \in Desks |-> Idle]
    /\ overlapped = {}
    /\ left = Budget

Managing ==
    /\ UNCHANGED <<billingVars, feedVars>>
    /\ \/ left.all > 0 /\ \/ \E k \in Desks, e \in ActiveUsers, q \in People, r \in Offered, boxes \in Forms \cup {None} :
                               InviteUser(k, e, q, r, boxes) \/ UpdateUser(k, e, q, r, boxes)
                          \/ \E e, q \in People : SetActive(e, q)
                          \/ \E a \in Accounts : ChoosePlan(a)
       \/ \E k \in Desks : CommitAccess(k) \/ AccessRollBack(k)

Paying ==
    /\ UNCHANGED feedVars
    /\ \/ left.all > 0 /\ \/ \E a \in Accounts, t \in TIERS : SetTenantPackage(a, t)
                          \/ \E a \in Accounts, m \in Months :
                                \/ CancelOrder(a, m) \/ TakeUpOrder(a, m)
                                \/ \E k \in Desks : SetFreeMonth(k, a, m)
                                \/ \E status \in STATUSES : SetInvoiceStatus(a, m, status)
                          \/ \E e \in ActiveUsers, t \in TIERS : Upgrade(e, t)
                          \/ \E u \in AUDIENCES, t \in TIERS, terms \in Edits : EditPackage(u, t, terms)
                          \/ \E k \in Desks, a \in Accounts : CreateOrder(k, a)
                          \/ \E k \in Desks, m \in Months : PrepareInvoices(k, m)
       \/ \E a \in Accounts : MonthTurns(a)
       \/ \E k \in Desks : CommitFreeMonth(k) \/ CommitInvoices(k) \/ BillingRollBack(k)

Telling ==
    \/ \E k \in Desks, e \in ActiveUsers \cup {None} : OrderNews(k, e)
    \/ /\ left.all > 0
       /\ \E e \in ActiveUsers : \/ RecordPayment(e) \/ MarkAllRead(e)
                                 \/ \E names \in SUBSET People : CreateComment(e, names)
                                 \/ \E c \in Comments : PinComment(e, c) \/ DeleteComment(e, c)
                                 \/ \E i \in DOMAIN feed[e] : MarkRead(e, i)

Next == Managing \/ Paying \/ Telling

Spec == Init /\ [][Next]_vars

-----------------------------------------------------------------------------
(* Nobody gains a permission but through the request of someone who held it, and nobody loses one through a
   form its editor could not see it on (update_user, invite_user, _guard_grantable), unless two requests about
   that person ran at once.  A plan that is chosen opens what it includes, and a role that is taken away takes
   its bundle. *)
NobodyGivesBeyondTheirOwn ==
    [][plan' = plan => \A q \in People :
          LET gained == Eff(q)' \ Eff(q)
              lost == Eff(q) \ Eff(q)'
          IN  gained \cup lost # {} =>
                \E k \in Desks :
                    /\ desk[k].step \in {"invite", "update"} /\ desk[k].person = q /\ desk'[k] = Idle
                    /\ \/ q \in overlapped
                       \/ gained \subseteq desk[k].held /\ (desk[k].changed \/ lost \subseteq desk[k].held)]_vars

(* An account is asked to pay for a month once it is over where the account is, for a fee that was listed, and
   never for a month that was made free for it, unless the two were being done at once (prepare_invoices,
   set_free_month). *)
BillsWhatIsDue ==
    \A a \in Accounts, m \in Months : invoice[a][m] # None =>
        /\ m < month[a]
        /\ invoice[a][m].fee > 0
        /\ m \in free[a] => <<"month", m>> \in overlapped

(* A note rings nobody's bell twice, and never its author's, whatever the thread has become
   (create_comment). *)
ToldOnce ==
    \A u \in People, c \in Comments : comment[c] # None =>
        LET about == {i \in DOMAIN feed[u] : feed[u][i].about = c}
        IN  Cardinality(about) <= 1 /\ (u = comment[c].author => about = {})
===============================================================================
