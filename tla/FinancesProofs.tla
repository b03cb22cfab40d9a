---------------------------- MODULE FinancesProofs ----------------------------
(***************************************************************************)
(* What holds of orders, documents and money for any number of requests in *)
(* flight, orders, forms and settings.                                     *)
(*                                                                         *)
(* A request relies on what it read until it writes.  IInv says what that  *)
(* is for each kind (`Relies`), and why it still holds: either nobody      *)
(* wrote what it touches, or `mixed` says so.                              *)
(*                                                                         *)
(* The second half is about money: first what sums over finite sets do,    *)
(* then the figures that are sums, then why a form that passed its checks  *)
(* still fits when its row is written.                                     *)
(***************************************************************************)
EXTENDS Finances, FiniteSetTheorems, WellFoundedInduction, TLAPS

-----------------------------------------------------------------------------
(* The rows and the requests. *)

Values == SelectableStatuses \cup ExcludedFromAggregates

OrderRows == [number : Nat \ {0}, client : Clients, urgency : Urgencies, courier : BOOLEAN,
              imported : BOOLEAN, delivery : Nat]
DocRows   == [order : Orders, line : Lines, by : Translators \cup {None},
              price : Nat, cost : Nat, fee : Nat, at : Nat]
Drafts    == [order : Orders \cup {0}, line : Lines, by : Translators \cup {None},
              price : Nat, cost : Nat, fee : Nat, at : Nat]

Lists == UNION {[S -> DocRows] : S \in SUBSET Docs}
Views == [client : Clients, urgency : Urgencies, courier : BOOLEAN, delivery : Nat, docs : Lists]

Creates == [op : {"create"}, client : Clients, urgency : Urgencies, courier : BOOLEAN, lines : Seq(Drafts)]
Draws   == [op : {"numbered"}, request : Creates, number : Nat \ {0}]
Edits   == [op : {"edit"}, order : Orders, base : Views, new : Views, adds : Seq(Drafts), gone : SUBSET Docs]
Moves   == [op : {"status"}, order : Orders, event : Nat \X Values]
Removes == [op : {"remove"}, order : Orders]
Pays    == [op : {"pay"}, form : Forms]
Undos   == [op : {"undo"}, form : Forms]
Charges == [op : {"expense"}, row : Expenses, order : Orders, keep : BOOLEAN]

Requests == Creates \cup Draws \cup Edits \cup Moves \cup Removes \cup Pays \cup Undos \cup Charges \cup {Idle}

RowsTyped ==
    /\ order \in [Orders -> OrderRows \cup {NoOrder}]
    /\ doc \in [Docs -> DocRows \cup {NoDoc}]
    /\ status \in [Orders -> Nat \X (Values \cup {"none"})]
    /\ rows \in [Forms -> Nat]
    /\ fronted \subseteq FormsOf("notary")
    /\ expense \in [Expenses -> Orders \cup {0}]
    /\ setting \in DOMAIN Settings
    /\ made \in [order : Nat, doc : Nat]
    /\ clock \in Nat

Typed == RowsTyped /\ desk \in [Clerks -> Requests]

-----------------------------------------------------------------------------
(* The tables. *)

(* Rows are made in their order, and hang together. *)
RowsMade ==
    /\ \A o \in Orders : o > made.order => order[o] = NoOrder
    /\ \A d \in Docs : d > made.doc => doc[d] = NoDoc
    /\ \A d \in Docs : doc[d] # NoDoc => Exists(doc[d].order)
    /\ \A o \in Orders : Exists(o) => StatusNow(o) # "none"

(* A price the engine set now is the price at this urgency. *)
Fits(row, urgency) ==
    /\ row.at <= setting
    /\ row.at = setting => row.price = Computed(row.line, urgency).price

DocsPriced ==
    \A d \in Docs : doc[d] # NoDoc =>
        /\ doc[d].at <= setting
        /\ doc[d].order \notin mixed => Fits(doc[d], order[doc[d].order].urgency)

FrontedPaid == \A n \in fronted : rows[n] > 0

Tables == RowsMade /\ DocsPriced /\ FrontedPaid /\ OneRowPerForm /\ MoneyStaysWithItsClient

-----------------------------------------------------------------------------
(* The requests under way: what each relies on. *)

DraftsFit(lines, urgency) == \A i \in DOMAIN lines : Fits(lines[i], urgency)

(* The documents an edit read are of its order, or gone. *)
EditRows(tx) ==
    /\ tx.order <= made.order
    /\ DOMAIN tx.new.docs = DOMAIN tx.base.docs /\ tx.gone \subseteq DOMAIN tx.base.docs
    /\ \A d \in DOMAIN tx.base.docs :
        /\ d <= made.doc /\ (doc[d] = NoDoc \/ doc[d].order = tx.order)
        /\ tx.base.docs[d].order = tx.order /\ tx.new.docs[d].order = tx.order
        /\ tx.base.docs[d].at <= setting /\ tx.new.docs[d].at <= setting
    /\ DraftsFit(tx.adds, tx.new.urgency)

(* Its order is still what it read, and what it will write fits together. *)
EditAlone(tx) ==
    /\ Exists(tx.order) /\ View(tx.order) = tx.base
    /\ tx.new.client = tx.base.client \/ ~HasClientPayments(tx.order)
    /\ \A d \in DOMAIN tx.new.docs : Fits(tx.new.docs[d], tx.new.urgency)

Relies(tx) ==
    /\ tx.op = "create" => DraftsFit(tx.lines, tx.urgency)
    /\ tx.op = "numbered" => DraftsFit(tx.request.lines, tx.request.urgency) /\ ~NumberTaken(tx.number)
    /\ tx.op = "edit" => EditRows(tx) /\ (tx.order \notin mixed => EditAlone(tx))
    /\ tx.op = "remove" => tx.order \in mixed \/ ~HasExpenses(tx.order)
    /\ tx.op = "pay" /\ Form[tx.form].ledger = "client" =>
           \A o \in DOMAIN Form[tx.form].alloc \ mixed : Exists(o) /\ order[o].client = Form[tx.form].who
    /\ tx.op = "undo" => tx.form \in mixed \/ ~PaidThrough(tx.form)

OneDraws == \A b, c \in Clerks : desk[b].op = "numbered" /\ desk[c].op = "numbered" => b = c

IInv == Typed /\ Tables /\ OneDraws /\ \A c \in Clerks : Relies(desk[c])

-----------------------------------------------------------------------------
(* Figures. *)

(* A set of numbers that is finite has a largest one. *)
LEMMA MaxOfFinite ==
    ASSUME NEW S \in SUBSET Int, IsFiniteSet(S), S # {}
    PROVE  Max(S) \in S /\ \A y \in S : Max(S) >= y
  <1> DEFINE Top(T) == \E x \in T : \A y \in T : x >= y
             Bad    == {T \in FiniteSubsetsOf(S) : T # {} /\ ~Top(T)}
  <1>1. Bad = {}
    <2> SUFFICES ASSUME Bad # {} PROVE FALSE
      OBVIOUS
    <2>1. PICK T \in Bad : \A U \in Bad : ~(<<U, T>> \in StrictSubsetOrdering(S))
      BY FS_StrictSubsetOrderingWellFounded, WFMin
    <2>2. T \in SUBSET S /\ IsFiniteSet(T) /\ T # {} /\ ~Top(T)
      BY <2>1 DEF FiniteSubsetsOf
    <2>3. PICK x \in T : TRUE
      BY <2>2
    <2> DEFINE U == T \ {x}
    <2>4. U \in FiniteSubsetsOf(S) /\ <<U, T>> \in StrictSubsetOrdering(S)
      BY <2>2, <2>3, FS_RemoveElement DEF FiniteSubsetsOf, StrictSubsetOrdering
    <2>5. CASE U = {}
      BY <2>2, <2>3, <2>5
    <2>6. CASE U # {}
      <3>1. Top(U)
        BY <2>1, <2>4, <2>6
      <3>2. PICK z \in U : \A y \in U : z >= y
        BY <3>1
      <3> QED BY <2>2, <2>3, <3>2
    <2> QED BY <2>5, <2>6
  <1>2. S \in FiniteSubsetsOf(S)
    BY DEF FiniteSubsetsOf
  <1>3. Top(S)
    BY <1>1, <1>2
  <1> QED
    BY <1>3 DEF Max

LEMMA MinOfFinite ==
    ASSUME NEW S \in SUBSET Int, IsFiniteSet(S), S # {}
    PROVE  Min(S) \in S
  <1> DEFINE T == {-x : x \in S}
  <1>1. T \in SUBSET Int /\ T # {}
    <2>1. \A x \in S : -x \in Int /\ -x \in T
      OBVIOUS
    <2> QED BY <2>1
  <1>2. IsFiniteSet(T)
    <2> DEFINE f == [x \in S |-> -x]
    <2>1. f \in Surjection(S, T)
      BY DEF Surjection
    <2> QED BY <2>1, FS_Surjection
  <1>3. Max(T) \in T /\ \A y \in T : Max(T) >= y
    BY <1>1, <1>2, MaxOfFinite
  <1>4. PICK x \in S : Max(T) = -x
    BY <1>3
  <1>5. ASSUME NEW y \in S PROVE x <= y
    <2>1. -y \in T
      OBVIOUS
    <2>2. -x >= -y
      BY <1>3, <1>4, <2>1
    <2> QED BY <2>2
  <1> QED
    BY <1>4, <1>5 DEF Min

LEMMA AtLeast ==
    ASSUME NEW a \in Nat, NEW b \in Nat
    PROVE  Max({a, b}) \in {a, b} /\ Max({a, b}) \in Nat
  <1>1. IsFiniteSet({a, b})
    <2>1. IsFiniteSet({a})
      BY FS_Singleton
    <2>2. IsFiniteSet({a} \cup {b})
      BY <2>1, FS_AddElement
    <2>3. {a, b} = {a} \cup {b}
      OBVIOUS
    <2> QED BY <2>2, <2>3
  <1>2. Max({a, b}) \in {a, b} /\ \A y \in {a, b} : Max({a, b}) >= y
    BY <1>1, MaxOfFinite
  <1> QED
    BY <1>2

LEMMA MoneyIsNat ==
    ASSUME NEW n \in Nat, NEW d \in Nat \ {0}
    PROVE  Money(n, d) \in Nat
  <1> DEFINE a == 2 * n + d
             b == 2 * d
  <1>1. a \in Nat /\ b \in Nat /\ b > 0
    OBVIOUS
  <1>2. a \div b \in Nat
    <2> HIDE DEF a, b
    <2> QED BY <1>1
  <1> QED
    BY <1>2 DEF Money

LEMMA RateIsNat ==
    ASSUME NEW line \in LineShape, NEW s \in SettingShape
    PROVE  Rate(line, s) \in Nat
  BY DEF Rate, LineShape, SettingShape, FallbackPerPage, FallbackPerMinute

LEMMA TierRateIsNat ==
    ASSUME NEW pages \in Nat, pages <= 10000, NEW tiers, tiers = NotaryTiers \/ tiers = CertificationTiers
    PROVE  TierRate(pages, tiers) \in Nat
  <1> DEFINE S == {i \in DOMAIN tiers : pages <= tiers[i][1]}
  <1>1. DOMAIN tiers = 1..4 /\ tiers[4][1] = 10000 /\ \A i \in 1..4 : tiers[i][2] \in Nat
    BY DEF NotaryTiers, CertificationTiers
  <1>2. S \in SUBSET (1..4) /\ 4 \in S
    <2>1. pages <= tiers[4][1]
      BY <1>1
    <2>2. 4 \in DOMAIN tiers
      BY <1>1
    <2> QED BY <1>1, <2>1, <2>2
  <1>3. S \in SUBSET Nat /\ \A i \in S : i <= 4
    BY <1>2
  <1>4. IsFiniteSet(S)
    BY <1>3, FS_BoundedSetOfNaturals
  <1>5. S \in SUBSET Int /\ S # {}
    BY <1>2
  <1>6. Min(S) \in S
    BY <1>4, <1>5, MinOfFinite
  <1> QED
    BY <1>1, <1>2, <1>6 DEF TierRate

LEMMA Products ==
    ASSUME NEW a \in Nat, NEW b \in Nat
    PROVE  a * b \in Nat
  OBVIOUS

LEMMA LineFields ==
    ASSUME NEW line \in LineShape
    PROVE  /\ line.units \in Nat /\ line.characters \in Nat /\ line.multiplier \in Nat
           /\ line.kind \in {"written", "oral"}
  <1>1. line.units \in 1..10000 /\ line.characters \in Nat /\ line.multiplier \in Nat
        /\ line.kind \in {"written", "oral"}
    BY DEF LineShape
  <1>2. line.units \in Nat
    <2>1. PICK u \in 1..10000 : u = line.units
      BY <1>1
    <2>2. u \in Nat
      OBVIOUS
    <2> QED BY <2>1, <2>2
  <1> QED
    BY <1>1, <1>2

LEMMA NotaryCostIsNat ==
    ASSUME NEW line \in LineShape
    PROVE  NotaryCost(line) \in Nat
  <1>1. PICK pages : pages = Max({1, line.units})
    OBVIOUS
  <1>2. pages \in Nat /\ pages <= 10000
    <2>1. PICK u : u = line.units
      OBVIOUS
    <2>2. u \in 1..10000
      BY <2>1 DEF LineShape
    <2>3. u \in Nat /\ u <= 10000 /\ 1 \in Nat
      BY <2>2
    <2>4. Max({1, u}) \in {1, u}
      BY <2>3, AtLeast
    <2> QED BY <1>1, <2>1, <2>3, <2>4
  <1>3. PICK r, q : r = TierRate(pages, NotaryTiers) /\ q = TierRate(pages, CertificationTiers)
    OBVIOUS
  <1>4. r \in Nat /\ q \in Nat
    <2>1. TierRate(pages, NotaryTiers) \in Nat
      BY <1>2, TierRateIsNat
    <2>2. TierRate(pages, CertificationTiers) \in Nat
      BY <1>2, TierRateIsNat
    <2> QED BY <1>3, <2>1, <2>2
  <1>5. PICK n, m : n = r * pages /\ m = q * pages
    OBVIOUS
  <1>6. n \in Nat /\ m \in Nat
    BY <1>2, <1>4, <1>5, Products
  <1>7. WithVat(n) \in Nat /\ WithVat(m) \in Nat
    BY <1>6 DEF WithVat
  <1>8. NotaryCost(line) = IF ~line.notarised THEN 0
                           ELSE WithVat(n) + 500 + (IF line.certified THEN WithVat(m) ELSE 0)
    BY <1>1, <1>3, <1>5 DEF NotaryCost, NotaryFlatFee
  <1> QED
    BY <1>7, <1>8

(* What the engine computes is whole tetri, whatever the settings. *)
LEMMA FiguresAreNat ==
    ASSUME Typed, NEW line \in Lines, NEW urgency \in Urgencies
    PROVE  /\ Computed(line, urgency).price \in Nat
           /\ Computed(line, urgency).cost \in Nat
           /\ Computed(line, urgency).fee \in Nat
  <1>1. PICK s : s = Settings[setting]
    OBVIOUS
  <1>2. s \in SettingShape /\ line \in LineShape /\ s.multiplier[urgency] \in Nat
    <2>1. Settings \in Seq(SettingShape) /\ setting \in DOMAIN Settings
      BY BureauAssumptions DEF Typed, RowsTyped
    <2>2. s \in SettingShape
      BY <1>1, <2>1
    <2>3. s.multiplier \in [Urgencies -> Nat]
      BY <2>2 DEF SettingShape, Urgencies
    <2>4. line \in LineShape
      BY BureauAssumptions
    <2> QED BY <2>2, <2>3, <2>4
  <1>3. line.units \in Nat /\ line.characters \in Nat /\ line.multiplier \in Nat
        /\ s.perStandardPage \in Nat \ {0} /\ s.share \in Nat /\ line.kind \in {"written", "oral"}
    <2>1. line.units \in Nat /\ line.characters \in Nat /\ line.multiplier \in Nat /\ line.kind \in {"written", "oral"}
      BY <1>2, LineFields
    <2>2. s.perStandardPage \in Nat \ {0} /\ s.share \in Nat
      BY <1>2 DEF SettingShape
    <2> QED BY <2>1, <2>2
  <1>4. PICK rate, times, units : rate = Rate(line, s) /\ times = s.multiplier[urgency] /\ units = Max({1, line.units})
    OBVIOUS
  <1>5. rate \in Nat /\ times \in Nat /\ units \in Nat
    BY <1>2, <1>3, <1>4, RateIsNat, AtLeast
  <1>6. CASE line.kind = "oral"
    <2>1. PICK cost : cost = Money(rate * units * times, 10)
      OBVIOUS
    <2>2. cost \in Nat
      BY <2>1, <1>5, MoneyIsNat, Products
    <2>3. Money(cost * s.share, 100) \in Nat
      BY <2>2, <1>3, MoneyIsNat, Products
    <2>4. Computed(line, urgency) = [price |-> cost, cost |-> Money(cost * s.share, 100), fee |-> 0]
      BY <1>1, <1>4, <1>6, <2>1 DEF Computed, PriceDocument, PriceOral
    <2> QED BY <2>2, <2>3, <2>4
  <1>7. CASE line.kind # "oral"
    <2>1. PICK pages : pages = IF line.characters > 0 THEN Max({line.characters, s.perStandardPage}) ELSE units
      OBVIOUS
    <2>2. PICK over : over = IF line.characters > 0 THEN s.perStandardPage ELSE 1
      OBVIOUS
    <2>3. pages \in Nat /\ over \in Nat \ {0}
      BY <2>1, <2>2, <1>3, <1>5, AtLeast
    <2>4. PICK raw, scale : raw = rate * pages * line.multiplier * times /\ scale = over * 100
      OBVIOUS
    <2>5. raw \in Nat /\ scale \in Nat \ {0}
      <3>1. rate * pages \in Nat
        BY <2>3, <1>5, Products
      <3>2. rate * pages * line.multiplier \in Nat
        BY <3>1, <1>3, Products
      <3>3. raw \in Nat
        BY <2>4, <3>2, <1>5, Products
      <3> QED BY <3>3, <2>3, <2>4
    <2>6. Money(raw, scale) \in Nat
      BY <2>5, MoneyIsNat
    <2>7. Money(raw * s.share, scale * 100) \in Nat
      <3>1. raw * s.share \in Nat /\ scale * 100 \in Nat \ {0}
        BY <2>5, <1>3, Products
      <3> QED BY <3>1, MoneyIsNat
    <2>8. NotaryCost(line) \in Nat
      BY <1>2, NotaryCostIsNat
    <2>9. Computed(line, urgency) = [price |-> Money(raw, scale) + NotaryCost(line),
                                     cost  |-> Money(raw * s.share, scale * 100), fee |-> NotaryCost(line)]
      BY <1>1, <1>4, <1>7, <2>1, <2>2, <2>4 DEF Computed, PriceDocument, PriceWritten
    <2> QED BY <2>6, <2>7, <2>8, <2>9
  <1> QED
    BY <1>6, <1>7

LEMMA DefaultCostIsNat ==
    ASSUME NEW t \in Translators \cup {None}, NEW line \in Lines, NEW n \in Nat
    PROVE  TranslatorDefaultCost(t, line, n) \in Nat
  <1>1. line.units \in Nat /\ OwnRate \in [Translators -> Nat]
    <2>1. line \in LineShape /\ OwnRate \in [Translators -> Nat]
      BY BureauAssumptions
    <2> QED BY <2>1, LineFields
  <1>2. t # None => OwnRate[t] * line.units \in Nat
    BY <1>1, Products
  <1> QED
    BY <1>2 DEF TranslatorDefaultCost

(* A row made from a form is of its type and priced as it should be. *)
LEMMA DraftsOf ==
    ASSUME Typed, NEW o \in Orders \cup {0}, NEW item \in ItemShape, NEW urgency \in Urgencies
    PROVE  DocumentRow(o, item, urgency) \in Drafts /\ Fits(DocumentRow(o, item, urgency), urgency)
  <1>1. item.line \in Lines /\ item.by \in Translators \cup {None} /\ item.price \in Nat \cup {None}
    BY DEF ItemShape
  <1>2. PICK figures : figures = Computed(item.line, urgency)
    OBVIOUS
  <1>3. figures.price \in Nat /\ figures.cost \in Nat /\ figures.fee \in Nat
    BY <1>1, <1>2, FiguresAreNat
  <1>4. PICK cost : cost = TranslatorDefaultCost(item.by, item.line, figures.cost)
    OBVIOUS
  <1>5. cost \in Nat
    BY <1>1, <1>3, <1>4, DefaultCostIsNat
  <1>6. DocumentRow(o, item, urgency) =
            [order |-> o, line |-> item.line, by |-> item.by,
             price |-> IF item.price # None THEN item.price ELSE figures.price,
             cost |-> cost, fee |-> figures.fee, at |-> IF item.price # None THEN 0 ELSE setting]
    BY <1>2, <1>4 DEF DocumentRow
  <1>7. setting \in Nat /\ setting > 0
    BY BureauAssumptions DEF Typed, RowsTyped
  <1> QED
    BY <1>1, <1>2, <1>3, <1>5, <1>6, <1>7 DEF Drafts, Fits

-----------------------------------------------------------------------------
(* What a step leaves alone for the requests beside it. *)

(* Of the rows there are, only those that T names are written, and nothing else is recorded against. *)
Around(T) ==
    /\ made' \in [order : Nat, doc : Nat] /\ made.order <= made'.order /\ made.doc <= made'.doc
    /\ \A o \in Orders : o <= made.order /\ o \notin T => order'[o] = order[o]
    /\ \A d \in Docs : d <= made.doc =>
        \/ doc'[d] = doc[d]
        \/ doc[d].order \in T /\ doc[d] # NoDoc /\ (doc'[d] = NoDoc \/ doc'[d].order = doc[d].order)
    /\ \A d \in Docs : d > made.doc /\ doc'[d] # NoDoc => doc'[d].order \in T \/ doc'[d].order > made.order
    /\ \A o \in Orders \ T : HasClientPayments(o)' => HasClientPayments(o)
    /\ \A o \in Orders \ T : HasExpenses(o)' => HasExpenses(o)
    /\ \A k \in Forms \ T : PaidThrough(k)' => PaidThrough(k)

LEMMA FitsStays ==
    ASSUME setting' = setting
    PROVE  \A row, urgency : Fits(row, urgency) => Fits(row, urgency)'
  BY DEF Fits, Computed

LEMMA ViewStays ==
    ASSUME NEW o, order'[o] = order[o],
           \A d \in Docs : doc[d].order = o \/ doc'[d].order = o => doc'[d] = doc[d]
    PROVE  View(o)' = View(o)
  <1>1. DocsOf(o)' = DocsOf(o)
    BY DEF DocsOf
  <1>2. [d \in DocsOf(o)' |-> doc'[d]] = [d \in DocsOf(o) |-> doc[d]]
    <2>1. \A d \in DocsOf(o) : doc'[d] = doc[d]
      BY DEF DocsOf
    <2> QED BY <1>1, <2>1
  <1> QED
    BY <1>1, <1>2 DEF View

LEMMA SettingType ==
    ASSUME Typed
    PROVE  setting \in Nat /\ setting > 0
  BY BureauAssumptions DEF Typed, RowsTyped

LEMMA RequestTypes ==
    ASSUME NEW tx \in Requests
    PROVE  /\ tx.op = "create" => tx \in Creates
           /\ tx.op = "numbered" => tx \in Draws
           /\ tx.op = "edit" => tx \in Edits
           /\ tx.op = "status" => tx \in Moves
           /\ tx.op = "remove" => tx \in Removes
           /\ tx.op = "pay" => tx \in Pays
           /\ tx.op = "undo" => tx \in Undos
           /\ tx.op = "expense" => tx \in Charges
  BY DEF Requests, Creates, Draws, Edits, Moves, Removes, Pays, Undos, Charges, Idle

LEMMA TouchesWhat ==
    ASSUME NEW tx \in Requests
    PROVE  /\ tx.op \in {"edit", "status", "remove", "expense"} => Touches(tx) = {tx.order}
           /\ tx.op \in {"pay", "undo"} => tx.form \in Touches(tx)
           /\ tx.op \in {"pay", "undo"} /\ Form[tx.form].via # None => Form[tx.form].via \in Touches(tx)
           /\ tx.op \in {"pay", "undo"} /\ Form[tx.form].ledger # "notary" => DOMAIN Form[tx.form].alloc \subseteq Touches(tx)
           /\ tx.op \in {"create", "numbered", "idle"} => Touches(tx) = {}
  BY DEF Touches

(* A request relies on its own, so a step around what it touches leaves it that. *)
LEMMA ReliesStays ==
    ASSUME IInv, NEW tx \in Requests, Relies(tx), NEW T, Around(T), setting' = setting,
           mixed \subseteq mixed', Touches(tx) \cap T \subseteq mixed',
           tx.op = "numbered" => (NumberTaken(tx.number)' => NumberTaken(tx.number))
    PROVE  Relies(tx)'
  <1>1. tx.op = "create" => DraftsFit(tx.lines, tx.urgency)'
    BY FitsStays DEF Relies, DraftsFit
  <1>2. tx.op = "numbered" => DraftsFit(tx.request.lines, tx.request.urgency)' /\ ~NumberTaken(tx.number)'
    BY FitsStays DEF Relies, DraftsFit
  <1>3. ASSUME tx.op = "edit" PROVE EditRows(tx)' /\ (tx.order \notin mixed' => EditAlone(tx)')
    <2>1. tx \in Edits /\ tx.order \in Orders
      BY <1>3, RequestTypes DEF Edits
    <2>2. EditRows(tx) /\ (tx.order \notin mixed => EditAlone(tx))
      BY <1>3 DEF Relies
    <2>3. \A d \in DOMAIN tx.base.docs : d \in Docs
      BY <2>1 DEF Edits, Views, Lists
    <2>4. made.order \in Nat /\ made.doc \in Nat /\ made'.order >= made.order /\ made'.doc >= made.doc
          /\ made'.order \in Nat /\ made'.doc \in Nat
      BY DEF Around, IInv, Typed, RowsTyped
    <2>5. EditRows(tx)'
      <3>1. DraftsFit(tx.adds, tx.new.urgency)'
        BY <2>2, FitsStays DEF EditRows, DraftsFit
      <3>2. ASSUME NEW d \in DOMAIN tx.base.docs PROVE doc'[d] = NoDoc \/ doc'[d].order = tx.order
        BY <2>2, <2>3 DEF EditRows, Around
      <3>3. tx.order <= made'.order
        BY <2>1, <2>2, <2>4 DEF EditRows, Orders, Around
      <3>4. ASSUME NEW d \in DOMAIN tx.base.docs PROVE d <= made'.doc
        <4>1. d <= made.doc /\ d \in Nat
          BY <2>2, <2>3 DEF EditRows, Docs
        <4> QED BY <4>1, <2>4
      <3> QED BY <2>2, <3>1, <3>2, <3>3, <3>4 DEF EditRows
    <2>6. ASSUME tx.order \notin mixed' PROVE EditAlone(tx)'
      <3>1. Touches(tx) = {tx.order}
        BY <1>3, TouchesWhat
      <3>2. EditAlone(tx) /\ tx.order \notin T
        BY <2>2, <2>6, <3>1
      <3>3. order'[tx.order] = order[tx.order]
        BY <2>1, <2>2, <3>2 DEF EditRows, Around
      <3>4. ASSUME NEW d \in Docs, doc[d].order = tx.order \/ doc'[d].order = tx.order PROVE doc'[d] = doc[d]
        <4>1. tx.order # 0 /\ tx.order <= made.order /\ tx.order \in Nat
          BY <2>1, <2>2 DEF EditRows, Orders
        <4>2. CASE d <= made.doc
          BY <3>2, <3>4, <4>1, <4>2 DEF Around, NoDoc
        <4>3. CASE d > made.doc
          <5>1. doc[d] = NoDoc
            BY <4>3 DEF IInv, Tables, RowsMade
          <5>2. doc'[d].order = tx.order /\ doc'[d] # NoDoc
            BY <3>4, <4>1, <5>1 DEF NoDoc
          <5> QED BY <3>2, <4>1, <4>3, <5>2, <2>4 DEF Around
        <4> QED BY <4>2, <4>3, <2>4 DEF Docs
      <3>5. View(tx.order)' = View(tx.order)
        BY <3>3, <3>4, ViewStays
      <3>6. HasClientPayments(tx.order)' => HasClientPayments(tx.order)
        BY <2>1, <3>2 DEF Around
      <3> QED BY <3>2, <3>3, <3>5, <3>6, FitsStays DEF EditAlone, Exists
    <2> QED BY <2>5, <2>6
  <1>4. ASSUME tx.op = "remove" PROVE tx.order \in mixed' \/ ~HasExpenses(tx.order)'
    <2>1. tx.order \in Orders /\ Touches(tx) = {tx.order}
      BY <1>4, RequestTypes, TouchesWhat DEF Removes
    <2> QED BY <1>4, <2>1 DEF Relies, Around
  <1>5. ASSUME tx.op = "pay", Form[tx.form].ledger = "client",
               NEW o \in DOMAIN Form[tx.form].alloc \ mixed'
        PROVE  Exists(o)' /\ order'[o].client = Form[tx.form].who
    <2>1. tx.form \in Forms
      BY <1>5, RequestTypes DEF Pays
    <2>2. o \in Orders
      BY <1>5, <2>1, BureauAssumptions
    <2>3. o \notin T /\ o \notin mixed
      BY <1>5, TouchesWhat
    <2>4. Exists(o) /\ order[o].client = Form[tx.form].who
      BY <1>5, <2>3 DEF Relies
    <2>5. o <= made.order
      BY <2>2, <2>4 DEF IInv, Tables, RowsMade, Exists, Typed, RowsTyped, Orders
    <2>6. order'[o] = order[o]
      BY <2>2, <2>3, <2>5 DEF Around
    <2> QED BY <2>4, <2>6 DEF Exists
  <1>6. ASSUME tx.op = "undo" PROVE tx.form \in mixed' \/ ~PaidThrough(tx.form)'
    <2>1. tx.form \in Forms /\ tx.form \in Touches(tx)
      BY <1>6, RequestTypes, TouchesWhat DEF Undos
    <2> QED BY <1>6, <2>1 DEF Relies, Around
  <1> QED
    BY <1>1, <1>2, <1>3, <1>4, <1>5, <1>6 DEF Relies

LEMMA TablesSame ==
    ASSUME Tables, tableVars' = tableVars, made' = made, mixed \subseteq mixed'
    PROVE  Tables'
  <1>0. /\ order' = order /\ doc' = doc /\ status' = status /\ rows' = rows /\ fronted' = fronted
        /\ expense' = expense /\ setting' = setting
    BY DEF tableVars
  <1>1. RowsMade'
    BY <1>0 DEF Tables, RowsMade, Exists, StatusNow
  <1>2. DocsPriced'
    BY <1>0, FitsStays DEF Tables, DocsPriced
  <1>3. FrontedPaid'
    BY <1>0 DEF Tables, FrontedPaid
  <1>4. OneRowPerForm'
    BY <1>0 DEF Tables, OneRowPerForm, Exists
  <1>5. MoneyStaysWithItsClient'
    BY <1>0 DEF Tables, MoneyStaysWithItsClient
  <1> QED
    BY <1>1, <1>2, <1>3, <1>4, <1>5 DEF Tables

LEMMA AroundNothing ==
    ASSUME Typed, RowsMade, tableVars' = tableVars, made' = made, NEW T
    PROVE  Around(T)
  <1>0. /\ order' = order /\ doc' = doc /\ rows' = rows /\ fronted' = fronted /\ expense' = expense
    BY DEF tableVars
  <1>1. /\ \A o : HasClientPayments(o)' <=> HasClientPayments(o)
        /\ \A o : HasExpenses(o)' <=> HasExpenses(o)
        /\ \A k : PaidThrough(k)' <=> PaidThrough(k)
    BY <1>0 DEF HasClientPayments, Recorded, HasExpenses, PaidThrough
  <1>2. made \in [order : Nat, doc : Nat]
    BY DEF Typed, RowsTyped
  <1>3. \A d \in Docs : d > made.doc /\ doc[d] # NoDoc => doc[d].order \in T \/ doc[d].order > made.order
    BY DEF RowsMade
  <1> QED
    BY <1>0, <1>1, <1>2, <1>3 DEF Around

(* Requests read, and go on the desk with what they found. *)
LEMMA TakeKeeps ==
    ASSUME IInv, NEW c \in Clerks, NEW tx \in Requests, Relies(tx), desk' = [desk EXCEPT ![c] = tx],
           tableVars' = tableVars, made' = made, mixed' = mixed, clock' \in Nat,
           tx.op = "numbered" => NumberLockFree
    PROVE  IInv'
  <1>0. /\ order' = order /\ doc' = doc /\ status' = status /\ rows' = rows /\ fronted' = fronted
        /\ expense' = expense /\ setting' = setting
    BY DEF tableVars
  <1>1. desk' \in [Clerks -> Requests] /\ desk'[c] = tx /\ \A b \in Clerks \ {c} : desk'[b] = desk[b]
    BY DEF IInv, Typed, RowsTyped
  <1>2. Typed'
    BY <1>0, <1>1 DEF IInv, Typed, RowsTyped
  <1>3. Tables'
    BY TablesSame DEF IInv
  <1>4. OneDraws'
    BY <1>1 DEF IInv, OneDraws, NumberLockFree
  <1>5. Around({})
    BY AroundNothing DEF IInv, Tables
  <1>6. ASSUME NEW b \in Clerks PROVE Relies(desk[b])'
    <2>1. PICK ty \in Requests : ty = desk'[b]
      BY <1>1
    <2>2. Relies(ty)
      BY <1>1, <2>1 DEF IInv
    <2>3. NumberTaken(ty.number)' => NumberTaken(ty.number)
      BY <1>0 DEF NumberTaken
    <2>4. Relies(ty)'
      BY <1>0, <1>5, <2>2, <2>3, ReliesStays
    <2> QED BY <2>1, <2>4
  <1> QED
    BY <1>2, <1>3, <1>4, <1>6 DEF IInv

LEMMA OthersRely ==
    ASSUME IInv, NEW T, Around(T), setting' = setting, mixed \subseteq mixed',
           NEW b \in Clerks, desk'[b] = desk[b], Touches(desk[b]) \cap T \subseteq mixed',
           desk[b].op = "numbered" => \A n \in Nat \ {0} : NumberTaken(n)' => NumberTaken(n)
    PROVE  Relies(desk[b])'
  <1>1. PICK tx \in Requests : tx = desk[b]
    BY DEF IInv, Typed
  <1>2. Relies(tx)
    BY <1>1 DEF IInv
  <1>3. Touches(tx) \cap T \subseteq mixed'
    BY <1>1
  <1>4. tx.op = "numbered" => (NumberTaken(tx.number)' => NumberTaken(tx.number))
    BY <1>1, RequestTypes DEF Draws
  <1>5. Relies(tx)'
    BY <1>2, <1>3, <1>4, ReliesStays
  <1> QED
    BY <1>1, <1>5

(* Requests write what they touch, and leave; whoever touched it too is told. *)
LEMMA LeaveKeeps ==
    ASSUME IInv, NEW c \in Clerks, Leave(c), RowsTyped', Tables', Around(Touches(desk[c])), setting' = setting,
           desk[c].op # "numbered" => \A n \in Nat \ {0} : NumberTaken(n)' => NumberTaken(n)
    PROVE  IInv'
  <1>1. /\ desk' \in [Clerks -> Requests] /\ desk'[c] = Idle /\ \A b \in Clerks \ {c} : desk'[b] = desk[b]
        /\ mixed \subseteq mixed'
    BY DEF Leave, IInv, Typed, Requests
  <1>2. Typed'
    BY <1>1 DEF Typed
  <1>3. OneDraws'
    BY <1>1 DEF IInv, OneDraws, Idle
  <1>4. ASSUME NEW b \in Clerks, b # c PROVE Relies(desk[b])'
    <2>1. Touches(desk[b]) \cap Touches(desk[c]) \subseteq mixed'
      BY <1>4 DEF Leave
    <2>2. desk[b].op = "numbered" => desk[c].op # "numbered"
      BY <1>4 DEF IInv, OneDraws
    <2>3. PICK T : T = Touches(desk[c])
      OBVIOUS
    <2>4. Around(T) /\ Touches(desk[b]) \cap T \subseteq mixed' /\ desk'[b] = desk[b]
      BY <1>1, <1>4, <2>1, <2>3
    <2>5. desk[b].op = "numbered" => \A n \in Nat \ {0} : NumberTaken(n)' => NumberTaken(n)
      BY <2>2
    <2> QED BY <1>1, <2>4, <2>5, OthersRely
  <1>5. Relies(desk[c])'
    BY <1>1 DEF Relies, Idle
  <1> QED
    BY <1>2, <1>3, <1>4, <1>5 DEF IInv

(* Refused: nothing was written. *)
LEMMA RefusedKeeps ==
    ASSUME IInv, NEW c \in Clerks, Refused(c)
    PROVE  IInv'
  <1>1. /\ Leave(c) /\ tableVars' = tableVars /\ made' = made /\ clock' = clock /\ mixed \subseteq mixed'
    BY DEF Refused, Leave
  <1>2. RowsTyped' /\ setting' = setting
    BY <1>1 DEF IInv, Typed, RowsTyped, tableVars
  <1>3. Tables'
    BY <1>1, TablesSame DEF IInv
  <1>4. PICK T : T = Touches(desk[c])
    OBVIOUS
  <1>5. Around(T)
    BY <1>1, AroundNothing DEF IInv, Tables
  <1>6. \A n \in Nat \ {0} : NumberTaken(n)' => NumberTaken(n)
    BY <1>1 DEF NumberTaken, tableVars
  <1> QED
    BY <1>1, <1>2, <1>3, <1>4, <1>5, <1>6, LeaveKeeps

-----------------------------------------------------------------------------
(* What an edit makes of what it read. *)

LEMMA ViewIsOne ==
    ASSUME IInv, NEW o \in Orders, Exists(o)
    PROVE  /\ View(o) \in Views
           /\ \A d \in DOMAIN View(o).docs : /\ d \in Docs /\ d <= made.doc /\ doc[d] # NoDoc
                                             /\ View(o).docs[d] = doc[d] /\ doc[d].order = o
                                             /\ doc[d].at <= setting
           /\ o \notin mixed => \A d \in DOMAIN View(o).docs : Fits(View(o).docs[d], View(o).urgency)
  <1>1. order[o] \in OrderRows
    BY DEF IInv, Typed, RowsTyped, Exists
  <1>2. \A d \in DocsOf(o) : doc[d] \in DocRows /\ d \in Docs /\ doc[d] # NoDoc /\ doc[d].order = o
    BY DEF IInv, Typed, RowsTyped, DocsOf, NoDoc, Orders
  <1>3. [d \in DocsOf(o) |-> doc[d]] \in [DocsOf(o) -> DocRows] /\ DocsOf(o) \in SUBSET Docs
    BY <1>2 DEF DocsOf
  <1>4. [d \in DocsOf(o) |-> doc[d]] \in Lists
    BY <1>3 DEF Lists
  <1>5. View(o) \in Views
    BY <1>1, <1>4 DEF View, Views, OrderRows
  <1>6. DOMAIN View(o).docs = DocsOf(o) /\ \A d \in DocsOf(o) : View(o).docs[d] = doc[d]
    BY DEF View
  <1>7. \A d \in DocsOf(o) : doc[d].at <= setting /\ d <= made.doc
    BY <1>2 DEF IInv, Tables, DocsPriced, RowsMade, Typed, RowsTyped, Docs
  <1>8. o \notin mixed => \A d \in DocsOf(o) : Fits(doc[d], order[o].urgency)
    BY <1>2 DEF IInv, Tables, DocsPriced
  <1>9. View(o).urgency = order[o].urgency
    BY DEF View
  <1> QED
    BY <1>2, <1>5, <1>6, <1>7, <1>8, <1>9

(* A figure that follows the urgency, and one that was typed in, both fit again. *)
LEMMA RepricedFits ==
    ASSUME Typed, NEW row \in DocRows, row.at <= setting, NEW was \in Urgencies, NEW now \in Urgencies
    PROVE  LET new == RepriceForUrgency(row, Computed(row.line, was), Computed(row.line, now))
           IN  /\ new \in DocRows /\ new.order = row.order /\ new.at <= setting
               /\ Fits(row, was) => Fits(new, now)
  <1>1. PICK a, b : a = Computed(row.line, was) /\ b = Computed(row.line, now)
    OBVIOUS
  <1>2. b.price \in Nat /\ b.cost \in Nat /\ b.fee \in Nat
    BY <1>1, FiguresAreNat DEF DocRows
  <1>3. PICK new : new = RepriceForUrgency(row, a, b)
    OBVIOUS
  <1>4. new = [row EXCEPT !.price = IF row.price = a.price THEN b.price ELSE row.price,
                          !.at    = IF row.price = a.price THEN setting ELSE row.at,
                          !.cost  = IF row.cost = a.cost THEN b.cost ELSE row.cost,
                          !.fee   = IF row.fee = a.fee THEN b.fee ELSE row.fee]
    BY <1>3 DEF RepriceForUrgency
  <1>5. /\ new \in DocRows /\ new.order = row.order /\ new.line = row.line
        /\ new.price = IF row.price = a.price THEN b.price ELSE row.price
        /\ new.at = IF row.price = a.price THEN setting ELSE row.at
    BY <1>2, <1>4, SettingType DEF DocRows
  <1>6. new.at <= setting
    BY <1>5, SettingType
  <1>7. Fits(row, was) => Fits(new, now)
    BY <1>1, <1>5, <1>6 DEF Fits
  <1> QED
    BY <1>1, <1>3, <1>5, <1>6, <1>7

LEMMA HeaderFits ==
    ASSUME Typed, NEW v \in Views, \A d \in DOMAIN v.docs : v.docs[d].at <= setting, NEW h \in HeaderShape
    PROVE  /\ UpdateOrder(v, h) \in Views
           /\ UpdateOrder(v, h).client = Sent(h.client, v.client)
           /\ DOMAIN UpdateOrder(v, h).docs = DOMAIN v.docs
           /\ \A d \in DOMAIN v.docs :
                /\ UpdateOrder(v, h).docs[d] \in DocRows
                /\ UpdateOrder(v, h).docs[d].order = v.docs[d].order
                /\ UpdateOrder(v, h).docs[d].at <= setting
                /\ Fits(v.docs[d], v.urgency) => Fits(UpdateOrder(v, h).docs[d], UpdateOrder(v, h).urgency)
  <1>1. PICK urgency, courier : urgency = Sent(h.urgency, v.urgency) /\ courier = Sent(h.courier, v.courier)
    OBVIOUS
  <1>2. urgency \in Urgencies /\ courier \in BOOLEAN /\ v.urgency \in Urgencies
        /\ Sent(h.client, v.client) \in Clients /\ v.docs \in Lists
    BY <1>1 DEF Sent, Views, HeaderShape
  <1>3. \A d \in DOMAIN v.docs : v.docs[d] \in DocRows
    BY <1>2 DEF Lists
  <1>4. PICK delivery : delivery = (CASE h.delivery # Keep -> h.delivery
                        [] h.delivery = Keep /\ courier # v.courier ->
                              IF courier THEN DeliveryFee ELSE 0
                        [] OTHER -> v.delivery)
    OBVIOUS
  <1>5. delivery \in Nat
    BY <1>4, BureauAssumptions DEF Views, HeaderShape
  <1>6. PICK docs : docs = IF urgency = v.urgency THEN v.docs
                      ELSE [d \in DOMAIN v.docs |->
                              RepriceForUrgency(v.docs[d], Computed(v.docs[d].line, v.urgency),
                                                Computed(v.docs[d].line, urgency))]
    OBVIOUS
  <1>7. UpdateOrder(v, h) = [client |-> Sent(h.client, v.client), urgency |-> urgency, courier |-> courier,
                             delivery |-> delivery, docs |-> docs]
    BY <1>1, <1>4, <1>6 DEF UpdateOrder
  <1>8. DOMAIN docs = DOMAIN v.docs
    BY <1>6
  <1>9. ASSUME NEW d \in DOMAIN v.docs
        PROVE  /\ docs[d] \in DocRows /\ docs[d].order = v.docs[d].order /\ docs[d].at <= setting
               /\ Fits(v.docs[d], v.urgency) => Fits(docs[d], urgency)
    <2>1. CASE urgency = v.urgency
      BY <1>3, <1>6, <2>1
    <2>2. CASE urgency # v.urgency
      <3>1. PICK row \in DocRows : row = v.docs[d] /\ row.at <= setting
        BY <1>3
      <3>2. docs[d] = RepriceForUrgency(row, Computed(row.line, v.urgency), Computed(row.line, urgency))
        BY <1>6, <2>2, <3>1
      <3> QED BY <1>2, <3>1, <3>2, RepricedFits
    <2> QED BY <2>1, <2>2
  <1>10. docs \in Lists
    <2>1. docs = [d \in DOMAIN docs |-> docs[d]]
      BY <1>2, <1>6 DEF Lists
    <2>2. docs \in [DOMAIN docs -> DocRows] /\ DOMAIN docs \in SUBSET Docs
      BY <1>2, <1>8, <1>9, <2>1 DEF Lists
    <2> QED BY <2>2 DEF Lists
  <1>11. UpdateOrder(v, h) \in Views
    BY <1>2, <1>5, <1>7, <1>10 DEF Views
  <1> QED
    BY <1>7, <1>8, <1>9, <1>11

LEMMA ChangeFits ==
    ASSUME Typed, NEW row \in DocRows, row.at <= setting, NEW ch \in ChangeShape, NEW urgency \in Urgencies
    PROVE  LET new == UpdateOrderDocument(row, ch, urgency)
           IN  /\ new \in DocRows /\ new.order = row.order /\ new.at <= setting
               /\ Fits(row, urgency) => Fits(new, urgency)
  <1>1. PICK line, by : line = Sent(ch.line, row.line) /\ by = Sent(ch.by, row.by)
    OBVIOUS
  <1>2. line \in Lines /\ by \in Translators \cup {None}
    BY <1>1 DEF Sent, ChangeShape, DocRows
  <1>3. PICK figures : figures = Computed(line, urgency)
    OBVIOUS
  <1>4. figures.price \in Nat /\ figures.cost \in Nat /\ figures.fee \in Nat
    BY <1>2, <1>3, FiguresAreNat
  <1>5. PICK otherwise : otherwise = IF ch.line # Keep THEN figures.cost ELSE row.cost
    OBVIOUS
  <1>6. otherwise \in Nat /\ TranslatorDefaultCost(by, line, otherwise) \in Nat
    <2>1. otherwise \in Nat
      BY <1>4, <1>5 DEF DocRows
    <2> QED BY <2>1, <1>2, DefaultCostIsNat
  <1>7. PICK price, cost, fee, at :
            /\ price = (CASE ch.price # Keep -> ch.price
                          [] ch.price = Keep /\ ch.line # Keep -> figures.price
                          [] OTHER -> row.price)
            /\ cost = IF ch.line # Keep \/ ch.by \notin {Keep, None}
                      THEN TranslatorDefaultCost(by, line, otherwise) ELSE row.cost
            /\ fee = IF ~line.notarised THEN 0 ELSE IF ch.line # Keep THEN figures.fee ELSE row.fee
            /\ at = (CASE ch.price # Keep -> 0
                       [] ch.price = Keep /\ ch.line # Keep -> setting
                       [] OTHER -> row.at)
    OBVIOUS
  <1>8. UpdateOrderDocument(row, ch, urgency) =
            [order |-> row.order, line |-> line, by |-> by, price |-> price, cost |-> cost, fee |-> fee, at |-> at]
    BY <1>1, <1>3, <1>5, <1>7 DEF UpdateOrderDocument
  <1>9. price \in Nat /\ cost \in Nat /\ fee \in Nat
    BY <1>4, <1>6, <1>7 DEF ChangeShape, DocRows
  <1>10. at \in Nat /\ at <= setting
    BY <1>7, SettingType DEF DocRows
  <1>11. ASSUME Fits(row, urgency), at = setting PROVE price = Computed(line, urgency).price
    <2>1. ch.price = Keep
      BY <1>7, <1>11, SettingType
    <2>2. CASE ch.line # Keep
      BY <1>3, <1>7, <2>1, <2>2
    <2>3. CASE ch.line = Keep
      BY <1>1, <1>7, <1>11, <2>1, <2>3 DEF Fits, Sent
    <2> QED BY <2>2, <2>3
  <1>12. PICK new : new = UpdateOrderDocument(row, ch, urgency)
    OBVIOUS
  <1>13. /\ new \in DocRows /\ new.order = row.order
         /\ new.line = line /\ new.price = price /\ new.at = at
    BY <1>2, <1>8, <1>9, <1>10, <1>12 DEF DocRows
  <1>14. Fits(row, urgency) => Fits(new, urgency)
    BY <1>10, <1>11, <1>13 DEF Fits
  <1> QED
    BY <1>10, <1>12, <1>13, <1>14

-----------------------------------------------------------------------------
(* The requests that read. *)

LEMMA MappedSeq ==
    ASSUME NEW S, NEW n \in Nat, NEW f \in [1..n -> S]
    PROVE  f \in Seq(S) /\ DOMAIN f = 1..n
  OBVIOUS

LEMMA DraftLists ==
    ASSUME Typed, NEW o \in Orders \cup {0}, NEW items \in Seq(ItemShape), NEW urgency \in Urgencies
    PROVE  /\ [i \in DOMAIN items |-> DocumentRow(o, items[i], urgency)] \in Seq(Drafts)
           /\ DraftsFit([i \in DOMAIN items |-> DocumentRow(o, items[i], urgency)], urgency)
  <1>1. \A i \in DOMAIN items : items[i] \in ItemShape
    OBVIOUS
  <1>2. \A i \in DOMAIN items : DocumentRow(o, items[i], urgency) \in Drafts
                                /\ Fits(DocumentRow(o, items[i], urgency), urgency)
    BY <1>1, DraftsOf
  <1>3. PICK f : f = [i \in DOMAIN items |-> DocumentRow(o, items[i], urgency)]
    OBVIOUS
  <1>4. DOMAIN items = 1..Len(items) /\ Len(items) \in Nat
    OBVIOUS
  <1>5. f \in [1..Len(items) -> Drafts]
    BY <1>2, <1>3, <1>4
  <1>6. f \in Seq(Drafts)
    BY <1>4, <1>5, MappedSeq
  <1>7. DraftsFit(f, urgency)
    BY <1>2, <1>3 DEF DraftsFit
  <1> QED
    BY <1>3, <1>6, <1>7

LEMMA CreateOrderKeeps ==
    ASSUME IInv, NEW c \in Clerks, NEW n \in NewOrders, CreateOrder(c, n.client, n.urgency, n.courier, n.items)
    PROVE  IInv'
  <1>1. n.client \in Clients /\ n.urgency \in Urgencies /\ n.courier \in BOOLEAN /\ n.items \in Seq(ItemShape)
    BY OrdersAssumptions
  <1>2. PICK lines : lines = [i \in DOMAIN n.items |-> DocumentRow(0, n.items[i], n.urgency)]
    OBVIOUS
  <1>3. lines \in Seq(Drafts) /\ DraftsFit(lines, n.urgency)
    BY <1>1, <1>2, DraftLists DEF IInv
  <1>4. PICK tx : tx = [op |-> "create", client |-> n.client, urgency |-> n.urgency, courier |-> n.courier,
                        lines |-> lines]
    OBVIOUS
  <1>5. tx \in Requests
    BY <1>1, <1>3, <1>4 DEF Requests, Creates
  <1>6. Relies(tx)
    BY <1>3, <1>4 DEF Relies
  <1>7. /\ desk' = [desk EXCEPT ![c] = tx] /\ tableVars' = tableVars /\ made' = made /\ mixed' = mixed
        /\ clock' = clock /\ tx.op # "numbered"
    BY <1>2, <1>4 DEF CreateOrder, Take
  <1> QED
    BY <1>5, <1>6, <1>7, TakeKeeps DEF IInv, Typed, RowsTyped

(* The number that is drawn is greater than any there is. *)
LEMMA NextIsFree ==
    ASSUME Typed
    PROVE  NextNumberOfTable \in Nat \ {0} /\ ~NumberTaken(NextNumberOfTable)
  <1> DEFINE T == {order[o].number : o \in Orders}
  <1>1. \A o \in Orders : order[o].number \in Nat
    BY DEF Typed, RowsTyped, OrderRows, NoOrder
  <1>2. IsFiniteSet(T)
    <2> DEFINE f == [o \in Orders |-> order[o].number]
    <2>1. f \in Surjection(Orders, T)
      BY DEF Surjection
    <2>2. IsFiniteSet(Orders)
      <3>1. MaxOrders \in Int /\ 1 \in Int
        BY BureauAssumptions
      <3> QED BY <3>1, FS_Interval DEF Orders
    <2> QED BY <2>1, <2>2, FS_Surjection
  <1>3. IsFiniteSet({0} \cup T)
    BY <1>2, FS_Singleton, FS_Union
  <1>4. ({0} \cup T) \in SUBSET Int /\ {0} \cup T # {}
    BY <1>1
  <1>5. Max({0} \cup T) \in {0} \cup T /\ \A y \in {0} \cup T : Max({0} \cup T) >= y
    BY <1>3, <1>4, MaxOfFinite
  <1>6. PICK m : m = HighestNumber
    OBVIOUS
  <1>7. m \in Nat /\ \A o \in Orders : m >= order[o].number
    BY <1>1, <1>5, <1>6 DEF HighestNumber
  <1> QED
    BY <1>1, <1>6, <1>7 DEF NextNumberOfTable, NumberTaken

LEMMA DrawNumberKeeps ==
    ASSUME IInv, NEW c \in Clerks, DrawNumber(c)
    PROVE  IInv'
  <1>1. PICK r, n : r = desk[c] /\ n = NextNumberOfTable
    OBVIOUS
  <1>2. r \in Creates /\ DraftsFit(r.lines, r.urgency)
    BY <1>1, RequestTypes DEF DrawNumber, IInv, Typed, Relies
  <1>3. n \in Nat \ {0} /\ ~NumberTaken(n)
    BY <1>1, NextIsFree DEF IInv
  <1>4. PICK tx : tx = [op |-> "numbered", request |-> r, number |-> n]
    OBVIOUS
  <1>5. tx \in Requests
    BY <1>2, <1>3, <1>4 DEF Requests, Draws
  <1>6. Relies(tx)
    BY <1>2, <1>3, <1>4 DEF Relies
  <1>7. /\ desk' = [desk EXCEPT ![c] = tx] /\ tableVars' = tableVars /\ made' = made /\ mixed' = mixed
        /\ clock' = clock /\ NumberLockFree
    BY <1>1, <1>4 DEF DrawNumber
  <1> QED
    BY <1>5, <1>6, <1>7, TakeKeeps DEF IInv, Typed, RowsTyped

LEMMA SaveOrderKeeps ==
    ASSUME IInv, NEW c \in Clerks, NEW o \in Orders, NEW h \in HeaderShape, NEW adds \in Seq(ItemShape),
           NEW changes, \A d \in DOMAIN changes : changes[d] \in ChangeShape, NEW gone,
           SaveOrder(c, o, h, adds, changes, gone)
    PROVE  IInv'
  <1>1. PICK v, w : v = View(o) /\ w = UpdateOrder(v, h)
    OBVIOUS
  <1>2. Exists(o) /\ (h.client \in {Keep, order[o].client} \/ ~HasClientPayments(o)) /\ gone \subseteq DOMAIN v.docs
    BY <1>1 DEF SaveOrder, HeaderAllowed, RemovalAllowed
  <1>3. /\ v \in Views
        /\ \A d \in DOMAIN v.docs : /\ d \in Docs /\ d <= made.doc /\ v.docs[d] = doc[d] /\ doc[d].order = o
                                    /\ v.docs[d].at <= setting
        /\ o \notin mixed => \A d \in DOMAIN v.docs : Fits(v.docs[d], v.urgency)
    BY <1>1, <1>2, ViewIsOne
  <1>4. /\ w \in Views /\ w.client = Sent(h.client, v.client) /\ DOMAIN w.docs = DOMAIN v.docs
        /\ \A d \in DOMAIN v.docs :
                /\ w.docs[d] \in DocRows /\ w.docs[d].order = v.docs[d].order /\ w.docs[d].at <= setting
                /\ Fits(v.docs[d], v.urgency) => Fits(w.docs[d], w.urgency)
    BY <1>1, <1>3, HeaderFits DEF IInv
  <1>5. w.urgency \in Urgencies
    BY <1>4 DEF Views
  <1>6. PICK docs : docs = [d \in DOMAIN v.docs |-> IF d \in DOMAIN changes
                                THEN UpdateOrderDocument(w.docs[d], changes[d], w.urgency)
                                ELSE w.docs[d]]
    OBVIOUS
  <1>7. ASSUME NEW d \in DOMAIN v.docs
        PROVE  /\ docs[d] \in DocRows /\ docs[d].order = o /\ docs[d].at <= setting
               /\ o \notin mixed => Fits(docs[d], w.urgency)
    <2>1. PICK row \in DocRows : row = w.docs[d] /\ row.order = o /\ row.at <= setting
                                 /\ (o \notin mixed => Fits(row, w.urgency))
      BY <1>3, <1>4
    <2>2. CASE d \in DOMAIN changes
      <3>1. PICK ch \in ChangeShape : ch = changes[d]
        BY <2>2
      <3>2. docs[d] = UpdateOrderDocument(row, ch, w.urgency)
        BY <1>6, <2>1, <2>2, <3>1
      <3> QED BY <1>5, <2>1, <3>2, ChangeFits DEF IInv
    <2>3. CASE d \notin DOMAIN changes
      BY <1>6, <2>1, <2>3
    <2> QED BY <2>2, <2>3
  <1>8. docs \in Lists /\ DOMAIN docs = DOMAIN v.docs
    <2>1. docs \in [DOMAIN v.docs -> DocRows]
      BY <1>6, <1>7
    <2> QED BY <1>3, <2>1 DEF Lists
  <1>9. PICK new : new = [w EXCEPT !.docs = docs]
    OBVIOUS
  <1>10. new \in Views /\ new.client = w.client /\ new.urgency = w.urgency /\ new.docs = docs
    BY <1>4, <1>8, <1>9 DEF Views
  <1>11. PICK drafts : drafts = [i \in DOMAIN adds |-> DocumentRow(o, adds[i], w.urgency)]
    OBVIOUS
  <1>12. drafts \in Seq(Drafts) /\ DraftsFit(drafts, w.urgency)
    BY <1>5, <1>11, DraftLists DEF IInv
  <1>13. PICK tx : tx = [op |-> "edit", order |-> o, base |-> v, new |-> new, adds |-> drafts, gone |-> gone]
    OBVIOUS
  <1>14. tx \in Requests
    <2>1. gone \in SUBSET Docs
      BY <1>2, <1>3
    <2> QED BY <1>3, <1>10, <1>12, <1>13, <2>1 DEF Requests, Edits
  <1>15. EditRows(tx)
    <2>1. o <= made.order
      BY <1>2 DEF IInv, Tables, RowsMade, Exists, Typed, RowsTyped, Orders
    <2> QED BY <1>2, <1>3, <1>7, <1>8, <1>10, <1>12, <1>13, <2>1 DEF EditRows
  <1>16. o \notin mixed => EditAlone(tx)
    <2>1. v.client = order[o].client
      BY <1>1 DEF View
    <2>2. new.client = v.client \/ ~HasClientPayments(o)
      BY <1>2, <1>4, <1>10, <2>1 DEF Sent
    <2> QED BY <1>1, <1>2, <1>7, <1>8, <1>10, <1>13, <2>2 DEF EditAlone
  <1>17. Relies(tx)
    BY <1>13, <1>15, <1>16 DEF Relies
  <1>18. /\ desk' = [desk EXCEPT ![c] = tx] /\ tableVars' = tableVars /\ made' = made /\ mixed' = mixed
         /\ clock' = clock /\ tx.op # "numbered"
    BY <1>1, <1>6, <1>9, <1>11, <1>13 DEF SaveOrder, Take
  <1> QED
    BY <1>14, <1>17, <1>18, TakeKeeps DEF IInv, Typed, RowsTyped

LEMMA EditOrderKeeps ==
    ASSUME IInv, NEW c \in Clerks, NEW o \in Orders, EditOrder(c, o)
    PROVE  IInv'
  <1>1. NoHeader \in HeaderShape /\ Headers \subseteq HeaderShape /\ Items \subseteq ItemShape /\ Changes \subseteq ChangeShape
    BY OrdersAssumptions DEF NoHeader, HeaderShape
  <1>2. <<>> \in Seq(ItemShape) /\ \A item \in ItemShape : <<item>> \in Seq(ItemShape)
    OBVIOUS
  <1>3. DOMAIN NoChange = {}
    BY DEF NoChange
  <1>4. ASSUME NEW h \in Headers, SaveOrder(c, o, h, <<>>, NoChange, {}) PROVE IInv'
    BY <1>1, <1>2, <1>3, <1>4, SaveOrderKeeps
  <1>5. ASSUME NEW item \in Items, SaveOrder(c, o, NoHeader, <<item>>, NoChange, {}) PROVE IInv'
    BY <1>1, <1>2, <1>3, <1>5, SaveOrderKeeps
  <1>6. ASSUME NEW d \in DocsOf(o), NEW ch \in Changes, SaveOrder(c, o, NoHeader, <<>>, [x \in {d} |-> ch], {}) PROVE IInv'
    <2>1. PICK changes : changes = [x \in {d} |-> ch]
      OBVIOUS
    <2>2. \A x \in DOMAIN changes : changes[x] \in ChangeShape
      BY <1>1, <2>1
    <2>3. SaveOrder(c, o, NoHeader, <<>>, changes, {})
      BY <1>6, <2>1
    <2> QED BY <1>1, <1>2, <2>2, <2>3, SaveOrderKeeps
  <1>7. ASSUME NEW d \in DocsOf(o), SaveOrder(c, o, NoHeader, <<>>, NoChange, {d}) PROVE IInv'
    BY <1>1, <1>2, <1>3, <1>7, SaveOrderKeeps
  <1>8. ASSUME NEW h \in Headers, NEW item \in Items, NEW d \in DocsOf(o), SaveOrder(c, o, h, <<item>>, NoChange, {d})
        PROVE  IInv'
    BY <1>1, <1>2, <1>3, <1>8, SaveOrderKeeps
  <1> QED
    BY <1>4, <1>5, <1>6, <1>7, <1>8 DEF EditOrder

LEMMA ChangeStatusKeeps ==
    ASSUME IInv, NEW c \in Clerks, NEW o \in Orders, NEW value \in SelectableStatuses, ChangeStatus(c, o, value)
    PROVE  IInv'
  <1>1. PICK tx : tx = [op |-> "status", order |-> o, event |-> <<clock + 1, value>>]
    OBVIOUS
  <1>2. clock \in Nat /\ value \in Values
    BY DEF IInv, Typed, RowsTyped, Values
  <1>3. tx \in Requests
    BY <1>1, <1>2 DEF Requests, Moves
  <1>4. Relies(tx)
    BY <1>1 DEF Relies
  <1>5. /\ desk' = [desk EXCEPT ![c] = tx] /\ tableVars' = tableVars /\ made' = made /\ mixed' = mixed
        /\ clock' = clock + 1 /\ tx.op # "numbered"
    BY <1>1 DEF ChangeStatus, Take
  <1>6. clock' \in Nat
    BY <1>2, <1>5
  <1> QED
    BY <1>3, <1>4, <1>5, <1>6, TakeKeeps

LEMMA DeleteOrderKeeps ==
    ASSUME IInv, NEW c \in Clerks, NEW o \in Orders, DeleteOrder(c, o)
    PROVE  IInv'
  <1>1. PICK tx : tx = [op |-> "remove", order |-> o]
    OBVIOUS
  <1>2. tx \in Requests
    BY <1>1 DEF Requests, Removes
  <1>3. Relies(tx)
    BY <1>1 DEF Relies, DeleteOrder, HasMoney
  <1>4. /\ desk' = [desk EXCEPT ![c] = tx] /\ tableVars' = tableVars /\ made' = made /\ mixed' = mixed
        /\ clock' = clock /\ tx.op # "numbered"
    BY <1>1 DEF DeleteOrder, Take
  <1> QED
    BY <1>2, <1>3, <1>4, TakeKeeps DEF IInv, Typed, RowsTyped

LEMMA RecordPaymentKeeps ==
    ASSUME IInv, NEW c \in Clerks, NEW k \in Forms, RecordPayment(c, k)
    PROVE  IInv'
  <1>1. PICK tx : tx = [op |-> "pay", form |-> k]
    OBVIOUS
  <1>2. tx \in Requests
    BY <1>1 DEF Requests, Pays
  <1>3. Form[k].ledger = "client" => CheckClientAllocations(k)
    BY DEF RecordPayment, Checked
  <1>4. Relies(tx)
    BY <1>1, <1>3 DEF Relies, CheckClientAllocations, LiveOrders
  <1>5. /\ desk' = [desk EXCEPT ![c] = tx] /\ tableVars' = tableVars /\ made' = made /\ mixed' = mixed
        /\ clock' = clock /\ tx.op # "numbered"
    BY <1>1 DEF RecordPayment, Take
  <1> QED
    BY <1>2, <1>4, <1>5, TakeKeeps DEF IInv, Typed, RowsTyped

LEMMA DeletePaymentKeeps ==
    ASSUME IInv, NEW c \in Clerks, NEW k \in Forms, DeletePayment(c, k)
    PROVE  IInv'
  <1>1. PICK tx : tx = [op |-> "undo", form |-> k]
    OBVIOUS
  <1>2. tx \in Requests
    BY <1>1 DEF Requests, Undos
  <1>3. Relies(tx)
    BY <1>1 DEF Relies, DeletePayment
  <1>4. /\ desk' = [desk EXCEPT ![c] = tx] /\ tableVars' = tableVars /\ made' = made /\ mixed' = mixed
        /\ clock' = clock /\ tx.op # "numbered"
    BY <1>1 DEF DeletePayment, Take
  <1> QED
    BY <1>2, <1>3, <1>4, TakeKeeps DEF IInv, Typed, RowsTyped

LEMMA ExpenseKeeps ==
    ASSUME IInv, NEW c \in Clerks, NEW e \in Expenses,
           (\E o \in Orders : CreateExpense(c, e, o)) \/ DeleteExpense(c, e)
    PROVE  IInv'
  <1>1. PICK o \in Orders, keep \in BOOLEAN :
            /\ desk' = [desk EXCEPT ![c] = [op |-> "expense", row |-> e, order |-> o, keep |-> keep]]
            /\ tableVars' = tableVars /\ made' = made /\ mixed' = mixed /\ clock' = clock
    BY DEF CreateExpense, DeleteExpense, Take, IInv, Typed, RowsTyped
  <1>2. PICK tx : tx = [op |-> "expense", row |-> e, order |-> o, keep |-> keep]
    OBVIOUS
  <1>3. tx \in Requests
    BY <1>2 DEF Requests, Charges
  <1>4. Relies(tx) /\ tx.op # "numbered"
    BY <1>2 DEF Relies
  <1>5. desk' = [desk EXCEPT ![c] = tx] /\ clock' \in Nat
    BY <1>1, <1>2 DEF IInv, Typed, RowsTyped
  <1> QED
    BY <1>1, <1>3, <1>4, <1>5, TakeKeeps

-----------------------------------------------------------------------------
(* The requests that write. *)

LEMMA MadeType ==
    ASSUME Typed
    PROVE  made.order \in Nat /\ made.doc \in Nat
  BY DEF Typed, RowsTyped

(* Where rows of orders and documents stay, so does what is said of them. *)
LEMMA LedgersStay ==
    ASSUME IInv, rows' = rows, fronted' = fronted
    PROVE  /\ FrontedPaid'
           /\ \A o : HasClientPayments(o)' <=> HasClientPayments(o)
           /\ \A k : PaidThrough(k)' <=> PaidThrough(k)
  BY DEF IInv, Tables, FrontedPaid, HasClientPayments, Recorded, PaidThrough

LEMMA WriteStatusKeeps ==
    ASSUME IInv, NEW c \in Clerks, WriteStatus(c)
    PROVE  IInv'
  <1>1. CASE Refused(c)
    BY <1>1, RefusedKeeps
  <1>2. CASE ~Refused(c)
    <2>1. PICK r \in Moves : r = desk[c]
      BY RequestTypes DEF IInv, Typed, WriteStatus
    <2>2. /\ status' = [status EXCEPT ![r.order] = IF status[r.order][1] < r.event[1] THEN r.event ELSE status[r.order]]
          /\ Leave(c) /\ Exists(r.order) /\ order' = order /\ doc' = doc /\ rows' = rows /\ fronted' = fronted
          /\ expense' = expense /\ setting' = setting /\ made' = made /\ clock' = clock
      BY <1>2, <2>1 DEF WriteStatus
    <2>3. r.order \in Orders /\ r.event \in Nat \X Values
      BY <2>1 DEF Moves
    <2>4. RowsTyped'
      BY <2>2, <2>3 DEF IInv, Typed, RowsTyped
    <2>5. mixed \subseteq mixed'
      BY <2>2 DEF Leave
    <2>6. RowsMade'
      <3>1. ASSUME NEW o \in Orders, Exists(o) PROVE status'[o][2] # "none"
        <4>1. "none" \notin Values
          BY DEF Values, SelectableStatuses, ExcludedFromAggregates
        <4>2. status[o][2] # "none"
          BY <3>1 DEF IInv, Tables, RowsMade, StatusNow
        <4>3. status'[o] = IF o = r.order /\ status[o][1] < r.event[1] THEN r.event ELSE status[o]
          BY <2>2, <2>3 DEF IInv, Typed, RowsTyped
        <4> QED BY <4>1, <4>2, <4>3, <2>3
      <3> QED BY <2>2, <3>1 DEF IInv, Tables, RowsMade, Exists, StatusNow
    <2>7. DocsPriced' /\ FrontedPaid' /\ OneRowPerForm' /\ MoneyStaysWithItsClient'
      BY <2>2, <2>5, FitsStays
      DEF IInv, Tables, DocsPriced, FrontedPaid, OneRowPerForm, MoneyStaysWithItsClient, Exists
    <2>8. PICK T : T = Touches(desk[c])
      OBVIOUS
    <2>9. Around(T)
      BY <2>2, MadeType, LedgersStay DEF Around, HasExpenses, IInv, Typed, RowsTyped, Tables, RowsMade
    <2>10. \A n \in Nat \ {0} : NumberTaken(n)' => NumberTaken(n)
      BY <2>2 DEF NumberTaken
    <2> QED BY <2>2, <2>4, <2>6, <2>7, <2>8, <2>9, <2>10, LeaveKeeps DEF Tables
  <1> QED
    BY <1>1, <1>2

LEMMA WriteExpenseKeeps ==
    ASSUME IInv, NEW c \in Clerks, WriteExpense(c)
    PROVE  IInv'
  <1>1. CASE Refused(c)
    BY <1>1, RefusedKeeps
  <1>2. CASE ~Refused(c)
    <2>1. PICK r \in Charges : r = desk[c]
      BY RequestTypes DEF IInv, Typed, WriteExpense
    <2>2. /\ expense' = [expense EXCEPT ![r.row] = IF r.keep THEN r.order ELSE 0]
          /\ Leave(c) /\ order' = order /\ doc' = doc /\ rows' = rows /\ fronted' = fronted
          /\ status' = status /\ setting' = setting /\ made' = made /\ clock' = clock
      BY <1>2, <2>1 DEF WriteExpense
    <2>3. r.order \in Orders /\ r.row \in Expenses
      BY <2>1 DEF Charges
    <2>4. RowsTyped'
      BY <2>2, <2>3 DEF IInv, Typed, RowsTyped
    <2>5. mixed \subseteq mixed'
      BY <2>2 DEF Leave
    <2>6. RowsMade' /\ DocsPriced' /\ FrontedPaid' /\ OneRowPerForm' /\ MoneyStaysWithItsClient'
      BY <2>2, <2>5, FitsStays
      DEF IInv, Tables, RowsMade, DocsPriced, FrontedPaid, OneRowPerForm, MoneyStaysWithItsClient, Exists, StatusNow
    <2>7. Touches(desk[c]) = {r.order}
      <3>1. r \in Requests /\ r.op = "expense"
        BY <2>1 DEF Requests, Charges
      <3> QED BY <2>1, <3>1, TouchesWhat
    <2>8. PICK T : T = Touches(desk[c]) /\ T = {r.order}
      BY <2>7
    <2>9. \A o \in Orders \ T : HasExpenses(o)' => HasExpenses(o)
      <3>1. ASSUME NEW o \in Orders \ T, NEW e \in Expenses, expense'[e] = o PROVE expense[e] = o
        BY <2>2, <2>3, <2>8, <3>1 DEF IInv, Typed, RowsTyped, Orders
      <3> QED BY <3>1 DEF HasExpenses
    <2>10. Around(T)
      BY <2>2, <2>9, MadeType, LedgersStay DEF Around, IInv, Typed, RowsTyped, Tables, RowsMade
    <2>11. \A n \in Nat \ {0} : NumberTaken(n)' => NumberTaken(n)
      BY <2>2 DEF NumberTaken
    <2> QED BY <2>2, <2>4, <2>6, <2>8, <2>10, <2>11, LeaveKeeps DEF Tables
  <1> QED
    BY <1>1, <1>2

(* A ledger row is written: its allocations point at what is there. *)
LEMMA InsertPaymentKeeps ==
    ASSUME IInv, NEW c \in Clerks, InsertPayment(c)
    PROVE  IInv'
  <1>1. CASE Refused(c)
    BY <1>1, RefusedKeeps
  <1>2. CASE ~Refused(c)
    <2>1. PICK r \in Pays : r = desk[c]
      BY RequestTypes DEF IInv, Typed, InsertPayment
    <2>2. PICK k \in Forms : k = r.form
      BY DEF Pays
    <2>3. /\ rows[k] = 0 => ReferencesHold(k)
          /\ rows' = [rows EXCEPT ![k] = IF rows[k] > 0 THEN rows[k] ELSE 1]
          /\ fronted' = IF rows[k] = 0 /\ Form[k].via # None THEN fronted \cup {k} ELSE fronted
          /\ Leave(c) /\ order' = order /\ doc' = doc /\ expense' = expense
          /\ status' = status /\ setting' = setting /\ made' = made /\ clock' = clock
      BY <1>2, <2>1, <2>2 DEF InsertPayment, InsertOnce
    <2>4. /\ rows[k] <= 1 /\ rows[k] \in Nat /\ rows'[k] = 1
          /\ rows' \in [Forms -> Nat] /\ \A j \in Forms \ {k} : rows'[j] = rows[j]
      BY <2>3 DEF IInv, Tables, OneRowPerForm, Typed, RowsTyped
    <2>5. rows[k] = 0 => \A x \in DOMAIN Form[k].alloc :
              IF Form[k].ledger = "notary" THEN doc[x] # NoDoc ELSE Exists(x)
      BY <2>3 DEF ReferencesHold
    <2>6. mixed \subseteq mixed'
      BY <2>3 DEF Leave
    <2>7. r \in Requests /\ r.op = "pay" /\ r.form = k
      BY <2>1, <2>2 DEF Requests, Pays
    <2>8. PICK T : /\ T = Touches(desk[c])
                   /\ Form[k].via # None => Form[k].via \in T
                   /\ Form[k].ledger # "notary" => DOMAIN Form[k].alloc \subseteq T
      BY <2>1, <2>7, TouchesWhat
    <2>9. RowsTyped'
      <3>1. fronted' \subseteq FormsOf("notary")
        BY <2>3, BureauAssumptions DEF IInv, Typed, RowsTyped, FormsOf
      <3> QED BY <2>3, <2>4, <3>1 DEF IInv, Typed, RowsTyped
    <2>10. FrontedPaid'
      <3>1. \A n \in fronted : n \in Forms /\ rows[n] > 0
        BY DEF IInv, Tables, FrontedPaid, Typed, RowsTyped, FormsOf
      <3> QED BY <2>3, <2>4, <3>1 DEF FrontedPaid
    <2>11. OneRowPerForm'
      <3>1. ASSUME NEW j \in Forms
            PROVE  /\ rows'[j] <= 1
                   /\ rows'[j] = 1 => \A x \in DOMAIN Form[j].alloc :
                        IF Form[j].ledger = "notary" THEN doc[x] # NoDoc ELSE Exists(x)
        <4>1. CASE j = k
          BY <2>4, <2>5, <4>1 DEF IInv, Tables, OneRowPerForm
        <4>2. CASE j # k
          BY <2>4, <4>2 DEF IInv, Tables, OneRowPerForm
        <4> QED BY <4>1, <4>2
      <3> QED BY <2>3, <3>1 DEF OneRowPerForm, Exists
    <2>12. MoneyStaysWithItsClient'
      <3>1. ASSUME NEW j \in FormsOf("client"), rows'[j] > 0, NEW o \in DOMAIN Form[j].alloc \ mixed'
            PROVE  order[o].client = Form[j].who
        <4>1. o \notin mixed /\ j \in Forms /\ Form[j].ledger = "client"
          BY <2>6, <3>1 DEF FormsOf
        <4>2. CASE j = k
          <5>1. Relies(r)
            BY <2>1 DEF IInv
          <5> QED BY <2>7, <4>1, <4>2, <5>1 DEF Relies
        <4>3. CASE j # k
          BY <2>4, <3>1, <4>1, <4>3 DEF IInv, Tables, MoneyStaysWithItsClient
        <4> QED BY <4>2, <4>3
      <3> QED BY <2>3, <3>1 DEF MoneyStaysWithItsClient
    <2>13. RowsMade' /\ DocsPriced'
      BY <2>3, <2>6, FitsStays DEF IInv, Tables, RowsMade, DocsPriced, Exists, StatusNow
    <2>14. ASSUME NEW o \in Orders \ T, HasClientPayments(o)' PROVE HasClientPayments(o)
      <3>1. PICK j \in FormsOf("client") : rows'[j] > 0 /\ o \in DOMAIN Form[j].alloc
        BY <2>14 DEF HasClientPayments, Recorded
      <3>2. j # k
        BY <2>8, <2>14, <3>1 DEF FormsOf
      <3>3. rows[j] > 0
        BY <2>4, <3>1, <3>2 DEF FormsOf
      <3> QED BY <3>1, <3>3 DEF HasClientPayments, Recorded
    <2>15. ASSUME NEW q \in Forms \ T, PaidThrough(q)' PROVE PaidThrough(q)
      <3>1. PICK n \in fronted' : Form[n].via = q /\ rows'[n] > 0
        BY <2>15 DEF PaidThrough
      <3>2. q # None
        BY BureauAssumptions
      <3>3. n # k /\ n \in fronted /\ n \in Forms
        BY <2>3, <2>8, <2>15, <3>1, <3>2 DEF IInv, Typed, RowsTyped, FormsOf
      <3> QED BY <2>4, <3>1, <3>3 DEF PaidThrough
    <2>16. Around(T)
      BY <2>3, <2>14, <2>15, MadeType DEF Around, HasExpenses, IInv, Typed, RowsTyped, Tables, RowsMade
    <2>17. \A n \in Nat \ {0} : NumberTaken(n)' => NumberTaken(n)
      BY <2>3 DEF NumberTaken
    <2> QED BY <2>3, <2>8, <2>9, <2>10, <2>11, <2>12, <2>13, <2>16, <2>17, LeaveKeeps DEF Tables
  <1> QED
    BY <1>1, <1>2

LEMMA RemovePaymentKeeps ==
    ASSUME IInv, NEW c \in Clerks, RemovePayment(c)
    PROVE  IInv'
  <1>1. PICK k \in Forms : k = desk[c].form
    BY RequestTypes DEF IInv, Typed, RemovePayment, Undos
  <1>2. /\ rows' = [rows EXCEPT ![k] = 0]
        /\ fronted' = {n \in fronted : n # k /\ Form[n].via # k}
        /\ Leave(c) /\ order' = order /\ doc' = doc /\ expense' = expense
        /\ status' = status /\ setting' = setting /\ made' = made /\ clock' = clock
    BY <1>1 DEF RemovePayment
  <1>3. rows' \in [Forms -> Nat] /\ rows'[k] = 0 /\ \A j \in Forms \ {k} : rows'[j] = rows[j]
    BY <1>2 DEF IInv, Typed, RowsTyped
  <1>4. mixed \subseteq mixed'
    BY <1>2 DEF Leave
  <1>5. RowsTyped'
    BY <1>2, <1>3 DEF IInv, Typed, RowsTyped
  <1>6. \A n \in fronted : n \in Forms /\ rows[n] > 0
    BY DEF IInv, Tables, FrontedPaid, Typed, RowsTyped, FormsOf
  <1>7. FrontedPaid'
    BY <1>2, <1>3, <1>6 DEF FrontedPaid
  <1>8. \A j \in Forms : rows'[j] > 0 => rows[j] > 0 /\ rows'[j] = rows[j]
    BY <1>3
  <1>9. OneRowPerForm'
    BY <1>2, <1>3 DEF IInv, Tables, OneRowPerForm, Exists
  <1>10. MoneyStaysWithItsClient'
    BY <1>2, <1>4, <1>8 DEF IInv, Tables, MoneyStaysWithItsClient, FormsOf
  <1>11. RowsMade' /\ DocsPriced'
    BY <1>2, <1>4, FitsStays DEF IInv, Tables, RowsMade, DocsPriced, Exists, StatusNow
  <1>12. PICK T : T = Touches(desk[c])
    OBVIOUS
  <1>13. Around(T)
    <2>1. \A o : HasClientPayments(o)' => HasClientPayments(o)
      BY <1>8 DEF HasClientPayments, Recorded, FormsOf
    <2>2. \A q : PaidThrough(q)' => PaidThrough(q)
      BY <1>2, <1>6, <1>8 DEF PaidThrough
    <2> QED BY <1>2, <2>1, <2>2, MadeType DEF Around, HasExpenses, IInv, Typed, RowsTyped, Tables, RowsMade
  <1>14. \A n \in Nat \ {0} : NumberTaken(n)' => NumberTaken(n)
    BY <1>2 DEF NumberTaken
  <1> QED
    BY <1>2, <1>5, <1>7, <1>9, <1>10, <1>11, <1>12, <1>13, <1>14, LeaveKeeps DEF Tables

-----------------------------------------------------------------------------
(* Other settings: nothing there is was priced under them. *)

LEMMA OutOfDate ==
    ASSUME Typed, setting' = setting + 1, NEW row, row.at \in Nat, row.at <= setting
    PROVE  \A urgency : Fits(row, urgency)'
  BY SettingType DEF Fits

LEMMA ChangeSettingsKeeps ==
    ASSUME IInv, ChangeSettings
    PROVE  IInv'
  <1>1. /\ setting < Len(Settings) /\ setting' = setting + 1 /\ order' = order /\ doc' = doc /\ status' = status
        /\ rows' = rows /\ fronted' = fronted /\ expense' = expense /\ desk' = desk /\ made' = made
        /\ clock' = clock /\ mixed' = mixed
    BY DEF ChangeSettings
  <1>2. setting' \in DOMAIN Settings
    <2>1. Settings \in Seq(SettingShape) /\ setting \in DOMAIN Settings
      BY BureauAssumptions DEF IInv, Typed, RowsTyped
    <2> QED BY <1>1, <2>1
  <1>3. Typed'
    BY <1>1, <1>2 DEF IInv, Typed, RowsTyped
  <1>4. DocsPriced'
    <2>1. ASSUME NEW d \in Docs, doc[d] # NoDoc
          PROVE  doc[d].at <= setting' /\ \A urgency : Fits(doc[d], urgency)'
      <3>1. PICK row \in DocRows : row = doc[d]
        BY <2>1 DEF IInv, Typed, RowsTyped
      <3>2. row.at \in Nat /\ row.at <= setting
        BY <2>1, <3>1 DEF DocRows, IInv, Tables, DocsPriced
      <3>3. \A urgency : Fits(row, urgency)'
        BY <1>1, <3>2, OutOfDate DEF IInv
      <3>4. row.at <= setting'
        BY <1>1, <3>2, SettingType DEF IInv
      <3> QED BY <1>1, <3>1, <3>3, <3>4 DEF Fits
    <2> QED BY <1>1, <2>1 DEF DocsPriced
  <1>5. Tables'
    BY <1>1, <1>4 DEF IInv, Tables, RowsMade, FrontedPaid, OneRowPerForm, MoneyStaysWithItsClient, Exists, StatusNow
  <1>6. OneDraws'
    BY <1>1 DEF IInv, OneDraws
  <1>7. ASSUME NEW tx \in Requests, Relies(tx) PROVE Relies(tx)'
    <2>1. ASSUME NEW lines \in Seq(Drafts), NEW urgency, DraftsFit(lines, urgency) PROVE DraftsFit(lines, urgency)'
      <3>1. ASSUME NEW i \in DOMAIN lines PROVE Fits(lines[i], urgency)'
        <4>1. PICK row \in Drafts : row = lines[i]
          BY <3>1
        <4>2. row.at \in Nat /\ row.at <= setting
          BY <2>1, <4>1 DEF Drafts, DraftsFit, Fits
        <4>3. Fits(row, urgency)'
          BY <1>1, <4>2, OutOfDate DEF IInv
        <4> QED BY <4>1, <4>3
      <3> QED BY <3>1 DEF DraftsFit
    <2>2. tx.op = "create" => DraftsFit(tx.lines, tx.urgency)'
      BY <1>7, <2>1, RequestTypes DEF Relies, Creates
    <2>3. tx.op = "numbered" => DraftsFit(tx.request.lines, tx.request.urgency)' /\ ~NumberTaken(tx.number)'
      BY <1>1, <1>7, <2>1, RequestTypes DEF Relies, Draws, Creates, NumberTaken
    <2>4. ASSUME tx.op = "edit" PROVE EditRows(tx)' /\ (tx.order \notin mixed' => EditAlone(tx)')
      <3>1. tx \in Edits /\ EditRows(tx) /\ (tx.order \notin mixed => EditAlone(tx))
        BY <1>7, <2>4, RequestTypes DEF Relies
      <3>2. DraftsFit(tx.adds, tx.new.urgency)'
        BY <2>1, <3>1 DEF Edits, EditRows
      <3>3. ASSUME NEW d \in DOMAIN tx.base.docs
            PROVE  /\ tx.base.docs[d].at <= setting' /\ tx.new.docs[d].at <= setting'
                   /\ Fits(tx.new.docs[d], tx.new.urgency)'
        <4>1. PICK row \in DocRows, now \in DocRows : row = tx.base.docs[d] /\ now = tx.new.docs[d]
          BY <3>1 DEF Edits, Views, Lists, EditRows
        <4>2. row.at \in Nat /\ row.at <= setting /\ now.at \in Nat /\ now.at <= setting
          BY <3>1, <4>1 DEF DocRows, EditRows
        <4>3. Fits(now, tx.new.urgency)'
          BY <1>1, <4>2, OutOfDate DEF IInv
        <4>4. row.at <= setting' /\ now.at <= setting'
          BY <1>1, <4>2, SettingType DEF IInv
        <4> QED BY <4>1, <4>3, <4>4
      <3>4. EditRows(tx)'
        BY <1>1, <3>1, <3>2, <3>3 DEF EditRows
      <3>5. View(tx.order)' = View(tx.order)
        BY <1>1 DEF View, DocsOf
      <3> QED BY <1>1, <3>1, <3>3, <3>4, <3>5 DEF EditAlone, EditRows, Exists, HasClientPayments, Recorded
    <2> QED
      BY <1>1, <1>7, <2>2, <2>3, <2>4 DEF Relies, HasExpenses, PaidThrough, Exists
  <1>8. ASSUME NEW b \in Clerks PROVE Relies(desk[b])'
    <2>1. PICK tx \in Requests : tx = desk[b] /\ Relies(tx)
      BY DEF IInv, Typed
    <2>2. Relies(tx)'
      BY <1>7, <2>1
    <2> QED BY <1>1, <2>1, <2>2
  <1> QED
    BY <1>3, <1>5, <1>6, <1>8 DEF IInv

(* Deleting an order: nothing was paid on it. *)
LEMMA RemoveOrderKeeps ==
    ASSUME IInv, NEW c \in Clerks, RemoveOrder(c)
    PROVE  IInv'
  <1>1. CASE Refused(c)
    BY <1>1, RefusedKeeps
  <1>2. CASE ~Refused(c)
    <2>1. PICK o \in Orders : o = desk[c].order
      BY RequestTypes DEF IInv, Typed, RemoveOrder, Removes
    <2>2. /\ ~HasClientPayments(o) /\ ~HasTranslatorPayouts(o) /\ \A d \in DocsOf(o) : ~HasNotaryPayments(d)
          /\ order' = [order EXCEPT ![o] = NoOrder]
          /\ doc' = [d \in Docs |-> IF doc[d].order = o THEN NoDoc ELSE doc[d]]
          /\ status' = [status EXCEPT ![o] = <<0, "none">>]
          /\ expense' = [e \in Expenses |-> IF expense[e] = o THEN 0 ELSE expense[e]]
          /\ Leave(c) /\ rows' = rows /\ fronted' = fronted /\ setting' = setting /\ made' = made /\ clock' = clock
      BY <1>2, <2>1 DEF RemoveOrder
    <2>3. RowsTyped'
      BY <2>2 DEF IInv, Typed, RowsTyped
    <2>4. mixed \subseteq mixed'
      BY <2>2 DEF Leave
    <2>5. order'[o] = NoOrder /\ \A u \in Orders \ {o} : order'[u] = order[u] /\ status'[u] = status[u]
      BY <2>2 DEF IInv, Typed, RowsTyped
    <2>6. \A d \in Docs : doc'[d] = IF doc[d].order = o THEN NoDoc ELSE doc[d]
      BY <2>2
    <2>7. RowsMade'
      <3>1. \A u \in Orders : u > made.order => order'[u] = NoOrder
        BY <2>5 DEF IInv, Tables, RowsMade
      <3>2. \A d \in Docs : d > made.doc => doc'[d] = NoDoc
        BY <2>6 DEF IInv, Tables, RowsMade
      <3>3. ASSUME NEW d \in Docs, doc'[d] # NoDoc PROVE order'[doc'[d].order] # NoOrder
        <4>1. doc'[d] = doc[d] /\ doc[d].order # o /\ doc[d].order \in Orders
          BY <2>6, <3>3 DEF IInv, Typed, RowsTyped, DocRows
        <4> QED BY <2>5, <3>3, <4>1 DEF IInv, Tables, RowsMade, Exists
      <3>4. ASSUME NEW u \in Orders, order'[u] # NoOrder PROVE status'[u][2] # "none"
        BY <2>5, <3>4 DEF IInv, Tables, RowsMade, Exists, StatusNow
      <3> QED BY <2>2, <3>1, <3>2, <3>3, <3>4 DEF RowsMade, Exists, StatusNow
    <2>8. DocsPriced'
      <3>1. ASSUME NEW d \in Docs, doc'[d] # NoDoc
            PROVE  /\ doc'[d].at <= setting
                   /\ doc'[d].order \notin mixed' => Fits(doc'[d], order'[doc'[d].order].urgency)
        <4>1. doc'[d] = doc[d] /\ doc[d].order \in Orders \ {o}
          BY <2>6, <3>1 DEF IInv, Typed, RowsTyped, DocRows
        <4>2. order'[doc[d].order] = order[doc[d].order]
          BY <2>5, <4>1
        <4> QED BY <2>4, <3>1, <4>1, <4>2 DEF IInv, Tables, DocsPriced
      <3> QED BY <2>2, <3>1, FitsStays DEF DocsPriced, Fits, Computed
    <2>9. OneRowPerForm'
      <3>1. ASSUME NEW k \in Forms, rows[k] = 1, NEW x \in DOMAIN Form[k].alloc
            PROVE  IF Form[k].ledger = "notary" THEN doc'[x] # NoDoc ELSE order'[x] # NoOrder
        <4>1. IF Form[k].ledger = "notary" THEN doc[x] # NoDoc ELSE Exists(x)
          BY <3>1 DEF IInv, Tables, OneRowPerForm
        <4>2. CASE Form[k].ledger = "notary"
          <5>1. x \in Docs
            BY <4>2, BureauAssumptions
          <5>2. HasNotaryPayments(x)
            BY <3>1, <4>2 DEF HasNotaryPayments, Recorded, FormsOf
          <5>3. x \notin DocsOf(o)
            BY <2>2, <5>2
          <5> QED BY <2>6, <4>1, <4>2, <5>1, <5>3 DEF DocsOf
        <4>3. CASE Form[k].ledger # "notary"
          <5>1. x \in Orders /\ Form[k].ledger \in {"client", "translator"}
            BY <4>3, BureauAssumptions DEF Ledgers
          <5>2. x # o
            BY <2>2, <3>1, <5>1 DEF HasClientPayments, HasTranslatorPayouts, Recorded, FormsOf
          <5> QED BY <2>5, <4>1, <4>3, <5>1, <5>2 DEF Exists
        <4> QED BY <4>2, <4>3
      <3> QED BY <2>2, <3>1 DEF IInv, Tables, OneRowPerForm, Exists
    <2>10. MoneyStaysWithItsClient'
      <3>1. ASSUME NEW k \in FormsOf("client"), rows[k] > 0, NEW u \in DOMAIN Form[k].alloc \ mixed'
            PROVE  order'[u].client = Form[k].who
        <4>1. u # o
          BY <2>2, <3>1 DEF HasClientPayments, Recorded
        <4>2. u \in Orders
          BY <3>1, BureauAssumptions DEF FormsOf
        <4> QED BY <2>4, <2>5, <3>1, <4>1, <4>2 DEF IInv, Tables, MoneyStaysWithItsClient
      <3> QED BY <2>2, <3>1 DEF MoneyStaysWithItsClient
    <2>11. Touches(desk[c]) = {o}
      <3>1. PICK r \in Requests : r = desk[c]
        BY DEF IInv, Typed
      <3>2. r.op = "remove" /\ r.order = o
        BY <2>1, <3>1 DEF RemoveOrder
      <3> QED BY <3>1, <3>2, TouchesWhat
    <2>12. PICK T : T = Touches(desk[c]) /\ T = {o}
      BY <2>11
    <2>13. Around(T)
      <3>1. \A u \in Orders \ T : HasExpenses(u)' => HasExpenses(u)
        BY <2>2, <2>12 DEF HasExpenses, Orders
      <3>2. \A d \in Docs : d > made.doc => doc'[d] = NoDoc
        BY <2>6 DEF IInv, Tables, RowsMade
      <3>3. \A d \in Docs : doc'[d] = doc[d] \/ (doc[d].order \in T /\ doc[d] # NoDoc /\ doc'[d] = NoDoc)
        BY <2>6, <2>12 DEF NoDoc, Orders
      <3> QED BY <2>2, <2>5, <2>12, <3>1, <3>2, <3>3, MadeType, LedgersStay DEF Around, IInv, Typed, RowsTyped
    <2>14. \A n \in Nat \ {0} : NumberTaken(n)' => NumberTaken(n)
      BY <2>5 DEF NumberTaken, NoOrder
    <2> QED BY <2>2, <2>3, <2>7, <2>8, <2>9, <2>10, <2>12, <2>13, <2>14, LedgersStay, LeaveKeeps DEF Tables
  <1> QED
    BY <1>1, <1>2

-----------------------------------------------------------------------------
(* A new order: its rows are nobody's yet. *)

LEMMA NewOrder ==
    ASSUME IInv, NEW row \in OrderRows, NEW n \in Nat, NEW o \in Orders, o = made.order + 1,
           NEW event \in Nat \X Values, clock' \in Nat,
           order' = [order EXCEPT ![o] = row], status' = [status EXCEPT ![o] = event],
           doc' = [d \in Docs |-> doc'[d]],
           \A d \in Docs : d \in made.doc + 1..made.doc + n =>
               doc'[d] \in DocRows /\ doc'[d].order = o /\ Fits(doc'[d], row.urgency),
           \A d \in Docs : d \notin made.doc + 1..made.doc + n => doc'[d] = doc[d],
           made' = [order |-> o, doc |-> made.doc + n], rows' = rows, fronted' = fronted, expense' = expense,
           setting' = setting, mixed \subseteq mixed'
    PROVE  RowsTyped' /\ Tables' /\ Around({})
  <1>1. made.order \in Nat /\ made.doc \in Nat /\ made'.order = o /\ made'.doc = made.doc + n
        /\ made' \in [order : Nat, doc : Nat]
    BY MadeType DEF IInv, Orders
  <1>2. /\ order' \in [Orders -> OrderRows \cup {NoOrder}] /\ order'[o] = row
        /\ \A u \in Orders \ {o} : order'[u] = order[u] /\ status'[u] = status[u]
        /\ status' \in [Orders -> Nat \X (Values \cup {"none"})] /\ status'[o] = event
    BY DEF IInv, Typed, RowsTyped
  <1>3. row # NoOrder /\ order[o] = NoOrder
    <2>1. o > made.order
      BY <1>1
    <2>2. row.number # 0
      BY DEF OrderRows
    <2> QED BY <2>1, <2>2 DEF IInv, Tables, RowsMade, NoOrder
  <1>4. doc' \in [Docs -> DocRows \cup {NoDoc}]
    <2>1. \A d \in Docs : doc'[d] \in DocRows \cup {NoDoc}
      BY DEF IInv, Typed, RowsTyped
    <2> QED BY <2>1
  <1>5. RowsTyped'
    BY <1>1, <1>2, <1>4 DEF IInv, Typed, RowsTyped
  <1>6. \A d \in Docs : doc'[d] # doc[d] => d > made.doc /\ d <= made.doc + n /\ doc[d] = NoDoc
                                            /\ doc'[d] \in DocRows /\ doc'[d].order = o /\ Fits(doc'[d], row.urgency)
    BY <1>1 DEF IInv, Tables, RowsMade, Docs
  <1>7. \A d \in Docs : doc[d] # NoDoc => doc'[d] = doc[d] /\ doc[d].order \in Orders \ {o}
                                          /\ order[doc[d].order] # NoOrder
    BY <1>3, <1>6 DEF IInv, Tables, RowsMade, Typed, RowsTyped, DocRows, Exists
  <1>8. RowsMade'
    <2>1. ASSUME NEW u \in Orders, u > made'.order PROVE order'[u] = NoOrder
      <3>1. u # o /\ u > made.order
        BY <1>1, <2>1 DEF Orders
      <3> QED BY <1>2, <3>1 DEF IInv, Tables, RowsMade
    <2>2. ASSUME NEW d \in Docs, d > made'.doc PROVE doc'[d] = NoDoc
      <3>1. d > made.doc /\ ~(d <= made.doc + n)
        BY <1>1, <2>2 DEF Docs
      <3> QED BY <1>6, <3>1 DEF IInv, Tables, RowsMade
    <2>3. ASSUME NEW d \in Docs, doc'[d] # NoDoc PROVE order'[doc'[d].order] # NoOrder
      <3>1. CASE doc'[d] = doc[d]
        BY <1>2, <1>7, <2>3, <3>1
      <3>2. CASE doc'[d] # doc[d]
        BY <1>2, <1>3, <1>6, <3>2
      <3> QED BY <3>1, <3>2
    <2>4. ASSUME NEW u \in Orders, order'[u] # NoOrder PROVE status'[u][2] # "none"
      <3>1. event[2] # "none"
        BY DEF Values, SelectableStatuses, ExcludedFromAggregates
      <3> QED BY <1>2, <2>4, <3>1 DEF IInv, Tables, RowsMade, Exists, StatusNow
    <2> QED BY <2>1, <2>2, <2>3, <2>4 DEF RowsMade, Exists, StatusNow
  <1>9. DocsPriced'
    <2>1. ASSUME NEW d \in Docs, doc'[d] # NoDoc
          PROVE  /\ doc'[d].at <= setting
                 /\ doc'[d].order \notin mixed' => Fits(doc'[d], order'[doc'[d].order].urgency)
      <3>1. CASE doc'[d] = doc[d]
        BY <1>2, <1>7, <2>1, <3>1 DEF IInv, Tables, DocsPriced
      <3>2. CASE doc'[d] # doc[d]
        BY <1>2, <1>6, <3>2 DEF Fits
      <3> QED BY <3>1, <3>2
    <2> QED BY <2>1 DEF DocsPriced, Fits, Computed
  <1>10. FrontedPaid'
    BY LedgersStay
  <1>11. OneRowPerForm'
    <2>1. \A x : x \in Orders /\ Exists(x) => order'[x] # NoOrder
      BY <1>2, <1>3 DEF Exists
    <2>2. \A k \in Forms : \A x \in DOMAIN Form[k].alloc : IF Form[k].ledger = "notary" THEN x \in Docs ELSE x \in Orders
      BY BureauAssumptions
    <2>3. \A x \in Docs : doc[x] # NoDoc => doc'[x] # NoDoc
      BY <1>7
    <2> QED BY <2>1, <2>2, <2>3 DEF IInv, Tables, OneRowPerForm, Exists
  <1>12. MoneyStaysWithItsClient'
    <2>1. ASSUME NEW k \in FormsOf("client"), rows[k] > 0, NEW u \in DOMAIN Form[k].alloc \ mixed'
          PROVE  order'[u].client = Form[k].who
      <3>1. k \in Forms /\ Form[k].ledger = "client" /\ u \in Orders
        BY <2>1, BureauAssumptions DEF FormsOf
      <3>2. rows[k] = 1
        BY <2>1, <3>1 DEF IInv, Tables, OneRowPerForm, Typed, RowsTyped
      <3>3. order[u] # NoOrder
        BY <3>1, <3>2 DEF IInv, Tables, OneRowPerForm, Exists
      <3>4. order'[u] = order[u]
        BY <1>2, <1>3, <3>1, <3>3
      <3> QED BY <2>1, <3>4 DEF IInv, Tables, MoneyStaysWithItsClient
    <2> QED BY <2>1 DEF MoneyStaysWithItsClient
  <1>13. Around({})
    <2>1. \A u \in Orders : u <= made.order => order'[u] = order[u]
      BY <1>1, <1>2 DEF Orders
    <2>2. \A d \in Docs : d <= made.doc => doc'[d] = doc[d]
      BY <1>1, <1>6 DEF Docs
    <2>3. \A d \in Docs : d > made.doc /\ doc'[d] # NoDoc => doc'[d].order > made.order
      BY <1>1, <1>6 DEF IInv, Tables, RowsMade
    <2>4. made.order <= made'.order /\ made.doc <= made'.doc
      BY <1>1
    <2> QED BY <1>1, <2>1, <2>2, <2>3, <2>4, LedgersStay DEF Around, HasExpenses
  <1> QED
    BY <1>5, <1>8, <1>9, <1>10, <1>11, <1>12, <1>13 DEF Tables

LEMMA AddedDocs ==
    ASSUME Typed, NEW o \in Orders, NEW lines \in Seq(Drafts), NEW urgency, DraftsFit(lines, urgency),
           NEW d \in made.doc + 1..made.doc + Len(lines), d \in Docs
    PROVE  NewDocs(o, lines)[d] \in DocRows /\ NewDocs(o, lines)[d].order = o
           /\ Fits(NewDocs(o, lines)[d], urgency)
  <1>1. made.doc \in Nat /\ Len(lines) \in Nat /\ DOMAIN lines = 1..Len(lines)
    BY MadeType
  <1>2. PICK i : i = d - made.doc
    OBVIOUS
  <1>3. i \in DOMAIN lines
    BY <1>1, <1>2
  <1>4. PICK line \in Drafts : line = lines[i] /\ Fits(line, urgency)
    BY <1>3 DEF DraftsFit
  <1>5. NewDocs(o, lines)[d] = [line EXCEPT !.order = o]
    BY <1>2, <1>4 DEF NewDocs
  <1>6. PICK row : row = [line EXCEPT !.order = o]
    OBVIOUS
  <1>7. row \in DocRows /\ row.order = o /\ row.line = line.line /\ row.price = line.price /\ row.at = line.at
    BY <1>6 DEF Drafts, DocRows
  <1> QED
    BY <1>4, <1>5, <1>6, <1>7 DEF Fits

LEMMA CommitOrderKeeps ==
    ASSUME IInv, NEW c \in Clerks, CommitOrder(c)
    PROVE  IInv'
  <1>1. PICK tx \in Draws : tx = desk[c] /\ Relies(tx)
    BY RequestTypes DEF IInv, Typed, CommitOrder
  <1>2. PICK r \in Creates : r = tx.request /\ DraftsFit(r.lines, r.urgency)
    BY <1>1 DEF Draws, Relies
  <1>3. PICK o, n : o = made.order + 1 /\ n = Len(r.lines)
    OBVIOUS
  <1>4. PICK row : row = [number |-> tx.number, client |-> r.client, urgency |-> r.urgency, courier |-> r.courier,
                          imported |-> FALSE, delivery |-> IF r.courier THEN DeliveryFee ELSE 0]
    OBVIOUS
  <1>5. /\ made.order < MaxOrders /\ made.doc + n <= MaxDocs
        /\ order' = [order EXCEPT ![o] = row] /\ doc' = NewDocs(o, r.lines)
        /\ status' = [status EXCEPT ![o] = <<clock + 1, "new">>] /\ clock' = clock + 1
        /\ made' = [order |-> o, doc |-> made.doc + n]
        /\ Leave(c) /\ rows' = rows /\ fronted' = fronted /\ expense' = expense /\ setting' = setting
    BY <1>1, <1>2, <1>3, <1>4 DEF CommitOrder
  <1>6. /\ o \in Orders /\ n \in Nat /\ clock + 1 \in Nat /\ made.doc \in Nat /\ made.order \in Nat
        /\ r.lines \in Seq(Drafts)
    BY <1>2, <1>3, <1>5, MadeType, BureauAssumptions DEF IInv, Typed, RowsTyped, Orders, Creates
  <1>7. row \in OrderRows /\ row.urgency = r.urgency
    BY <1>1, <1>2, <1>4, BureauAssumptions DEF Draws, Creates, OrderRows
  <1>8. PICK event \in Nat \X Values : event = <<clock + 1, "new">>
    BY <1>6 DEF Values, SelectableStatuses
  <1>9. \A d \in Docs : d \in made.doc + 1..made.doc + n =>
               doc'[d] \in DocRows /\ doc'[d].order = o /\ Fits(doc'[d], row.urgency)
    BY <1>2, <1>3, <1>5, <1>6, <1>7, AddedDocs DEF IInv
  <1>10. \A d \in Docs : d \notin made.doc + 1..made.doc + n => doc'[d] = doc[d]
    BY <1>3, <1>5 DEF NewDocs
  <1>11. doc' = [d \in Docs |-> doc'[d]]
    BY <1>5 DEF NewDocs
  <1>12. mixed \subseteq mixed'
    BY <1>5 DEF Leave
  <1>13. RowsTyped' /\ Tables' /\ Around({})
    BY <1>3, <1>5, <1>6, <1>7, <1>8, <1>9, <1>10, <1>11, <1>12, NewOrder
  <1>14. Touches(desk[c]) = {} /\ desk[c].op = "numbered"
    <2>1. tx \in Requests /\ tx.op = "numbered"
      BY <1>1 DEF Requests, Draws
    <2> QED BY <1>1, <2>1, TouchesWhat
  <1> QED
    BY <1>5, <1>13, <1>14, LeaveKeeps

(* An import takes the lock as well, so nobody holds a number. *)
LEMMA ImportOrderKeeps ==
    ASSUME IInv, NEW client \in Clients, NEW value \in {"completed", "cancelled"}, ImportOrder(client, value)
    PROVE  IInv'
  <1>1. PICK o, k : o = made.order + 1 /\ k = made.doc + 1
    OBVIOUS
  <1>2. PICK row : row = [number |-> NextNumberOfTable, client |-> client, urgency |-> "standard",
                          courier |-> FALSE, imported |-> TRUE, delivery |-> 0]
    OBVIOUS
  <1>3. PICK line \in Lines :
            doc' = [doc EXCEPT ![k] = [order |-> o, line |-> line, by |-> None, price |-> TypedPrice,
                                       cost |-> 0, fee |-> 0, at |-> 0]]
    BY <1>1 DEF ImportOrder
  <1>4. PICK item : item = [order |-> o, line |-> line, by |-> None, price |-> TypedPrice,
                              cost |-> 0, fee |-> 0, at |-> 0]
    OBVIOUS
  <1>5. /\ made.order < MaxOrders /\ made.doc < MaxDocs /\ NumberLockFree
        /\ order' = [order EXCEPT ![o] = row] /\ doc' = [doc EXCEPT ![k] = item]
        /\ status' = [status EXCEPT ![o] = <<clock + 1, value>>] /\ clock' = clock + 1
        /\ made' = [order |-> o, doc |-> k] /\ desk' = desk /\ mixed' = mixed
        /\ rows' = rows /\ fronted' = fronted /\ expense' = expense /\ setting' = setting
    BY <1>1, <1>2, <1>3, <1>4 DEF ImportOrder
  <1>6. o \in Orders /\ k \in Docs /\ clock + 1 \in Nat /\ made.doc \in Nat /\ made.order \in Nat
    BY <1>1, <1>5, MadeType, BureauAssumptions DEF IInv, Typed, RowsTyped, Orders, Docs
  <1>7. row \in OrderRows
    BY <1>2, NextIsFree DEF OrderRows, Urgencies, IInv
  <1>8. PICK event \in Nat \X Values : event = <<clock + 1, value>>
    BY <1>6 DEF Values, SelectableStatuses, ExcludedFromAggregates
  <1>9. item \in DocRows /\ item.order = o /\ Fits(item, row.urgency)
    <2>1. item \in DocRows /\ item.at = 0
      BY <1>4, <1>6, BureauAssumptions DEF DocRows
    <2> QED BY <1>4, <2>1, SettingType DEF Fits, IInv
  <1>10. \A d \in Docs : d \in made.doc + 1..made.doc + 1 => d = k
    BY <1>1, <1>6
  <1>11. k \in made.doc + 1..made.doc + 1
    BY <1>1, <1>6
  <1>12. doc'[k] = item /\ \A d \in Docs \ {k} : doc'[d] = doc[d]
    BY <1>5, <1>6 DEF IInv, Typed, RowsTyped
  <1>13. \A d \in Docs : d \in made.doc + 1..made.doc + 1 =>
               doc'[d] \in DocRows /\ doc'[d].order = o /\ Fits(doc'[d], row.urgency)
    BY <1>9, <1>10, <1>12
  <1>14. \A d \in Docs : d \notin made.doc + 1..made.doc + 1 => doc'[d] = doc[d]
    BY <1>11, <1>12
  <1>15. doc' = [d \in Docs |-> doc'[d]]
    BY <1>5 DEF IInv, Typed, RowsTyped
  <1>16. RowsTyped' /\ Tables' /\ Around({})
    BY <1>1, <1>5, <1>6, <1>7, <1>8, <1>13, <1>14, <1>15, NewOrder
  <1>17. ASSUME NEW b \in Clerks PROVE Relies(desk[b])'
    <2>1. desk[b].op # "numbered"
      BY <1>5 DEF NumberLockFree
    <2> QED BY <1>5, <1>16, <2>1, OthersRely
  <1> QED
    BY <1>5, <1>16, <1>17 DEF IInv, Typed, OneDraws

-----------------------------------------------------------------------------
(* Saving an edit: only the columns that it changed. *)

LEMMA WrittenOrder ==
    ASSUME NEW now \in OrderRows, NEW base \in Views, NEW new \in Views
    PROVE  /\ Written(now, base, new) \in OrderRows
           /\ Written(now, base, new).number = now.number
           /\ Written(now, base, new).urgency = IF new.urgency # base.urgency THEN new.urgency ELSE now.urgency
           /\ Written(now, base, new).client = IF new.client # base.client THEN new.client ELSE now.client
  <1>1. DOMAIN now = {"number", "client", "urgency", "courier", "imported", "delivery"}
        /\ DOMAIN new = {"client", "urgency", "courier", "delivery", "docs"}
    BY DEF OrderRows, Views
  <1>2. PICK w : w = Written(now, base, new)
    OBVIOUS
  <1>3. w = [f \in DOMAIN now |-> IF f \in DOMAIN new /\ new[f] # base[f] THEN new[f] ELSE now[f]]
    BY <1>2 DEF Written
  <1>4. /\ w.number = now.number /\ w.imported = now.imported
        /\ w.client = IF new.client # base.client THEN new.client ELSE now.client
        /\ w.urgency = IF new.urgency # base.urgency THEN new.urgency ELSE now.urgency
        /\ w.courier = IF new.courier # base.courier THEN new.courier ELSE now.courier
        /\ w.delivery = IF new.delivery # base.delivery THEN new.delivery ELSE now.delivery
    BY <1>1, <1>3
  <1>5. w = [number |-> w.number, client |-> w.client, urgency |-> w.urgency, courier |-> w.courier,
             imported |-> w.imported, delivery |-> w.delivery]
    BY <1>1, <1>3
  <1>6. /\ w.number \in Nat \ {0} /\ w.client \in Clients /\ w.urgency \in Urgencies /\ w.courier \in BOOLEAN
        /\ w.imported \in BOOLEAN /\ w.delivery \in Nat
    BY <1>4 DEF OrderRows, Views
  <1>7. w \in OrderRows
    BY <1>5, <1>6 DEF OrderRows
  <1> QED
    BY <1>2, <1>4, <1>7

LEMMA WrittenDoc ==
    ASSUME NEW now \in DocRows, NEW base \in DocRows, NEW new \in DocRows
    PROVE  /\ Written(now, base, new) \in DocRows
           /\ base.order = new.order => Written(now, base, new).order = now.order
           /\ Written(now, base, new).at \in {new.at, now.at}
           /\ now = base => Written(now, base, new) = new
  <1>1. DOMAIN now = {"order", "line", "by", "price", "cost", "fee", "at"} /\ DOMAIN new = DOMAIN now
    BY DEF DocRows
  <1>2. PICK w : w = Written(now, base, new)
    OBVIOUS
  <1>3. w = [f \in DOMAIN now |-> IF f \in DOMAIN new /\ new[f] # base[f] THEN new[f] ELSE now[f]]
    BY <1>2 DEF Written
  <1>4. /\ w.order = IF new.order # base.order THEN new.order ELSE now.order
        /\ w.line = IF new.line # base.line THEN new.line ELSE now.line
        /\ w.by = IF new.by # base.by THEN new.by ELSE now.by
        /\ w.price = IF new.price # base.price THEN new.price ELSE now.price
        /\ w.cost = IF new.cost # base.cost THEN new.cost ELSE now.cost
        /\ w.fee = IF new.fee # base.fee THEN new.fee ELSE now.fee
        /\ w.at = IF new.at # base.at THEN new.at ELSE now.at
    BY <1>1, <1>3
  <1>5. w = [order |-> w.order, line |-> w.line, by |-> w.by, price |-> w.price, cost |-> w.cost,
             fee |-> w.fee, at |-> w.at]
    BY <1>1, <1>3
  <1>6. /\ w.order \in Orders /\ w.line \in Lines /\ w.by \in Translators \cup {None}
        /\ w.price \in Nat /\ w.cost \in Nat /\ w.fee \in Nat /\ w.at \in Nat
    BY <1>4 DEF DocRows
  <1>7. w \in DocRows
    BY <1>5, <1>6 DEF DocRows
  <1>8. now = base => w = new
    <2>1. ASSUME now = base PROVE w = [f \in DOMAIN new |-> new[f]]
      BY <1>1, <1>3, <2>1
    <2>2. new = [f \in DOMAIN new |-> new[f]]
      BY DEF DocRows
    <2> QED BY <2>1, <2>2
  <1> QED
    BY <1>2, <1>4, <1>7, <1>8

(* What an edit leaves in the tables, row by row. *)
Saved(r) ==
    /\ order'[r.order] \in OrderRows /\ order'[r.order].number = order[r.order].number
    /\ \A o \in Orders \ {r.order} : order'[o] = order[o]
    /\ \A d \in Docs : d \notin r.gone \cup ChangedDocs(r) /\ d \notin made.doc + 1..made.doc + Len(r.adds) => doc'[d] = doc[d]
    /\ \A d \in r.gone : d \in Docs /\ d <= made.doc /\ doc'[d] = NoDoc /\ (doc[d] = NoDoc \/ doc[d].order = r.order)
    /\ \A d \in ChangedDocs(r) : /\ d \in Docs /\ d <= made.doc /\ d \notin r.gone /\ doc[d].order = r.order /\ doc[d] \in DocRows
                                 /\ doc'[d] \in DocRows /\ doc'[d].order = r.order /\ doc'[d].at <= setting
    /\ \A d \in Docs : d \in made.doc + 1..made.doc + Len(r.adds) =>
           /\ doc[d] = NoDoc /\ doc'[d] \in DocRows /\ doc'[d].order = r.order /\ Fits(doc'[d], r.new.urgency)
    /\ r.order \notin mixed =>
           /\ order'[r.order].urgency = r.new.urgency
           /\ HasClientPayments(r.order) => order'[r.order].client = order[r.order].client
           /\ \A d \in Docs : doc[d].order = r.order /\ d \notin r.gone => Fits(doc'[d], r.new.urgency)

LEMMA WriteEditSaves ==
    ASSUME IInv, NEW r \in Edits, Relies(r), EditHolds(r),
           order' = [order EXCEPT ![r.order] = Written(order[r.order], r.base, r.new)],
           doc' = [d \in Docs |->
                     IF d \in r.gone THEN NoDoc
                     ELSE IF d \in ChangedDocs(r)
                          THEN Written(doc[d], r.base.docs[d], r.new.docs[d]) ELSE NewDocs(r.order, r.adds)[d]]
    PROVE  Saved(r)
  <1>1. /\ r.order \in Orders /\ r.base \in Views /\ r.new \in Views /\ r.adds \in Seq(Drafts) /\ r.op = "edit"
        /\ r.gone \subseteq Docs
    BY DEF Edits
  <1>2. EditRows(r) /\ (r.order \notin mixed => EditAlone(r))
    BY <1>1 DEF Relies
  <1>3. order[r.order] \in OrderRows
    BY <1>1 DEF EditHolds, Exists, IInv, Typed, RowsTyped
  <1>4. order'[r.order] = Written(order[r.order], r.base, r.new) /\ \A o \in Orders \ {r.order} : order'[o] = order[o]
    BY <1>1 DEF IInv, Typed, RowsTyped
  <1>5. PICK now, base, new : now = order[r.order] /\ base = r.base /\ new = r.new
    OBVIOUS
  <1>6. /\ order'[r.order] \in OrderRows /\ order'[r.order].number = order[r.order].number
        /\ order'[r.order].urgency = IF r.new.urgency # r.base.urgency THEN r.new.urgency ELSE order[r.order].urgency
        /\ order'[r.order].client = IF r.new.client # r.base.client THEN r.new.client ELSE order[r.order].client
    <2>1. now \in OrderRows /\ base \in Views /\ new \in Views /\ order'[r.order] = Written(now, base, new)
      BY <1>1, <1>3, <1>4, <1>5
    <2> QED BY <1>5, <2>1, WrittenOrder
  <1>7. \A d \in r.gone \cup ChangedDocs(r) : d \in DOMAIN r.base.docs /\ d \in Docs /\ d <= made.doc
    BY <1>1, <1>2 DEF EditRows, ChangedDocs, Views, Lists
  <1>8. \A d \in r.gone : doc'[d] = NoDoc /\ (doc[d] = NoDoc \/ doc[d].order = r.order)
    BY <1>2, <1>7 DEF EditRows
  <1>9. ASSUME NEW d \in ChangedDocs(r)
        PROVE  /\ d \notin r.gone /\ doc[d].order = r.order /\ doc[d] \in DocRows
               /\ doc'[d] \in DocRows /\ doc'[d].order = r.order /\ doc'[d].at <= setting
               /\ doc[d] = r.base.docs[d] => doc'[d] = r.new.docs[d]
    <2>1. d \notin r.gone /\ d \in DOMAIN r.base.docs /\ d \in DOMAIN r.new.docs /\ d \in Docs
      BY <1>1, <1>2, <1>7 DEF ChangedDocs, EditRows
    <2>2. doc[d].order = r.order /\ doc[d] \in DocRows
      BY <1>1, <2>1 DEF EditHolds, IInv, Typed, RowsTyped, NoDoc, Orders
    <2>3. PICK row, was, want : row = doc[d] /\ was = r.base.docs[d] /\ want = r.new.docs[d]
      OBVIOUS
    <2>4. row \in DocRows /\ was \in DocRows /\ want \in DocRows
      BY <1>1, <2>1, <2>2, <2>3 DEF Views, Lists
    <2>5. was.order = want.order /\ want.at <= setting
      BY <1>2, <2>1, <2>3 DEF EditRows
    <2>6. row.at <= setting
      BY <2>1, <2>2, <2>3 DEF IInv, Tables, DocsPriced, NoDoc, DocRows
    <2>7. doc'[d] = Written(row, was, want)
      BY <2>1, <2>3
    <2>8. /\ Written(row, was, want) \in DocRows /\ Written(row, was, want).order = row.order
          /\ Written(row, was, want).at \in {want.at, row.at}
          /\ row = was => Written(row, was, want) = want
      BY <2>4, <2>5, WrittenDoc
    <2> QED BY <2>1, <2>2, <2>3, <2>5, <2>6, <2>7, <2>8
  <1>10. made.doc \in Nat /\ Len(r.adds) \in Nat
    BY <1>1, MadeType DEF IInv
  <1>11. ASSUME NEW d \in Docs, d \in made.doc + 1..made.doc + Len(r.adds)
         PROVE  doc[d] = NoDoc /\ doc'[d] \in DocRows /\ doc'[d].order = r.order /\ Fits(doc'[d], r.new.urgency)
    <2>1. d > made.doc /\ ~(d <= made.doc)
      BY <1>10, <1>11
    <2>2. doc'[d] = NewDocs(r.order, r.adds)[d]
      BY <1>7, <2>1
    <2>3. DraftsFit(r.adds, r.new.urgency)
      BY <1>2 DEF EditRows
    <2> QED BY <1>1, <1>11, <2>1, <2>2, <2>3, AddedDocs DEF IInv, Tables, RowsMade
  <1>12. \A d \in Docs : d \notin r.gone \cup ChangedDocs(r) /\ d \notin made.doc + 1..made.doc + Len(r.adds) => doc'[d] = doc[d]
    BY DEF NewDocs
  <1>13. ASSUME r.order \notin mixed
         PROVE  /\ order'[r.order].urgency = r.new.urgency
                /\ HasClientPayments(r.order) => order'[r.order].client = order[r.order].client
                /\ \A d \in Docs : doc[d].order = r.order /\ d \notin r.gone => Fits(doc'[d], r.new.urgency)
    <2>1. EditAlone(r) /\ View(r.order) = r.base
      BY <1>2, <1>13 DEF EditAlone
    <2>2. r.base.urgency = order[r.order].urgency /\ r.base.docs = [d \in DocsOf(r.order) |-> doc[d]]
      BY <2>1 DEF View
    <2>3. ASSUME NEW d \in Docs, doc[d].order = r.order, d \notin r.gone PROVE Fits(doc'[d], r.new.urgency)
      <3>1. d \in DOMAIN r.base.docs /\ r.base.docs[d] = doc[d] /\ d \in DOMAIN r.new.docs
        BY <1>2, <2>2, <2>3 DEF DocsOf, EditRows
      <3>2. d <= made.doc /\ d \notin made.doc + 1..made.doc + Len(r.adds)
        BY <1>2, <1>10, <3>1 DEF EditRows, Docs
      <3>3. doc'[d] = r.new.docs[d]
        <4>1. CASE d \in ChangedDocs(r)
          BY <1>9, <3>1, <4>1
        <4>2. CASE d \notin ChangedDocs(r)
          BY <1>12, <2>3, <3>1, <3>2, <4>2 DEF ChangedDocs
        <4> QED BY <4>1, <4>2
      <3> QED BY <2>1, <3>1, <3>3 DEF EditAlone
    <2> QED BY <1>6, <2>1, <2>2, <2>3 DEF EditAlone
  <1> QED
    BY <1>4, <1>6, <1>7, <1>8, <1>9, <1>11, <1>12, <1>13 DEF Saved

LEMMA WriteEditKeeps ==
    ASSUME IInv, NEW c \in Clerks, WriteEdit(c)
    PROVE  IInv'
  <1>1. PICK r \in Edits : r = desk[c] /\ Relies(r)
    BY RequestTypes DEF IInv, Typed, WriteEdit
  <1>2. CASE ~EditHolds(r)
    <2>1. Refused(c)
      BY <1>1, <1>2 DEF WriteEdit
    <2> QED BY <2>1, RefusedKeeps
  <1>3. CASE EditHolds(r)
    <2>1. /\ order' = [order EXCEPT ![r.order] = Written(order[r.order], r.base, r.new)]
          /\ doc' = [d \in Docs |->
                     IF d \in r.gone THEN NoDoc
                     ELSE IF d \in ChangedDocs(r)
                          THEN Written(doc[d], r.base.docs[d], r.new.docs[d]) ELSE NewDocs(r.order, r.adds)[d]]
          /\ made' = [made EXCEPT !.doc = made.doc + Len(r.adds)]
          /\ Leave(c) /\ status' = status /\ rows' = rows /\ fronted' = fronted /\ expense' = expense
          /\ setting' = setting /\ clock' = clock
      BY <1>1, <1>3 DEF WriteEdit
    <2>2. Saved(r)
      BY <1>1, <1>3, <2>1, WriteEditSaves
    <2>3. PICK o \in Orders : o = r.order /\ order[o] \in OrderRows /\ order[o] # NoOrder
      BY <1>3 DEF EditHolds, Exists, IInv, Typed, RowsTyped, Edits
    <2>4. PICK n \in Nat : n = Len(r.adds)
      BY DEF Edits
    <2>5. /\ made.order \in Nat /\ made.doc \in Nat /\ made' \in [order : Nat, doc : Nat]
          /\ made'.order = made.order /\ made'.doc = made.doc + n
      BY <2>1, <2>4 DEF IInv, Typed, RowsTyped
    <2>6. mixed \subseteq mixed'
      BY <2>1 DEF Leave
    <2>7. /\ order'[o] \in OrderRows /\ order'[o].number = order[o].number /\ order'[o] # NoOrder
          /\ \A u \in Orders \ {o} : order'[u] = order[u]
      BY <2>2, <2>3 DEF Saved, OrderRows, NoOrder
    <2>8. \A d \in Docs :
              \/ doc'[d] = doc[d]
              \/ doc'[d] = NoDoc /\ d <= made.doc /\ d \in r.gone
              \/ /\ doc'[d] \in DocRows /\ doc'[d].order = o /\ doc'[d].at <= setting
                 /\ \/ d <= made.doc /\ doc[d].order = o
                    \/ d > made.doc /\ d <= made.doc + n /\ doc[d] = NoDoc
      <3>1. ASSUME NEW d \in Docs, d \in made.doc + 1..made.doc + n
            PROVE  /\ doc'[d] \in DocRows /\ doc'[d].order = o /\ doc'[d].at <= setting
                   /\ d > made.doc /\ d <= made.doc + n /\ doc[d] = NoDoc
        BY <2>2, <2>3, <2>4, <2>5, <3>1 DEF Saved, Fits
      <3>2. ASSUME NEW d \in ChangedDocs(r)
            PROVE  doc'[d] \in DocRows /\ doc'[d].order = o /\ doc'[d].at <= setting /\ d <= made.doc /\ doc[d].order = o
        BY <2>2, <2>3, <3>2 DEF Saved
      <3>3. \A d \in r.gone : doc'[d] = NoDoc /\ d <= made.doc
        BY <2>2 DEF Saved
      <3>4. \A d \in Docs : d \notin r.gone \cup ChangedDocs(r) /\ d \notin made.doc + 1..made.doc + n => doc'[d] = doc[d]
        BY <2>2, <2>4 DEF Saved
      <3> QED BY <3>1, <3>2, <3>3, <3>4
    <2>9. NoDoc \notin DocRows
      BY DEF NoDoc, DocRows, Orders
    <2>10. RowsTyped'
      <3>1. order' \in [Orders -> OrderRows \cup {NoOrder}]
        BY <2>1, <2>3, <2>7 DEF IInv, Typed, RowsTyped
      <3>2. doc' \in [Docs -> DocRows \cup {NoDoc}]
        <4>1. \A d \in Docs : doc'[d] \in DocRows \cup {NoDoc}
          BY <2>8 DEF IInv, Typed, RowsTyped
        <4>2. doc' = [d \in Docs |-> doc'[d]]
          BY <2>1
        <4> QED BY <4>1, <4>2
      <3> QED BY <2>1, <2>5, <3>1, <3>2 DEF IInv, Typed, RowsTyped
    <2>11. RowsMade'
      <3>1. ASSUME NEW u \in Orders, u > made'.order PROVE order'[u] = NoOrder
        <4>1. u > made.order /\ order[u] = NoOrder
          BY <2>5, <3>1 DEF IInv, Tables, RowsMade
        <4> QED BY <2>3, <2>7, <4>1
      <3>2. ASSUME NEW d \in Docs, d > made'.doc PROVE doc'[d] = NoDoc
        <4>1. d > made.doc /\ ~(d <= made.doc + n) /\ ~(d <= made.doc)
          BY <2>5, <3>2 DEF Docs
        <4> QED BY <2>8, <4>1 DEF IInv, Tables, RowsMade
      <3>3. ASSUME NEW d \in Docs, doc'[d] # NoDoc PROVE order'[doc'[d].order] # NoOrder
        <4>1. CASE doc'[d] = doc[d]
          <5>1. doc[d].order \in Orders /\ order[doc[d].order] # NoOrder
            BY <3>3, <4>1 DEF IInv, Tables, RowsMade, Exists, Typed, RowsTyped, DocRows
          <5> QED BY <2>7, <4>1, <5>1
        <4>2. CASE doc'[d] # doc[d]
          BY <2>7, <2>8, <3>3, <4>2
        <4> QED BY <4>1, <4>2
      <3>4. ASSUME NEW u \in Orders, order'[u] # NoOrder PROVE status[u][2] # "none"
        BY <2>3, <2>7, <3>4 DEF IInv, Tables, RowsMade, Exists, StatusNow
      <3> QED BY <2>1, <3>1, <3>2, <3>3, <3>4 DEF RowsMade, Exists, StatusNow
    <2>12. DocsPriced'
      <3>1. ASSUME NEW d \in Docs, doc'[d] # NoDoc
            PROVE  /\ doc'[d].at <= setting
                   /\ doc'[d].order \notin mixed' => Fits(doc'[d], order'[doc'[d].order].urgency)
        <4>1. doc'[d].at <= setting
          BY <2>8, <3>1 DEF IInv, Tables, DocsPriced
        <4>2. CASE doc'[d].order = o
          <5>1. ASSUME o \notin mixed' PROVE Fits(doc'[d], order'[o].urgency)
            <6>1. o \notin mixed /\ order'[o].urgency = r.new.urgency
              BY <2>2, <2>3, <2>6, <5>1 DEF Saved
            <6>2. CASE d \in made.doc + 1..made.doc + n
              BY <2>2, <2>4, <6>1, <6>2 DEF Saved
            <6>3. CASE d \notin made.doc + 1..made.doc + n
              <7>1. d \notin r.gone
                BY <2>2, <3>1 DEF Saved
              <7>2. doc[d].order = o
                BY <2>2, <2>3, <2>4, <4>2, <6>3, <7>1 DEF Saved
              <7> QED BY <2>2, <2>3, <6>1, <7>1, <7>2 DEF Saved
            <6> QED BY <6>2, <6>3
          <5> QED BY <4>1, <4>2, <5>1
        <4>3. CASE doc'[d].order # o
          <5>1. doc'[d] = doc[d] /\ doc[d].order \in Orders
            BY <2>8, <3>1, <4>3 DEF IInv, Typed, RowsTyped, DocRows
          <5>2. order'[doc[d].order] = order[doc[d].order]
            BY <2>7, <4>3, <5>1
          <5> QED BY <2>6, <3>1, <5>1, <5>2 DEF IInv, Tables, DocsPriced
        <4> QED BY <4>1, <4>2, <4>3
      <3> QED BY <2>1, <3>1 DEF DocsPriced, Fits, Computed
    <2>13. OneRowPerForm'
      <3>1. ASSUME NEW k \in Forms, rows[k] = 1, NEW x \in DOMAIN Form[k].alloc
            PROVE  IF Form[k].ledger = "notary" THEN doc'[x] # NoDoc ELSE order'[x] # NoOrder
        <4>1. IF Form[k].ledger = "notary" THEN doc[x] # NoDoc ELSE Exists(x)
          BY <3>1 DEF IInv, Tables, OneRowPerForm
        <4>2. CASE Form[k].ledger = "notary"
          <5>1. x \in Docs
            BY <4>2, BureauAssumptions
          <5>2. x \notin r.gone
            BY <1>3, <3>1, <4>2 DEF EditHolds, HasNotaryPayments, Recorded, FormsOf
          <5> QED BY <2>8, <2>9, <4>1, <4>2, <5>1, <5>2
        <4>3. CASE Form[k].ledger # "notary"
          <5>1. x \in Orders
            BY <4>3, BureauAssumptions
          <5> QED BY <2>7, <4>1, <4>3, <5>1 DEF Exists
        <4> QED BY <4>2, <4>3
      <3> QED BY <2>1, <3>1 DEF IInv, Tables, OneRowPerForm, Exists
    <2>14. MoneyStaysWithItsClient'
      <3>1. ASSUME NEW k \in FormsOf("client"), rows[k] > 0, NEW u \in DOMAIN Form[k].alloc \ mixed'
            PROVE  order'[u].client = Form[k].who
        <4>1. u \in Orders /\ u \notin mixed
          BY <2>6, <3>1, BureauAssumptions DEF FormsOf
        <4>2. order[u].client = Form[k].who
          BY <3>1, <4>1 DEF IInv, Tables, MoneyStaysWithItsClient
        <4>3. CASE u = o
          <5>1. HasClientPayments(o)
            BY <3>1, <4>3 DEF HasClientPayments, Recorded
          <5> QED BY <2>2, <2>3, <4>1, <4>2, <4>3, <5>1 DEF Saved
        <4>4. CASE u # o
          BY <2>7, <4>1, <4>2, <4>4
        <4> QED BY <4>3, <4>4
      <3> QED BY <2>1, <3>1 DEF MoneyStaysWithItsClient
    <2>15. PICK T : T = Touches(desk[c]) /\ T = {o}
      <3>1. r \in Requests /\ r.op = "edit"
        BY DEF Requests, Edits
      <3>2. Touches(desk[c]) = {o}
        BY <1>1, <2>3, <3>1, TouchesWhat
      <3> QED BY <3>2
    <2>16. Around(T)
      <3>1. \A u \in Orders : u \notin T => order'[u] = order[u]
        BY <2>7, <2>15
      <3>2. ASSUME NEW d \in Docs, d <= made.doc
            PROVE  \/ doc'[d] = doc[d]
                   \/ doc[d].order \in T /\ doc[d] # NoDoc /\ (doc'[d] = NoDoc \/ doc'[d].order = doc[d].order)
        <4>1. CASE d \in r.gone
          BY <2>2, <2>3, <2>15, <4>1 DEF Saved, NoDoc, Orders
        <4>2. CASE d \notin r.gone
          <5>1. ~(d > made.doc)
            BY <2>5, <3>2 DEF Docs
          <5>2. doc'[d] = doc[d] \/ (doc'[d].order = o /\ doc[d].order = o)
            BY <2>8, <4>2, <5>1
          <5> QED BY <2>15, <5>2 DEF NoDoc, Orders
        <4> QED BY <4>1, <4>2
      <3>3. ASSUME NEW d \in Docs, d > made.doc, doc'[d] # NoDoc PROVE doc'[d].order \in T
        <4>1. doc[d] = NoDoc /\ ~(d <= made.doc)
          BY <2>5, <3>3 DEF IInv, Tables, RowsMade, Docs
        <4> QED BY <2>8, <2>15, <3>3, <4>1
      <3>4. made.order <= made'.order /\ made.doc <= made'.doc
        BY <2>4, <2>5
      <3> QED BY <2>1, <2>5, <3>1, <3>2, <3>3, <3>4, LedgersStay DEF Around, HasExpenses
    <2>17. \A m \in Nat \ {0} : NumberTaken(m)' => NumberTaken(m)
      BY <2>7 DEF NumberTaken
    <2> QED BY <2>1, <2>10, <2>11, <2>12, <2>13, <2>14, <2>15, <2>16, <2>17, LedgersStay, LeaveKeeps DEF Tables
  <1> QED
    BY <1>2, <1>3

-----------------------------------------------------------------------------
(* The invariant. *)

LEMMA InitEstablishes == Init => IInv
  <1> SUFFICES ASSUME Init PROVE IInv
    OBVIOUS
  <1>1. setting \in DOMAIN Settings /\ setting = 1
    <2>1. Settings \in Seq(SettingShape) /\ Settings # <<>>
      BY BureauAssumptions
    <2>2. 1 \in DOMAIN Settings
      BY <2>1
    <2> QED BY <2>2 DEF Init
  <1>2. fronted = {} /\ \A c \in Clerks : desk[c] = Idle
    BY DEF Init
  <1>3. Idle \in Requests /\ Relies(Idle)
    BY DEF Requests, Relies, Idle
  <1>4. RowsTyped
    <2>1. status \in [Orders -> Nat \X (Values \cup {"none"})]
      BY DEF Init
    <2>2. made \in [order : Nat, doc : Nat] /\ clock \in Nat
      BY DEF Init
    <2> QED BY <1>1, <2>1, <2>2 DEF Init, RowsTyped
  <1>5. Typed
    BY <1>3, <1>4 DEF Init, Typed
  <1>6. RowsMade /\ DocsPriced /\ FrontedPaid /\ OneRowPerForm /\ MoneyStaysWithItsClient
    <2>1. (\A o \in Orders : order[o] = NoOrder) /\ (\A d \in Docs : doc[d] = NoDoc) /\ (\A k \in Forms : rows[k] = 0)
      BY DEF Init
    <2> QED BY <1>2, <2>1 DEF RowsMade, DocsPriced, FrontedPaid, OneRowPerForm, MoneyStaysWithItsClient, Exists, FormsOf
  <1>7. OneDraws
    BY <1>2 DEF OneDraws, Idle
  <1> QED
    BY <1>2, <1>3, <1>5, <1>6, <1>7 DEF IInv, Tables

LEMMA NextPreserves == IInv /\ [Next]_vars => IInv'
  <1> SUFFICES ASSUME IInv, [Next]_vars PROVE IInv'
    OBVIOUS
  <1>1. ASSUME NEW c \in Clerks, NEW n \in NewOrders, CreateOrder(c, n.client, n.urgency, n.courier, n.items)
        PROVE  IInv'
    BY <1>1, CreateOrderKeeps
  <1>2. ASSUME NEW c \in Clerks, DrawNumber(c) \/ CommitOrder(c) PROVE IInv'
    BY <1>2, DrawNumberKeeps, CommitOrderKeeps
  <1>3. ASSUME NEW c \in Clerks, CreateFails(c) PROVE IInv'
    BY <1>3, RefusedKeeps DEF CreateFails
  <1>4. ASSUME NEW client \in Clients, NEW value \in {"completed", "cancelled"}, ImportOrder(client, value)
        PROVE  IInv'
    BY <1>4, ImportOrderKeeps
  <1>5. ASSUME NEW c \in Clerks, NEW o \in Orders, EditOrder(c, o) PROVE IInv'
    BY <1>5, EditOrderKeeps
  <1>6. ASSUME NEW c \in Clerks, WriteEdit(c) PROVE IInv'
    BY <1>6, WriteEditKeeps
  <1>7. ASSUME NEW c \in Clerks, NEW o \in Orders, NEW value \in SelectableStatuses, ChangeStatus(c, o, value)
        PROVE  IInv'
    BY <1>7, ChangeStatusKeeps
  <1>8. ASSUME NEW c \in Clerks, WriteStatus(c) PROVE IInv'
    BY <1>8, WriteStatusKeeps
  <1>9. ASSUME NEW c \in Clerks, NEW o \in Orders, DeleteOrder(c, o) PROVE IInv'
    BY <1>9, DeleteOrderKeeps
  <1>10. ASSUME NEW c \in Clerks, RemoveOrder(c) PROVE IInv'
    BY <1>10, RemoveOrderKeeps
  <1>11. ASSUME ChangeSettings PROVE IInv'
    BY <1>11, ChangeSettingsKeeps
  <1>12. ASSUME NEW c \in Clerks, NEW k \in Forms, RecordPayment(c, k) \/ DeletePayment(c, k) PROVE IInv'
    BY <1>12, RecordPaymentKeeps, DeletePaymentKeeps
  <1>13. ASSUME NEW c \in Clerks, InsertPayment(c) \/ RemovePayment(c) PROVE IInv'
    BY <1>13, InsertPaymentKeeps, RemovePaymentKeeps
  <1>14. ASSUME NEW c \in Clerks, WriteExpense(c) PROVE IInv'
    BY <1>14, WriteExpenseKeeps
  <1>15. ASSUME NEW c \in Clerks, NEW e \in Expenses,
                (\E o \in Orders : CreateExpense(c, e, o)) \/ DeleteExpense(c, e)
         PROVE  IInv'
    BY <1>15, ExpenseKeeps
  <1>16. ASSUME OrderStep PROVE IInv'
    BY <1>16, <1>1, <1>2, <1>3, <1>4, <1>5, <1>6, <1>7, <1>8, <1>9, <1>10, <1>11 DEF OrderStep
  <1>17. ASSUME FinanceStep PROVE IInv'
    BY <1>17, <1>12, <1>13, <1>14, <1>15 DEF FinanceStep
  <1>18. ASSUME vars' = vars PROVE IInv'
    <2>1. tableVars' = tableVars /\ made' = made /\ mixed' = mixed /\ desk' = desk /\ clock' = clock
      BY <1>18 DEF vars
    <2>2. /\ order' = order /\ doc' = doc /\ status' = status /\ rows' = rows /\ fronted' = fronted
          /\ expense' = expense /\ setting' = setting
      BY <2>1 DEF tableVars
    <2>3. Typed' /\ OneDraws'
      BY <2>1, <2>2 DEF IInv, Typed, RowsTyped, OneDraws
    <2>4. Tables'
      BY <2>1, TablesSame DEF IInv
    <2>5. Around({})
      BY <2>1, AroundNothing DEF IInv, Tables
    <2>6. ASSUME NEW b \in Clerks PROVE Relies(desk[b])'
      <3>1. \A n \in Nat \ {0} : NumberTaken(n)' => NumberTaken(n)
        BY <2>2 DEF NumberTaken
      <3> QED BY <2>1, <2>2, <2>5, <3>1, OthersRely
    <2> QED BY <2>3, <2>4, <2>6 DEF IInv
  <1> QED
    BY <1>16, <1>17, <1>18 DEF Next

THEOREM Invariance == Spec => []IInv
  BY InitEstablishes, NextPreserves, PTL DEF Spec

-----------------------------------------------------------------------------
(* What follows from it. *)

(***************************************************************************)
(* Every row on the tables is complete and every status is one an order    *)
(* can have, for any number of rows, settings and requests.                *)
(***************************************************************************)
THEOREM TypeCorrect == Spec => []TypeOK
  <1>1. ASSUME IInv PROVE TypeOK
    <2>1. ASSUME NEW o \in Orders, Exists(o)
          PROVE  /\ order[o].client \in Clients /\ order[o].urgency \in Urgencies
                 /\ order[o].delivery \in Nat /\ order[o].number \in Nat \ {0}
                 /\ StatusNow(o) \in SelectableStatuses \cup ExcludedFromAggregates
      <3>1. order[o] \in OrderRows /\ status[o] \in Nat \X (Values \cup {"none"}) /\ StatusNow(o) # "none"
        BY <1>1, <2>1 DEF IInv, Typed, RowsTyped, Exists, Tables, RowsMade
      <3> QED BY <3>1 DEF OrderRows, StatusNow, Values
    <2>2. ASSUME NEW d \in Docs, doc[d] # NoDoc
          PROVE  /\ Exists(doc[d].order)
                 /\ doc[d].line \in Lines /\ doc[d].by \in Translators \cup {None}
                 /\ doc[d].price \in Nat /\ doc[d].cost \in Nat /\ doc[d].fee \in Nat
      <3>1. doc[d] \in DocRows /\ Exists(doc[d].order)
        BY <1>1, <2>2 DEF IInv, Typed, RowsTyped, Tables, RowsMade
      <3> QED BY <3>1 DEF DocRows
    <2> QED BY <1>1, <2>1, <2>2 DEF IInv, Typed, RowsTyped, TypeOK
  <1> QED
    BY <1>1, Invariance, PTL

(***************************************************************************)
(* The number an order request has drawn stays free until it commits: no   *)
(* two requests hold one, and no order or import takes it meanwhile.       *)
(***************************************************************************)
THEOREM DrawnNumberIsFreeHolds == Spec => []DrawnNumberIsFree
  <1>1. IInv => DrawnNumberIsFree
    BY DEF IInv, OneDraws, Relies, DrawnNumberIsFree
  <1> QED
    BY <1>1, Invariance, PTL

(***************************************************************************)
(* A form sent any number of times leaves one ledger row, and what the row *)
(* and its allocations name is still there.                                *)
(***************************************************************************)
THEOREM OneRowPerFormHolds == Spec => []OneRowPerForm
  <1>1. IInv => OneRowPerForm
    BY DEF IInv, Tables
  <1> QED
    BY <1>1, Invariance, PTL

(***************************************************************************)
(* A client's payment settles that client's orders only, unless it was     *)
(* under way together with a change of the order it names.                 *)
(***************************************************************************)
THEOREM MoneyStaysWithItsClientHolds == Spec => []MoneyStaysWithItsClient
  <1>1. IInv => MoneyStaysWithItsClient
    BY DEF IInv, Tables
  <1> QED
    BY <1>1, Invariance, PTL

(***************************************************************************)
(* A price the engine set under the settings of now is its price at the    *)
(* urgency the order has now, through every edit, for every line, urgency  *)
(* and setting, unless two requests about the order overlapped.            *)
(***************************************************************************)
THEOREM PriceFollowsUrgencyHolds == Spec => []PriceFollowsUrgency
  <1>1. IInv => PriceFollowsUrgency
    BY DEF IInv, Tables, DocsPriced, Fits, PriceFollowsUrgency
  <1> QED
    BY <1>1, Invariance, PTL

(***************************************************************************)
(* An expense goes away only by its own deletion and a notary payment      *)
(* loses the payout it went through only with its own row, for any number  *)
(* of requests, unless two of them overlapped.                             *)
(***************************************************************************)
THEOREM NothingIsLostOnTheSideHolds == Spec => NothingIsLostOnTheSide
  <1> DEFINE Lost(e) == expense[e] # 0 /\ expense'[e] = 0
             Own(e)  == \E c \in Clerks : desk[c].op = "expense" /\ desk[c].row = e /\ desk'[c] = Idle
             Kept    == /\ \A e \in Expenses : Lost(e) => Own(e) \/ expense[e] \in mixed'
                        /\ \A n \in fronted \ fronted' : rows'[n] = 0 \/ Form[n].via \in mixed'
  <1>1. ASSUME expense' = expense, fronted \subseteq fronted' PROVE Kept
    BY <1>1
  <1>2. ASSUME IInv, NEW c \in Clerks, WriteExpense(c) PROVE Kept
    <2>1. CASE expense' = expense /\ fronted' = fronted
      BY <2>1
    <2>2. CASE ~(expense' = expense /\ fronted' = fronted)
      <3>1. PICK r \in Charges : r = desk[c]
        BY <1>2, RequestTypes DEF IInv, Typed, WriteExpense
      <3>2. /\ expense' = [expense EXCEPT ![r.row] = IF r.keep THEN r.order ELSE 0]
            /\ Leave(c) /\ fronted' = fronted
        BY <1>2, <2>2, <3>1 DEF WriteExpense, Refused, tableVars
      <3>3. desk'[c] = Idle /\ desk[c].op = "expense" /\ desk[c].row = r.row
        BY <1>2, <3>1, <3>2 DEF Leave, IInv, Typed, WriteExpense
      <3>4. \A e \in Expenses : e # r.row => expense'[e] = expense[e]
        BY <1>2, <3>2 DEF IInv, Typed, RowsTyped
      <3> QED BY <3>2, <3>3, <3>4
    <2> QED BY <2>1, <2>2
  <1>3. ASSUME IInv, NEW c \in Clerks, RemoveOrder(c) PROVE Kept
    <2>1. CASE expense' = expense /\ fronted' = fronted
      BY <2>1
    <2>2. CASE ~(expense' = expense /\ fronted' = fronted)
      <3>1. PICK o \in Orders : o = desk[c].order
        BY <1>3, RequestTypes DEF IInv, Typed, RemoveOrder, Removes
      <3>2. /\ expense' = [e \in Expenses |-> IF expense[e] = o THEN 0 ELSE expense[e]]
            /\ Leave(c) /\ fronted' = fronted
        BY <1>3, <2>2, <3>1 DEF RemoveOrder, Refused, tableVars
      <3>3. o \in mixed \/ ~HasExpenses(o)
        BY <1>3, <3>1 DEF IInv, Relies, RemoveOrder
      <3>4. mixed \subseteq mixed'
        BY <3>2 DEF Leave
      <3> QED BY <3>2, <3>3, <3>4 DEF HasExpenses
    <2> QED BY <2>1, <2>2
  <1>4. ASSUME IInv, NEW c \in Clerks, RemovePayment(c) PROVE Kept
    <2>1. PICK k \in Forms : k = desk[c].form
      BY <1>4, RequestTypes DEF IInv, Typed, RemovePayment, Undos
    <2>2. /\ rows' = [rows EXCEPT ![k] = 0] /\ fronted' = {n \in fronted : n # k /\ Form[n].via # k}
          /\ Leave(c) /\ expense' = expense
      BY <1>4, <2>1 DEF RemovePayment
    <2>3. rows'[k] = 0
      BY <1>4, <2>2 DEF IInv, Typed, RowsTyped
    <2>4. k \in mixed \/ ~PaidThrough(k)
      BY <1>4, <2>1 DEF IInv, Relies, RemovePayment
    <2>5. mixed \subseteq mixed'
      BY <2>2 DEF Leave
    <2>6. \A n \in fronted : rows[n] > 0
      BY <1>4 DEF IInv, Tables, FrontedPaid
    <2> QED BY <2>2, <2>3, <2>4, <2>5, <2>6 DEF PaidThrough
  <1>5. ASSUME NEW c \in Clerks, InsertPayment(c) PROVE expense' = expense /\ fronted \subseteq fronted'
    BY <1>5 DEF InsertPayment, Refused, tableVars
  <1>6. ASSUME NEW c \in Clerks, WriteEdit(c) \/ WriteStatus(c) \/ CreateFails(c) \/ CommitOrder(c) \/ DrawNumber(c)
        PROVE  expense' = expense /\ fronted \subseteq fronted'
    BY <1>6 DEF WriteEdit, WriteStatus, CreateFails, CommitOrder, DrawNumber, Refused, tableVars
  <1>7. ASSUME NEW c \in Clerks, NEW o \in Orders,
               EditOrder(c, o) \/ DeleteOrder(c, o) \/ \E value \in SelectableStatuses : ChangeStatus(c, o, value)
        PROVE  expense' = expense /\ fronted \subseteq fronted'
    BY <1>7 DEF EditOrder, SaveOrder, DeleteOrder, ChangeStatus, tableVars
  <1>8. ASSUME OrderStep, IInv PROVE Kept
    <2>1. ASSUME NEW c \in Clerks, NEW n \in NewOrders, CreateOrder(c, n.client, n.urgency, n.courier, n.items)
          PROVE  expense' = expense /\ fronted \subseteq fronted'
      BY <2>1 DEF CreateOrder, tableVars
    <2>2. ASSUME NEW client \in Clients, NEW value \in {"completed", "cancelled"}, ImportOrder(client, value)
          PROVE  expense' = expense /\ fronted \subseteq fronted'
      BY <2>2 DEF ImportOrder
    <2>3. ASSUME ChangeSettings PROVE expense' = expense /\ fronted \subseteq fronted'
      BY <2>3 DEF ChangeSettings
    <2> HIDE DEF Kept
    <2> QED BY <1>1, <1>3, <1>6, <1>7, <1>8, <2>1, <2>2, <2>3 DEF OrderStep
  <1>9. ASSUME FinanceStep, IInv PROVE Kept
    <2>1. ASSUME NEW c \in Clerks, NEW k \in Forms, RecordPayment(c, k) \/ DeletePayment(c, k)
          PROVE  expense' = expense /\ fronted \subseteq fronted'
      BY <2>1 DEF RecordPayment, DeletePayment, tableVars
    <2>2. ASSUME NEW c \in Clerks, NEW e \in Expenses,
                 (\E o \in Orders : CreateExpense(c, e, o)) \/ DeleteExpense(c, e)
          PROVE  expense' = expense /\ fronted \subseteq fronted'
      BY <2>2 DEF CreateExpense, DeleteExpense, tableVars
    <2> HIDE DEF Kept
    <2> QED BY <1>1, <1>2, <1>4, <1>5, <1>9, <2>1, <2>2 DEF FinanceStep
  <1>10. ASSUME vars' = vars PROVE Kept
    BY <1>10 DEF vars, tableVars
  <1>11. IInv /\ [Next]_vars => Kept
    <2> HIDE DEF Kept
    <2> QED BY <1>8, <1>9, <1>10 DEF Next
  <1>12. IInv /\ [Next]_vars =>
            [/\ \A e \in Expenses : expense[e] # 0 /\ expense'[e] = 0 =>
                \/ \E c \in Clerks : desk[c].op = "expense" /\ desk[c].row = e /\ desk'[c] = Idle
                \/ expense[e] \in mixed'
             /\ \A n \in fronted \ fronted' : rows'[n] = 0 \/ Form[n].via \in mixed']_vars
    BY <1>11
  <1> HIDE DEF Kept
  <1> QED
    BY <1>12, Invariance, PTL DEF Spec, NothingIsLostOnTheSide
-----------------------------------------------------------------------------
(* Sums.  The library folds a function by a recursion over sets; what it     *)
(* computes is reached by induction over finite sets, told as a set of       *)
(* subsets (`good`) that the empty set is in and that adding keeps one in.   *)

(* The induction: every finite set is reached one member at a time. *)
LEMMA FiniteInduction ==
    ASSUME NEW S, IsFiniteSet(S), NEW good, {} \in good,
           \A T \in SUBSET S : \A x \in S \ T : T \in good => T \cup {x} \in good
    PROVE  S \in good
  <1> DEFINE Bad == {T \in FiniteSubsetsOf(S) : T \notin good}
  <1>1. Bad = {}
    <2> SUFFICES ASSUME Bad # {} PROVE FALSE
      OBVIOUS
    <2>1. PICK T \in Bad : \A U \in Bad : ~(<<U, T>> \in StrictSubsetOrdering(S))
      BY FS_StrictSubsetOrderingWellFounded, WFMin
    <2>2. T \in SUBSET S /\ IsFiniteSet(T) /\ T # {} /\ T \notin good
      BY <2>1 DEF FiniteSubsetsOf
    <2>3. PICK x \in T : TRUE
      BY <2>2
    <2>4. PICK U : U = T \ {x}
      OBVIOUS
    <2>5. U \in FiniteSubsetsOf(S) /\ <<U, T>> \in StrictSubsetOrdering(S)
      BY <2>2, <2>3, <2>4, FS_RemoveElement DEF FiniteSubsetsOf, StrictSubsetOrdering
    <2>6. U \in good
      BY <2>1, <2>5
    <2>7. U \in SUBSET S /\ x \in S \ U /\ T = U \cup {x}
      BY <2>2, <2>3, <2>4
    <2>8. U \cup {x} \in good
      BY <2>6, <2>7
    <2> QED BY <2>2, <2>7, <2>8
  <1>2. S \in FiniteSubsetsOf(S)
    BY DEF FiniteSubsetsOf
  <1> QED
    BY <1>1, <1>2

Pick(T) == CHOOSE x \in T : TRUE

(* g is the recursion of the fold over the subsets of S. *)
FoldOf(g, v, S) == g = [s \in SUBSET S |-> IF s = {} THEN 0 ELSE v[Pick(s)] + g[s \ {Pick(s)}]]

LEMMA PickIn == ASSUME NEW T, T # {} PROVE Pick(T) \in T
  BY DEF Pick

LEMMA SumIsFold ==
    ASSUME NEW v, NEW S
    PROVE  SumFunctionOnSet(v, S) = (CHOOSE g : FoldOf(g, v, S))[S]
  BY DEF SumFunctionOnSet, FoldFunctionOnSet, MapThenFoldSet, FoldOf, Pick

(* Two such recursions agree where both are defined. *)
LEMMA FoldsAgree ==
    ASSUME NEW v, NEW A, NEW B, NEW g, NEW h, FoldOf(g, v, A), FoldOf(h, v, B),
           NEW S \in SUBSET (A \cap B), IsFiniteSet(S)
    PROVE  g[S] = h[S]
  <1> DEFINE Bad == {T \in FiniteSubsetsOf(S) : g[T] # h[T]}
  <1>1. Bad = {}
    <2> SUFFICES ASSUME Bad # {} PROVE FALSE
      OBVIOUS
    <2>1. PICK T \in Bad : \A U \in Bad : ~(<<U, T>> \in StrictSubsetOrdering(S))
      BY FS_StrictSubsetOrderingWellFounded, WFMin
    <2>2. T \in SUBSET S /\ IsFiniteSet(T) /\ g[T] # h[T]
      BY <2>1 DEF FiniteSubsetsOf
    <2>3. T \in SUBSET A /\ T \in SUBSET B
      BY <2>2
    <2>4. CASE T = {}
      <3>1. g[T] = 0
        BY <2>3, <2>4 DEF FoldOf
      <3>2. h[T] = 0
        BY <2>3, <2>4 DEF FoldOf
      <3> QED BY <2>2, <3>1, <3>2
    <2>5. CASE T # {}
      <3>1. PICK U : U = T \ {Pick(T)}
        OBVIOUS
      <3>2. Pick(T) \in T
        BY <2>5, PickIn
      <3>3. U \in FiniteSubsetsOf(S) /\ <<U, T>> \in StrictSubsetOrdering(S)
        BY <2>2, <3>1, <3>2, FS_RemoveElement DEF FiniteSubsetsOf, StrictSubsetOrdering
      <3>4. g[U] = h[U]
        BY <2>1, <3>3
      <3>5. g[T] = v[Pick(T)] + g[U]
        BY <2>3, <2>5, <3>1 DEF FoldOf
      <3>6. h[T] = v[Pick(T)] + h[U]
        BY <2>3, <2>5, <3>1 DEF FoldOf
      <3> QED BY <2>2, <3>4, <3>5, <3>6
    <2> QED BY <2>4, <2>5
  <1>2. S \in FiniteSubsetsOf(S)
    BY DEF FiniteSubsetsOf
  <1> QED
    BY <1>1, <1>2

(* Over a finite set there is such a recursion. *)
LEMMA FoldExists ==
    ASSUME NEW v, NEW S, IsFiniteSet(S)
    PROVE  \E g : FoldOf(g, v, S)
  <1> DEFINE Bad == {T \in FiniteSubsetsOf(S) : ~\E g : FoldOf(g, v, T)}
  <1>1. Bad = {}
    <2> SUFFICES ASSUME Bad # {} PROVE FALSE
      OBVIOUS
    <2>1. PICK T \in Bad : \A U \in Bad : ~(<<U, T>> \in StrictSubsetOrdering(S))
      BY FS_StrictSubsetOrderingWellFounded, WFMin
    <2>2. T \in SUBSET S /\ IsFiniteSet(T) /\ ~\E g : FoldOf(g, v, T)
      BY <2>1 DEF FiniteSubsetsOf
    <2>3. PICK value : value = [u \in SUBSET T |-> (CHOOSE g : FoldOf(g, v, u))[u]]
      OBVIOUS
    <2>4. PICK h : h = [s \in SUBSET T |-> IF s = {} THEN 0 ELSE v[Pick(s)] + value[s \ {Pick(s)}]]
      OBVIOUS
    <2>5. ASSUME NEW u \in SUBSET T, u # T
          PROVE  IsFiniteSet(u) /\ FoldOf(CHOOSE k : FoldOf(k, v, u), v, u)
      <3>1. IsFiniteSet(u)
        BY <2>2, FS_Subset
      <3>2. u \in FiniteSubsetsOf(S) /\ <<u, T>> \in StrictSubsetOrdering(S)
        BY <2>2, <2>5, <3>1 DEF FiniteSubsetsOf, StrictSubsetOrdering
      <3>3. \E g : FoldOf(g, v, u)
        BY <2>1, <3>2
      <3> QED BY <3>1, <3>3
    <2>6. ASSUME NEW u \in SUBSET T, u # T PROVE h[u] = value[u]
      <3>1. PICK g : g = CHOOSE k : FoldOf(k, v, u)
        OBVIOUS
      <3>2. FoldOf(g, v, u) /\ value[u] = g[u]
        BY <2>3, <2>5, <2>6, <3>1
      <3>3. CASE u = {}
        <4>1. g[u] = 0
          BY <3>2, <3>3 DEF FoldOf
        <4>2. h[u] = 0
          BY <2>4, <3>3
        <4> QED BY <3>2, <4>1, <4>2
      <3>4. CASE u # {}
        <4>1. PICK w : w = u \ {Pick(u)}
          OBVIOUS
        <4>2. w \in SUBSET T /\ w # T /\ w \in SUBSET u
          BY <4>1, <3>4, PickIn, <2>6
        <4>3. PICK k : k = CHOOSE j : FoldOf(j, v, w)
          OBVIOUS
        <4>4. FoldOf(k, v, w) /\ IsFiniteSet(w) /\ value[w] = k[w]
          BY <2>3, <2>5, <4>2, <4>3
        <4>5. k[w] = g[w]
          <5>1. w \in SUBSET (w \cap u)
            BY <4>2
          <5> QED BY <5>1, <3>2, <4>4, FoldsAgree
        <4>6. g[u] = v[Pick(u)] + g[w]
          BY <3>2, <3>4, <4>1 DEF FoldOf
        <4>7. h[u] = v[Pick(u)] + value[w]
          BY <2>4, <3>4, <4>1
        <4> QED BY <3>2, <4>4, <4>5, <4>6, <4>7
      <3> QED BY <3>3, <3>4
    <2>7. ASSUME NEW s \in SUBSET T, s # {}
          PROVE  value[s \ {Pick(s)}] = h[s \ {Pick(s)}]
      <3>1. PICK w : w = s \ {Pick(s)}
        OBVIOUS
      <3>2. w \in SUBSET T /\ w # T
        BY <3>1, <2>7, PickIn
      <3> QED BY <3>1, <3>2, <2>6
    <2>8. h = [s \in SUBSET T |-> IF s = {} THEN 0 ELSE v[Pick(s)] + h[s \ {Pick(s)}]]
      BY <2>4, <2>7, Zenon
    <2> QED BY <2>2, <2>8 DEF FoldOf
  <1>2. S \in FiniteSubsetsOf(S)
    BY DEF FiniteSubsetsOf
  <1> QED
    BY <1>1, <1>2

LEMMA SumStep ==
    ASSUME NEW v, NEW S, IsFiniteSet(S), S # {}
    PROVE  SumFunctionOnSet(v, S) = v[Pick(S)] + SumFunctionOnSet(v, S \ {Pick(S)})
  <1>1. PICK U : U = S \ {Pick(S)}
    OBVIOUS
  <1>2. PICK g, h : g = (CHOOSE k : FoldOf(k, v, S)) /\ h = (CHOOSE k : FoldOf(k, v, U))
    OBVIOUS
  <1>3. IsFiniteSet(U) /\ U \in SUBSET S
    BY <1>1, FS_RemoveElement
  <1>4. FoldOf(g, v, S) /\ FoldOf(h, v, U)
    BY <1>2, <1>3, FoldExists
  <1>5. g[S] = v[Pick(S)] + g[U]
    BY <1>1, <1>4 DEF FoldOf
  <1>6. g[U] = h[U]
    <2>1. U \in SUBSET (S \cap U)
      BY <1>3
    <2> QED BY <2>1, <1>3, <1>4, FoldsAgree
  <1> QED
    BY <1>1, <1>2, <1>5, <1>6, SumIsFold

LEMMA SumEmpty ==
    ASSUME NEW v
    PROVE  SumFunctionOnSet(v, {}) = 0
  <1>1. PICK g : g = CHOOSE k : FoldOf(k, v, {})
    OBVIOUS
  <1>2. FoldOf(g, v, {})
    BY <1>1, FoldExists, FS_EmptySet
  <1>3. g[{}] = 0
    BY <1>2 DEF FoldOf
  <1> QED
    BY <1>1, <1>3, SumIsFold

(* What a sum is of counts, not where the function comes from. *)
LEMMA SumSame ==
    ASSUME NEW v, NEW w, NEW S, IsFiniteSet(S), \A x \in S : v[x] = w[x]
    PROVE  SumFunctionOnSet(v, S) = SumFunctionOnSet(w, S)
  <1> DEFINE Bad == {T \in FiniteSubsetsOf(S) : SumFunctionOnSet(v, T) # SumFunctionOnSet(w, T)}
  <1>1. Bad = {}
    <2> SUFFICES ASSUME Bad # {} PROVE FALSE
      OBVIOUS
    <2>1. PICK T \in Bad : \A U \in Bad : ~(<<U, T>> \in StrictSubsetOrdering(S))
      BY FS_StrictSubsetOrderingWellFounded, WFMin
    <2>2. T \in SUBSET S /\ IsFiniteSet(T) /\ SumFunctionOnSet(v, T) # SumFunctionOnSet(w, T)
      BY <2>1 DEF FiniteSubsetsOf
    <2>3. T # {}
      BY <2>2, SumEmpty
    <2>4. PICK U : U = T \ {Pick(T)}
      OBVIOUS
    <2>5. Pick(T) \in T
      BY <2>3, PickIn
    <2>6. U \in FiniteSubsetsOf(S) /\ <<U, T>> \in StrictSubsetOrdering(S)
      BY <2>2, <2>4, <2>5, FS_RemoveElement DEF FiniteSubsetsOf, StrictSubsetOrdering
    <2>7. SumFunctionOnSet(v, U) = SumFunctionOnSet(w, U)
      BY <2>1, <2>6
    <2>8. v[Pick(T)] = w[Pick(T)]
      BY <2>2, <2>5
    <2> QED BY <2>2, <2>3, <2>4, <2>7, <2>8, SumStep
  <1>2. S \in FiniteSubsetsOf(S)
    BY DEF FiniteSubsetsOf
  <1> QED
    BY <1>1, <1>2

(* Any member may be taken out first. *)
LEMMA SumOut ==
    ASSUME NEW v, NEW S, IsFiniteSet(S), \A x \in S : v[x] \in Int
    PROVE  /\ SumFunctionOnSet(v, S) \in Int
           /\ \A x \in S : SumFunctionOnSet(v, S) = v[x] + SumFunctionOnSet(v, S \ {x})
  <1> DEFINE Fine(T) == /\ SumFunctionOnSet(v, T) \in Int
                        /\ \A x \in T : SumFunctionOnSet(v, T) = v[x] + SumFunctionOnSet(v, T \ {x})
             Bad == {T \in FiniteSubsetsOf(S) : ~Fine(T)}
  <1>1. Bad = {}
    <2> SUFFICES ASSUME Bad # {} PROVE FALSE
      OBVIOUS
    <2>1. PICK T \in Bad : \A U \in Bad : ~(<<U, T>> \in StrictSubsetOrdering(S))
      BY FS_StrictSubsetOrderingWellFounded, WFMin
    <2>2. T \in SUBSET S /\ IsFiniteSet(T) /\ ~Fine(T)
      BY <2>1 DEF FiniteSubsetsOf
    <2>3. T # {}
      <3> SUFFICES ASSUME T = {} PROVE Fine(T)
        BY <2>2
      <3> QED BY SumEmpty
    <2>4. ASSUME NEW x \in T PROVE IsFiniteSet(T \ {x}) /\ Fine(T \ {x})
      <3>1. T \ {x} \in FiniteSubsetsOf(S) /\ <<T \ {x}, T>> \in StrictSubsetOrdering(S)
        BY <2>2, FS_RemoveElement DEF FiniteSubsetsOf, StrictSubsetOrdering
      <3> QED BY <2>1, <3>1, <2>2, FS_RemoveElement
    <2>5. PICK p, rest : p = Pick(T) /\ rest = SumFunctionOnSet(v, T \ {p})
      OBVIOUS
    <2>6. p \in T /\ v[p] \in Int /\ rest \in Int
      BY <2>2, <2>3, <2>4, <2>5, PickIn
    <2>7. SumFunctionOnSet(v, T) = v[p] + rest
      BY <2>2, <2>3, <2>5, SumStep
    <2>8. ASSUME NEW x \in T, x # p PROVE SumFunctionOnSet(v, T) = v[x] + SumFunctionOnSet(v, T \ {x})
      <3>1. PICK R : R = (T \ {p}) \ {x}
        OBVIOUS
      <3>2. R = (T \ {x}) \ {p} /\ x \in T \ {p} /\ p \in T \ {x}
        BY <2>6, <2>8, <3>1
      <3>3. IsFiniteSet(T \ {p}) /\ Fine(T \ {p})
        BY <2>4, <2>6
      <3>4. rest = v[x] + SumFunctionOnSet(v, R)
        BY <2>5, <3>1, <3>2, <3>3
      <3>5. SumFunctionOnSet(v, T \ {x}) = v[p] + SumFunctionOnSet(v, R)
        BY <2>4, <3>2
      <3>6. SumFunctionOnSet(v, R) \in Int
        <4>1. T \ {p} \in Bad \/ Fine(T \ {p})
          BY <3>3
        <4>2. R \in FiniteSubsetsOf(S) /\ <<R, T>> \in StrictSubsetOrdering(S)
          BY <2>2, <2>6, <3>1, <3>3, FS_RemoveElement DEF FiniteSubsetsOf, StrictSubsetOrdering
        <4>3. Fine(R)
          BY <2>1, <4>2
        <4> QED BY <4>3
      <3>7. v[x] \in Int
        BY <2>2
      <3> HIDE DEF Fine, Bad
      <3> QED BY <2>6, <2>7, <3>4, <3>5, <3>6, <3>7
    <2>9. SumFunctionOnSet(v, T) \in Int
      BY <2>6, <2>7
    <2>10. Fine(T)
      BY <2>5, <2>7, <2>8, <2>9
    <2> QED BY <2>2, <2>10
  <1>2. S \in FiniteSubsetsOf(S)
    BY DEF FiniteSubsetsOf
  <1> QED
    BY <1>1, <1>2

LEMMA SumIn ==
    ASSUME NEW v, NEW S, IsFiniteSet(S), NEW x, x \notin S, v[x] \in Int, \A y \in S : v[y] \in Int
    PROVE  SumFunctionOnSet(v, S \cup {x}) = v[x] + SumFunctionOnSet(v, S)
  <1>1. PICK T : T = S \cup {x}
    OBVIOUS
  <1>2. IsFiniteSet(T) /\ x \in T /\ T \ {x} = S /\ \A y \in T : v[y] \in Int
    BY <1>1, FS_AddElement
  <1> QED
    BY <1>1, <1>2, SumOut

LEMMA SumIsNat ==
    ASSUME NEW v, NEW S, IsFiniteSet(S), \A x \in S : v[x] \in Nat
    PROVE  SumFunctionOnSet(v, S) \in Nat
  <1>1. PICK good : good = {T \in SUBSET S : SumFunctionOnSet(v, T) \in Nat}
    OBVIOUS
  <1>2. {} \in good
    BY <1>1, SumEmpty
  <1>3. ASSUME NEW T \in SUBSET S, NEW x \in S \ T, T \in good PROVE T \cup {x} \in good
    <2>1. SumFunctionOnSet(v, T) \in Nat
      BY <1>1, <1>3
    <2>2. v[x] \in Nat /\ v[x] \in Int /\ \A y \in T : v[y] \in Int
      OBVIOUS
    <2>3. IsFiniteSet(T)
      BY FS_Subset
    <2>4. SumFunctionOnSet(v, T \cup {x}) = v[x] + SumFunctionOnSet(v, T)
      BY <2>2, <2>3, SumIn
    <2>5. SumFunctionOnSet(v, T \cup {x}) \in Nat
      BY <2>1, <2>2, <2>4
    <2> QED BY <1>1, <2>5
  <1>4. S \in good
    BY <1>2, <1>3, FiniteInduction
  <1> QED
    BY <1>1, <1>4

LEMMA SumUnion ==
    ASSUME NEW v, NEW A, NEW B, IsFiniteSet(A), IsFiniteSet(B), A \cap B = {},
           \A x \in A \cup B : v[x] \in Int
    PROVE  SumFunctionOnSet(v, A \cup B) = SumFunctionOnSet(v, A) + SumFunctionOnSet(v, B)
  <1>1. PICK good : good = {T \in SUBSET B : SumFunctionOnSet(v, A \cup T)
                                               = SumFunctionOnSet(v, A) + SumFunctionOnSet(v, T)}
    OBVIOUS
  <1>2. SumFunctionOnSet(v, A) \in Int
    BY SumOut
  <1>3. {} \in good
    <2>1. A \cup {} = A
      OBVIOUS
    <2> QED BY <1>1, <1>2, <2>1, SumEmpty
  <1>4. ASSUME NEW T \in SUBSET B, NEW x \in B \ T, T \in good PROVE T \cup {x} \in good
    <2>1. SumFunctionOnSet(v, A \cup T) = SumFunctionOnSet(v, A) + SumFunctionOnSet(v, T)
      BY <1>1, <1>4
    <2>2. IsFiniteSet(T) /\ IsFiniteSet(A \cup T)
      BY FS_Subset, FS_Union
    <2>3. v[x] \in Int /\ x \notin A \cup T /\ \A y \in A \cup T : v[y] \in Int
      OBVIOUS
    <2>4. SumFunctionOnSet(v, T) \in Int
      BY <2>2, <2>3, SumOut
    <2>5. SumFunctionOnSet(v, T \cup {x}) = v[x] + SumFunctionOnSet(v, T)
      BY <2>2, <2>3, SumIn
    <2>6. SumFunctionOnSet(v, (A \cup T) \cup {x}) = v[x] + SumFunctionOnSet(v, A \cup T)
      BY <2>2, <2>3, SumIn
    <2>7. (A \cup T) \cup {x} = A \cup (T \cup {x})
      OBVIOUS
    <2>8. SumFunctionOnSet(v, A \cup (T \cup {x})) = SumFunctionOnSet(v, A) + SumFunctionOnSet(v, T \cup {x})
      <3>1. SumFunctionOnSet(v, A \cup (T \cup {x})) = SumFunctionOnSet(v, (A \cup T) \cup {x})
        BY <2>7
      <3>2. v[x] \in Int
        BY <2>3
      <3> QED BY <1>2, <2>1, <2>4, <2>5, <2>6, <3>1, <3>2
    <2> QED BY <1>1, <2>8
  <1>5. B \in good
    BY <1>3, <1>4, FiniteInduction
  <1> QED
    BY <1>1, <1>5

LEMMA SumZero ==
    ASSUME NEW v, NEW S, IsFiniteSet(S), \A x \in S : v[x] = 0
    PROVE  SumFunctionOnSet(v, S) = 0
  <1>1. PICK good : good = {T \in SUBSET S : SumFunctionOnSet(v, T) = 0}
    OBVIOUS
  <1>2. {} \in good
    BY <1>1, SumEmpty
  <1>3. ASSUME NEW T \in SUBSET S, NEW x \in S \ T, T \in good PROVE T \cup {x} \in good
    <2>1. SumFunctionOnSet(v, T) = 0
      BY <1>1, <1>3
    <2>2. v[x] = 0 /\ v[x] \in Int /\ \A y \in T : v[y] \in Int
      OBVIOUS
    <2>3. IsFiniteSet(T)
      BY FS_Subset
    <2>4. SumFunctionOnSet(v, T \cup {x}) = v[x] + SumFunctionOnSet(v, T)
      BY <2>2, <2>3, SumIn
    <2>5. SumFunctionOnSet(v, T \cup {x}) = 0
      BY <2>1, <2>2, <2>4
    <2> QED BY <1>1, <2>5
  <1>4. S \in good
    BY <1>2, <1>3, FiniteInduction
  <1> QED
    BY <1>1, <1>4

(* What is left out was nothing, or at least never less than nothing. *)
LEMMA SumPart ==
    ASSUME NEW v, NEW S, NEW T \in SUBSET S, IsFiniteSet(S), \A x \in S : v[x] \in Int
    PROVE  /\ (\A x \in S \ T : v[x] = 0) => SumFunctionOnSet(v, T) = SumFunctionOnSet(v, S)
           /\ (\A x \in S \ T : v[x] >= 0) => SumFunctionOnSet(v, T) <= SumFunctionOnSet(v, S)
  <1>1. PICK R : R = S \ T
    OBVIOUS
  <1>2. R \cap T = {} /\ T \cup R = S /\ IsFiniteSet(R) /\ IsFiniteSet(T)
    BY <1>1, FS_Subset
  <1>3. SumFunctionOnSet(v, S) = SumFunctionOnSet(v, T) + SumFunctionOnSet(v, R)
    BY <1>2, SumUnion
  <1>4. SumFunctionOnSet(v, T) \in Int /\ SumFunctionOnSet(v, R) \in Int
    BY <1>2, SumOut
  <1>5. ASSUME \A x \in S \ T : v[x] = 0 PROVE SumFunctionOnSet(v, R) = 0
    BY <1>1, <1>2, <1>5, SumZero
  <1>6. ASSUME \A x \in S \ T : v[x] >= 0 PROVE SumFunctionOnSet(v, R) \in Nat
    <2>1. \A x \in R : v[x] \in Nat
      BY <1>1, <1>6
    <2> QED BY <1>2, <2>1, SumIsNat
  <1> QED
    BY <1>3, <1>4, <1>5, <1>6

LEMMA SumPlus ==
    ASSUME NEW v, NEW u, NEW w, NEW S, IsFiniteSet(S),
           \A x \in S : u[x] \in Int /\ w[x] \in Int /\ v[x] = u[x] + w[x]
    PROVE  SumFunctionOnSet(v, S) = SumFunctionOnSet(u, S) + SumFunctionOnSet(w, S)
  <1>1. PICK good : good = {T \in SUBSET S : SumFunctionOnSet(v, T)
                                               = SumFunctionOnSet(u, T) + SumFunctionOnSet(w, T)}
    OBVIOUS
  <1>2. {} \in good
    BY <1>1, SumEmpty
  <1>3. ASSUME NEW T \in SUBSET S, NEW x \in S \ T, T \in good PROVE T \cup {x} \in good
    <2>1. SumFunctionOnSet(v, T) = SumFunctionOnSet(u, T) + SumFunctionOnSet(w, T)
      BY <1>1, <1>3
    <2>2. IsFiniteSet(T)
      BY FS_Subset
    <2>3. \A y \in S : u[y] \in Int /\ w[y] \in Int /\ v[y] \in Int
      OBVIOUS
    <2>4. SumFunctionOnSet(u, T) \in Int /\ SumFunctionOnSet(w, T) \in Int
      BY <2>2, <2>3, SumOut
    <2>5. /\ SumFunctionOnSet(v, T \cup {x}) = v[x] + SumFunctionOnSet(v, T)
          /\ SumFunctionOnSet(u, T \cup {x}) = u[x] + SumFunctionOnSet(u, T)
          /\ SumFunctionOnSet(w, T \cup {x}) = w[x] + SumFunctionOnSet(w, T)
      BY <2>2, <2>3, SumIn
    <2>6. SumFunctionOnSet(v, T \cup {x}) = SumFunctionOnSet(u, T \cup {x}) + SumFunctionOnSet(w, T \cup {x})
      BY <2>1, <2>3, <2>4, <2>5
    <2> QED BY <1>1, <2>6
  <1>4. S \in good
    BY <1>2, <1>3, FiniteInduction
  <1> QED
    BY <1>1, <1>4

LEMMA SumLess ==
    ASSUME NEW u, NEW v, NEW S, IsFiniteSet(S), \A x \in S : u[x] \in Int /\ v[x] \in Int /\ u[x] <= v[x]
    PROVE  SumFunctionOnSet(u, S) <= SumFunctionOnSet(v, S)
  <1>1. PICK w : w = [x \in S |-> v[x] - u[x]]
    OBVIOUS
  <1>2. \A x \in S : u[x] \in Int /\ w[x] \in Nat /\ w[x] \in Int /\ v[x] = u[x] + w[x]
    BY <1>1
  <1>3. SumFunctionOnSet(v, S) = SumFunctionOnSet(u, S) + SumFunctionOnSet(w, S)
    BY <1>2, SumPlus
  <1>4. SumFunctionOnSet(w, S) \in Nat /\ SumFunctionOnSet(u, S) \in Int
    BY <1>2, SumIsNat, SumOut
  <1> QED
    BY <1>3, <1>4

(* By owner: a sum is the sum of what its parts come to. *)
LEMMA SumOfParts ==
    ASSUME NEW v, NEW S, NEW C, IsFiniteSet(S), IsFiniteSet(C), NEW part, NEW total,
           \A x \in S : v[x] \in Int,
           \A c \in C : part[c] \in SUBSET S /\ total[c] = SumFunctionOnSet(v, part[c]),
           \A c, d \in C : c # d => part[c] \cap part[d] = {},
           \A x \in S : \E c \in C : x \in part[c]
    PROVE  SumFunctionOnSet(v, S) = SumFunctionOnSet(total, C)
  <1>1. PICK these : these = [D \in SUBSET C |-> {x \in S : \E c \in D : x \in part[c]}]
    OBVIOUS
  <1>2. PICK good : good = {D \in SUBSET C : SumFunctionOnSet(v, these[D]) = SumFunctionOnSet(total, D)}
    OBVIOUS
  <1>3. {} \in good
    <2>1. these[{}] = {}
      BY <1>1
    <2> QED BY <1>2, <2>1, SumEmpty
  <1>4. \A c \in C : IsFiniteSet(part[c]) /\ total[c] \in Int
    <2> TAKE c \in C
    <2>1. IsFiniteSet(part[c]) /\ \A x \in part[c] : v[x] \in Int
      BY FS_Subset
    <2> QED BY <2>1, SumOut
  <1>5. ASSUME NEW D \in SUBSET C, NEW c \in C \ D, D \in good PROVE D \cup {c} \in good
    <2>1. PICK A, B : A = these[D] /\ B = part[c]
      OBVIOUS
    <2>2. A \in SUBSET S /\ B \in SUBSET S /\ A \cap B = {} /\ these[D \cup {c}] = A \cup B
      BY <1>1, <2>1
    <2>3. IsFiniteSet(A) /\ IsFiniteSet(B) /\ IsFiniteSet(D)
      BY <2>2, FS_Subset
    <2>4. \A x \in A \cup B : v[x] \in Int
      BY <2>2
    <2>5. SumFunctionOnSet(v, A \cup B) = SumFunctionOnSet(v, A) + SumFunctionOnSet(v, B)
      BY <2>2, <2>3, <2>4, SumUnion
    <2>6. SumFunctionOnSet(v, A) = SumFunctionOnSet(total, D) /\ total[c] = SumFunctionOnSet(v, B)
      BY <1>2, <1>5, <2>1
    <2>7. SumFunctionOnSet(total, D \cup {c}) = total[c] + SumFunctionOnSet(total, D)
      BY <1>4, <2>3, SumIn
    <2>8. SumFunctionOnSet(total, D) \in Int /\ total[c] \in Int
      BY <1>4, <2>3, SumOut
    <2>9. SumFunctionOnSet(v, these[D \cup {c}]) = SumFunctionOnSet(total, D \cup {c})
      BY <2>2, <2>5, <2>6, <2>7, <2>8
    <2> QED BY <1>2, <2>9
  <1>6. C \in good
    BY <1>3, <1>5, FiniteInduction
  <1>7. these[C] = S
    BY <1>1
  <1> QED
    BY <1>2, <1>6, <1>7

(* A table with its lines and with its columns, and what each comes to. *)
IsTable(m, turned, line, column, A, B) ==
    /\ \A x \in A : \A y \in B : m[x][y] \in Int /\ turned[y][x] = m[x][y]
    /\ \A x \in A : line[x] = SumFunctionOnSet(m[x], B)
    /\ \A y \in B : column[y] = SumFunctionOnSet(turned[y], A)

(* It adds up to the same either way. *)
LEMMA SumExchange ==
    ASSUME NEW m, NEW turned, NEW line, NEW column, NEW A, NEW B, IsFiniteSet(A), IsFiniteSet(B),
           IsTable(m, turned, line, column, A, B)
    PROVE  SumFunctionOnSet(line, A) = SumFunctionOnSet(column, B)
  <1> USE DEF IsTable
  <1>1. PICK upto : upto = [T \in SUBSET A |-> [y \in B |-> SumFunctionOnSet(turned[y], T)]]
    OBVIOUS
  <1>2. PICK good : good = {T \in SUBSET A : SumFunctionOnSet(line, T) = SumFunctionOnSet(upto[T], B)}
    OBVIOUS
  <1>3. {} \in good
    <2>1. \A y \in B : upto[{}][y] = 0
      BY <1>1, SumEmpty
    <2> QED BY <1>2, <2>1, SumZero, SumEmpty
  <1>4. \A x \in A : line[x] \in Int
    BY SumOut
  <1>5. ASSUME NEW T \in SUBSET A, NEW x \in A \ T, T \in good PROVE T \cup {x} \in good
    <2>1. IsFiniteSet(T)
      BY FS_Subset
    <2>2. ASSUME NEW y \in B
          PROVE  upto[T \cup {x}][y] = m[x][y] + upto[T][y] /\ upto[T][y] \in Int /\ m[x][y] \in Int
      <3>1. PICK f : f = turned[y]
        OBVIOUS
      <3>2. f[x] = m[x][y] /\ f[x] \in Int /\ \A z \in T : f[z] \in Int
        BY <3>1
      <3>3. SumFunctionOnSet(f, T \cup {x}) = f[x] + SumFunctionOnSet(f, T) /\ SumFunctionOnSet(f, T) \in Int
        BY <2>1, <3>2, SumIn, SumOut
      <3>4. upto[T \cup {x}][y] = SumFunctionOnSet(f, T \cup {x}) /\ upto[T][y] = SumFunctionOnSet(f, T)
        BY <1>1, <3>1
      <3> QED BY <3>2, <3>3, <3>4
    <2>3. PICK v, u, w : v = upto[T \cup {x}] /\ u = m[x] /\ w = upto[T]
      OBVIOUS
    <2>4. SumFunctionOnSet(v, B) = SumFunctionOnSet(u, B) + SumFunctionOnSet(w, B)
      <3>1. \A y \in B : u[y] \in Int /\ w[y] \in Int /\ v[y] = u[y] + w[y]
        BY <2>2, <2>3
      <3> QED BY <3>1, SumPlus
    <2>5. SumFunctionOnSet(line, T \cup {x}) = line[x] + SumFunctionOnSet(line, T)
      BY <1>4, <2>1, SumIn
    <2>6. SumFunctionOnSet(line, T) = SumFunctionOnSet(w, B)
      BY <1>2, <1>5, <2>3
    <2>7. SumFunctionOnSet(line, T \cup {x}) = SumFunctionOnSet(v, B)
      BY <2>3, <2>4, <2>5, <2>6
    <2> QED BY <1>2, <2>3, <2>7
  <1>6. A \in good
    BY <1>3, <1>5, FiniteInduction
  <1>7. SumFunctionOnSet(upto[A], B) = SumFunctionOnSet(column, B)
    <2>1. \A y \in B : upto[A][y] = column[y]
      BY <1>1
    <2> QED BY <2>1, SumSame
  <1> QED
    BY <1>2, <1>6, <1>7
-----------------------------------------------------------------------------
-----------------------------------------------------------------------------
(* The figures that are sums. *)

LEMMA SumFull ==
    ASSUME NEW f, NEW v, NEW S, DOMAIN f = S, IsFiniteSet(S), \A x \in S : f[x] = v[x]
    PROVE  SumFunction(f) = SumFunctionOnSet(v, S)
  BY SumSame DEF SumFunction

LEMMA FiniteTables ==
    /\ IsFiniteSet(Orders) /\ IsFiniteSet(Docs) /\ IsFiniteSet(Forms)
    /\ IsFiniteSet(Clients) /\ IsFiniteSet(Translators)
  BY BureauAssumptions, FS_Interval DEF Orders, Docs

LEMMA FormTypes ==
    ASSUME NEW k \in Forms
    PROVE  /\ Form[k].amount \in Nat
           /\ IsFiniteSet(DOMAIN Form[k].alloc)
           /\ \A x \in DOMAIN Form[k].alloc : Form[k].alloc[x] \in Nat \ {0}
           /\ AllocatedBy(k) \in Nat
  <1>1. Form[k].amount \in Nat /\ \A x \in DOMAIN Form[k].alloc : Form[k].alloc[x] \in Nat \ {0}
    BY BureauAssumptions
  <1>2. IsFiniteSet(DOMAIN Form[k].alloc)
    <2>1. DOMAIN Form[k].alloc \subseteq Docs \/ DOMAIN Form[k].alloc \subseteq Orders
      BY BureauAssumptions
    <2> QED BY <2>1, FiniteTables, FS_Subset
  <1>3. AllocatedBy(k) \in Nat
    BY <1>1, <1>2, SumIsNat DEF AllocatedBy, SumFunction
  <1> QED
    BY <1>1, <1>2, <1>3

LEMMA RowsAreFew ==
    ASSUME IInv
    PROVE  \A k \in Forms : rows[k] \in {0, 1}
  <1> TAKE k \in Forms
  <1>1. rows[k] \in Nat
    BY DEF IInv, Typed, RowsTyped
  <1>2. rows[k] <= 1
    BY DEF IInv, Tables, OneRowPerForm
  <1> QED
    BY <1>1, <1>2

LEMMA ShareIs ==
    ASSUME IInv, NEW k \in Forms, NEW x \in DOMAIN Form[k].alloc
    PROVE  Share(k, x) \in Nat /\ Share(k, x) = IF rows[k] = 1 THEN Form[k].alloc[x] ELSE 0
  <1>1. PICK n, a : n = rows[k] /\ a = Form[k].alloc[x]
    OBVIOUS
  <1>2. n \in {0, 1} /\ a \in Nat
    BY <1>1, RowsAreFew, FormTypes
  <1>3. n * a \in Nat /\ n * a = IF n = 1 THEN a ELSE 0
    BY <1>2
  <1> QED
    BY <1>1, <1>3 DEF Share

LEMMA AmountIs ==
    ASSUME IInv, NEW k \in Forms
    PROVE  Amount(k) \in Nat
  <1>1. PICK n, a : n = rows[k] /\ a = Form[k].amount
    OBVIOUS
  <1>2. n \in {0, 1} /\ a \in Nat
    BY <1>1, RowsAreFew, FormTypes
  <1>3. n * a \in Nat
    BY <1>2
  <1> QED
    BY <1>1, <1>3 DEF Amount

LEMMA PaidIs ==
    ASSUME IInv, NEW o
    PROVE  Paid(o) \in Nat /\ (~Exists(o) /\ o \in Orders => Paid(o) = 0)
  <1>1. PICK F, f : F = FormsFor("client", o) /\ f = [k \in F |-> Share(k, o)]
    OBVIOUS
  <1>2. F \in SUBSET Forms /\ IsFiniteSet(F) /\ \A k \in F : o \in DOMAIN Form[k].alloc /\ Form[k].ledger = "client"
    BY <1>1, FiniteTables, FS_Subset DEF FormsFor, FormsOf
  <1>3. \A k \in F : f[k] \in Nat /\ (rows[k] # 1 => f[k] = 0)
    BY <1>1, <1>2, ShareIs
  <1>4. Paid(o) = SumFunctionOnSet(f, F)
    BY <1>1 DEF Paid, Allocated, SumFunction
  <1>5. ASSUME ~Exists(o) PROVE Paid(o) = 0
    <2>1. \A k \in F : rows[k] # 1
      BY <1>2, <1>5 DEF IInv, Tables, OneRowPerForm
    <2>2. \A k \in F : f[k] = 0
      BY <1>3, <2>1
    <2> QED BY <1>2, <1>4, <2>2, SumZero
  <1> QED
    BY <1>2, <1>3, <1>4, <1>5, SumIsNat

LEMMA BilledIs ==
    ASSUME IInv, NEW o \in Orders, Exists(o)
    PROVE  Billed(o) \in Nat /\ PerOrderOwed(o) \in Int
  <1>1. PICK D, f : D = DocsOf(o) /\ f = [d \in D |-> doc[d].price]
    OBVIOUS
  <1>2. D \in SUBSET Docs /\ IsFiniteSet(D)
    BY <1>1, FiniteTables, FS_Subset DEF DocsOf
  <1>3. \A d \in D : f[d] \in Nat
    <2> TAKE d \in D
    <2>1. doc[d].order = o /\ doc[d] \in DocRows \cup {NoDoc}
      BY <1>1, <1>2 DEF DocsOf, IInv, Typed, RowsTyped
    <2>2. o # 0
      BY DEF Orders
    <2>3. doc[d] # NoDoc
      BY <2>1, <2>2 DEF NoDoc
    <2> QED BY <1>1, <2>1, <2>3 DEF DocRows
  <1>4. DocumentsTotal(o) \in Nat
    BY <1>1, <1>2, <1>3, SumIsNat DEF DocumentsTotal, SumFunction
  <1>5. order[o].delivery \in Nat
    BY DEF IInv, Typed, RowsTyped, Exists, OrderRows
  <1> QED
    BY <1>4, <1>5, PaidIs DEF Billed, PerOrderOwed

LEMMA TheirCostIs ==
    ASSUME IInv, NEW o \in Orders, NEW t
    PROVE  TheirCost(t, o) \in Nat
  <1>1. PICK D, f : D = TheirDocs(t, o) /\ f = [d \in D |-> doc[d].cost]
    OBVIOUS
  <1>2. D \in SUBSET Docs /\ IsFiniteSet(D) /\ \A d \in D : doc[d].order = o
    <2>1. D \in SUBSET Docs /\ \A d \in D : doc[d].order = o
      BY <1>1 DEF TheirDocs, DocsOf
    <2> QED BY <2>1, FiniteTables, FS_Subset
  <1>3. \A d \in D : f[d] \in Nat
    <2> TAKE d \in D
    <2>1. doc[d] \in DocRows \cup {NoDoc}
      BY <1>2 DEF IInv, Typed, RowsTyped
    <2>2. o # 0
      BY DEF Orders
    <2>3. doc[d] # NoDoc
      BY <1>2, <2>2 DEF NoDoc
    <2> QED BY <1>1, <2>1, <2>3 DEF DocRows
  <1> QED
    BY <1>1, <1>2, <1>3, SumIsNat DEF TheirCost, SumFunction

LEMMA TheirPaidIs ==
    ASSUME IInv, NEW o, NEW t
    PROVE  TheirPaid(t, o) \in Nat
  <1>1. PICK F, f : F = TheirForms(t, o) /\ f = [k \in F |-> Share(k, o)]
    OBVIOUS
  <1>2. F \in SUBSET Forms /\ IsFiniteSet(F) /\ \A k \in F : o \in DOMAIN Form[k].alloc
    <2>1. F \in SUBSET Forms /\ \A k \in F : o \in DOMAIN Form[k].alloc
      BY <1>1 DEF TheirForms, FormsFor, FormsOf
    <2> QED BY <2>1, FiniteTables, FS_Subset
  <1>3. \A k \in F : f[k] \in Nat
    BY <1>1, <1>2, ShareIs
  <1> QED
    BY <1>1, <1>2, <1>3, SumIsNat DEF TheirPaid, SumFunction

(* The receivables card is the clients' lines. *)
LEMMA ReceivablesByClient ==
    ASSUME IInv
    PROVE  Receivables = SumFunction([cl \in Clients |-> ClientOutstanding(cl)])
  <1>1. PICK v : v = [o \in Orders |-> PerOrderOwed(o)]
    OBVIOUS
  <1>2. PICK S : S = Unpaid(Orders)
    OBVIOUS
  <1>3. PICK part : part = [cl \in Clients |-> Unpaid({o \in LiveOrders : order[o].client = cl})]
    OBVIOUS
  <1>4. PICK total : total = [cl \in Clients |-> ClientOutstanding(cl)]
    OBVIOUS
  <1>5. S \in SUBSET LiveOrders /\ LiveOrders \in SUBSET Orders /\ IsFiniteSet(S)
    <2>1. S \in SUBSET LiveOrders /\ LiveOrders \in SUBSET Orders
      BY <1>2 DEF Unpaid, LiveOrders
    <2> QED BY <2>1, FiniteTables, FS_Subset
  <1>6. \A o \in S : v[o] \in Int
    BY <1>1, <1>5, BilledIs DEF LiveOrders
  <1>7. \A cl \in Clients : part[cl] = {o \in S : order[o].client = cl}
    BY <1>2, <1>3, <1>5 DEF Unpaid
  <1>8. \A cl \in Clients : part[cl] \in SUBSET S /\ total[cl] = SumFunctionOnSet(v, part[cl])
    <2> TAKE cl \in Clients
    <2>1. part[cl] \in SUBSET S /\ IsFiniteSet(part[cl])
      BY <1>5, <1>7, FS_Subset
    <2>2. PICK f : f = [o \in part[cl] |-> PerOrderOwed(o)]
      OBVIOUS
    <2>3. \A o \in part[cl] : f[o] = v[o]
      BY <1>1, <1>5, <2>1, <2>2
    <2>4. total[cl] = SumFunction(f)
      BY <1>3, <1>4, <2>2 DEF ClientOutstanding, Outstanding
    <2> QED BY <2>1, <2>2, <2>3, <2>4, SumFull
  <1>9. \A o \in S : \E cl \in Clients : o \in part[cl]
    <2> TAKE o \in S
    <2>1. order[o] \in OrderRows
      BY <1>5 DEF LiveOrders, Exists, IInv, Typed, RowsTyped
    <2> QED BY <1>7, <2>1 DEF OrderRows
  <1>10. \A c, d \in Clients : c # d => part[c] \cap part[d] = {}
    BY <1>7
  <1>11. SumFunctionOnSet(v, S) = SumFunctionOnSet(total, Clients)
    BY <1>5, <1>6, <1>8, <1>9, <1>10, FiniteTables, SumOfParts
  <1>12. Receivables = SumFunctionOnSet(v, S)
    <2>1. PICK f : f = [o \in S |-> PerOrderOwed(o)]
      OBVIOUS
    <2>2. Receivables = SumFunction(f) /\ DOMAIN f = S /\ \A o \in S : f[o] = v[o]
      BY <1>1, <1>2, <1>5, <2>1 DEF Receivables, Outstanding
    <2> QED BY <2>2, <1>5, SumFull
  <1> QED
    BY <1>4, <1>11, <1>12 DEF SumFunction

(* Money of some forms, as a sum of one function of all of them. *)
LEMMA MovedIs ==
    ASSUME IInv, NEW F \in SUBSET Forms, NEW v, v = [k \in Forms |-> Amount(k)]
    PROVE  /\ Moved(F) = SumFunctionOnSet(v, F) /\ Moved(F) \in Nat
           /\ IsFiniteSet(F) /\ \A k \in F : v[k] \in Nat
  <1>1. IsFiniteSet(F) /\ \A k \in F : v[k] \in Nat
    BY FiniteTables, FS_Subset, AmountIs
  <1>2. PICK f : f = [k \in F |-> Amount(k)]
    OBVIOUS
  <1>3. DOMAIN f = F /\ \A k \in F : f[k] = v[k]
    BY <1>2
  <1>4. Moved(F) = SumFunctionOnSet(v, F)
    BY <1>1, <1>2, <1>3, SumFull DEF Moved
  <1> QED
    BY <1>1, <1>4, SumIsNat

(* The money of a set of forms, person by person. *)
LEMMA MovedByPerson ==
    ASSUME IInv, NEW F \in SUBSET Forms, NEW P, IsFiniteSet(P), NEW part, NEW total,
           \A p \in P : part[p] \in SUBSET F /\ total[p] = Moved(part[p]),
           \A p, q \in P : p # q => part[p] \cap part[q] = {},
           \A k \in F : \E p \in P : k \in part[p]
    PROVE  Moved(F) = SumFunctionOnSet(total, P)
  <1>1. PICK v : v = [k \in Forms |-> Amount(k)]
    OBVIOUS
  <1>2. Moved(F) = SumFunctionOnSet(v, F) /\ IsFiniteSet(F) /\ \A k \in F : v[k] \in Int
    BY <1>1, MovedIs
  <1>3. \A p \in P : part[p] \in SUBSET F /\ total[p] = SumFunctionOnSet(v, part[p])
    BY <1>1, MovedIs
  <1>4. \A p, q \in P : p # q => part[p] \cap part[q] = {}
    OBVIOUS
  <1>5. \A k \in F : \E p \in P : k \in part[p]
    OBVIOUS
  <1>6. IsFiniteSet(P) /\ IsFiniteSet(F) /\ \A k \in F : v[k] \in Int
    BY <1>2
  <1>7. SumFunctionOnSet(v, F) = SumFunctionOnSet(total, P)
    BY <1>3, <1>4, <1>5, <1>6, SumOfParts
  <1> QED
    BY <1>2, <1>7

(* Only two steps write the ledgers. *)
LEMMA LedgersBy ==
    ASSUME [Next]_vars
    PROVE  \/ rows' = rows /\ fronted' = fronted
           \/ \E c \in Clerks : InsertPayment(c) \/ RemovePayment(c)
  <1> DEFINE Same == rows' = rows /\ fronted' = fronted
  <1>1. CASE UNCHANGED vars
    BY <1>1 DEF vars, tableVars
  <1>2. CASE OrderStep
    <2>1. ASSUME NEW c \in Clerks, NEW n \in NewOrders, CreateOrder(c, n.client, n.urgency, n.courier, n.items)
          PROVE  Same
      BY <2>1 DEF CreateOrder, tableVars
    <2>2. ASSUME NEW c \in Clerks, DrawNumber(c) \/ CommitOrder(c) \/ CreateFails(c) PROVE Same
      BY <2>2 DEF DrawNumber, CommitOrder, CreateFails, Refused, tableVars
    <2>3. ASSUME NEW client \in Clients, NEW value \in {"completed", "cancelled"}, ImportOrder(client, value)
          PROVE  Same
      BY <2>3 DEF ImportOrder
    <2>4. ASSUME NEW c \in Clerks, NEW o \in Orders, EditOrder(c, o) PROVE Same
      BY <2>4 DEF EditOrder, SaveOrder, tableVars
    <2>5. ASSUME NEW c \in Clerks, WriteEdit(c) PROVE Same
      BY <2>5 DEF WriteEdit, Refused, tableVars
    <2>6. ASSUME NEW c \in Clerks, NEW o \in Orders, NEW value \in SelectableStatuses, ChangeStatus(c, o, value)
          PROVE  Same
      BY <2>6 DEF ChangeStatus, tableVars
    <2>7. ASSUME NEW c \in Clerks, WriteStatus(c) \/ RemoveOrder(c) PROVE Same
      BY <2>7 DEF WriteStatus, RemoveOrder, Refused, tableVars
    <2>8. ASSUME NEW c \in Clerks, NEW o \in Orders, DeleteOrder(c, o) PROVE Same
      BY <2>8 DEF DeleteOrder, tableVars
    <2>9. ASSUME ChangeSettings PROVE Same
      BY <2>9 DEF ChangeSettings
    <2> QED BY <1>2, <2>1, <2>2, <2>3, <2>4, <2>5, <2>6, <2>7, <2>8, <2>9 DEF OrderStep
  <1>3. CASE FinanceStep
    <2>1. ASSUME NEW c \in Clerks, NEW k \in Forms, RecordPayment(c, k) \/ DeletePayment(c, k) PROVE Same
      BY <2>1 DEF RecordPayment, DeletePayment, tableVars
    <2>2. ASSUME NEW c \in Clerks, WriteExpense(c) PROVE Same
      BY <2>2 DEF WriteExpense, Refused, tableVars
    <2>3. ASSUME NEW c \in Clerks, NEW e \in Expenses, NEW o \in Orders, CreateExpense(c, e, o) PROVE Same
      BY <2>3 DEF CreateExpense, tableVars
    <2>4. ASSUME NEW c \in Clerks, NEW e \in Expenses, DeleteExpense(c, e) PROVE Same
      BY <2>4 DEF DeleteExpense, tableVars
    <2> QED BY <1>3, <2>1, <2>2, <2>3, <2>4 DEF FinanceStep
  <1> QED
    BY <1>1, <1>2, <1>3 DEF Next

(* A notary payment that names a payout was filled in with one. *)
FrontedVia == \A n \in fronted : Form[n].via # None

LEMMA FrontedViaKeeps == FrontedVia /\ [Next]_vars => FrontedVia'
  <1> SUFFICES ASSUME FrontedVia, [Next]_vars PROVE FrontedVia'
    OBVIOUS
  <1>1. ASSUME NEW c \in Clerks, InsertPayment(c) PROVE FrontedVia'
    BY <1>1 DEF InsertPayment, Refused, tableVars, FrontedVia
  <1>2. ASSUME NEW c \in Clerks, RemovePayment(c) PROVE FrontedVia'
    BY <1>2 DEF RemovePayment, FrontedVia
  <1>3. CASE fronted' = fronted
    BY <1>3 DEF FrontedVia
  <1> QED
    BY <1>1, <1>2, <1>3, LedgersBy

(* A fee somebody fronted is in the payout that repaid it, and only there. *)
LEMMA PayoutsByPerson ==
    ASSUME IInv, FrontedVia
    PROVE  TranslatorPayouts + NotaryPayouts = SumFunction([t \in Translators |-> PaidToTranslator(t)]) + PaidToNotaries
  <1>1. PICK theirs, back :
            /\ theirs = [t \in Translators |-> FormsWith("translator", t)]
            /\ back = [t \in Translators |-> FrontedBy(t)]
    OBVIOUS
  <1>2. PICK T, N, F, v : T = FormsOf("translator") /\ N = FormsOf("notary") /\ F = fronted
                          /\ v = [k \in Forms |-> Amount(k)]
    OBVIOUS
  <1>3. T \in SUBSET Forms /\ N \in SUBSET Forms /\ F \in SUBSET N /\ F \in SUBSET Forms /\ N \ F \in SUBSET Forms
    BY <1>2 DEF FormsOf, IInv, Typed, RowsTyped
  <1>4. PICK got, own, net :
            /\ got = [t \in Translators |-> Moved(theirs[t])]
            /\ own = [t \in Translators |-> Moved(back[t])]
            /\ net = [t \in Translators |-> PaidToTranslator(t)]
    OBVIOUS
  <1>5. Moved(T) = SumFunctionOnSet(got, Translators)
    <2>1. \A t \in Translators : theirs[t] = {k \in T : Form[k].who = t}
      BY <1>1, <1>2 DEF FormsWith
    <2>2. \A k \in T : Form[k].who \in Translators
      BY <1>2, BureauAssumptions DEF FormsOf
    <2>3. \A t \in Translators : theirs[t] \in SUBSET T /\ got[t] = Moved(theirs[t])
      BY <1>4, <2>1
    <2>4. \A s, t \in Translators : s # t => theirs[s] \cap theirs[t] = {}
      BY <2>1
    <2>5. \A k \in T : \E t \in Translators : k \in theirs[t]
      BY <2>1, <2>2
    <2> QED BY <1>3, <2>3, <2>4, <2>5, FiniteTables, MovedByPerson
  <1>6. Moved(F) = SumFunctionOnSet(own, Translators)
    <2>1. \A t \in Translators : back[t] = {n \in F : Form[Form[n].via].who = t}
      BY <1>1, <1>2 DEF FrontedBy
    <2>2. \A n \in F : Form[Form[n].via].who \in Translators
      <3> TAKE n \in F
      <3>1. n \in Forms /\ Form[n].via # None
        BY <1>2, <1>3 DEF FrontedVia
      <3>2. Form[n].via \in Forms /\ Form[Form[n].via].ledger = "translator"
        BY <3>1, BureauAssumptions
      <3> QED BY <3>2, BureauAssumptions
    <2>3. \A t \in Translators : back[t] \in SUBSET F /\ own[t] = Moved(back[t])
      BY <1>4, <2>1
    <2>4. \A s, t \in Translators : s # t => back[s] \cap back[t] = {}
      BY <2>1
    <2>5. \A k \in F : \E t \in Translators : k \in back[t]
      BY <2>1, <2>2
    <2> QED BY <1>3, <2>3, <2>4, <2>5, FiniteTables, MovedByPerson
  <1>7. \A t \in Translators : net[t] \in Int /\ own[t] \in Int /\ got[t] = net[t] + own[t]
    <2> TAKE t \in Translators
    <2>1. theirs[t] \in SUBSET Forms /\ back[t] \in SUBSET Forms
      BY <1>1, <1>2, <1>3 DEF FormsWith, FormsOf, FrontedBy
    <2>2. got[t] \in Nat /\ own[t] \in Nat
      BY <1>4, <2>1, MovedIs
    <2>3. net[t] = got[t] - own[t]
      BY <1>1, <1>4 DEF PaidToTranslator
    <2> QED BY <2>2, <2>3
  <1>8. SumFunctionOnSet(got, Translators) = SumFunctionOnSet(net, Translators) + SumFunctionOnSet(own, Translators)
    BY <1>7, FiniteTables, SumPlus
  <1>9. Moved(N) = Moved(N \ F) + Moved(F)
    <2>1. /\ IsFiniteSet(N \ F) /\ IsFiniteSet(F) /\ \A k \in Forms : v[k] \in Int
          /\ Moved(N) = SumFunctionOnSet(v, N) /\ Moved(F) = SumFunctionOnSet(v, F)
          /\ Moved(N \ F) = SumFunctionOnSet(v, N \ F)
      <3>1. Moved(N) = SumFunctionOnSet(v, N) /\ IsFiniteSet(N)
        BY <1>2, <1>3, MovedIs
      <3>2. Moved(F) = SumFunctionOnSet(v, F) /\ IsFiniteSet(F)
        BY <1>2, <1>3, MovedIs
      <3>3. PICK R : R = N \ F
        OBVIOUS
      <3>4. Moved(R) = SumFunctionOnSet(v, R) /\ IsFiniteSet(R)
        BY <1>2, <1>3, <3>3, MovedIs
      <3>5. \A k \in Forms : v[k] \in Int
        BY <1>2, AmountIs
      <3> QED BY <3>1, <3>2, <3>3, <3>4, <3>5
    <2>2. (N \ F) \cap F = {} /\ (N \ F) \cup F = N /\ \A k \in (N \ F) \cup F : v[k] \in Int
      BY <1>3, <2>1
    <2>3. SumFunctionOnSet(v, (N \ F) \cup F) = SumFunctionOnSet(v, N \ F) + SumFunctionOnSet(v, F)
      BY <2>1, <2>2, SumUnion
    <2> QED BY <2>1, <2>2, <2>3
  <1>10. Moved(F) \in Nat /\ Moved(N \ F) \in Nat /\ SumFunctionOnSet(net, Translators) \in Int
    BY <1>2, <1>3, <1>7, MovedIs, FiniteTables, SumOut
  <1>11. SumFunction([t \in Translators |-> PaidToTranslator(t)]) = SumFunctionOnSet(net, Translators)
    BY <1>4 DEF SumFunction
  <1>12. TranslatorPayouts = Moved(T) /\ NotaryPayouts = Moved(N \ F) /\ PaidToNotaries = Moved(N)
    BY <1>2 DEF TranslatorPayouts, NotaryPayouts, PaidToNotaries
  <1> QED
    BY <1>5, <1>6, <1>8, <1>9, <1>10, <1>11, <1>12

(* What clients paid for their orders, form by form and order by order. *)
LEMMA AllocatedByOrder ==
    ASSUME IInv, NEW used, used = [k \in FormsOf("client") |-> rows[k] * AllocatedBy(k)]
    PROVE  SumFunctionOnSet(used, FormsOf("client")) = SumFunction([o \in {x \in Orders : Exists(x)} |-> Paid(o)])
  <1>1. PICK C : C = FormsOf("client")
    OBVIOUS
  <1>2. PICK m, paid :
            /\ m = [k \in C |-> [o \in Orders |-> IF o \in DOMAIN Form[k].alloc THEN Share(k, o) ELSE 0]]
            /\ paid = [o \in Orders |-> Paid(o)]
    OBVIOUS
  <1>3. C \in SUBSET Forms /\ IsFiniteSet(C)
    BY <1>1, <1>2, FiniteTables, FS_Subset DEF FormsOf
  <1>4. \A k \in C : \A o \in Orders : m[k][o] \in Int
    BY <1>1, <1>2, <1>3, ShareIs
  <1>5. \A k \in C : used[k] = SumFunctionOnSet(m[k], Orders)
    <2> TAKE k \in C
    <2>1. PICK D, line, a : D = DOMAIN Form[k].alloc /\ line = m[k] /\ a = Form[k].alloc
      OBVIOUS
    <2>2. D \in SUBSET Orders /\ IsFiniteSet(D)
      <3>1. D \in SUBSET Orders
        BY <1>1, <1>2, <2>1, BureauAssumptions DEF FormsOf
      <3> QED BY <3>1, FiniteTables, FS_Subset
    <2>3. \A o \in Orders : line[o] \in Int /\ (o \notin D => line[o] = 0)
      BY <1>1, <1>2, <1>4, <2>1
    <2>4. SumFunctionOnSet(line, D) = SumFunctionOnSet(line, Orders)
      BY <2>2, <2>3, FiniteTables, SumPart
    <2>5. \A o \in D : line[o] = IF rows[k] = 1 THEN a[o] ELSE 0
      BY <1>1, <1>2, <1>3, <2>1, <2>2, ShareIs
    <2>6. used[k] = rows[k] * AllocatedBy(k) /\ rows[k] \in {0, 1} /\ AllocatedBy(k) \in Nat
      BY <1>1, <1>2, <1>3, RowsAreFew, FormTypes
    <2>7. CASE rows[k] = 1
      <3>1. SumFunctionOnSet(line, D) = SumFunctionOnSet(a, D)
        BY <2>2, <2>5, <2>7, SumSame
      <3>2. AllocatedBy(k) = SumFunctionOnSet(a, D)
        BY <2>1 DEF AllocatedBy, SumFunction
      <3>3. used[k] = AllocatedBy(k)
        BY <2>6, <2>7
      <3> QED BY <2>1, <2>4, <3>1, <3>2, <3>3
    <2>8. CASE rows[k] = 0
      <3>1. SumFunctionOnSet(line, D) = 0
        BY <2>2, <2>5, <2>8, SumZero
      <3>2. used[k] = 0
        BY <2>6, <2>8
      <3> QED BY <2>1, <2>4, <3>1, <3>2
    <2> QED BY <2>6, <2>7, <2>8
  <1>6. PICK turned : turned = [o \in Orders |-> [k \in C |-> m[k][o]]]
    OBVIOUS
  <1>7. \A o \in Orders : paid[o] = SumFunctionOnSet(turned[o], C) /\ \A k \in C : turned[o][k] = m[k][o]
    <2> TAKE o \in Orders
    <2>1. PICK F, column, f : F = FormsFor("client", o) /\ column = turned[o] /\ f = [k \in F |-> Share(k, o)]
      OBVIOUS
    <2>2. F = {k \in C : o \in DOMAIN Form[k].alloc} /\ F \in SUBSET C /\ IsFiniteSet(F)
      <3>1. F = {k \in C : o \in DOMAIN Form[k].alloc}
        BY <1>1, <1>2, <2>1 DEF FormsFor
      <3> QED BY <1>3, <3>1, FS_Subset
    <2>3. \A k \in C : column[k] = m[k][o] /\ column[k] \in Int /\ (k \notin F => column[k] = 0) /\ (k \in F => column[k] = f[k])
      BY <1>1, <1>2, <1>4, <1>6, <2>1, <2>2
    <2>4. SumFunctionOnSet(column, F) = SumFunctionOnSet(column, C)
      BY <1>3, <2>2, <2>3, SumPart
    <2>5. Paid(o) = SumFunction(f) /\ DOMAIN f = F
      BY <2>1 DEF Paid, Allocated
    <2>6. SumFunction(f) = SumFunctionOnSet(column, F)
      BY <2>2, <2>3, <2>5, SumFull
    <2> QED BY <1>1, <1>2, <2>1, <2>3, <2>4, <2>5, <2>6
  <1>8. SumFunctionOnSet(used, C) = SumFunctionOnSet(paid, Orders)
    <2>1. IsFiniteSet(C) /\ IsFiniteSet(Orders)
      BY <1>3, FiniteTables
    <2>2. IsTable(m, turned, used, paid, C, Orders)
      BY <1>4, <1>5, <1>7 DEF IsTable
    <2> QED BY <2>1, <2>2, SumExchange
  <1>9. PICK S, f : S = {x \in Orders : Exists(x)} /\ f = [o \in S |-> Paid(o)]
    OBVIOUS
  <1>10. S \in SUBSET Orders /\ IsFiniteSet(S)
    BY <1>9, FiniteTables, FS_Subset
  <1>11. \A o \in Orders : paid[o] \in Int /\ (o \notin S => paid[o] = 0)
    BY <1>1, <1>2, <1>9, PaidIs
  <1>12. SumFunctionOnSet(paid, S) = SumFunctionOnSet(paid, Orders)
    BY <1>10, <1>11, FiniteTables, SumPart
  <1>13. SumFunction(f) = SumFunctionOnSet(paid, S)
    BY <1>1, <1>2, <1>9, <1>10, SumFull
  <1> QED
    BY <1>1, <1>2, <1>8, <1>9, <1>12, <1>13

LEMMA PaymentsByClient ==
    ASSUME IInv
    PROVE  PaymentsReceived = SumFunction([cl \in Clients |-> ClientCredit(cl)])
                              + SumFunction([o \in {x \in Orders : Exists(x)} |-> Paid(o)])
  <1>1. PICK C, v, used, rest, part, credit :
            /\ C = FormsOf("client")
            /\ v = [k \in Forms |-> Amount(k)]
            /\ used = [k \in C |-> rows[k] * AllocatedBy(k)]
            /\ rest = [k \in C |-> Amount(k) - rows[k] * AllocatedBy(k)]
            /\ part = [cl \in Clients |-> FormsWith("client", cl)]
            /\ credit = [cl \in Clients |-> ClientCredit(cl)]
    OBVIOUS
  <1>2. C \in SUBSET Forms /\ IsFiniteSet(C)
    BY <1>1, FiniteTables, FS_Subset DEF FormsOf
  <1>3. \A k \in C : rest[k] \in Int /\ used[k] \in Int /\ v[k] = rest[k] + used[k]
    <2> TAKE k \in C
    <2>1. PICK n, a, b : n = rows[k] /\ a = AllocatedBy(k) /\ b = Amount(k)
      OBVIOUS
    <2>2. n \in {0, 1} /\ a \in Nat /\ b \in Nat
      BY <1>2, <2>1, RowsAreFew, FormTypes, AmountIs
    <2>3. n * a \in Int
      BY <2>2
    <2>4. v[k] = b /\ used[k] = n * a /\ rest[k] = b - n * a
      BY <1>1, <1>2, <2>1
    <2> QED BY <2>2, <2>3, <2>4
  <1>4. SumFunctionOnSet(v, C) = SumFunctionOnSet(rest, C) + SumFunctionOnSet(used, C)
    BY <1>2, <1>3, SumPlus
  <1>5. \A cl \in Clients : part[cl] = {k \in C : Form[k].who = cl}
    BY <1>1 DEF FormsWith
  <1>6. \A cl \in Clients : part[cl] \in SUBSET C /\ credit[cl] = SumFunctionOnSet(rest, part[cl])
    <2> TAKE cl \in Clients
    <2>1. part[cl] \in SUBSET C /\ IsFiniteSet(part[cl])
      BY <1>2, <1>5, FS_Subset
    <2>2. PICK f : f = [k \in part[cl] |-> Amount(k) - rows[k] * AllocatedBy(k)]
      OBVIOUS
    <2>3. DOMAIN f = part[cl] /\ \A k \in part[cl] : f[k] = rest[k]
      BY <1>1, <2>1, <2>2
    <2>4. credit[cl] = SumFunction(f)
      BY <1>1, <2>2 DEF ClientCredit
    <2> QED BY <2>1, <2>3, <2>4, SumFull
  <1>7. \A c, d \in Clients : c # d => part[c] \cap part[d] = {}
    BY <1>5
  <1>8. \A k \in C : \E cl \in Clients : k \in part[cl]
    <2>1. \A k \in C : Form[k].who \in Clients
      BY <1>1, BureauAssumptions DEF FormsOf
    <2> QED BY <1>5, <2>1
  <1>9. SumFunctionOnSet(rest, C) = SumFunctionOnSet(credit, Clients)
    BY <1>2, <1>3, <1>6, <1>7, <1>8, FiniteTables, SumOfParts
  <1>10. PaymentsReceived = SumFunctionOnSet(v, C)
    BY <1>1, <1>2, MovedIs DEF PaymentsReceived
  <1>11. SumFunctionOnSet(used, C) = SumFunction([o \in {x \in Orders : Exists(x)} |-> Paid(o)])
    BY <1>1, AllocatedByOrder
  <1>12. SumFunction([cl \in Clients |-> ClientCredit(cl)]) = SumFunctionOnSet(credit, Clients)
    BY <1>1 DEF SumFunction
  <1> QED
    BY <1>4, <1>9, <1>10, <1>11, <1>12

(***************************************************************************)
(* A card and the table under it cannot disagree, whatever was paid, moved *)
(* or deleted and by how many requests at once: the receivables are the    *)
(* clients' lines, a fee a translator fronted is counted once, and what    *)
(* clients paid is what their orders took and what they have left.         *)
(***************************************************************************)
THEOREM CardsAgreeHolds == Spec => []CardsAgree
  <1>1. IInv /\ FrontedVia => CardsAgree
    BY ReceivablesByClient, PayoutsByPerson, PaymentsByClient DEF CardsAgree
  <1>2. Init => FrontedVia
    BY DEF Init, FrontedVia
  <1> QED
    BY <1>1, <1>2, FrontedViaKeeps, Invariance, PTL DEF Spec
-----------------------------------------------------------------------------
(* No payment beyond what is owed.                                           *)

(* Nothing that the money of an order outside T is read off has changed. *)
Settled(T) ==
    \A o \in Orders \ T : Exists(o) =>
        /\ order'[o] = order[o]
        /\ \A d \in Docs : doc[d].order = o \/ doc'[d].order = o => doc'[d] = doc[d]
        /\ \A k \in Forms : Form[k].ledger # "notary" /\ o \in DOMAIN Form[k].alloc => rows'[k] = rows[k]

(* What the checks of a payment found, while no other request is about the order. *)
PayRelies(tx) ==
    tx.op = "pay" =>
        \A o \in DOMAIN Form[tx.form].alloc \ mixed :
            /\ Form[tx.form].ledger = "client" =>
                  Exists(o) /\ Form[tx.form].alloc[o] <= PerOrderOwed(o)
            /\ Form[tx.form].ledger = "translator" =>
                  /\ Exists(o)
                  /\ Form[tx.form].alloc[o] <= TheirCost(Form[tx.form].who, o) - TheirPaid(Form[tx.form].who, o)

PayInv == \A c \in Clerks : PayRelies(desk[c])

LEMMA FiguresSettled ==
    ASSUME NEW T, Settled(T), NEW o \in Orders \ T, Exists(o), NEW t
    PROVE  /\ Exists(o)' /\ PerOrderOwed(o)' = PerOrderOwed(o)
           /\ TheirCost(t, o)' = TheirCost(t, o) /\ TheirPaid(t, o)' = TheirPaid(t, o)
  <1>1. /\ order'[o] = order[o]
        /\ \A d \in Docs : doc[d].order = o \/ doc'[d].order = o => doc'[d] = doc[d]
        /\ \A k \in Forms : Form[k].ledger # "notary" /\ o \in DOMAIN Form[k].alloc => rows'[k] = rows[k]
    BY DEF Settled
  <1>2. PICK D, E : D = DocsOf(o) /\ E = TheirDocs(t, o)
    OBVIOUS
  <1>3. DocsOf(o)' = D /\ TheirDocs(t, o)' = E /\ \A d \in D : doc'[d] = doc[d]
    <2>1. DocsOf(o)' = D /\ \A d \in D : doc'[d] = doc[d]
      BY <1>1, <1>2 DEF DocsOf
    <2> QED BY <1>2, <2>1 DEF TheirDocs
  <1>4. E \subseteq D
    BY <1>2 DEF TheirDocs
  <1>5. [d \in D |-> doc'[d].price] = [d \in D |-> doc[d].price] /\ [d \in E |-> doc'[d].cost] = [d \in E |-> doc[d].cost]
    BY <1>3, <1>4
  <1>6. Billed(o)' = Billed(o) /\ TheirCost(t, o)' = TheirCost(t, o)
    BY <1>1, <1>2, <1>3, <1>5 DEF Billed, DocumentsTotal, TheirCost
  <1>7. PICK F, G : F = FormsFor("client", o) /\ G = TheirForms(t, o)
    OBVIOUS
  <1>8. \A k \in F \cup G : k \in Forms /\ Form[k].ledger # "notary" /\ o \in DOMAIN Form[k].alloc
    BY <1>7 DEF TheirForms, FormsFor, FormsOf
  <1>9. \A k \in F \cup G : Share(k, o)' = Share(k, o)
    BY <1>1, <1>8 DEF Share
  <1>10. [k \in F |-> Share(k, o)'] = [k \in F |-> Share(k, o)] /\ [k \in G |-> Share(k, o)'] = [k \in G |-> Share(k, o)]
    BY <1>9
  <1>11. Paid(o)' = Paid(o) /\ TheirPaid(t, o)' = TheirPaid(t, o)
    BY <1>7, <1>10 DEF Paid, Allocated, TheirPaid
  <1> QED
    BY <1>1, <1>6, <1>11 DEF Exists, PerOrderOwed

LEMMA PayStays ==
    ASSUME NEW tx \in Requests, PayRelies(tx), NEW T, Settled(T),
           mixed \subseteq mixed', Touches(tx) \cap T \subseteq mixed'
    PROVE  PayRelies(tx)'
  <1> SUFFICES ASSUME tx.op = "pay", NEW o \in DOMAIN Form[tx.form].alloc \ mixed',
                      Form[tx.form].ledger \in {"client", "translator"}
               PROVE  /\ Form[tx.form].ledger = "client" =>
                           Exists(o)' /\ Form[tx.form].alloc[o] <= PerOrderOwed(o)'
                      /\ Form[tx.form].ledger = "translator" =>
                           /\ Exists(o)'
                           /\ Form[tx.form].alloc[o]
                                <= TheirCost(Form[tx.form].who, o)' - TheirPaid(Form[tx.form].who, o)'
    BY DEF PayRelies
  <1>1. tx.form \in Forms
    BY RequestTypes DEF Pays
  <1>2. o \in Orders
    BY <1>1, BureauAssumptions
  <1>3. o \notin T /\ o \notin mixed
    BY TouchesWhat
  <1>4. /\ Form[tx.form].ledger = "client" => Exists(o) /\ Form[tx.form].alloc[o] <= PerOrderOwed(o)
        /\ Form[tx.form].ledger = "translator" =>
              /\ Exists(o)
              /\ Form[tx.form].alloc[o] <= TheirCost(Form[tx.form].who, o) - TheirPaid(Form[tx.form].who, o)
    BY <1>3 DEF PayRelies
  <1>5. PICK t : t = Form[tx.form].who
    OBVIOUS
  <1>6. Exists(o)
    BY <1>4
  <1>7. /\ Exists(o)' /\ PerOrderOwed(o)' = PerOrderOwed(o)
        /\ TheirCost(t, o)' = TheirCost(t, o) /\ TheirPaid(t, o)' = TheirPaid(t, o)
    BY <1>2, <1>3, <1>6, FiguresSettled
  <1> QED
    BY <1>4, <1>5, <1>7

LEMMA PayLeaves ==
    ASSUME IInv, PayInv, NEW c \in Clerks, Leave(c), Settled(Touches(desk[c]))
    PROVE  PayInv'
  <1>1. /\ desk'[c] = Idle /\ \A b \in Clerks \ {c} : desk'[b] = desk[b]
        /\ mixed \subseteq mixed'
    BY DEF Leave, IInv, Typed
  <1>2. ASSUME NEW b \in Clerks \ {c} PROVE PayRelies(desk[b])'
    <2>1. PICK tx \in Requests : tx = desk[b]
      BY DEF IInv, Typed
    <2>2. PICK T : T = Touches(desk[c])
      OBVIOUS
    <2>3. Settled(T) /\ Touches(tx) \cap T \subseteq mixed'
      BY <2>1, <2>2 DEF Leave
    <2>4. PayRelies(tx)
      BY <2>1 DEF PayInv
    <2>5. PayRelies(tx)'
      BY <1>1, <2>3, <2>4, PayStays
    <2> QED BY <1>1, <2>1, <2>5
  <1>3. PayRelies(desk[c])'
    BY <1>1 DEF PayRelies, Idle
  <1> QED
    BY <1>2, <1>3 DEF PayInv

LEMMA SettledSame ==
    ASSUME order' = order, doc' = doc, rows' = rows, NEW T
    PROVE  Settled(T)
  BY DEF Settled

(* Nobody's desk but one changes, and the tables not at all. *)
LEMMA PayTakes ==
    ASSUME IInv, PayInv, NEW c \in Clerks, NEW tx, desk' = [desk EXCEPT ![c] = tx], order' = order, doc' = doc,
           rows' = rows, mixed' = mixed, PayRelies(tx)
    PROVE  PayInv'
  <1>1. /\ desk'[c] = tx /\ \A b \in Clerks \ {c} : desk'[b] = desk[b]
    BY DEF IInv, Typed
  <1>2. \A ty : PayRelies(ty) => PayRelies(ty)'
    BY DEF PayRelies, Exists, PerOrderOwed, Billed, DocumentsTotal, DocsOf, Paid, Allocated, Share,
           TheirCost, TheirPaid, TheirDocs
  <1> QED
    BY <1>1, <1>2 DEF PayInv

LEMMA RefusedPays ==
    ASSUME IInv, PayInv, NEW c \in Clerks, Refused(c)
    PROVE  PayInv'
  <1>1. PICK T : T = Touches(desk[c])
    OBVIOUS
  <1>2. Leave(c) /\ Settled(T)
    BY SettledSame DEF Refused, tableVars
  <1> QED
    BY <1>1, <1>2, PayLeaves

LEMMA RecordPaymentPays ==
    ASSUME IInv, PayInv, NEW c \in Clerks, NEW k \in Forms, RecordPayment(c, k)
    PROVE  PayInv'
  <1>1. PICK tx : tx = [op |-> "pay", form |-> k]
    OBVIOUS
  <1>2. /\ Form[k].ledger = "client" => CheckClientAllocations(k)
        /\ Form[k].ledger = "translator" => CheckTranslatorAllocations(k)
    BY DEF RecordPayment, Checked
  <1>3. PayRelies(tx)
    BY <1>1, <1>2 DEF PayRelies, CheckClientAllocations, CheckTranslatorAllocations, LiveOrders
  <1>4. /\ desk' = [desk EXCEPT ![c] = tx] /\ order' = order /\ doc' = doc /\ rows' = rows /\ mixed' = mixed
    BY <1>1 DEF RecordPayment, Take, tableVars
  <1> QED
    BY <1>3, <1>4, PayTakes

(* Only this form's row is written, and it is about what its request touches. *)
LEMMA RowSettled ==
    ASSUME IInv, NEW c \in Clerks, desk[c].op \in {"pay", "undo"}, order' = order, doc' = doc,
           \A j \in Forms \ {desk[c].form} : rows'[j] = rows[j]
    PROVE  Settled(Touches(desk[c]))
  <1>1. PICK tx \in Requests : tx = desk[c]
    BY DEF IInv, Typed
  <1>2. Form[tx.form].ledger # "notary" => DOMAIN Form[tx.form].alloc \subseteq Touches(tx)
    BY <1>1, TouchesWhat
  <1> QED
    BY <1>1, <1>2 DEF Settled

LEMMA InsertPaymentPays ==
    ASSUME IInv, PayInv, NEW c \in Clerks, InsertPayment(c)
    PROVE  PayInv'
  <1>1. CASE Refused(c)
    BY <1>1, RefusedPays
  <1>2. CASE ~Refused(c)
    <2>1. rows' = [rows EXCEPT ![desk[c].form] = InsertOnce(desk[c].form)] /\ Leave(c) /\ order' = order /\ doc' = doc
          /\ desk[c].op = "pay"
      BY <1>2 DEF InsertPayment
    <2>2. \A j \in Forms \ {desk[c].form} : rows'[j] = rows[j]
      BY <2>1 DEF IInv, Typed, RowsTyped
    <2> QED BY <2>1, <2>2, RowSettled, PayLeaves
  <1> QED
    BY <1>1, <1>2

LEMMA RemovePaymentPays ==
    ASSUME IInv, PayInv, NEW c \in Clerks, RemovePayment(c)
    PROVE  PayInv'
  <1>1. rows' = [rows EXCEPT ![desk[c].form] = 0] /\ Leave(c) /\ order' = order /\ doc' = doc /\ desk[c].op = "undo"
    BY DEF RemovePayment
  <1>2. \A j \in Forms \ {desk[c].form} : rows'[j] = rows[j]
    BY <1>1 DEF IInv, Typed, RowsTyped
  <1> QED
    BY <1>1, <1>2, RowSettled, PayLeaves

LEMMA RemoveOrderPays ==
    ASSUME IInv, PayInv, NEW c \in Clerks, RemoveOrder(c)
    PROVE  PayInv'
  <1>1. CASE Refused(c)
    BY <1>1, RefusedPays
  <1>2. CASE ~Refused(c)
    <2>1. PICK r \in Removes : r = desk[c]
      BY RequestTypes DEF IInv, Typed, RemoveOrder
    <2>2. PICK o \in Orders : o = r.order
      BY DEF Removes
    <2>3. /\ order' = [order EXCEPT ![o] = NoOrder]
          /\ doc' = [d \in Docs |-> IF doc[d].order = o THEN NoDoc ELSE doc[d]]
          /\ rows' = rows /\ Leave(c)
      BY <1>2, <2>1, <2>2 DEF RemoveOrder
    <2>4. Touches(desk[c]) = {o}
      <3>1. r \in Requests /\ r.op = "remove"
        BY <2>1 DEF Requests, Removes
      <3> QED BY <2>1, <2>2, <3>1, TouchesWhat
    <2>5. Settled({o})
      <3>1. \A p \in Orders \ {o} : order'[p] = order[p]
        BY <2>3 DEF IInv, Typed, RowsTyped
      <3>2. \A p \in Orders \ {o} : \A d \in Docs : doc[d].order = p \/ doc'[d].order = p => doc'[d] = doc[d]
        BY <2>3 DEF NoDoc, Orders
      <3> QED BY <2>3, <3>1, <3>2 DEF Settled
    <2> QED BY <2>3, <2>4, <2>5, PayLeaves
  <1> QED
    BY <1>1, <1>2

LEMMA NewOrderSettled ==
    ASSUME IInv, NEW o, NEW row, o = made.order + 1, order' = [order EXCEPT ![o] = row], rows' = rows,
           \A d \in Docs : doc'[d] = doc[d] \/ (d > made.doc /\ doc'[d].order = o)
    PROVE  Settled({})
  <1>1. \A p \in Orders : Exists(p) => p # o /\ order'[p] = order[p]
    BY MadeType DEF IInv, Typed, RowsTyped, Tables, RowsMade, Exists, Orders
  <1>2. ASSUME NEW p \in Orders, Exists(p), NEW d \in Docs, doc[d].order = p \/ doc'[d].order = p
        PROVE  doc'[d] = doc[d]
    <2>1. p # o /\ p # 0
      BY <1>1, <1>2 DEF Orders
    <2>2. d > made.doc => doc[d] = NoDoc
      BY DEF IInv, Tables, RowsMade
    <2> QED BY <1>2, <2>1, <2>2 DEF NoDoc
  <1> QED
    BY <1>1, <1>2 DEF Settled

LEMMA CommitOrderPays ==
    ASSUME IInv, PayInv, NEW c \in Clerks, CommitOrder(c)
    PROVE  PayInv'
  <1>1. PICK tx \in Draws : tx = desk[c] /\ Relies(tx)
    BY RequestTypes DEF IInv, Typed, CommitOrder
  <1>2. PICK r \in Creates : r = tx.request /\ DraftsFit(r.lines, r.urgency)
    BY <1>1 DEF Draws, Relies
  <1>3. PICK o, n, row : /\ o = made.order + 1 /\ n = Len(r.lines)
                         /\ row = [number |-> tx.number, client |-> r.client, urgency |-> r.urgency,
                                   courier |-> r.courier, imported |-> FALSE,
                                   delivery |-> IF r.courier THEN DeliveryFee ELSE 0]
    OBVIOUS
  <1>4. /\ made.order < MaxOrders /\ order' = [order EXCEPT ![o] = row] /\ doc' = NewDocs(o, r.lines)
        /\ Leave(c) /\ rows' = rows
    BY <1>1, <1>2, <1>3 DEF CommitOrder
  <1>5. o \in Orders /\ made.doc \in Nat /\ r.lines \in Seq(Drafts)
    BY <1>2, <1>3, <1>4, MadeType, BureauAssumptions DEF IInv, Orders, Creates
  <1>6. \A d \in Docs : doc'[d] = doc[d] \/ (d > made.doc /\ doc'[d].order = o)
    <2>0. \A d \in Docs : d \notin made.doc + 1..made.doc + n => doc'[d] = doc[d]
      BY <1>3, <1>4 DEF NewDocs
    <2> TAKE d \in Docs
    <2>1. CASE d \in made.doc + 1..made.doc + n
      <3>1. doc'[d].order = o
        BY <1>2, <1>3, <1>4, <1>5, <2>1, AddedDocs DEF IInv
      <3>2. d > made.doc
        BY <1>3, <1>5, <2>1
      <3> QED BY <3>1, <3>2
    <2>2. CASE d \notin made.doc + 1..made.doc + n
      BY <2>0, <2>2
    <2> QED BY <2>1, <2>2
  <1>7. Settled({})
    BY <1>3, <1>4, <1>6, NewOrderSettled
  <1>8. Touches(desk[c]) = {}
    <2>1. tx \in Requests /\ tx.op = "numbered"
      BY <1>1 DEF Requests, Draws
    <2> QED BY <1>1, <2>1, TouchesWhat
  <1> QED
    BY <1>4, <1>7, <1>8, PayLeaves

LEMMA ImportOrderPays ==
    ASSUME IInv, PayInv, NEW client \in Clients, NEW value \in {"completed", "cancelled"}, ImportOrder(client, value)
    PROVE  PayInv'
  <1>1. PICK o, k, row : /\ o = made.order + 1 /\ k = made.doc + 1
                         /\ row = [number |-> NextNumberOfTable, client |-> client, urgency |-> "standard",
                                   courier |-> FALSE, imported |-> TRUE, delivery |-> 0]
    OBVIOUS
  <1>2. /\ order' = [order EXCEPT ![o] = row] /\ rows' = rows /\ desk' = desk /\ mixed' = mixed
        /\ made.doc < MaxDocs
        /\ \E line \in Lines :
              doc' = [doc EXCEPT ![k] = [order |-> o, line |-> line, by |-> None, price |-> TypedPrice,
                                         cost |-> 0, fee |-> 0, at |-> 0]]
    BY <1>1 DEF ImportOrder
  <1>3. k \in Docs /\ k > made.doc
    BY <1>1, <1>2, MadeType, BureauAssumptions DEF IInv, Docs
  <1>4. \A d \in Docs : doc'[d] = doc[d] \/ (d > made.doc /\ doc'[d].order = o)
    <2>1. PICK line \in Lines : doc' = [doc EXCEPT ![k] = [order |-> o, line |-> line, by |-> None, price |-> TypedPrice,
                                                            cost |-> 0, fee |-> 0, at |-> 0]]
      BY <1>2
    <2>2. PICK new : new = [order |-> o, line |-> line, by |-> None, price |-> TypedPrice, cost |-> 0, fee |-> 0, at |-> 0]
      OBVIOUS
    <2>3. doc' = [doc EXCEPT ![k] = new] /\ new.order = o
      BY <2>1, <2>2
    <2>4. doc'[k] = new /\ \A d \in Docs \ {k} : doc'[d] = doc[d]
      BY <1>3, <2>3 DEF IInv, Typed, RowsTyped
    <2> QED BY <1>3, <2>3, <2>4
  <1>5. Settled({})
    BY <1>1, <1>2, <1>4, NewOrderSettled
  <1>6. ASSUME NEW c \in Clerks PROVE PayRelies(desk[c])'
    <2>1. PICK tx \in Requests : tx = desk[c]
      BY DEF IInv, Typed
    <2>2. PayRelies(tx)'
      BY <1>2, <1>5, <2>1, PayStays DEF PayInv
    <2> QED BY <1>2, <2>1, <2>2
  <1> QED
    BY <1>6 DEF PayInv

LEMMA WriteEditPays ==
    ASSUME IInv, PayInv, NEW c \in Clerks, WriteEdit(c)
    PROVE  PayInv'
  <1>1. PICK r \in Edits : r = desk[c] /\ Relies(r)
    BY RequestTypes DEF IInv, Typed, WriteEdit
  <1>2. CASE ~EditHolds(r)
    <2>1. Refused(c)
      BY <1>1, <1>2 DEF WriteEdit
    <2> QED BY <2>1, RefusedPays
  <1>3. CASE EditHolds(r)
    <2>1. /\ order' = [order EXCEPT ![r.order] = Written(order[r.order], r.base, r.new)]
          /\ doc' = [d \in Docs |->
                     IF d \in r.gone THEN NoDoc
                     ELSE IF d \in ChangedDocs(r)
                          THEN Written(doc[d], r.base.docs[d], r.new.docs[d]) ELSE NewDocs(r.order, r.adds)[d]]
          /\ Leave(c) /\ rows' = rows
      BY <1>1, <1>3 DEF WriteEdit
    <2>2. Saved(r)
      BY <1>1, <1>3, <2>1, WriteEditSaves
    <2>3. PICK o \in Orders : o = r.order
      BY DEF Edits
    <2>4. Touches(desk[c]) = {o}
      <3>1. r \in Requests /\ r.op = "edit"
        BY DEF Requests, Edits
      <3> QED BY <1>1, <2>3, <3>1, TouchesWhat
    <2>5. \A d \in Docs : \/ doc'[d] = doc[d]
                          \/ /\ doc[d] = NoDoc \/ doc[d].order = o
                             /\ doc'[d] = NoDoc \/ doc'[d].order = o
      <3>1. PICK written, added : written = r.gone \cup ChangedDocs(r) /\ added = made.doc + 1..made.doc + Len(r.adds)
        OBVIOUS
      <3>2. \A d \in Docs : d \in added => doc[d] = NoDoc /\ doc'[d].order = o
        BY <2>2, <2>3, <3>1 DEF Saved
      <3>3. \A d \in ChangedDocs(r) : doc[d].order = o /\ doc'[d].order = o
        BY <2>2, <2>3 DEF Saved
      <3>4. \A d \in r.gone : doc'[d] = NoDoc /\ (doc[d] = NoDoc \/ doc[d].order = o)
        BY <2>2, <2>3 DEF Saved
      <3>5. \A d \in Docs : d \notin written /\ d \notin added => doc'[d] = doc[d]
        BY <2>2, <3>1 DEF Saved
      <3> QED BY <3>1, <3>2, <3>3, <3>4, <3>5
    <2>6. Settled({o})
      <3>1. \A p \in Orders \ {o} : order'[p] = order[p] /\ p # 0
        BY <2>2, <2>3 DEF Saved, Orders
      <3>2. NoDoc.order = 0
        BY DEF NoDoc
      <3> QED BY <2>1, <2>5, <3>1, <3>2 DEF Settled
    <2> QED BY <2>1, <2>4, <2>6, PayLeaves
  <1> QED
    BY <1>2, <1>3

(* Requests that leave orders, documents and ledgers as they are. *)
LEMMA LeavesAlone ==
    ASSUME IInv, PayInv, NEW c \in Clerks, Leave(c), order' = order, doc' = doc, rows' = rows
    PROVE  PayInv'
  <1>1. PICK T : T = Touches(desk[c])
    OBVIOUS
  <1>2. Settled(T)
    BY SettledSame
  <1> QED
    BY <1>1, <1>2, PayLeaves

LEMMA TakesAlone ==
    ASSUME IInv, PayInv, NEW c \in Clerks, NEW tx, tx.op # "pay", desk' = [desk EXCEPT ![c] = tx],
           order' = order, doc' = doc, rows' = rows, mixed' = mixed
    PROVE  PayInv'
  BY PayTakes DEF PayRelies

LEMMA NextPays == IInv /\ PayInv /\ [Next]_vars => PayInv'
  <1> SUFFICES ASSUME IInv, PayInv, [Next]_vars PROVE PayInv'
    OBVIOUS
  <1>1. ASSUME desk' = desk, order' = order, doc' = doc, rows' = rows, mixed' = mixed PROVE PayInv'
    <2>1. \A tx : PayRelies(tx) => PayRelies(tx)'
      BY <1>1 DEF PayRelies, Exists, PerOrderOwed, Billed, DocumentsTotal, DocsOf, Paid, Allocated, Share,
                  TheirCost, TheirPaid, TheirDocs
    <2> QED BY <1>1, <2>1 DEF PayInv
  <1>2. CASE UNCHANGED vars
    BY <1>1, <1>2 DEF vars, tableVars
  <1>3. ASSUME NEW c \in Clerks, NEW n \in NewOrders, CreateOrder(c, n.client, n.urgency, n.courier, n.items)
        PROVE  PayInv'
    <2>1. PICK tx : tx = [op |-> "create", client |-> n.client, urgency |-> n.urgency, courier |-> n.courier,
                          lines |-> [i \in DOMAIN n.items |-> DocumentRow(0, n.items[i], n.urgency)]]
      OBVIOUS
    <2>2. tx.op # "pay" /\ desk' = [desk EXCEPT ![c] = tx] /\ order' = order /\ doc' = doc /\ rows' = rows /\ mixed' = mixed
      BY <1>3, <2>1 DEF CreateOrder, Take, tableVars
    <2> QED BY <2>2, TakesAlone
  <1>4. ASSUME NEW c \in Clerks, DrawNumber(c) PROVE PayInv'
    <2>1. PICK tx : tx = [op |-> "numbered", request |-> desk[c], number |-> NextNumberOfTable]
      OBVIOUS
    <2>2. tx.op # "pay" /\ desk' = [desk EXCEPT ![c] = tx] /\ order' = order /\ doc' = doc /\ rows' = rows /\ mixed' = mixed
      BY <1>4, <2>1 DEF DrawNumber, tableVars
    <2> QED BY <2>2, TakesAlone
  <1>5. ASSUME NEW c \in Clerks, CreateFails(c) PROVE PayInv'
    BY <1>5, RefusedPays DEF CreateFails
  <1>6. ASSUME NEW c \in Clerks, NEW o \in Orders, EditOrder(c, o) PROVE PayInv'
    <2>1. PICK h, adds, changes, gone : SaveOrder(c, o, h, adds, changes, gone)
      BY <1>6 DEF EditOrder
    <2>2. PICK tx : tx.op # "pay" /\ desk' = [desk EXCEPT ![c] = tx] /\ tableVars' = tableVars /\ mixed' = mixed
      BY <2>1 DEF SaveOrder, Take
    <2> QED BY <2>2, TakesAlone DEF tableVars
  <1>7. ASSUME NEW c \in Clerks, NEW o \in Orders, NEW value \in SelectableStatuses, ChangeStatus(c, o, value)
        PROVE  PayInv'
    <2>1. PICK tx : tx.op # "pay" /\ desk' = [desk EXCEPT ![c] = tx] /\ tableVars' = tableVars /\ mixed' = mixed
      BY <1>7 DEF ChangeStatus, Take
    <2> QED BY <2>1, TakesAlone DEF tableVars
  <1>8. ASSUME NEW c \in Clerks, WriteStatus(c) PROVE PayInv'
    <2>1. CASE Refused(c)
      BY <2>1, RefusedPays
    <2>2. CASE ~Refused(c)
      BY <1>8, <2>2, LeavesAlone DEF WriteStatus
    <2> QED BY <2>1, <2>2
  <1>9. ASSUME NEW c \in Clerks, NEW o \in Orders, DeleteOrder(c, o) PROVE PayInv'
    <2>1. PICK tx : tx.op # "pay" /\ desk' = [desk EXCEPT ![c] = tx] /\ tableVars' = tableVars /\ mixed' = mixed
      BY <1>9 DEF DeleteOrder, Take
    <2> QED BY <2>1, TakesAlone DEF tableVars
  <1>10. ASSUME ChangeSettings PROVE PayInv'
    BY <1>1, <1>10 DEF ChangeSettings
  <1>11. ASSUME NEW c \in Clerks, NEW k \in Forms, DeletePayment(c, k) PROVE PayInv'
    <2>1. PICK tx : tx.op # "pay" /\ desk' = [desk EXCEPT ![c] = tx] /\ tableVars' = tableVars /\ mixed' = mixed
      BY <1>11 DEF DeletePayment, Take
    <2> QED BY <2>1, TakesAlone DEF tableVars
  <1>12. ASSUME NEW c \in Clerks, WriteExpense(c) PROVE PayInv'
    <2>1. CASE Refused(c)
      BY <2>1, RefusedPays
    <2>2. CASE ~Refused(c)
      BY <1>12, <2>2, LeavesAlone DEF WriteExpense
    <2> QED BY <2>1, <2>2
  <1>13. ASSUME NEW c \in Clerks, NEW e \in Expenses, NEW o \in Orders, CreateExpense(c, e, o)
         PROVE  PayInv'
    <2>1. PICK tx : tx.op # "pay" /\ desk' = [desk EXCEPT ![c] = tx] /\ tableVars' = tableVars /\ mixed' = mixed
      BY <1>13 DEF CreateExpense, Take
    <2> QED BY <2>1, TakesAlone DEF tableVars
  <1>14. ASSUME NEW c \in Clerks, NEW e \in Expenses, DeleteExpense(c, e) PROVE PayInv'
    <2>1. PICK tx : tx.op # "pay" /\ desk' = [desk EXCEPT ![c] = tx] /\ tableVars' = tableVars /\ mixed' = mixed
      BY <1>14 DEF DeleteExpense, Take
    <2> QED BY <2>1, TakesAlone DEF tableVars
  <1>15. CASE OrderStep
    BY <1>3, <1>4, <1>5, <1>6, <1>7, <1>8, <1>9, <1>10, <1>15, CommitOrderPays, ImportOrderPays, WriteEditPays, RemoveOrderPays
    DEF OrderStep
  <1>16. CASE FinanceStep
    BY <1>11, <1>12, <1>13, <1>14, <1>16, RecordPaymentPays, InsertPaymentPays, RemovePaymentPays DEF FinanceStep
  <1> QED
    BY <1>2, <1>15, <1>16 DEF Next

(* A row more: the sum over its forms grows by what the form allocates. *)
LEMMA OneRowMore ==
    ASSUME IInv, IInv', NEW k \in Forms, rows[k] = 0, rows'[k] = 1, \A j \in Forms \ {k} : rows'[j] = rows[j],
           NEW F \in SUBSET Forms, NEW o, \A j \in F : o \in DOMAIN Form[j].alloc,
           NEW f, f = [j \in F |-> Share(j, o)], NEW g, g = [j \in F |-> Share(j, o)']
    PROVE  /\ SumFunction(f) \in Nat
           /\ SumFunction(g) = SumFunction(f) + (IF k \in F THEN Form[k].alloc[o] ELSE 0)
  <1>1. IsFiniteSet(F) /\ \A j \in F : j \in Forms /\ f[j] = Share(j, o) /\ f[j] \in Nat
    BY FiniteTables, FS_Subset, ShareIs
  <1>2. \A j \in F : g[j] = rows'[j] * Form[j].alloc[o] /\ f[j] = rows[j] * Form[j].alloc[o]
    BY DEF Share
  <1>3. \A j \in F \ {k} : g[j] = f[j]
    BY <1>2
  <1>4. SumFunction(f) = SumFunctionOnSet(f, F) /\ SumFunction(g) = SumFunctionOnSet(g, F)
    BY DEF SumFunction
  <1>5. SumFunctionOnSet(f, F) \in Nat
    BY <1>1, SumIsNat
  <1>6. CASE k \notin F
    <2>1. SumFunctionOnSet(g, F) = SumFunctionOnSet(f, F)
      BY <1>1, <1>3, <1>6, SumSame
    <2> QED BY <1>4, <1>5, <1>6, <2>1
  <1>7. CASE k \in F
    <2>1. PICK R, a : R = F \ {k} /\ a = Form[k].alloc[o]
      OBVIOUS
    <2>2. a \in Nat
      BY <1>7, <2>1, FormTypes
    <2>3. f[k] = 0 /\ g[k] = a
      <3>1. f[k] = 0 * a /\ g[k] = 1 * a
        BY <1>2, <1>7, <2>1
      <3> QED BY <2>2, <3>1
    <2>4. \A j \in F : f[j] \in Int /\ g[j] \in Int
      BY <1>1, <1>3, <2>2, <2>3
    <2>5. SumFunctionOnSet(f, F) = f[k] + SumFunctionOnSet(f, R)
      BY <1>1, <1>7, <2>1, <2>4, SumOut
    <2>6. SumFunctionOnSet(g, F) = g[k] + SumFunctionOnSet(g, R)
      BY <1>1, <1>7, <2>1, <2>4, SumOut
    <2>7. IsFiniteSet(R) /\ \A j \in R : g[j] = f[j] /\ f[j] \in Int
      BY <1>1, <1>3, <2>1, FS_RemoveElement
    <2>8. SumFunctionOnSet(g, R) = SumFunctionOnSet(f, R) /\ SumFunctionOnSet(f, R) \in Int
      <3>1. PICK u, v : u = g /\ v = f
        OBVIOUS
      <3>2. IsFiniteSet(R) /\ \A j \in R : u[j] = v[j]
        BY <2>7, <3>1
      <3>3. SumFunctionOnSet(u, R) = SumFunctionOnSet(v, R)
        BY <3>2, SumSame
      <3>4. SumFunctionOnSet(f, R) \in Int
        BY <2>7, SumOut
      <3> QED BY <3>1, <3>3, <3>4
    <2> QED BY <1>4, <1>5, <1>7, <2>1, <2>2, <2>3, <2>5, <2>6, <2>8
  <1> QED
    BY <1>6, <1>7

(* A row less: no such sum grows. *)
LEMMA OneRowLess ==
    ASSUME IInv, NEW k \in Forms, rows' = [rows EXCEPT ![k] = 0],
           NEW F \in SUBSET Forms, NEW o, \A j \in F : o \in DOMAIN Form[j].alloc,
           NEW f, f = [j \in F |-> Share(j, o)], NEW g, g = [j \in F |-> Share(j, o)']
    PROVE  SumFunction(f) \in Int /\ SumFunction(g) \in Int /\ SumFunction(g) <= SumFunction(f)
  <1>1. IsFiniteSet(F) /\ \A j \in F : j \in Forms /\ f[j] = Share(j, o) /\ f[j] \in Nat
    BY FiniteTables, FS_Subset, ShareIs
  <1>2. \A j \in Forms : rows'[j] = IF j = k THEN 0 ELSE rows[j]
    BY DEF IInv, Typed, RowsTyped
  <1>3. \A j \in F : g[j] = rows'[j] * Form[j].alloc[o] /\ f[j] = rows[j] * Form[j].alloc[o]
                     /\ Form[j].alloc[o] \in Nat
    BY <1>1, FormTypes DEF Share
  <1>4. ASSUME NEW j \in F PROVE f[j] \in Int /\ g[j] \in Int /\ g[j] <= f[j]
    <2>1. CASE j = k
      <3>1. PICK a : a = Form[j].alloc[o]
        OBVIOUS
      <3>2. a \in Nat /\ g[j] = 0 * a
        BY <1>2, <1>3, <2>1, <3>1
      <3>3. g[j] = 0
        BY <3>2
      <3> QED BY <1>1, <3>3
    <2>2. CASE j # k
      <3>1. g[j] = f[j]
        BY <1>1, <1>2, <1>3, <2>2
      <3> QED BY <1>1, <3>1
    <2> QED BY <2>1, <2>2
  <1>5. SumFunctionOnSet(f, F) \in Int /\ SumFunctionOnSet(g, F) \in Int /\ SumFunctionOnSet(g, F) <= SumFunctionOnSet(f, F)
    BY <1>1, <1>4, SumOut, SumLess
  <1> QED
    BY <1>5 DEF SumFunction

(* What was paid for one order, as the sums of the two lemmas. *)
LEMMA PaidSums ==
    ASSUME NEW o, NEW t, NEW F, NEW G, F = FormsFor("client", o), G = TheirForms(t, o)
    PROVE  /\ F \in SUBSET Forms /\ \A j \in F : o \in DOMAIN Form[j].alloc /\ Form[j].ledger = "client"
           /\ G \in SUBSET Forms
           /\ \A j \in G : o \in DOMAIN Form[j].alloc /\ Form[j].ledger = "translator" /\ Form[j].who = t
           /\ Paid(o) = SumFunction([j \in F |-> Share(j, o)])
           /\ Paid(o)' = SumFunction([j \in F |-> Share(j, o)'])
           /\ TheirPaid(t, o) = SumFunction([j \in G |-> Share(j, o)])
           /\ TheirPaid(t, o)' = SumFunction([j \in G |-> Share(j, o)'])
  BY DEF FormsFor, FormsOf, TheirForms, Paid, Allocated, TheirPaid

LEMMA RemoveNeverRaises ==
    ASSUME IInv, NEW c \in Clerks, RemovePayment(c), NEW o \in Orders, NEW t
    PROVE  ~(Paid(o)' > Paid(o)) /\ ~(TheirPaid(t, o)' > TheirPaid(t, o))
  <1>1. PICK k \in Forms : k = desk[c].form
    BY RequestTypes DEF IInv, Typed, RemovePayment, Undos
  <1>2. rows' = [rows EXCEPT ![k] = 0]
    BY <1>1 DEF RemovePayment
  <1>3. PICK F, G : F = FormsFor("client", o) /\ G = TheirForms(t, o)
    OBVIOUS
  <1>4. PICK f, g, u, v : /\ f = [j \in F |-> Share(j, o)] /\ g = [j \in F |-> Share(j, o)']
                          /\ u = [j \in G |-> Share(j, o)] /\ v = [j \in G |-> Share(j, o)']
    OBVIOUS
  <1>5. /\ F \in SUBSET Forms /\ \A j \in F : o \in DOMAIN Form[j].alloc
        /\ G \in SUBSET Forms /\ \A j \in G : o \in DOMAIN Form[j].alloc
        /\ Paid(o) = SumFunction(f) /\ Paid(o)' = SumFunction(g)
        /\ TheirPaid(t, o) = SumFunction(u) /\ TheirPaid(t, o)' = SumFunction(v)
    BY <1>3, <1>4, PaidSums
  <1>6. SumFunction(f) \in Int /\ SumFunction(g) \in Int /\ SumFunction(g) <= SumFunction(f)
    BY <1>2, <1>4, <1>5, OneRowLess
  <1>7. SumFunction(u) \in Int /\ SumFunction(v) \in Int /\ SumFunction(v) <= SumFunction(u)
    BY <1>2, <1>4, <1>5, OneRowLess
  <1> QED
    BY <1>5, <1>6, <1>7

LEMMA InsertNeverOverpays ==
    ASSUME IInv, IInv', PayInv, NEW c \in Clerks, InsertPayment(c), ~(rows' = rows),
           NEW o \in Orders, o \notin mixed', NEW t
    PROVE  /\ Paid(o)' > Paid(o) => Paid(o)' <= Billed(o)'
           /\ TheirPaid(t, o)' > TheirPaid(t, o) => TheirPaid(t, o)' <= TheirCost(t, o)'
  <1>1. PICK tx \in Pays : tx = desk[c]
    BY RequestTypes DEF IInv, Typed, InsertPayment
  <1>2. PICK k \in Forms : k = tx.form
    BY DEF Pays
  <1>3. ~Refused(c)
    BY DEF Refused, tableVars
  <1>4. /\ rows' = [rows EXCEPT ![k] = IF rows[k] > 0 THEN rows[k] ELSE 1]
        /\ Leave(c) /\ order' = order /\ doc' = doc
    BY <1>1, <1>2, <1>3 DEF InsertPayment, InsertOnce
  <1>5. rows[k] \in {0, 1} /\ rows \in [Forms -> Nat]
    BY RowsAreFew DEF IInv, Typed, RowsTyped
  <1>6. rows[k] = 0 /\ rows'[k] = 1 /\ \A j \in Forms \ {k} : rows'[j] = rows[j]
    <2>1. rows[k] # 1
      <3>1. rows[k] = 1 => rows' = rows
        BY <1>4, <1>5
      <3> QED BY <3>1
    <2> QED BY <1>4, <1>5, <2>1
  <1>7. PICK F, G : F = FormsFor("client", o) /\ G = TheirForms(t, o)
    OBVIOUS
  <1>8. PICK f, g, u, v : /\ f = [j \in F |-> Share(j, o)] /\ g = [j \in F |-> Share(j, o)']
                          /\ u = [j \in G |-> Share(j, o)] /\ v = [j \in G |-> Share(j, o)']
    OBVIOUS
  <1>9. /\ F \in SUBSET Forms /\ \A j \in F : o \in DOMAIN Form[j].alloc /\ Form[j].ledger = "client"
        /\ G \in SUBSET Forms
        /\ \A j \in G : o \in DOMAIN Form[j].alloc /\ Form[j].ledger = "translator" /\ Form[j].who = t
        /\ Paid(o) = SumFunction(f) /\ Paid(o)' = SumFunction(g)
        /\ TheirPaid(t, o) = SumFunction(u) /\ TheirPaid(t, o)' = SumFunction(v)
    BY <1>7, <1>8, PaidSums
  <1>10. PICK a : a = Form[k].alloc[o]
    OBVIOUS
  <1>11. SumFunction(f) \in Nat /\ SumFunction(g) = SumFunction(f) + (IF k \in F THEN a ELSE 0)
    BY <1>6, <1>8, <1>9, <1>10, OneRowMore
  <1>12. SumFunction(u) \in Nat /\ SumFunction(v) = SumFunction(u) + (IF k \in G THEN a ELSE 0)
    BY <1>6, <1>8, <1>9, <1>10, OneRowMore
  <1>13. o \notin mixed
    BY <1>4 DEF Leave
  <1>14. PayRelies(tx) /\ tx.op = "pay"
    BY <1>1 DEF PayInv, Pays
  <1>15. Billed(o)' = Billed(o) /\ TheirCost(t, o)' = TheirCost(t, o)
    BY <1>4 DEF Billed, DocumentsTotal, DocsOf, TheirCost, TheirDocs
  <1>16. ASSUME Paid(o)' > Paid(o) PROVE Paid(o)' <= Billed(o)'
    <2>1. k \in F
      BY <1>9, <1>11, <1>16
    <2>2. Exists(o) /\ a <= PerOrderOwed(o) /\ a \in Nat
      BY <1>2, <1>9, <1>10, <1>13, <1>14, <2>1, FormTypes DEF PayRelies
    <2>3. Billed(o) \in Nat /\ PerOrderOwed(o) = Billed(o) - Paid(o)
      BY <2>2, BilledIs DEF PerOrderOwed
    <2> QED BY <1>9, <1>11, <1>15, <2>1, <2>2, <2>3
  <1>17. ASSUME TheirPaid(t, o)' > TheirPaid(t, o) PROVE TheirPaid(t, o)' <= TheirCost(t, o)'
    <2>1. k \in G
      BY <1>9, <1>12, <1>17
    <2>2. Exists(o) /\ a <= TheirCost(t, o) - TheirPaid(t, o) /\ a \in Nat
      BY <1>2, <1>9, <1>10, <1>13, <1>14, <2>1, FormTypes DEF PayRelies
    <2>3. TheirCost(t, o) \in Nat
      BY <2>2, TheirCostIs
    <2> QED BY <1>9, <1>12, <1>15, <2>1, <2>2, <2>3
  <1> QED
    BY <1>16, <1>17

(***************************************************************************)
(* No payment takes an order beyond what it bills and no payout takes a    *)
(* translator beyond their cost of it, for any number of forms and of      *)
(* requests in flight: what the checks read still holds when the row is    *)
(* written, or two requests shared the order and it is counted as mixed.   *)
(***************************************************************************)
THEOREM PaymentNeverOverpaysHolds == Spec => PaymentNeverOverpays
  <1>1. Init => PayInv
    BY DEF Init, PayInv, PayRelies, Idle
  <1>2. ASSUME IInv, IInv', PayInv, [Next]_vars, NEW o \in Orders
        PROVE  /\ Paid(o)' > Paid(o) /\ o \notin mixed' => Paid(o)' <= Billed(o)'
               /\ \A t \in Translators :
                    TheirPaid(t, o)' > TheirPaid(t, o) /\ o \notin mixed' => TheirPaid(t, o)' <= TheirCost(t, o)'
    <2>1. CASE rows' = rows
      <3>1. Paid(o)' = Paid(o) /\ Paid(o) \in Nat /\ \A t : TheirPaid(t, o)' = TheirPaid(t, o)
        BY <1>2, <2>1, PaidIs DEF Paid, Allocated, Share, TheirPaid
      <3>2. ASSUME NEW t \in Translators PROVE TheirPaid(t, o) \in Nat
        BY <1>2, TheirPaidIs
      <3> QED BY <3>1, <3>2
    <2>2. ASSUME ~(rows' = rows), NEW c \in Clerks, InsertPayment(c)
          PROVE  /\ Paid(o)' > Paid(o) /\ o \notin mixed' => Paid(o)' <= Billed(o)'
                 /\ \A t \in Translators :
                      TheirPaid(t, o)' > TheirPaid(t, o) /\ o \notin mixed' => TheirPaid(t, o)' <= TheirCost(t, o)'
      BY <1>2, <2>2, InsertNeverOverpays
    <2>3. ASSUME NEW c \in Clerks, RemovePayment(c)
          PROVE  ~(Paid(o)' > Paid(o)) /\ \A t \in Translators : ~(TheirPaid(t, o)' > TheirPaid(t, o))
      BY <1>2, <2>3, RemoveNeverRaises
    <2> QED BY <1>2, <2>1, <2>2, <2>3, LedgersBy
  <1>3. IInv /\ IInv' /\ PayInv /\ [Next]_vars =>
            [\A o \in Orders :
              /\ Paid(o)' > Paid(o) /\ o \notin mixed' => Paid(o)' <= Billed(o)'
              /\ \A t \in Translators :
                   TheirPaid(t, o)' > TheirPaid(t, o) /\ o \notin mixed' => TheirPaid(t, o)' <= TheirCost(t, o)']_vars
    BY <1>2
  <1> QED
    BY <1>1, <1>3, NextPays, Invariance, PTL DEF Spec, PaymentNeverOverpays
=============================================================================
