------------------------------ MODULE Budgets ------------------------------
(***************************************************************************)
(* Transactions, budget limits and categories of several users: the three  *)
(* services over their repositories.  Each SQL statement is one action; a  *)
(* handler that awaits several lets the other requests run in between, and *)
(* nothing holds the tables still.  A transaction or a limit may name any  *)
(* category id: a deleted one, another user's, or one that never existed.  *)
(***************************************************************************)
EXTENDS BudgetMath, FiniteSets, FiniteSetsExt

CONSTANTS
    Requests,       \* slots for HTTP requests in flight; a slot is reused
    Users,
    TxIds, LimitIds,        \* primary keys
    Categories,     \* primary keys too, and what a body may name
    Months,         \* a month stands for a (month, year) pair
    Drafts,         \* bodies of POST /transactions
    Patches,        \* bodies of PATCH /transactions/:id: some fields of a row
    Filters,        \* type of GET /transactions: one of the two, or None
    CategoryTypes,  \* type of a category's body or query
    PageLimit,      \* limit of GET /transactions
    LimitAmounts,   \* limitAmounts of POST /budget-limits/upsert, in thousandths
    None,
    Ops,            \* the endpoints the clients of this instance use
    Faults          \* {} or {"db"}

AllOps == {"create", "update", "delete", "getOne", "pages", "upsert", "list"}
CategoryOps == {"createCategory", "updateCategory", "deleteCategory", "listCategories"}
Types == {"income", "expense"}

Positive == Nat \ {0}      \* @IsPositive
Fields == [category |-> Categories \cup {None}, amount |-> Positive, type |-> Types, month |-> Months]
CategoryFields == [type |-> Types]
WellTyped(fields) == \A f \in DOMAIN fields : f \in DOMAIN Fields /\ fields[f] \in Fields[f]

ASSUME OpsAssumption == Ops \subseteq AllOps \cup CategoryOps
ASSUME FiltersAssumption == Filters \subseteq Types \cup {None} /\ CategoryTypes \subseteq Types
ASSUME PageLimitAssumption == PageLimit \in 1..100
ASSUME IdsAssumption == IsFiniteSet(TxIds) /\ TxIds \cap Categories = {}
ASSUME AmountsAssumption == LimitAmounts \subseteq Positive
ASSUME DraftsAssumption == \A d \in Drafts : DOMAIN d = DOMAIN Fields /\ WellTyped(d)
\* UpdateTransactionDto: whitelisted fields only, never userId or deletedAt.
ASSUME PatchesAssumption == \A p \in Patches : WellTyped(p)

VARIABLES
    tx,         \* table transaction: row by id, or None
    limits,     \* table budget_limit: row by id, or None
    cats,       \* table category: row by id, or None
    body,       \* what the latest request of each slot carries
    pc,         \* the await its handler stands at, or "done"
    local,      \* the handler's locals
    answer,     \* the response the latest step sent, or NoAnswer
    \* History, read by the properties only:
    gone,       \* transactions and categories whose deletion was answered with a 200
    late,       \* slots whose request named one that was gone when it began
    truths,     \* per slot: facts about its user's month that held since the request began
    walk        \* per slot that pages through a list: what happened to the list meanwhile

tables == <<tx, limits, cats>>
history == <<gone, late, truths, walk>>
vars == <<tables, body, pc, local, answer, history>>

Request(op, u, id, row) == [op |-> op, user |-> u, id |-> id, row |-> row]
NoRequest == Request("none", None, None, None)
Paged(page, seen, again, items) ==
    [limit |-> None, todo |-> {}, items |-> items, page |-> page, seen |-> seen, again |-> again]
NoLocals == Paged(1, {}, {}, {})
Walk(stays, tied, left, joined) == [stays |-> stays, tied |-> tied, left |-> left, joined |-> joined]
NoWalk == Walk({}, {}, FALSE, FALSE)
NoAnswer == [slot |-> None, request |-> NoRequest, code |-> "none", row |-> None, items |-> {}]

InFlight(r) == pc[r] # "done"
Running(r, op, at) == body[r].op = op /\ pc[r] = at

Goto(r, at, locals) ==
    /\ pc' = [pc EXCEPT ![r] = at]
    /\ local' = [local EXCEPT ![r] = locals]
    /\ answer' = NoAnswer
    /\ UNCHANGED body

Answer(r, code, row, items) ==
    /\ answer' = [slot |-> r, request |-> body[r], code |-> code, row |-> row, items |-> items]
    /\ pc' = [pc EXCEPT ![r] = "done"]
    /\ body' = [body EXCEPT ![r] = NoRequest]
    /\ local' = [local EXCEPT ![r] = NoLocals]

-----------------------------------------------------------------------------
(* The queries. *)
\* Mutants: a row is anybody's; deleted rows are found; deleted rows are summed.
OwnsAny(u, id) == tx[id] # None
FindDeletedToo(u, id) == tx[id] # None /\ tx[id].user = u
SumDeletedToo(u, c, m) ==
    MapThenSumSet(LAMBDA x : tx[x].amount,
                  {x \in TxIds : /\ tx[x] # None /\ tx[x].user = u /\ tx[x].category = c
                                 /\ tx[x].month = m /\ tx[x].type = "expense"})

Owns(u, id) == tx[id] # None /\ tx[id].user = u
FindByIdAndUser(u, id) == Owns(u, id) /\ ~tx[id].deleted

\* sumByUserAndMonth: expenses only, soft-deleted rows left out.
SumOf(u, c, m) ==
    LET rows == {x \in TxIds : /\ tx[x] # None /\ ~tx[x].deleted /\ tx[x].user = u
                               /\ tx[x].category = c /\ tx[x].month = m /\ tx[x].type = "expense"}
    IN MapThenSumSet(LAMBDA x : tx[x].amount, rows)

\* findList: the rows of user u that pass the filter on the type, sorted by amount, the
\* largest first.  Each query puts rows of one amount in any order, so a page is one of
\* the possible ones.
Listed(u, t) == {x \in TxIds : FindByIdAndUser(u, x) /\ t \in {None, tx[x].type}}
Before(some, others) == \A x \in some, y \in others : tx[x].amount >= tx[y].amount
\* The first n pages of the list.
First(rows, n) == {s \in SUBSET rows : Cardinality(s) = Min({n * PageLimit, Cardinality(rows)}) /\ Before(s, rows \ s)}
\* Mutants: pages counted from zero; the rows before the page are not skipped.
PagesFromZero(rows, page) == {s \in SUBSET rows : \E before \in First(rows, page) : before \cap s = {} /\ before \cup s \in First(rows, page + 1)}
PagesUnskipped(rows, page) == First(rows, page)
Pages(rows, page) == {s \in SUBSET rows : \E before \in First(rows, page - 1) : before \cap s = {} /\ before \cup s \in First(rows, page)}

\* findByUserAndMonth and the key of @Unique(userId, categoryId, month, year).
LimitsOf(u, m) == {l \in LimitIds : limits[l] # None /\ limits[l].user = u /\ limits[l].month = m}
LimitFor(u, c, m) == {l \in LimitsOf(u, m) : limits[l].category = c}

\* One budget limit as it is answered; the limit is the amount the handler holds.
Items(c, limit, spent) ==
    {[category |-> c, limit |-> limit, spent |-> spent, status |-> Status(p)] : p \in Percents(spent, limit)}

\* History: what may truthfully be said of user u's month m. A row counts for what it
\* contributes, and the limit a category has is the one stored.
Contribution(row, u, c, m) ==
    IF row # None /\ row.user = u /\ row.category = c /\ row.month = m /\ row.type = "expense" /\ ~row.deleted
    THEN row.amount ELSE 0
Spent(u, c, m) == FoldSet(LAMBDA x, total : total + Contribution(tx[x], u, c, m), 0, TxIds)
Facts(u, m) ==
    {[category |-> c, fact |-> "spent", value |-> Spent(u, c, m)] : c \in Categories}
    \cup {[category |-> limits[l].category, fact |-> "limit", value |-> limits[l].amount] :
            l \in {k \in LimitIds : limits[k] # None /\ limits[k].user = u /\ limits[k].month = m}}
Watching(r) == body[r].op \in {"list", "upsert"}
Paging(r) == body[r].op = "pages"
List(r) == Listed(body[r].user, body[r].row.type)
Ties(rows) == {x \in rows : \E y \in rows \ {x} : tx[x].amount = tx[y].amount}
\* Rows of a list that a step takes out, or moves; and those it brings in, or moves.
Changed(x) == tx'[x].amount # tx[x].amount
Walked(r) ==
    LET moved == {x \in List(r) \cap List(r)' : Changed(x)}
    IN Walk((walk[r].stays \cap List(r)') \ moved,
            walk[r].tied \cup Ties(List(r))',
            walk[r].left \/ moved # {} \/ List(r) \ List(r)' # {},
            walk[r].joined \/ moved # {} \/ List(r)' \ List(r) # {})

\* What every step adds to the history.
Observe ==
    /\ gone' = IF answer'.code = "200" /\ answer'.request.op \in {"delete", "deleteCategory"}
               THEN gone \cup {answer'.request.id} ELSE gone
    /\ late' = [r \in Requests |-> IF InFlight(r) THEN late[r] /\ InFlight(r)' ELSE body'[r].id \in gone]
    /\ truths' = [r \in Requests |-> IF Watching(r)' THEN truths[r] \cup Facts(body[r].user, body[r].row.month)' ELSE {}]
    /\ walk' = [r \in Requests |-> IF ~Paging(r)' THEN NoWalk ELSE IF Paging(r) THEN Walked(r)
                                    ELSE Walk(List(r)', Ties(List(r))', FALSE, FALSE)]

\* The end of every action: what stays as it is, and the history.
Keeping(state) == UNCHANGED state /\ Observe

Init ==
    /\ tx = [x \in TxIds |-> None]
    /\ limits = [l \in LimitIds |-> None]
    /\ cats = [c \in Categories |-> None]
    /\ body = [r \in Requests |-> NoRequest]
    /\ pc = [r \in Requests |-> "done"]
    /\ local = [r \in Requests |-> NoLocals]
    /\ answer = NoAnswer
    /\ gone = {}
    /\ late = [r \in Requests |-> FALSE]
    /\ truths = [r \in Requests |-> {}]
    /\ walk = [r \in Requests |-> NoWalk]

-----------------------------------------------------------------------------
(* The requests. A row of a create carries every field, of an upsert the key *)
(* and the amount, of a list the month, of an update the fields to change.   *)
\* Bound of the model: TxIds transactions and Categories categories in all, and LimitIds
\* enough for every key.
RowLeft ==
    Cardinality({x \in TxIds : tx[x] # None}) + Cardinality({r \in Requests : Running(r, "create", "insert")})
        < Cardinality(TxIds)

CategoryLeft ==
    Cardinality({c \in Categories : cats[c] # None}) + Cardinality({r \in Requests : Running(r, "createCategory", "insert")})
        < Cardinality(Categories)

Begin(r, request, at) ==
    /\ request.op \in Ops /\ ~InFlight(r)
    /\ request.op = "create" => RowLeft
    /\ request.op = "createCategory" => CategoryLeft
    /\ body' = [body EXCEPT ![r] = request]
    /\ pc' = [pc EXCEPT ![r] = at]
    /\ answer' = NoAnswer
    /\ Keeping(<<tables, local>>)

Client(r) == \E u \in Users :
    \/ \E d \in Drafts : Begin(r, Request("create", u, None, d), "insert")
    \/ \E x \in TxIds :
        \/ \E p \in Patches : Begin(r, Request("update", u, x, p), "update")
        \/ Begin(r, Request("delete", u, x, None), "update")
        \/ Begin(r, Request("getOne", u, x, None), "select")
    \/ \E t \in Filters : Begin(r, Request("pages", u, None, [type |-> t]), "rows")
    \/ \E c \in Categories, a \in LimitAmounts, m \in Months :
         Begin(r, Request("upsert", u, None, [category |-> c, amount |-> a, month |-> m]), "find")
    \/ \E m \in Months : Begin(r, Request("list", u, None, [month |-> m]), "limits")

CategoryClient(r) == \E u \in Users, t \in CategoryTypes, c \in Categories :
    \/ Begin(r, Request("createCategory", u, None, [type |-> t]), "insert")
    \/ Begin(r, Request("updateCategory", u, c, [type |-> t]), "update")
    \/ Begin(r, Request("deleteCategory", u, c, None), "update")
    \/ Begin(r, Request("listCategories", u, None, [type |-> t]), "select")

-----------------------------------------------------------------------------
(* Transactions. *)

\* txRepo.create: one INSERT.
CreateInsert(r) ==
    /\ Running(r, "create", "insert")
    /\ \E x \in TxIds :
        /\ tx[x] = None
        /\ LET b == body[r].row
           IN tx' = [tx EXCEPT ![x] = [user |-> body[r].user, category |-> b.category, amount |-> Stored(b.amount),
                                       type |-> b.type, month |-> b.month, deleted |-> FALSE]]
        /\ Answer(r, "200", x, {})
    /\ Keeping(<<limits, cats>>)

\* repo.update({ id, userId }, data): the row of that user, soft-deleted or not.
Patched(row, patch) ==
    LET Field(f) == IF f \in DOMAIN patch THEN patch[f] ELSE row[f]
    IN [user |-> row.user, category |-> Field("category"),
        amount |-> IF "amount" \in DOMAIN patch THEN Stored(patch.amount) ELSE row.amount,
        type |-> Field("type"), month |-> Field("month"), deleted |-> row.deleted]

UpdateWrite(r) ==
    /\ Running(r, "update", "update")
    /\ tx' = IF Owns(body[r].user, body[r].id)
             THEN [tx EXCEPT ![body[r].id] = Patched(@, body[r].row)] ELSE tx
    /\ Goto(r, "select", NoLocals)
    /\ Keeping(<<limits, cats>>)

\* findByIdAndUser, at the end of updateByIdAndUser and of getOne.
SelectOne(r) ==
    /\ Running(r, "update", "select") \/ Running(r, "getOne", "select")
    /\ LET x == body[r].id
       IN \/ FindByIdAndUser(body[r].user, x) /\ Answer(r, "200", x, {})
          \/ ~FindByIdAndUser(body[r].user, x) /\ Answer(r, "404", None, {})
    /\ Keeping(tables)

\* softDelete({ id, userId }): stamps a row that was stamped already once more.
DeleteWrite(r) ==
    /\ Running(r, "delete", "update")
    /\ LET x == body[r].id
       IN \/ /\ Owns(body[r].user, x)
             /\ tx' = [tx EXCEPT ![x].deleted = TRUE]
             /\ Answer(r, "200", x, {})
          \/ ~Owns(body[r].user, x) /\ Answer(r, "404", None, {}) /\ UNCHANGED tx
    /\ Keeping(<<limits, cats>>)

\* The list of transactions, page by page: SELECT, then COUNT, with nothing to keep the
\* two together.  The client asks for the next page while the total promises one.
PageRows(r) ==
    /\ Running(r, "pages", "rows")
    /\ \E page \in Pages(List(r), local[r].page) : Goto(r, "count", Paged(local[r].page, local[r].seen, local[r].again, page))
    /\ Keeping(tables)

PageCount(r) ==
    /\ Running(r, "pages", "count")
    /\ LET l == local[r]
           total == Cardinality(List(r))
       IN \/ /\ l.page * PageLimit < total
             /\ Goto(r, "rows", Paged(l.page + 1, l.seen \cup l.items, l.again \cup (l.seen \cap l.items), {}))
          \/ l.page * PageLimit >= total /\ Answer(r, "200", None, l.items)
    /\ Keeping(tables)

-----------------------------------------------------------------------------
(* Budget limits. *)
\* BudgetLimitRepository.upsert: SELECT by key, then UPDATE by id or INSERT.
UpsertFind(r) ==
    /\ Running(r, "upsert", "find")
    /\ LET b == body[r].row
           found == LimitFor(body[r].user, b.category, b.month)
       IN \/ found = {} /\ Goto(r, "insert", NoLocals)
          \/ \E l \in found : Goto(r, "update", [NoLocals EXCEPT !.limit = l])
    /\ Keeping(tables)

UpsertUpdate(r) ==
    /\ Running(r, "upsert", "update")
    /\ limits' = [limits EXCEPT ![local[r].limit].amount = Stored(body[r].row.amount)]
    /\ Goto(r, "sum", NoLocals)
    /\ Keeping(<<tx, cats>>)

\* Mutant of UpsertInsert: a table without @Unique.
UpsertInsertUnchecked(r) ==
    /\ Running(r, "upsert", "insert")
    /\ LET b == body[r].row
       IN \E l \in LimitIds :
            /\ limits[l] = None
            /\ limits' = [limits EXCEPT ![l] = [user |-> body[r].user, category |-> b.category,
                                                month |-> b.month, amount |-> Stored(b.amount)]]
    /\ Goto(r, "sum", NoLocals)
    /\ Keeping(<<tx, cats>>)

\* The unique constraint rejects the second of two racing INSERTs (answered 500).
UpsertInsert(r) ==
    /\ Running(r, "upsert", "insert")
    /\ LET b == body[r].row
           taken == LimitFor(body[r].user, b.category, b.month) # {}
       IN \/ /\ taken
             /\ Answer(r, "500", None, {})
             /\ Keeping(tables)
          \/ /\ ~taken
             /\ \E l \in LimitIds :
                 /\ limits[l] = None
                 /\ limits' = [limits EXCEPT ![l] = [user |-> body[r].user, category |-> b.category,
                                                     month |-> b.month, amount |-> Stored(b.amount)]]
             /\ Goto(r, "sum", NoLocals)
             /\ Keeping(<<tx, cats>>)

\* The answer carries the amount as sent, not the one the column kept.
UpsertSum(r) ==
    /\ Running(r, "upsert", "sum")
    /\ LET b == body[r].row
       IN \E item \in Items(b.category, b.amount, SumOf(body[r].user, b.category, b.month)) :
            Answer(r, "200", None, {item})
    /\ Keeping(tables)

\* listByMonth: one SELECT for the limits, then one SUM per limit, all in flight at once.
ListLimits(r) ==
    /\ Running(r, "list", "limits")
    /\ Goto(r, "sums", [NoLocals EXCEPT !.todo = {limits[l] : l \in LimitsOf(body[r].user, body[r].row.month)}])
    /\ Keeping(tables)

ListSum(r) ==
    /\ Running(r, "list", "sums")
    /\ \E limit \in local[r].todo :
        LET spent == SumOf(body[r].user, limit.category, body[r].row.month)
        IN \E item \in Items(limit.category, limit.amount, spent) :
            local' = [local EXCEPT ![r].todo = @ \ {limit}, ![r].items = @ \cup {item}]
    /\ answer' = NoAnswer
    /\ Keeping(<<tables, body, pc>>)

ListAnswer(r) ==
    /\ Running(r, "list", "sums") /\ local[r].todo = {}
    /\ Answer(r, "200", None, local[r].items)
    /\ Keeping(tables)

-----------------------------------------------------------------------------
(* Categories. *)
OwnsCategory(u, c) == cats[c] # None /\ cats[c].user = u
FindCategory(u, c) == OwnsCategory(u, c) /\ ~cats[c].deleted
PatchedCategory(row, patch) == [row EXCEPT !.type = patch.type]

CategoryInsert(r) ==
    /\ Running(r, "createCategory", "insert")
    /\ \E c \in Categories :
        /\ cats[c] = None
        /\ cats' = [cats EXCEPT ![c] = [user |-> body[r].user, type |-> body[r].row.type, deleted |-> FALSE]]
        /\ Answer(r, "200", c, {})
    /\ Keeping(<<tx, limits>>)

\* The same two statements as for a transaction, and the same softDelete.
CategoryWrite(r) ==
    /\ Running(r, "updateCategory", "update")
    /\ LET c == body[r].id
       IN cats' = IF OwnsCategory(body[r].user, c)
                  THEN [cats EXCEPT ![c] = PatchedCategory(@, body[r].row)] ELSE cats
    /\ Goto(r, "select", NoLocals)
    /\ Keeping(<<tx, limits>>)

CategorySelect(r) ==
    /\ Running(r, "updateCategory", "select")
    /\ LET c == body[r].id
       IN \/ FindCategory(body[r].user, c) /\ Answer(r, "200", c, {})
          \/ ~FindCategory(body[r].user, c) /\ Answer(r, "404", None, {})
    /\ Keeping(tables)

CategoryDelete(r) ==
    /\ Running(r, "deleteCategory", "update")
    /\ LET c == body[r].id
       IN \/ /\ OwnsCategory(body[r].user, c)
             /\ cats' = [cats EXCEPT ![c].deleted = TRUE]
             /\ Answer(r, "200", c, {})
          \/ ~OwnsCategory(body[r].user, c) /\ Answer(r, "404", None, {}) /\ UNCHANGED cats
    /\ Keeping(<<tx, limits>>)

CategoryList(r) ==
    /\ Running(r, "listCategories", "select")
    /\ Answer(r, "200", None, {c \in Categories : FindCategory(body[r].user, c) /\ cats[c].type = body[r].row.type})
    /\ Keeping(tables)

-----------------------------------------------------------------------------
\* A failed statement, or one whose value the column does not take, rejects the
\* awaited promise: the error handler answers 500.
DbError(r) ==
    /\ "db" \in Faults /\ InFlight(r)
    /\ Answer(r, "500", None, {})
    /\ Keeping(tables)

Handler(r) ==
    \/ CreateInsert(r) \/ UpdateWrite(r) \/ SelectOne(r) \/ DeleteWrite(r)
    \/ PageRows(r) \/ PageCount(r)
    \/ UpsertFind(r) \/ UpsertUpdate(r) \/ UpsertInsert(r) \/ UpsertSum(r)
    \/ ListLimits(r) \/ ListSum(r) \/ ListAnswer(r)
    \/ CategoryInsert(r) \/ CategoryWrite(r) \/ CategorySelect(r) \/ CategoryDelete(r) \/ CategoryList(r)

Next == \E r \in Requests : Client(r) \/ CategoryClient(r) \/ Handler(r) \/ DbError(r)

Spec == Init /\ [][Next]_vars

-----------------------------------------------------------------------------
TxRow == [user: Users, category: Categories \cup {None}, amount: Nat, type: Types, month: Months, deleted: BOOLEAN]
CategoryRow == [user: Users, type: Types, deleted: BOOLEAN]
LimitRow == [user: Users, category: Categories, month: Months, amount: Nat]

ASSUME NoneAssumption == None \notin TxRow \cup CategoryRow \cup LimitRow

RequestType ==
    {NoRequest}
    \cup [op: {"create"}, user: Users, id: {None}, row: Drafts]
    \cup [op: {"update"}, user: Users, id: TxIds, row: Patches]
    \cup [op: {"delete", "getOne"}, user: Users, id: TxIds, row: {None}]
    \cup [op: {"pages"}, user: Users, id: {None}, row: [type: Filters]]
    \cup [op: {"upsert"}, user: Users, id: {None}, row: [category: Categories, amount: LimitAmounts, month: Months]]
    \cup [op: {"list"}, user: Users, id: {None}, row: [month: Months]]
    \cup [op: {"createCategory", "listCategories"}, user: Users, id: {None}, row: [type: Types]]
    \cup [op: {"updateCategory"}, user: Users, id: Categories, row: [type: Types]]
    \cup [op: {"deleteCategory"}, user: Users, id: Categories, row: {None}]

\* The tables, the requests and the handlers' positions have their types.
TypeOK ==
    /\ tx \in [TxIds -> TxRow \cup {None}]
    /\ limits \in [LimitIds -> LimitRow \cup {None}]
    /\ cats \in [Categories -> CategoryRow \cup {None}]
    /\ pc \in [Requests -> {"done", "insert", "update", "select", "find", "sum", "limits", "sums", "rows", "count"}]
    /\ body \in [Requests -> RequestType] /\ DOMAIN local = Requests
    /\ gone \subseteq TxIds \cup Categories /\ late \in [Requests -> BOOLEAN]

\* Upserts of one key that both found no limit, before either inserted, leave one
\* row: list would otherwise show the category twice (BudgetLimitRepository.upsert).
LimitsUnique ==
    \A a, b \in LimitIds : a # b /\ limits[a] # None /\ limits[b] # None
        => \/ limits[a].user # limits[b].user \/ limits[a].category # limits[b].category
           \/ limits[a].month # limits[b].month

\* A transaction or a category whose deletion was acknowledged is never again answered
\* to a read or an update that began later, although updates still write to soft-deleted
\* rows and an update that began earlier may land after the deletion.
DeletedStaysDeleted ==
    [][answer'.request.op \in {"getOne", "update", "updateCategory"} /\ answer'.code = "200" => ~late[answer'.slot]]_vars

\* Why it is so: what is gone is stamped, and a late request names what is gone.
GoneStamped ==
    /\ \A x \in gone \cap TxIds : tx[x] # None /\ tx[x].deleted
    /\ \A c \in gone \cap Categories : cats[c] # None /\ cats[c].deleted
LateNamesGone == \A r \in Requests : late[r] => body[r].id \in gone

\* The UPDATE of an upsert names the limit of its key.
UpdatesFound ==
    \A r \in Requests : Running(r, "upsert", "update") =>
        local[r].limit \in LimitFor(body[r].user, body[r].row.category, body[r].row.month)

\* Whatever runs between the two statements of an update, a transaction or a category is
\* only ever changed for its owner, never changes hands, never comes back from deletion.
KeptForOwner(before, after) ==
    \A x \in DOMAIN before : before[x] # None /\ after[x] # before[x] =>
        /\ after[x].user = before[x].user /\ (before[x].deleted => after[x].deleted)
        /\ \E r \in Requests : InFlight(r) /\ pc'[r] # pc[r] /\ body[r].id = x /\ body[r].user = before[x].user
OwnersOnly == [][KeptForOwner(tx, tx') /\ KeptForOwner(cats, cats')]_vars

\* Pages are cut from the list as it is when each is asked for.  Still, a transaction that
\* stayed in the list, and whose amount no other shared, is missed only if a row left the
\* list while the client paged through it: rows that arrive never hide one.
PagesMissNothing ==
    [][answer'.request.op = "pages" /\ answer'.code = "200" =>
        LET r == answer'.slot
        IN walk[r].left \/ walk[r].stays \ walk[r].tied \subseteq local[r].seen \cup answer'.items]_vars

\* And it is shown twice only if a row arrived meanwhile: deletions never repeat one.
PagesRepeatNothing ==
    [][answer'.request.op = "pages" /\ answer'.code = "200" =>
        LET r == answer'.slot
            again == local[r].again \cup (local[r].seen \cap answer'.items)
        IN walk[r].joined \/ again \cap walk[r].stays \subseteq walk[r].tied]_vars

\* Why both are so: until a row leaves, the transactions cut from the list so far are among
\* those shown; until one arrives, those shown are among the ones cut, and shown once.
Above(x, rows) == {y \in rows : tx[y].amount > tx[x].amount}
Rank(r, x) == Cardinality(Above(x, List(r)))
Cut(r) == (IF pc[r] = "rows" THEN local[r].page - 1 ELSE local[r].page) * PageLimit
Shown(r) == local[r].seen \cup (IF pc[r] = "rows" THEN {} ELSE local[r].items)
Again(r) == local[r].again \cup (IF pc[r] = "rows" THEN {} ELSE local[r].seen \cap local[r].items)
PagesOfRanks ==
    \A r \in Requests : Paging(r) =>
        /\ walk[r].stays \subseteq List(r) /\ Ties(List(r)) \subseteq walk[r].tied
        /\ \A x \in walk[r].stays \ walk[r].tied :
            /\ walk[r].left \/ x \in Shown(r) \/ Rank(r, x) >= Cut(r)
            /\ walk[r].joined \/ (x \notin Again(r) /\ (x \in Shown(r) => Rank(r, x) < Cut(r)))
PagersWalk ==
    \A r \in Requests :
        /\ Paging(r) => pc[r] \in {"rows", "count"} /\ local[r].page \in Positive
        /\ ~InFlight(r) => local[r] = NoLocals

\* listByMonth and upsert gather their answer over several statements with no snapshot.
\* Still, each amount spent they report was true at a moment of the request, and so
\* was each limit, up to the rounding of the column; and no category is told twice.
SpentFact(c, amount) == [category |-> c, fact |-> "spent", value |-> amount]
LimitFact(c, amount) == [category |-> c, fact |-> "limit", value |-> Stored(amount)]
Truthful(items, facts) ==
    \A i \in items :
        /\ SpentFact(i.category, i.spent) \in facts /\ LimitFact(i.category, i.limit) \in facts
        /\ \A j \in items : i.category = j.category => i = j
ToldTheTruth ==
    [][answer'.request.op \in {"list", "upsert"} => Truthful(answer'.items, truths[answer'.slot])]_vars

\* Why it is so: what holds now has been noted, the column has whole cents, an upsert has
\* noted the limit it wrote, and a list the limits it has read, each category once.
FactsNoted == \A r \in Requests : Watching(r) => Facts(body[r].user, body[r].row.month) \subseteq truths[r]
LimitsStored == \A l \in LimitIds : limits[l] # None => Stored(limits[l].amount) = limits[l].amount
UpsertsNoted ==
    \A r \in Requests : Running(r, "upsert", "sum") => LimitFact(body[r].row.category, body[r].row.amount) \in truths[r]
ListsNoted ==
    \A r \in Requests : body[r].op = "list" =>
        /\ DOMAIN local[r] = DOMAIN NoLocals /\ Truthful(local[r].items, truths[r])
        /\ \A k \in local[r].todo :
            /\ k \in LimitRow /\ LimitFact(k.category, k.amount) \in truths[r]
            /\ \A j \in local[r].todo : j.category = k.category => j = k
            /\ \A i \in local[r].items : i.category # k.category

\* The inductive invariant.
IInv ==
    /\ TypeOK /\ LimitsUnique /\ UpdatesFound /\ GoneStamped /\ LateNamesGone /\ PagesOfRanks /\ PagersWalk
    /\ FactsNoted /\ LimitsStored /\ UpsertsNoted /\ ListsNoted
=============================================================================
