------------------------------ MODULE LogPages ------------------------------
(***************************************************************************)
(* The tab "Block Info" of the page Dashboard (Dashboard.tsx): the log of  *)
(* mined blocks, newest first, page by page.  Pages are addressed by their *)
(* distance from the newest block (get_record_rev, main.rs:737), while the *)
(* log grows; the number of pages is fixed when the page is mounted.  A    *)
(* block is its height.                                                    *)
(***************************************************************************)
EXTENDS Naturals, Sequences, FiniteSets

CONSTANTS
    PageLimit,      \* PAGE_LIMIT: the records get_record_rev looks at
    RowsOptions,    \* rowsPerPageOptions
    FirstRows,      \* the rows per page at the mount
    Queries,        \* bound: pages in flight at once
    MaxLog,         \* bound: blocks in the log
    MaxTurns,       \* bound: pages asked for in a run
    MaxFailures,    \* bound: queries that are rejected
    Decimals,       \* the decimals of BONE on its ledger
    DefaultDecimals,\* those assumed until the ledger has answered
    None

PagesAssumption ==
    /\ PageLimit \in Nat \ {0} /\ RowsOptions \subseteq Nat \ {0} /\ FirstRows \in RowsOptions
    /\ IsFiniteSet(Queries) /\ MaxLog \in Nat /\ MaxTurns \in Nat \ {0} /\ MaxFailures \in Nat
    /\ None \notin Nat

VARIABLES
    log,            \* ORE_RECORD: blocks 1 .. log
    mount,          \* the other queries of the mount still in flight
    maxindex,       \* the end_idx read at the mount, or None
    bonedecimals,
    page, rowsPerPage,
    blockinfo,      \* the rows shown
    query,          \* the pages in flight
    turns,          \* pages asked for so far: the number of the last one
    failures,
    of,             \* history: the query whose answer is shown, or None
    latest,         \* history: the last query that has been answered or rejected
    overtaken,      \* history: an answer was shown after that of a later query
    seen            \* history: the blocks shown while paging forward from the first page,
                    \* those that were mined meanwhile left out; None once paging has
                    \* jumped or a page was lost

vars == <<log, mount, maxindex, bonedecimals, page, rowsPerPage, blockinfo, query, turns, failures, of, latest,
          overtaken, seen>>

head == <<mount, maxindex, bonedecimals>>

NoQuery == [pc |-> "idle", no |-> 0, start |-> 0, limit |-> 0, rows |-> <<>>]

Lesser(m, n) == IF m < n THEN m ELSE n

(***************************************************************************)
(* The canister's side.                                                    *)
(***************************************************************************)
\* The newest PAGE_LIMIT records of a log of n, newest first.
Window(n) == [i \in 1 .. Lesser(n, PageLimit) |-> n + 1 - i]

\* A wrong variant, to be refuted: the end of a full page is counted from 1.
GetRecordRevLong(n, start, limit) ==
    IF start > PageLimit \/ start >= Len(Window(n)) THEN <<>>
    ELSE SubSeq(Window(n), start + 1, Lesser(start + limit + 1, Len(Window(n)) - 1))

\* A page that reaches the end of the window loses the last of its records.
GetRecordRev(n, start, limit) ==
    IF start > PageLimit \/ start >= Len(Window(n)) THEN <<>>
    ELSE SubSeq(Window(n), start + 1,
                IF start + limit >= Len(Window(n)) THEN Len(Window(n)) - 1 ELSE start + limit)

(***************************************************************************)
(* The pages.                                                              *)
(***************************************************************************)
\* fetchPageData: a query that nobody awaits.
Fetch(start, limit) ==
    /\ turns < MaxTurns /\ turns' = turns + 1
    /\ \E q \in Queries :
         /\ query[q].pc = "idle"
         /\ query' = [query EXCEPT ![q] = [pc |-> "asked", no |-> turns + 1, start |-> start,
                                           limit |-> limit, rows |-> <<>>]]

\* The mount asks for the first page and for the last index of the log.
Init ==
    /\ log \in 0 .. MaxLog
    /\ mount = {"index", "decimals"} /\ maxindex = None /\ bonedecimals = DefaultDecimals
    /\ page = 0 /\ rowsPerPage = FirstRows /\ blockinfo = <<>>
    /\ \E q \in Queries :
         query = [x \in Queries |->
                    IF x = q THEN [NoQuery EXCEPT !.pc = "asked", !.no = 1, !.limit = FirstRows]
                    ELSE NoQuery]
    /\ turns = 1 /\ failures = 0
    /\ of = None /\ latest = 0 /\ overtaken = FALSE /\ seen = {}

ReqGetRecordIdx ==
    /\ "index" \in mount /\ mount' = mount \ {"index"}
    /\ maxindex' = log
    /\ UNCHANGED <<log, bonedecimals, page, rowsPerPage, blockinfo, query, turns, failures, of, latest,
                   overtaken, seen>>

ReqBoneDecimals ==
    /\ "decimals" \in mount /\ mount' = mount \ {"decimals"}
    /\ bonedecimals' = Decimals
    /\ UNCHANGED <<log, maxindex, page, rowsPerPage, blockinfo, query, turns, failures, of, latest,
                   overtaken, seen>>

MountRejected(x) ==
    /\ x \in mount /\ mount' = mount \ {x}
    /\ failures < MaxFailures /\ failures' = failures + 1
    /\ UNCHANGED <<log, maxindex, bonedecimals, page, rowsPerPage, blockinfo, query, turns, of, latest,
                   overtaken, seen>>

\* What a row shows of a block: its rewards are in units of bonedecimals.
Row(h) == [height |-> h, decimals |-> bonedecimals]
Rows == [i \in 1 .. Len(blockinfo) |-> Row(blockinfo[i])]

Count == IF maxindex = None THEN 0 ELSE maxindex

\* The pages the table's footer offers: it counts the blocks of the mount and has
\* arrows only.
Offered(p) == p * rowsPerPage < Count /\ p \in {page - 1, page + 1}

\* The pages the phone's list offers, from 1.
OfferedPhone(item) == item \in 1 .. (Count + rowsPerPage - 1) \div rowsPerPage

\* Forward: the page after the one shown, asked for once that one has come.
Forward(p) == p = page + 1 /\ of # None /\ of.no = turns

Turn(p, start) ==
    /\ page' = p
    /\ seen' = IF seen # None /\ Forward(p) THEN seen ELSE None
    /\ Fetch(start, rowsPerPage)
    /\ UNCHANGED <<log, head, rowsPerPage, blockinfo, failures, of, latest, overtaken>>

\* A wrong variant, to be refuted: a page starts one row late.
TurnPastOne(p) == Offered(p) /\ Turn(p, p * rowsPerPage + 1)

HandleChangePage(p) == Offered(p) /\ Turn(p, p * rowsPerPage)

\* handleChangePagephone
HandleChangePagePhone(item) ==
    OfferedPhone(item) /\ item # page + 1 /\ Turn(item - 1, (item - 1) * rowsPerPage)

\* A wrong variant, to be refuted: the page asked for is of the old size, as the
\* state a handler has set is not yet the one it reads.
ChangeRowsStale(r) ==
    /\ r # rowsPerPage /\ rowsPerPage' = r /\ page' = 0
    /\ seen' = {}
    /\ Fetch(0, rowsPerPage)
    /\ UNCHANGED <<log, head, blockinfo, failures, of, latest, overtaken>>

\* A wrong variant, to be refuted: the page stays.
ChangeRowsOnly(r) ==
    /\ r # rowsPerPage /\ rowsPerPage' = r
    /\ seen' = None
    /\ Fetch(page * r, r)
    /\ UNCHANGED <<log, head, page, blockinfo, failures, of, latest, overtaken>>

HandleChangeRowsPerPage(r) ==
    /\ r # rowsPerPage /\ rowsPerPage' = r /\ page' = 0
    /\ seen' = {}
    /\ Fetch(0, r)
    /\ UNCHANGED <<log, head, blockinfo, failures, of, latest, overtaken>>

\* The canister reads the log; the answer comes later, in any order.
MainReads(q) ==
    /\ query[q].pc = "asked"
    /\ query' = [query EXCEPT ![q].pc = "answered",
                              ![q].rows = GetRecordRev(log, query[q].start, query[q].limit)]
    /\ UNCHANGED <<log, head, page, rowsPerPage, blockinfo, turns, failures, of, latest,
                   overtaken, seen>>

Answered(q) ==
    /\ query[q].pc = "answered"
    /\ query' = [query EXCEPT ![q] = NoQuery]
    /\ latest' = IF latest < query[q].no THEN query[q].no ELSE latest
    /\ overtaken' = (overtaken \/ latest > query[q].no)

See(q) ==
    LET new == {query[q].rows[i] : i \in 1 .. Len(query[q].rows)}
    IN  IF seen = None \/ query[q].no # turns THEN None
        ELSE IF query[q].start = 0 THEN new
        ELSE seen \cup {h \in new : \E k \in seen : h <= k}

\* setblockinfo(pageData), whichever page is shown by now.
Show(q) ==
    /\ Answered(q)
    /\ blockinfo' = query[q].rows
    /\ of' = [no |-> query[q].no, start |-> query[q].start, limit |-> query[q].limit]
    /\ seen' = See(q)
    /\ UNCHANGED <<log, head, page, rowsPerPage, turns, failures>>

\* Nobody catches a rejected query: the rows stay.
Rejected(q) ==
    /\ query[q].pc # "idle"
    /\ failures < MaxFailures /\ failures' = failures + 1
    /\ query' = [query EXCEPT ![q] = NoQuery]
    /\ latest' = IF latest < query[q].no THEN query[q].no ELSE latest
    /\ seen' = None
    /\ UNCHANGED <<log, head, page, rowsPerPage, blockinfo, turns, of, overtaken>>

\* add_ore_log: a block is mined.
AddOreLog ==
    /\ log < MaxLog /\ log' = log + 1
    /\ UNCHANGED <<head, page, rowsPerPage, blockinfo, query, turns, failures, of, latest,
                   overtaken, seen>>

Next ==
    \/ ReqGetRecordIdx \/ ReqBoneDecimals \/ \E x \in {"index", "decimals"} : MountRejected(x)
    \/ \E p \in 0 .. MaxLog : HandleChangePage(p) \/ HandleChangePagePhone(p)
    \/ \E r \in RowsOptions : HandleChangeRowsPerPage(r)
    \/ \E q \in Queries : MainReads(q) \/ Show(q) \/ Rejected(q)
    \/ AddOreLog

\* Calls are answered and the answers delivered; nobody has to turn a page.
Progress == ReqGetRecordIdx \/ ReqBoneDecimals \/ \E q \in Queries : MainReads(q) \/ Show(q)

Spec == Init /\ [][Next]_vars /\ WF_vars(Progress)

(***************************************************************************)
(* Properties.                                                             *)
(***************************************************************************)
Heights == 1 .. MaxLog

\* Type invariant: rows are heights of blocks there are, newest first.
TypeOK ==
    /\ log \in 0 .. MaxLog
    /\ mount \subseteq {"index", "decimals"} /\ maxindex \in (0 .. log) \cup {None}
    /\ bonedecimals \in {Decimals, DefaultDecimals}
    /\ page \in Nat /\ rowsPerPage \in RowsOptions
    /\ \A rows \in {blockinfo} \cup {query[q].rows : q \in Queries} :
         /\ rows \in Seq(1 .. log)
         /\ \A i \in 1 .. Len(rows) - 1 : rows[i] = rows[i + 1] + 1
    /\ \A q \in Queries :
         /\ query[q].pc \in {"idle", "asked", "answered"}
         /\ query[q].no \in 0 .. turns /\ query[q].start \in Nat
         /\ query[q].limit \in RowsOptions \cup {0}
    /\ turns \in 1 .. MaxTurns /\ failures \in 0 .. MaxFailures
    /\ of = None \/ of.no \in 1 .. turns
    /\ latest \in 0 .. turns /\ overtaken \in BOOLEAN
    /\ seen = None \/ seen \subseteq 1 .. log

\* Whatever the length of the log and of the pages, the pages taken from one log
\* hold every record of the window but its oldest, each once (main.rs:737): the
\* end of the last page is an index where the others have a bound.
PagesCoverWindow ==
    \A r \in RowsOptions :
        LET pageOf[p \in Nat] == GetRecordRev(log, p * r, r)
            At(i) == {p \in 0 .. MaxLog : \E k \in 1 .. Len(pageOf[p]) : pageOf[p][k] = i}
            w == Window(log)
        IN  /\ \A k \in 1 .. Len(w) : Cardinality(At(w[k])) = IF k = Len(w) THEN 0 ELSE 1
            /\ \A p \in 0 .. MaxLog : Len(pageOf[p]) <= r

\* The rows of the page asked for last are those of the page and of the number of
\* rows shown beside them (Dashboard.tsx:176-198), unless a late answer to an
\* earlier query replaces them, as nothing orders the answers.
RowsOfPage ==
    of # None /\ of.no = turns =>
        of.start = page * rowsPerPage /\ of.limit = rowsPerPage

\* The page shown exists in the list of pages, the table's and the phone's, also
\* after the number of rows per page has changed (Dashboard.tsx:191).
PageInRange ==
    page = 0 \/ (page * rowsPerPage < Count /\ OfferedPhone(page + 1))

\* Who pages forward from the first page, waiting for each page, misses no block:
\* every block from the newest on the first page down to the oldest shown by now
\* has been shown, although pages are counted from a newest block that changes.
NoneSkipped ==
    seen # None => \A h \in seen : \A k \in seen : h..k \subseteq seen

\* What comes again and again: the rows of the page asked for are shown, their rewards in the ledger's
\* decimals, unless a query was rejected or an answer came after that of a later
\* query.
Settled ==
    \/ failures > 0 \/ overtaken
    \/ /\ of # None /\ of.start = page * rowsPerPage /\ of.limit = rowsPerPage
       /\ \A i \in 1 .. Len(Rows) : Rows[i].decimals = Decimals
=============================================================================
