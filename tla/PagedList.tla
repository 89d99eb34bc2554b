------------------------------ MODULE PagedList ------------------------------
(***************************************************************************)
(* The lists of failures that are read page by page: the view              *)
(* (views/base-nofresh-widget-view.js), its paginator                      *)
(* (bootstrap/bootstrap-paginator.js), the data interface that counts and  *)
(* then selects the rows, and the list of thread dumps, whose links the    *)
(* server renders (Pager.getPaginationBar).                                *)
(*                                                                         *)
(* The server answers requests in any order.  The rows are those of the    *)
(* last 24 hours: they come and go while the user leafs through them.      *)
(***************************************************************************)
EXTENDS Integers, Sequences, SequencesExt

CONSTANTS
    Filters,    \* the project and application the user can query for
    PageSize,   \* rows of a page
    Width,      \* numberOfPages: numbers the paginator shows at once
    Links,      \* aTotal: numbers the server's links show at once
    Faults,     \* what may go wrong, see FaultSet
    MaxRows,    \* bound: rows of a filter
    MaxDumps,   \* bound: dumps
    MaxChanges, \* bound: rows that come and go
    MaxClicks   \* bound: clicks

\* "silent": an answer that triggers no "change": the request fails, or its
\* answer equals the last one; "exception": the data interface catches one and
\* answers a list without pages; "expire": a row becomes older than 24 hours.
FaultSet == {"silent", "exception", "expire"}

ASSUME PagedListAssumption ==
    /\ PageSize \in Nat \ {0} /\ Width \in Nat \ {0} /\ Links \in Nat \ {0}
    /\ Faults \subseteq FaultSet
    /\ MaxRows \in Nat /\ MaxDumps \in Nat /\ MaxChanges \in Nat /\ MaxClicks \in Nat

VARIABLES
    rows,       \* rows[f]: rows that match f
    params,     \* this.params: the filter and the page asked for last
    asked,      \* requests without an answer, oldest first, see Requests
    list,       \* the answer on the page, see Lists
    bar,        \* the paginator: its page of its pages, or NoBar
    dump,       \* the list of dumps: its page and the number of dumps it found,
                \* or NoDump when the user has opened the list of failures
    told,       \* told[f]: the pages of f by its last answer (history)
    silent,     \* did the last answer trigger nothing? (history)
    waits,      \* had the user waited for the answers before the last click? (history)
    changes,    \* rows that have come or gone (history)
    clicks      \* (history)

here == <<params, asked, list, bar, told, silent, waits>>
vars == <<rows, here, dump, changes, clicks>>

-----------------------------------------------------------------------------
(* Pager *)

\* Mutant: a last page without rows.
TotalPageOneMore(count) == count \div PageSize + 1

\* getTotalPage
TotalPage(count) ==
    IF count % PageSize = 0 THEN count \div PageSize ELSE count \div PageSize + 1

\* getStart, and the rows that "limit start, size" finds of count.
Start(page) == (page - 1) * PageSize

RowsOf(page, count) ==
    IF count <= Start(page) THEN 0
    ELSE IF count - Start(page) < PageSize THEN count - Start(page)
    ELSE PageSize

\* Mutant: the window is not cut at the last page.
PageNumUncut(page, pages) ==
    IF pages <= Links THEN 1..pages
    ELSE IF page <= Links \div 2 THEN 1..Links
    ELSE (page - Links \div 2)..(page + Links \div 2)

\* getPageNum: the numbers between the arrows.
PageNum(page, pages) ==
    LET padding == Links \div 2
        end == IF page + padding > pages THEN pages ELSE page + padding
    IN
    IF pages <= Links THEN 1..pages
    ELSE IF page <= padding THEN 1..Links
    ELSE (page - padding)..end

\* getPaginationBar: the pages it links to.
PaginationBar(page, count) ==
    LET pages == TotalPage(count)
        numbers == PageNum(page, pages)
    IN
    IF count <= PageSize THEN {}
    ELSE numbers
         \cup {p \in {1, page - 1} : page > 1}
         \cup {p \in {page + 1, pages} : numbers # {} /\ page # pages}

-----------------------------------------------------------------------------
(* The paginator *)

NoBar == [page |-> 0, pages |-> 0]
NoDump == [page |-> 0, count |-> 0]

\* Mutant: the last page of a window opens the next one.
PageStartEager(page) == (page \div Width) * Width + 1

\* getPages: the first of the numbers it shows, and all of them.
PageStart(page) ==
    IF page % Width = 0 THEN (page \div Width - 1) * Width + 1
                        ELSE (page \div Width) * Width + 1

Window(b) == {p \in 1..b.pages : PageStart(b.page) <= p /\ p < PageStart(b.page) + Width}

\* The pages a click can ask for (buildPageItem, shouldShowPage).
Offered(b) ==
    Window(b)
    \cup {p \in {1, b.page - 1} : b.page # 1}
    \cup {p \in {b.page + 1, b.pages} : b.page # b.pages}

-----------------------------------------------------------------------------
(* The view *)

Uncounted == -1

Requests ==
    [filter : Filters, page : Nat,
     count : Nat \cup {Uncounted},  \* rows the server has counted for it
     blind : BOOLEAN]               \* sent after a silent answer, or after a click
                                    \* that had not waited (history)

Lists ==
    [filter : Filters, page : Nat, pages : Nat, items : Nat,
     gone : Nat]                    \* rows that the select missed of the count (history)

Init ==
    /\ rows \in [Filters -> 0..MaxRows]
    /\ \E f \in Filters :
          /\ params = [filter |-> f, page |-> 1]
          /\ asked = <<[filter |-> f, page |-> 1, count |-> Uncounted, blind |-> FALSE]>>
          /\ list = [filter |-> f, page |-> 1, pages |-> 0, items |-> 0, gone |-> 0]
    /\ bar = NoBar
    /\ dump \in {NoDump} \cup [page : {1}, count : 0..MaxDumps]
    /\ told = [f \in Filters |-> 0]
    /\ silent = FALSE
    /\ waits = TRUE
    /\ changes = 0
    /\ clicks = 0

\* A click, of a user who has the list of failures on the screen.
Click ==
    /\ dump = NoDump
    /\ clicks < MaxClicks
    /\ clicks' = clicks + 1
    /\ waits' = (asked = <<>>)

\* Mutant: the request is sent before the parameters are set.
LoadModelEarly(p) ==
    /\ params' = p
    /\ asked' = Append(asked, [filter |-> params.filter, page |-> params.page,
                               count |-> Uncounted, blind |-> silent \/ ~waits])

\* LoadModel
LoadModel(p) ==
    /\ params' = p
    /\ asked' = Append(asked, [filter |-> p.filter, page |-> p.page,
                               count |-> Uncounted, blind |-> silent \/ ~waits])

\* A click on the paginator: the view's handler (whose cases all fall through to
\* the last) sends the request, the paginator's own moves to the page at once.
PageClicked(p) ==
    /\ Click
    /\ bar # NoBar
    /\ p \in Offered(bar)
    /\ LoadModel([params EXCEPT !.page = p])
    /\ bar' = [bar EXCEPT !.page = p]
    /\ UNCHANGED <<rows, list, dump, told, silent, changes>>

\* Mutant: the query keeps the page.
QueryKeepsPage(f) ==
    /\ Click
    /\ LoadModel([filter |-> f, page |-> params.page])
    /\ UNCHANGED <<rows, list, bar, dump, told, silent, changes>>

\* The query button of the overview; its refresh button clicks it.
Query(f) ==
    /\ Click
    /\ LoadModel([filter |-> f, page |-> 1])
    /\ UNCHANGED <<rows, list, bar, dump, told, silent, changes>>

\* Mutant: the paginator is built for the page asked for last.
PagerOfParams(page, pages) ==
    IF pages > 0 /\ params.page <= pages THEN [page |-> params.page, pages |-> pages] ELSE NoBar

\* pager: a new paginator for an answer with pages; when its page is out of their
\* range, setCurrentPage throws, and there is none.
Pager(page, pages) ==
    IF pages > 0 /\ page <= pages THEN [page |-> page, pages |-> pages] ELSE NoBar

\* ModelChanged for the answer to the i-th request.
Render(i, pages, items, gone) ==
    LET r == asked[i] IN
    /\ asked' = RemoveAt(asked, i)
    /\ list' = [filter |-> r.filter, page |-> r.page, pages |-> pages,
                items |-> items, gone |-> gone]
    /\ bar' = Pager(r.page, pages)
    /\ told' = [told EXCEPT ![r.filter] = pages]
    /\ silent' = FALSE
    /\ UNCHANGED <<rows, params, dump, waits, changes, clicks>>

-----------------------------------------------------------------------------
(* The server *)

\* selectStatisFailRecordCount, and a statement later
Count(i) ==
    /\ asked[i].count = Uncounted
    /\ asked' = [asked EXCEPT ![i].count = rows[asked[i].filter]]
    /\ UNCHANGED <<rows, params, list, bar, dump, told, silent, waits, changes, clicks>>

Gone(count, found) == IF found < count THEN count - found ELSE 0

\* selectStatisFailRecord and the answer.
Answer(i) ==
    LET r == asked[i]
        found == rows[r.filter]
    IN
    /\ r.count # Uncounted
    /\ Render(i, TotalPage(r.count), RowsOf(r.page, found), Gone(r.count, found))

\* Mutant: the number of pages is unknown.
AnswerEmptyUnknown(i) == "exception" \in Faults /\ Render(i, -1, 0, 0)

\* The interface has caught an exception: no pages and no rows.
AnswerEmpty(i) == "exception" \in Faults /\ Render(i, 0, 0, 0)

\* Nothing happens (error does nothing).
AnswerSilently(i) ==
    /\ "silent" \in Faults
    /\ asked' = RemoveAt(asked, i)
    /\ silent' = TRUE
    /\ UNCHANGED <<rows, params, list, bar, dump, told, waits, changes, clicks>>

RowsChange(f) ==
    /\ dump = NoDump
    /\ changes < MaxChanges
    /\ changes' = changes + 1
    /\ \/ rows[f] < MaxRows /\ rows' = [rows EXCEPT ![f] = @ + 1]
       \/ "expire" \in Faults /\ rows[f] > 0 /\ rows' = [rows EXCEPT ![f] = @ - 1]
    /\ UNCHANGED <<here, dump, clicks>>

-----------------------------------------------------------------------------
(* The list of dumps, a page of its own; dumps are not deleted. *)

\* A link of the bar; rows have come since it was rendered.
FollowLink(page, count) ==
    /\ dump # NoDump
    /\ count >= dump.count
    /\ dump' = [page |-> page, count |-> count]
    /\ UNCHANGED <<rows, here, changes, clicks>>

-----------------------------------------------------------------------------
Server(i) == Count(i) \/ Answer(i) \/ AnswerEmpty(i) \/ AnswerSilently(i)

Next ==
    \/ \E p \in 1..bar.pages : PageClicked(p)
    \/ \E f \in Filters : Query(f) \/ RowsChange(f)
    \/ dump = NoDump /\ \E i \in 1..Len(asked) : Server(i)
    \/ \E p \in PaginationBar(dump.page, dump.count), count \in 0..MaxDumps : FollowLink(p, count)

Spec == Init /\ [][Next]_vars

-----------------------------------------------------------------------------
(* Properties *)

Bars == [page : Nat, pages : Nat]

TypeOK ==
    /\ rows \in [Filters -> Nat]
    /\ params \in [filter : Filters, page : Nat]
    /\ asked \in Seq(Requests)
    /\ list \in Lists
    /\ bar \in Bars
    /\ dump \in [page : Nat, count : Nat]
    /\ told \in [Filters -> Nat]
    /\ silent \in BOOLEAN /\ waits \in BOOLEAN
    /\ changes \in Nat /\ clicks \in Nat

(* The paginator marks the page whose rows are on the screen, although it  *)
(* has moved with the click and answers come in any order                  *)
(* (base-nofresh-widget-view.js pager rebuilds it with every answer).      *)
BarTellsRows ==
    asked = <<>> /\ ~silent /\ bar # NoBar =>
        bar.page = list.page /\ bar.pages = list.pages

(* A click that has waited for the answers before it is answered with what *)
(* it asked for, however often the user did not wait before: the filter    *)
(* and the page of the rows are those the next click starts from           *)
(* (LoadModel sets this.params, pager's handler changes it in place).      *)
ShowsAsked ==
    waits /\ asked = <<>> /\ ~silent =>
        list.filter = params.filter /\ list.page = params.page

(* The view asks for a page only when it has been told that the page       *)
(* exists: an old paginator is not used with a new filter                  *)
(* (onPageClicked; when this click and the one before it have waited for   *)
(* their turn, and unless the answer before was silent).  Otherwise the    *)
(* answer finds no rows, the paginator throws "Page out of range", and the *)
(* list has no controls any more.                                          *)
AsksWhatExists ==
    waits =>
        \A i \in 1..Len(asked) :
            LET r == asked[i] IN r.blind \/ r.page = 1 \/ r.page <= told[r.filter]

(* Every page but the last is full and the last one is not empty; rows     *)
(* that come between the count and the select do not overfill it, and rows *)
(* that go cost it no more than have gone (Pager.getTotalPage, getStart    *)
(* with the two selects of JmxStaitisService).                             *)
PagesFull ==
    list.page <= list.pages =>
        /\ list.items <= PageSize
        /\ list.items + list.gone >= IF list.page < list.pages THEN PageSize ELSE 1

(* The numbers that the paginator shows include its own page, at the edges *)
(* of a window too, and all it offers are pages of the list (getPages).    *)
BarShowsPage ==
    bar # NoBar => bar.page \in Window(bar) /\ Offered(bar) \subseteq 1..bar.pages

(* The links of the list of dumps lead to pages of the list only, and to   *)
(* both neighbours of the page: all can be reached (Pager.getPageNum,      *)
(* getPaginationBar).                                                      *)
DumpLinks ==
    LET linked == PaginationBar(dump.page, dump.count)
        pages == 1..TotalPage(dump.count)
    IN
    dump.count > PageSize =>
        /\ dump.page \in pages
        /\ linked \subseteq pages
        /\ {dump.page - 1, dump.page, dump.page + 1} \cap pages \subseteq linked
=============================================================================
