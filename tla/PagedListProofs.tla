--------------------------- MODULE PagedListProofs ---------------------------
(***************************************************************************)
(* Theorems about PagedList, for any page size, any widths of the two page *)
(* bars, any filters and any number of rows, changes and clicks.           *)
(***************************************************************************)
EXTENDS PagedList, SequenceTheorems, TLAPS

-----------------------------------------------------------------------------
(* Pages *)

LEMMA Division ==
    ASSUME NEW n \in Nat, NEW d \in Nat \ {0}
    PROVE  /\ n \div d \in Nat /\ n % d \in Nat /\ n % d < d
           /\ n = (d * (n \div d)) + (n % d)
<1>1. n % d \in Nat /\ n % d < d
  OBVIOUS
<1>2. n \div d \in Int
  OBVIOUS
<1>3. n = (d * (n \div d)) + (n % d)
  OBVIOUS
<1>4. n \div d \in Nat
  OBVIOUS
<1> QED BY <1>1, <1>2, <1>3, <1>4

LEMMA Monotone ==
    ASSUME NEW a \in Nat, NEW b \in Nat, NEW d \in Nat, a <= b
    PROVE  a * d \in Nat /\ b * d \in Nat /\ a * d <= b * d
<1>1. PICK c \in Nat : b = a + c
  <2>1. b - a \in Nat /\ b = a + (b - a)
    OBVIOUS
  <2> QED BY <2>1
<1>2. b * d = a * d + c * d /\ c * d \in Nat /\ a * d \in Nat
  BY <1>1
<1> QED BY <1>2

\* Pages before the last are below the count, all pages together reach it.
LEMMA TotalPageBounds ==
    ASSUME NEW count \in Nat
    PROVE  /\ TotalPage(count) \in Nat
           /\ count <= TotalPage(count) * PageSize
           /\ TotalPage(count) > 0 => (TotalPage(count) - 1) * PageSize < count
<1>1. PICK q \in Nat, m \in Nat :
         /\ q = count \div PageSize /\ m = count % PageSize
         /\ m < PageSize /\ count = (PageSize * q) + m
  BY Division, PagedListAssumption
<1>2. PageSize \in Nat /\ PageSize > 0
  BY PagedListAssumption
<1>3. CASE m = 0
  <2>1. TotalPage(count) = q
    BY <1>1, <1>3 DEF TotalPage
  <2>2. count = q * PageSize /\ (q - 1) * PageSize = q * PageSize - PageSize
    BY <1>1, <1>2, <1>3
  <2> QED BY <1>2, <2>1, <2>2
<1>4. CASE m # 0
  <2>1. TotalPage(count) = q + 1
    BY <1>1, <1>4 DEF TotalPage
  <2>2. (q + 1) * PageSize = q * PageSize + PageSize /\ count = (q * PageSize) + m
    BY <1>1, <1>2
  <2> QED BY <1>1, <1>2, <1>4, <2>1, <2>2
<1> QED BY <1>3, <1>4

\* The rows of a page among those found: with those that have gone since the
\* count they fill it.
LEMMA RowsOfFull ==
    ASSUME NEW count \in Nat, NEW found \in Nat, NEW gone \in Nat, count <= found + gone,
           NEW page \in Nat, page >= 1, page <= TotalPage(count)
    PROVE  /\ RowsOf(page, found) <= PageSize
           /\ RowsOf(page, found) + gone >= IF page < TotalPage(count) THEN PageSize ELSE 1
<1>1. PICK pages \in Nat :
         /\ pages = TotalPage(count)
         /\ pages > 0 => (pages - 1) * PageSize < count
  BY TotalPageBounds
<1>2. PageSize \in Nat /\ PageSize > 0
  BY PagedListAssumption
<1>3. PICK start \in Nat : start = Start(page) /\ start = (page - 1) * PageSize
  <2>1. page - 1 \in Nat
    OBVIOUS
  <2> QED BY <1>2, <2>1 DEF Start
<1>4. RowsOf(page, found) = IF found <= start THEN 0
                            ELSE IF found - start < PageSize THEN found - start ELSE PageSize
  BY <1>3 DEF RowsOf
<1>5. CASE page < pages
  <2>1. page * PageSize <= (pages - 1) * PageSize
    <3>1. pages - 1 \in Nat /\ page <= pages - 1
      BY <1>5
    <3> QED BY <1>2, <3>1, Monotone
  <2>2. page * PageSize = start + PageSize
    BY <1>2, <1>3
  <2>3. (pages - 1) * PageSize < count /\ (pages - 1) * PageSize \in Int
    BY <1>1, <1>2, <1>5
  <2>4. start + PageSize < found + gone
    BY <1>2, <2>1, <2>2, <2>3
  <2> QED BY <1>1, <1>2, <1>4, <1>5, <2>4
<1>6. CASE page = pages
  <2>1. start < found + gone
    BY <1>1, <1>3, <1>6
  <2> QED BY <1>1, <1>2, <1>4, <1>6, <2>1
<1> QED BY <1>1, <1>5, <1>6

LEMMA RowsOfType ==
    ASSUME NEW page \in Nat, page >= 1, NEW found \in Nat
    PROVE  RowsOf(page, found) \in Nat
<1>1. PICK start \in Nat : start = Start(page)
  <2>1. page - 1 \in Nat
    OBVIOUS
  <2> QED BY <2>1, PagedListAssumption DEF Start
<1> QED BY <1>1, PagedListAssumption DEF RowsOf

LEMMA GoneType ==
    ASSUME NEW count \in Nat, NEW found \in Nat
    PROVE  Gone(count, found) \in Nat /\ count <= found + Gone(count, found)
BY DEF Gone

LEMMA TotalPageMonotone ==
    ASSUME NEW few \in Nat, NEW many \in Nat, few <= many
    PROVE  TotalPage(few) <= TotalPage(many)
<1>1. PICK p \in Nat : p = TotalPage(few) /\ (p > 0 => (p - 1) * PageSize < few)
  BY TotalPageBounds
<1>2. PICK q \in Nat : q = TotalPage(many) /\ many <= q * PageSize
  BY TotalPageBounds
<1>3. ASSUME q < p PROVE FALSE
  <2>1. p - 1 \in Nat /\ q <= p - 1 /\ PageSize \in Nat
    BY <1>3, PagedListAssumption
  <2>2. q * PageSize <= (p - 1) * PageSize /\ q * PageSize \in Nat /\ (p - 1) * PageSize \in Nat
    BY <2>1, Monotone
  <2> QED BY <1>1, <1>2, <1>3, <2>2
<1> QED BY <1>1, <1>2, <1>3

-----------------------------------------------------------------------------
(* The two page bars *)

LEMMA WindowHasPage ==
    ASSUME NEW page \in Nat, NEW pages \in Nat, 1 <= page, page <= pages
    PROVE  PageStart(page) <= page /\ page < PageStart(page) + Width
<1>1. PICK q \in Nat, m \in Nat :
         /\ q = page \div Width /\ m = page % Width
         /\ m < Width /\ page = (Width * q) + m
  BY Division, PagedListAssumption
<1>2. Width \in Nat /\ Width > 0
  BY PagedListAssumption
<1>3. CASE m = 0
  <2>1. PageStart(page) = (q - 1) * Width + 1
    BY <1>1, <1>3 DEF PageStart
  <2>2. (q - 1) * Width = page - Width
    BY <1>1, <1>2, <1>3
  <2> QED BY <1>2, <2>1, <2>2
<1>4. CASE m # 0
  <2>1. PageStart(page) = q * Width + 1
    BY <1>1, <1>4 DEF PageStart
  <2>2. page = (q * Width) + m /\ q * Width \in Nat
    BY <1>1, <1>2
  <2> QED BY <1>1, <1>2, <1>4, <2>1, <2>2
<1> QED BY <1>3, <1>4

LEMMA OfferedPages ==
    ASSUME NEW b \in Bars, 1 <= b.page, b.page <= b.pages
    PROVE  b.page \in Window(b) /\ Offered(b) \subseteq 1..b.pages
<1>1. PICK page \in Nat, pages \in Nat : page = b.page /\ pages = b.pages
  BY DEF Bars
<1>2. 1 <= page /\ page <= pages
  BY <1>1
<1>3. page \in Window(b)
  <2>1. PageStart(page) <= page /\ page < PageStart(page) + Width
    BY <1>2, WindowHasPage
  <2> QED BY <1>1, <1>2, <2>1 DEF Window
<1>4. Window(b) \subseteq 1..pages
  BY <1>1 DEF Window
<1>5. /\ {p \in {1, page - 1} : page # 1} \subseteq 1..pages
      /\ {p \in {page + 1, pages} : page # pages} \subseteq 1..pages
  BY <1>2
<1> QED BY <1>1, <1>3, <1>4, <1>5 DEF Offered

LEMMA PageNumPages ==
    ASSUME NEW page \in Nat, NEW pages \in Nat, 1 <= page, page <= pages
    PROVE  PageNum(page, pages) \subseteq 1..pages /\ page \in PageNum(page, pages)
<1>1. PICK padding \in Nat : padding = Links \div 2 /\ 2 * padding <= Links
  BY PagedListAssumption
<1>2. Links \in Nat /\ Links > 0
  BY PagedListAssumption
<1>3. CASE pages <= Links
  BY <1>3 DEF PageNum
<1>4. CASE ~(pages <= Links) /\ page <= padding
  <2>1. PageNum(page, pages) = 1..Links
    BY <1>1, <1>4 DEF PageNum
  <2> QED BY <1>1, <1>2, <1>4, <2>1
<1>5. CASE ~(pages <= Links) /\ ~(page <= padding)
  <2>1. PageNum(page, pages) =
           (page - padding)..(IF page + padding > pages THEN pages ELSE page + padding)
    BY <1>1, <1>5 DEF PageNum
  <2> QED BY <1>1, <1>5, <2>1
<1> QED BY <1>3, <1>4, <1>5

LEMMA PaginationBarPages ==
    ASSUME NEW page \in Nat, NEW count \in Nat, count > PageSize,
           1 <= page, page <= TotalPage(count)
    PROVE  LET linked == PaginationBar(page, count)
               pages == 1..TotalPage(count)
           IN  linked \subseteq pages /\ {page - 1, page, page + 1} \cap pages \subseteq linked
<1>1. PICK pages \in Nat : pages = TotalPage(count)
  BY TotalPageBounds
<1>2. PICK numbers : /\ numbers = PageNum(page, pages)
                     /\ numbers \subseteq 1..pages /\ page \in numbers
  BY <1>1, PageNumPages
<1>3. PaginationBar(page, count) =
         numbers \cup {p \in {1, page - 1} : page > 1}
                 \cup {p \in {page + 1, pages} : page # pages}
  BY <1>1, <1>2, PagedListAssumption DEF PaginationBar
<1> QED BY <1>1, <1>2, <1>3

-----------------------------------------------------------------------------
(* Requests *)

LEMMA RemoveAtType ==
    ASSUME NEW S, NEW s \in Seq(S), NEW i \in 1..Len(s)
    PROVE  /\ RemoveAt(s, i) \in Seq(S)
           /\ Len(s) <= 1 => RemoveAt(s, i) = <<>>
           /\ \A j \in 1..Len(RemoveAt(s, i)) :
                 \E k \in 1..Len(s) : RemoveAt(s, i)[j] = s[k]
<1> DEFINE a == SubSeq(s, 1, i - 1)
           b == SubSeq(s, i + 1, Len(s))
<1>1. a \in Seq(S) /\ Len(a) = i - 1 /\ \A j \in 1..(i - 1) : a[j] = s[j]
  OBVIOUS
<1>2. b \in Seq(S) /\ Len(b) = Len(s) - i /\ \A j \in 1..(Len(s) - i) : b[j] = s[i + j]
  OBVIOUS
<1>3. RemoveAt(s, i) = a \o b
  BY DEF RemoveAt
<1> HIDE DEF a, b
<1>4. /\ a \o b \in Seq(S) /\ Len(a \o b) = Len(a) + Len(b)
      /\ \A j \in 1..(Len(a) + Len(b)) :
            (a \o b)[j] = IF j <= Len(a) THEN a[j] ELSE b[j - Len(a)]
  BY <1>1, <1>2, ConcatProperties, Zenon
<1>5. Len(a \o b) = Len(s) - 1
  BY <1>1, <1>2, <1>4
<1>6. Len(s) <= 1 => a \o b = <<>>
  BY <1>4, <1>5
<1>7. ASSUME NEW j \in 1..Len(a \o b) PROVE \E k \in 1..Len(s) : (a \o b)[j] = s[k]
  <2>1. CASE j <= i - 1
    <3>1. (a \o b)[j] = s[j]
      BY <1>1, <1>2, <1>4, <1>5, <1>7, <2>1
    <3> QED BY <1>5, <1>7, <3>1
  <2>2. CASE ~(j <= i - 1)
    <3>1. (a \o b)[j] = b[j - (i - 1)]
      BY <1>1, <1>2, <1>4, <1>5, <1>7, <2>2
    <3>2. j - (i - 1) \in 1..(Len(s) - i) /\ i + (j - (i - 1)) = j + 1 /\ j + 1 \in 1..Len(s)
      BY <1>5, <1>7, <2>2
    <3>3. b[j - (i - 1)] = s[j + 1]
      BY <1>2, <3>2
    <3> QED BY <3>1, <3>2, <3>3
  <2> QED BY <2>1, <2>2
<1> QED BY <1>3, <1>4, <1>6, <1>7

-----------------------------------------------------------------------------
(* The inductive invariant *)

\* A bar on the screen is on a page of the list.
BarInRange == bar # NoBar => 1 <= bar.page /\ bar.page <= bar.pages

\* No request asks for a page before the first.
PagesFromOne ==
    /\ params.page >= 1 /\ list.page >= 1
    /\ \A i \in 1..Len(asked) : asked[i].page >= 1

\* After a click that has waited there is one request at most, for what was asked
\* last, and once it is answered the paginator is of that filter.
OneRequest ==
    waits =>
        /\ Len(asked) <= 1
        /\ \A i \in 1..Len(asked) :
              asked[i].filter = params.filter /\ asked[i].page = params.page
        /\ asked = <<>> /\ ~silent /\ bar # NoBar => bar.pages = told[params.filter]

DumpInRange ==
    dump.count > PageSize => 1 <= dump.page /\ dump.page <= TotalPage(dump.count)

Inv ==
    /\ TypeOK /\ BarInRange /\ PagesFromOne /\ OneRequest /\ DumpInRange
    /\ BarTellsRows /\ ShowsAsked /\ AsksWhatExists /\ PagesFull

LEMMA NoBars == NoBar.page = 0 /\ NoBar.pages = 0 /\ NoBar \in Bars
BY DEF NoBar, Bars

LEMMA NumberFacts ==
    /\ PageSize \in Nat /\ PageSize > 0
    /\ 0 \in Nat /\ 1 \in Nat /\ Uncounted \notin Nat
BY PagedListAssumption DEF Uncounted

LEMMA InvInit == Init => Inv
<1> SUFFICES ASSUME Init PROVE Inv
  OBVIOUS
<1>1. PICK f \in Filters :
         /\ params = [filter |-> f, page |-> 1]
         /\ asked = <<[filter |-> f, page |-> 1, count |-> Uncounted, blind |-> FALSE]>>
         /\ list = [filter |-> f, page |-> 1, pages |-> 0, items |-> 0, gone |-> 0]
  BY DEF Init
<1>2. /\ asked \in Seq(Requests) /\ Len(asked) = 1 /\ asked # <<>>
      /\ asked[1].filter = f /\ asked[1].page = 1
  BY <1>1 DEF Requests
<1>3. dump \in [page : Nat, count : Nat] /\ (dump.count > 0 => dump.page = 1)
  BY PagedListAssumption DEF Init, NoDump
<1>4. rows \in [Filters -> Nat]
  BY PagedListAssumption DEF Init
<1>5. TypeOK
  BY <1>1, <1>2, <1>3, <1>4, NoBars DEF Init, TypeOK, Lists
<1>6. DumpInRange
  <2> SUFFICES ASSUME dump.count > PageSize PROVE 1 <= dump.page /\ dump.page <= TotalPage(dump.count)
    BY DEF DumpInRange
  <2>1. PICK n \in Nat : n = dump.count /\ n > PageSize
    BY <1>3
  <2>2. dump.page = 1
    BY <1>3, <2>1, NumberFacts
  <2>3. PICK p \in Nat : p = TotalPage(n) /\ n <= p * PageSize
    BY TotalPageBounds
  <2>4. p # 0
    BY <2>1, <2>3, NumberFacts
  <2> QED BY <2>1, <2>2, <2>3, <2>4
<1>7. BarInRange /\ PagesFromOne /\ OneRequest /\ PagesFull
  BY <1>1, <1>2 DEF Init, BarInRange, PagesFromOne, OneRequest, PagesFull
<1>8. BarTellsRows /\ ShowsAsked /\ AsksWhatExists
  BY <1>2 DEF Init, BarTellsRows, ShowsAsked, AsksWhatExists
<1> QED BY <1>5, <1>6, <1>7, <1>8 DEF Inv

-----------------------------------------------------------------------------
(* Clicks *)

\* A request more, after all that were sent before.
LEMMA LoadModelFacts ==
    ASSUME TypeOK, NEW p \in [filter : Filters, page : Nat], LoadModel(p)
    PROVE  /\ params' = p /\ asked' \in Seq(Requests) /\ Len(asked') = Len(asked) + 1
           /\ asked' # <<>>
           /\ \A i \in 1..Len(asked') :
                 \/ i \in 1..Len(asked) /\ asked'[i] = asked[i]
                 \/ /\ i = Len(asked) + 1
                    /\ asked'[i].filter = p.filter /\ asked'[i].page = p.page
                    /\ asked'[i].blind = (silent \/ ~waits)
<1> DEFINE r == [filter |-> p.filter, page |-> p.page, count |-> Uncounted,
                 blind |-> silent \/ ~waits]
<1>1. /\ r \in Requests /\ r.filter = p.filter /\ r.page = p.page
      /\ r.blind = (silent \/ ~waits)
  BY DEF TypeOK, Requests
<1> HIDE DEF r
<1>2. params' = p /\ asked' = Append(asked, r) /\ asked \in Seq(Requests)
  BY DEF LoadModel, TypeOK, r
<1> QED BY <1>1, <1>2, AppendProperties

\* What every click keeps: one that has waited finds no request.
LEMMA ClickInv ==
    ASSUME Inv, Click, NEW p \in [filter : Filters, page : Nat], LoadModel(p), p.page >= 1,
           UNCHANGED <<rows, list, dump, told, silent, changes>>,
           bar' \in Bars, BarInRange',
           waits /\ asked = <<>> => silent \/ p.page = 1 \/ p.page <= told[p.filter]
    PROVE  Inv'
<1>1. /\ asked' \in Seq(Requests) /\ asked' # <<>> /\ params' = p
      /\ Len(asked') = Len(asked) + 1 /\ Len(asked) \in Nat
      /\ \A i \in 1..Len(asked') :
            \/ i \in 1..Len(asked) /\ asked'[i] = asked[i]
            \/ /\ i = Len(asked) + 1
               /\ asked'[i].filter = p.filter /\ asked'[i].page = p.page
               /\ asked'[i].blind = (silent \/ ~waits)
  <2>1. TypeOK /\ Len(asked) \in Nat
    BY DEF Inv, TypeOK
  <2> QED BY <2>1, LoadModelFacts
<1>2. waits' = (asked = <<>>) /\ clicks' = clicks + 1
  BY DEF Click
<1>3. TypeOK'
  BY <1>1, <1>2 DEF Inv, TypeOK
<1>4. PagesFromOne'
  BY <1>1 DEF Inv, PagesFromOne
<1>5. ASSUME waits' PROVE Len(asked) = 0 /\ asked = <<>>
  BY <1>2, <1>5
<1>6. OneRequest'
  BY <1>1, <1>5 DEF OneRequest
<1>7. AsksWhatExists'
  <2> SUFFICES ASSUME waits', NEW i \in 1..Len(asked')
               PROVE  \/ asked'[i].blind \/ asked'[i].page = 1
                      \/ asked'[i].page <= told'[asked'[i].filter]
    BY DEF AsksWhatExists
  <2>1. /\ asked'[i].filter = p.filter /\ asked'[i].page = p.page
        /\ asked'[i].blind = (silent \/ ~waits)
    BY <1>1, <1>5
  <2>2. CASE silent \/ ~waits
    BY <2>1, <2>2
  <2>3. CASE waits /\ ~silent
    BY <1>5, <2>1, <2>3
  <2> QED BY <2>2, <2>3
<1>8. DumpInRange' /\ PagesFull' /\ BarTellsRows' /\ ShowsAsked'
  BY <1>1 DEF Inv, DumpInRange, PagesFull, BarTellsRows, ShowsAsked
<1> QED BY <1>3, <1>4, <1>6, <1>7, <1>8 DEF Inv

LEMMA InvPageClicked ==
    ASSUME Inv, NEW p \in 1..bar.pages, PageClicked(p)
    PROVE  Inv'
<1>1. /\ Click /\ bar # NoBar /\ LoadModel([params EXCEPT !.page = p])
      /\ bar' = [bar EXCEPT !.page = p]
      /\ UNCHANGED <<rows, list, dump, told, silent, changes>>
  BY DEF PageClicked
<1>2. /\ bar \in Bars /\ params \in [filter : Filters, page : Nat]
      /\ p \in Nat /\ p >= 1 /\ p <= bar.pages /\ bar.pages \in Nat
  BY DEF Inv, TypeOK, Bars
<1>3. PICK q \in [filter : Filters, page : Nat] :
         q = [params EXCEPT !.page = p] /\ q.filter = params.filter /\ q.page = p
  <2> DEFINE r == [params EXCEPT !.page = p]
  <2>1. r \in [filter : Filters, page : Nat] /\ r.filter = params.filter /\ r.page = p
    BY <1>2
  <2> QED BY <2>1
<1>4. bar' \in Bars /\ bar'.page = p /\ bar'.pages = bar.pages
  BY <1>1, <1>2 DEF Bars
<1>5. BarInRange'
  BY <1>2, <1>4 DEF BarInRange
<1>6. waits /\ asked = <<>> => silent \/ q.page <= told[q.filter]
  BY <1>1, <1>2, <1>3 DEF Inv, OneRequest
<1> QED BY <1>1, <1>2, <1>3, <1>4, <1>5, <1>6, ClickInv

LEMMA InvQuery ==
    ASSUME Inv, NEW f \in Filters, Query(f)
    PROVE  Inv'
<1>1. PICK q \in [filter : Filters, page : Nat] :
         q = [filter |-> f, page |-> 1] /\ q.page = 1
  <2>1. [filter |-> f, page |-> 1] \in [filter : Filters, page : Nat]
    OBVIOUS
  <2> QED BY <2>1
<1>2. /\ Click /\ LoadModel(q)
      /\ UNCHANGED <<rows, list, bar, dump, told, silent, changes>>
  BY <1>1 DEF Query
<1>3. bar' \in Bars /\ BarInRange'
  BY <1>2 DEF Inv, TypeOK, BarInRange
<1> QED BY <1>1, <1>2, <1>3, ClickInv, NumberFacts

-----------------------------------------------------------------------------
(* The server *)

LEMMA RequestFields ==
    ASSUME TypeOK, NEW i \in 1..Len(asked)
    PROVE  /\ asked[i] \in Requests /\ asked[i].filter \in Filters /\ asked[i].page \in Nat
           /\ asked[i].count \in Nat \cup {Uncounted}
<1>1. asked[i] \in Requests
  BY DEF TypeOK
<1> QED BY <1>1 DEF Requests

LEMMA CountInv ==
    ASSUME Inv, NEW i \in 1..Len(asked), Count(i)
    PROVE  Inv'
<1>1. PICK r \in Requests : r = asked[i]
  BY RequestFields DEF Inv
<1>2. rows[r.filter] \in Nat
  BY <1>1 DEF Inv, TypeOK, Requests
<1> DEFINE u == [r EXCEPT !.count = rows[r.filter]]
<1>3. /\ u \in Requests /\ u.filter = r.filter /\ u.page = r.page /\ u.blind = r.blind
  BY <1>2 DEF Requests
<1>4. /\ asked' = [asked EXCEPT ![i] = u]
      /\ UNCHANGED <<rows, params, list, bar, dump, told, silent, waits, changes, clicks>>
  BY <1>1 DEF Count
<1> HIDE DEF u
<1>5. /\ asked' \in Seq(Requests) /\ Len(asked') = Len(asked)
      /\ \A j \in 1..Len(asked) : asked'[j] = IF j = i THEN u ELSE asked[j]
  BY <1>3, <1>4, ExceptSeq DEF Inv, TypeOK
<1>6. \A j \in 1..Len(asked) :
         /\ asked'[j].filter = asked[j].filter /\ asked'[j].page = asked[j].page
         /\ asked'[j].blind = asked[j].blind
  BY <1>1, <1>3, <1>5
<1>7. (asked' = <<>>) <=> (asked = <<>>)
  BY <1>5 DEF Inv, TypeOK
<1>8. TypeOK'
  BY <1>4, <1>5 DEF Inv, TypeOK
<1>9. PagesFromOne' /\ AsksWhatExists'
  BY <1>4, <1>5, <1>6 DEF Inv, PagesFromOne, AsksWhatExists
<1>10. OneRequest'
  BY <1>4, <1>5, <1>6, <1>7 DEF Inv, OneRequest
<1>11. BarInRange' /\ DumpInRange' /\ BarTellsRows' /\ ShowsAsked' /\ PagesFull'
  BY <1>4, <1>7 DEF Inv, BarInRange, DumpInRange, BarTellsRows, ShowsAsked, PagesFull
<1> QED BY <1>8, <1>9, <1>10, <1>11 DEF Inv

\* A request is answered: those that are left were there before.
LEMMA Dequeue ==
    ASSUME Inv, NEW i \in 1..Len(asked), asked' = RemoveAt(asked, i),
           params' = params, waits' = waits
    PROVE  /\ asked' \in Seq(Requests) /\ (waits => asked' = <<>> /\ i = 1 /\ asked # <<>>)
           /\ \A j \in 1..Len(asked') : asked'[j].page >= 1
<1>1. asked \in Seq(Requests) /\ (waits => Len(asked) <= 1)
  BY DEF Inv, TypeOK, OneRequest
<1>2. /\ asked' \in Seq(Requests) /\ (Len(asked) <= 1 => asked' = <<>>)
      /\ \A j \in 1..Len(asked') : \E k \in 1..Len(asked) : asked'[j] = asked[k]
  BY <1>1, RemoveAtType
<1>3. waits => i = 1 /\ asked # <<>>
  BY <1>1
<1> QED BY <1>1, <1>2, <1>3 DEF Inv, PagesFromOne

LEMMA RenderInv ==
    ASSUME Inv, NEW i \in 1..Len(asked), NEW pages \in Nat, NEW items \in Nat,
           NEW gone \in Nat, Render(i, pages, items, gone),
           asked[i].page <= pages =>
              /\ items <= PageSize
              /\ items + gone >= IF asked[i].page < pages THEN PageSize ELSE 1
    PROVE  Inv'
<1>1. PICK r \in Requests : r = asked[i] /\ r.filter \in Filters /\ r.page \in Nat /\ r.page >= 1
  BY RequestFields DEF Inv, PagesFromOne
<1>2. /\ asked' = RemoveAt(asked, i)
      /\ list' = [filter |-> r.filter, page |-> r.page, pages |-> pages,
                  items |-> items, gone |-> gone]
      /\ bar' = Pager(r.page, pages)
      /\ told' = [told EXCEPT ![r.filter] = pages]
      /\ silent' = FALSE
      /\ UNCHANGED <<rows, params, dump, waits, changes, clicks>>
  BY <1>1 DEF Render
<1>3. /\ asked' \in Seq(Requests) /\ (waits => asked' = <<>> /\ i = 1 /\ asked # <<>>)
      /\ \A j \in 1..Len(asked') : asked'[j].page >= 1
  BY <1>2, Dequeue
<1>4. /\ list' \in Lists /\ list'.filter = r.filter /\ list'.page = r.page
      /\ list'.pages = pages /\ list'.items = items /\ list'.gone = gone
  BY <1>1, <1>2 DEF Lists
<1>5. /\ bar' \in Bars
      /\ bar' # NoBar => bar'.page = r.page /\ bar'.pages = pages /\ r.page <= pages
  BY <1>1, <1>2, NoBars DEF Pager, Bars
<1>6. told' \in [Filters -> Nat] /\ told'[r.filter] = pages
  BY <1>1, <1>2 DEF Inv, TypeOK
<1>7. waits => r.filter = params.filter /\ r.page = params.page
  BY <1>1, <1>3 DEF Inv, OneRequest
<1>8. TypeOK'
  BY <1>2, <1>3, <1>4, <1>5, <1>6 DEF Inv, TypeOK
<1>9. BarInRange' /\ BarTellsRows'
  BY <1>1, <1>4, <1>5 DEF BarInRange, BarTellsRows
<1>10. PagesFromOne'
  BY <1>1, <1>2, <1>3, <1>4 DEF Inv, PagesFromOne
<1>11. OneRequest' /\ ShowsAsked' /\ AsksWhatExists'
  BY <1>2, <1>3, <1>4, <1>5, <1>6, <1>7 DEF OneRequest, ShowsAsked, AsksWhatExists
<1>12. DumpInRange'
  BY <1>2 DEF Inv, DumpInRange
<1>13. PagesFull'
  BY <1>1, <1>4 DEF PagesFull
<1> QED BY <1>8, <1>9, <1>10, <1>11, <1>12, <1>13 DEF Inv

LEMMA AnswerInv ==
    ASSUME Inv, NEW i \in 1..Len(asked), Answer(i)
    PROVE  Inv'
<1>1. PICK r \in Requests : r = asked[i] /\ r.page \in Nat /\ r.page >= 1 /\ r.count \in Nat
                            /\ r.filter \in Filters
  BY RequestFields DEF Inv, PagesFromOne, Answer
<1>2. PICK found \in Nat : found = rows[r.filter]
  BY <1>1 DEF Inv, TypeOK
<1>3. Render(i, TotalPage(r.count), RowsOf(r.page, found), Gone(r.count, found))
  BY <1>1, <1>2 DEF Answer
<1>4. PICK pages \in Nat : pages = TotalPage(r.count)
  BY <1>1, TotalPageBounds
<1>5. PICK items \in Nat : items = RowsOf(r.page, found)
  BY <1>1, RowsOfType
<1>6. PICK gone \in Nat : gone = Gone(r.count, found) /\ r.count <= found + gone
  BY <1>1, GoneType
<1>7. r.page <= pages =>
         /\ items <= PageSize
         /\ items + gone >= IF r.page < pages THEN PageSize ELSE 1
  BY <1>1, <1>4, <1>5, <1>6, RowsOfFull
<1>8. Render(i, pages, items, gone)
  BY <1>3, <1>4, <1>5, <1>6
<1> QED BY <1>1, <1>7, <1>8, RenderInv

LEMMA AnswerEmptyInv ==
    ASSUME Inv, NEW i \in 1..Len(asked), AnswerEmpty(i)
    PROVE  Inv'
<1>1. Render(i, 0, 0, 0)
  BY DEF AnswerEmpty
<1>2. asked[i].page >= 1 /\ asked[i].page \in Nat
  BY RequestFields DEF Inv, PagesFromOne
<1> QED BY <1>1, <1>2, RenderInv

LEMMA AnswerSilentlyInv ==
    ASSUME Inv, NEW i \in 1..Len(asked), AnswerSilently(i)
    PROVE  Inv'
<1>1. /\ asked' = RemoveAt(asked, i) /\ silent' = TRUE
      /\ UNCHANGED <<rows, params, list, bar, dump, told, waits, changes, clicks>>
  BY DEF AnswerSilently
<1>2. /\ asked' \in Seq(Requests) /\ (waits => asked' = <<>>)
      /\ \A j \in 1..Len(asked') : asked'[j].page >= 1
  BY <1>1, Dequeue
<1>3. TypeOK' /\ PagesFromOne'
  BY <1>1, <1>2 DEF Inv, TypeOK, PagesFromOne
<1>4. OneRequest' /\ ShowsAsked' /\ AsksWhatExists' /\ BarTellsRows'
  BY <1>1, <1>2 DEF OneRequest, ShowsAsked, AsksWhatExists, BarTellsRows
<1>5. BarInRange' /\ DumpInRange' /\ PagesFull'
  BY <1>1 DEF Inv, BarInRange, DumpInRange, PagesFull
<1> QED BY <1>3, <1>4, <1>5 DEF Inv

-----------------------------------------------------------------------------
(* Rows, and the list of dumps *)

LEMMA RowsInv ==
    ASSUME Inv, NEW f \in Filters, RowsChange(f)
    PROVE  Inv'
<1>1. UNCHANGED <<params, asked, list, bar, told, silent, waits, dump, clicks>>
      /\ changes' = changes + 1
  BY DEF RowsChange, here
<1>2. rows' \in [Filters -> Nat]
  <2>1. PICK n \in Nat : n = rows[f]
    BY DEF Inv, TypeOK
  <2>2. CASE rows' = [rows EXCEPT ![f] = n + 1]
    BY <2>2 DEF Inv, TypeOK
  <2>3. CASE n > 0 /\ rows' = [rows EXCEPT ![f] = n - 1]
    <3>1. n - 1 \in Nat
      BY <2>3
    <3> QED BY <2>3, <3>1 DEF Inv, TypeOK
  <2> QED BY <2>1, <2>2, <2>3 DEF RowsChange, Inv, TypeOK
<1>3. TypeOK'
  BY <1>1, <1>2 DEF Inv, TypeOK
<1> QED BY <1>1, <1>3 DEF Inv, BarInRange, PagesFromOne, OneRequest, DumpInRange,
                          BarTellsRows, ShowsAsked, AsksWhatExists, PagesFull

LEMMA DumpInv ==
    ASSUME Inv, NEW page \in PaginationBar(dump.page, dump.count),
           NEW count \in 0..MaxDumps, FollowLink(page, count)
    PROVE  Inv'
<1>1. /\ dump' = [page |-> page, count |-> count] /\ count \in Nat
      /\ UNCHANGED <<rows, params, asked, list, bar, told, silent, waits, changes, clicks>>
  BY PagedListAssumption DEF FollowLink, here
<1>2. PICK p \in Nat, n \in Nat : p = dump.page /\ n = dump.count /\ n <= count
  BY DEF Inv, TypeOK, FollowLink
<1>3. n > PageSize
  BY <1>2, NumberFacts DEF PaginationBar
<1>4. PICK old \in Nat, new \in Nat : old = TotalPage(n) /\ new = TotalPage(count) /\ old <= new
  BY <1>1, <1>2, TotalPageBounds, TotalPageMonotone
<1>5. page \in 1..old
  BY <1>2, <1>3, <1>4, PaginationBarPages DEF Inv, DumpInRange
<1>6. page \in Nat /\ 1 <= page /\ page <= new
  BY <1>4, <1>5
<1>7. TypeOK' /\ DumpInRange'
  BY <1>1, <1>4, <1>6 DEF Inv, TypeOK, DumpInRange
<1> QED BY <1>1, <1>7 DEF Inv, BarInRange, PagesFromOne, OneRequest,
                          BarTellsRows, ShowsAsked, AsksWhatExists, PagesFull

LEMMA InvNext == Inv /\ [Next]_vars => Inv'
<1> SUFFICES ASSUME Inv, [Next]_vars PROVE Inv'
  OBVIOUS
<1>1. CASE UNCHANGED vars
  BY <1>1 DEF vars, here, Inv, TypeOK, BarInRange, PagesFromOne, OneRequest, DumpInRange,
              BarTellsRows, ShowsAsked, AsksWhatExists, PagesFull
<1>2. ASSUME NEW i \in 1..Len(asked), Server(i) PROVE Inv'
  BY <1>2, CountInv, AnswerInv, AnswerEmptyInv, AnswerSilentlyInv DEF Server
<1> QED BY <1>1, <1>2, InvPageClicked, InvQuery, RowsInv, DumpInv DEF Next

LEMMA InvAlways == Spec => []Inv
BY InvInit, InvNext, PTL DEF Spec

(* Every variable keeps its type.                                          *)
THEOREM TypeCorrect == Spec => []TypeOK
<1>1. Inv => TypeOK
  BY DEF Inv
<1> QED BY <1>1, InvAlways, PTL

(* Whatever the order of the answers, the paginator marks the page whose   *)
(* rows are on the screen.                                                 *)
THEOREM BarAlwaysTellsRows == Spec => []BarTellsRows
<1>1. Inv => BarTellsRows
  BY DEF Inv
<1> QED BY <1>1, InvAlways, PTL

(* A click that has waited for the answers before it is answered with the  *)
(* filter and the page that it asked for, whatever was before.             *)
THEOREM WaitingUserIsServed == Spec => []ShowsAsked
<1>1. Inv => ShowsAsked
  BY DEF Inv
<1> QED BY <1>1, InvAlways, PTL

(* The paginator of a filter is not used with another: after two clicks    *)
(* that have waited, the view asks only for pages that it has been told    *)
(* exist.                                                                  *)
THEOREM AsksOnlyWhatExists == Spec => []AsksWhatExists
<1>1. Inv => AsksWhatExists
  BY DEF Inv
<1> QED BY <1>1, InvAlways, PTL

(* Pages are full, and the last page is not empty, for every page size,    *)
(* but for the rows that have gone between the count and the select.       *)
THEOREM PagesAreFull == Spec => []PagesFull
<1>1. Inv => PagesFull
  BY DEF Inv
<1> QED BY <1>1, InvAlways, PTL

(* The paginator shows its page and offers pages of the list, for every    *)
(* number of pages and every width of its window.                          *)
THEOREM BarAlwaysShowsPage == Spec => []BarShowsPage
<1>1. Inv => BarShowsPage
  BY OfferedPages DEF Inv, TypeOK, BarInRange, BarShowsPage
<1> QED BY <1>1, InvAlways, PTL

(* The links of the list of dumps lead to its pages and to both neighbours *)
(* of the page, for every number of links.                                 *)
THEOREM DumpLinksLead == Spec => []DumpLinks
<1>1. Inv => DumpLinks
  <2> SUFFICES ASSUME Inv, dump.count > PageSize
               PROVE  LET linked == PaginationBar(dump.page, dump.count)
                          pages == 1..TotalPage(dump.count)
                      IN  /\ dump.page \in pages /\ linked \subseteq pages
                          /\ {dump.page - 1, dump.page, dump.page + 1} \cap pages \subseteq linked
    BY DEF DumpLinks
  <2>1. PICK p \in Nat, n \in Nat : p = dump.page /\ n = dump.count
    BY DEF Inv, TypeOK
  <2>2. n > PageSize /\ 1 <= p /\ p <= TotalPage(n) /\ TotalPage(n) \in Nat
    BY <2>1, TotalPageBounds DEF Inv, DumpInRange
  <2> QED BY <2>1, <2>2, PaginationBarPages
<1> QED BY <1>1, InvAlways, PTL
=============================================================================
