------------------------------ MODULE Catalogue ------------------------------
(***************************************************************************)
(* What the back office reads of its rows: the lists of the property       *)
(* tables, page by page (db/queries/*_properties.js), the CRM list         *)
(* (db/queries/crm.js), the listings similar to a public one               *)
(* (db/queries/public_properties.js) and the cards and charts of the       *)
(* dashboard (db/queries/dashboard.js).  A list counts and fetches in two  *)
(* statements, outside any transaction, while others write.  Days are day  *)
(* numbers; day 0 is a Monday, and months are 30 days long.                *)
(***************************************************************************)
EXTENDS Integers, Sequences, FiniteSets, SequencesExt

CONSTANTS Stock,       \* row ids, in the order the rows are inserted
          Missing,     \* of an id not yet used
          Firsts,      \* what the tables hold at first, and the current day
          Arrivals,    \* rows that may be inserted, as the form sends them
          Filters,     \* filters of the lists
          PerPage, ExportSize, SimilarLimit,
          Elsewhere,   \* what FOUND_ROWS() says on a connection others used
          MaxChanges, MaxReads   \* bounds: writes, and reports asked for

VARIABLES listed,   \* the rows of the three tables
          shown,   \* per table, the active codes of its status master
          date,    \* the current UTC day
          report,  \* the report being made
          answer,  \* the last report finished
          grew, shrank,  \* history: rows entered, left a list since the report began
          writes, reads

catalogueVars == <<listed, shown, date, report, answer, grew, shrank, writes, reads>>

Tables == {"inventory", "enquiry", "website"}

StatusCodes == [inventory |-> {"available", "sold"},
                enquiry |-> {"new_enquiry", "enquiry_converted"}]

\* A row of a table: days, titles in their order, and ids are numbers.
IsRow(e) ==
  /\ {"table", "title", "status", "draft", "approval", "active", "approvedOn", "born", "type",
      "deal", "deleted"} \subseteq DOMAIN e
  /\ e.title \in Int /\ e.approvedOn \in Int /\ e.born \in Int /\ e.draft \in BOOLEAN

\* One that is held: its status is one of its table's codes, and no day is to come.
IsHeld(e, day) == /\ IsRow(e) /\ e.born <= day
                  /\ e.table \in DOMAIN StatusCodes => e.status \in StatusCodes[e.table]

ASSUME CatalogueAssumption ==
  /\ Stock \subseteq Nat /\ IsFiniteSet(Stock)
  /\ PerPage \in Nat \ {0} /\ ExportSize \in Nat \ {0} /\ SimilarLimit \in Nat
  /\ \A form \in Arrivals : IsRow(form)
  /\ \A first \in Firsts :
       /\ first.date \in Int
       /\ DOMAIN first.listed = Stock
       /\ \A i \in Stock : first.listed[i] = Missing \/ IsHeld(first.listed[i], first.date)

Unread == [at |-> "idle"]
NoAnswerYet == [what |-> "none"]

-----------------------------------------------------------------------------
(* The rows *)

Live(t) == {i \in Stock : listed[i] # Missing /\ listed[i].table = t /\ ~listed[i].deleted}

\* LEGACY_ENQUIRY_STATUS_MAP: enquiries once used the codes of the inventory
HealedStatus(t, code) ==
  CASE t = "enquiry" /\ code = "available" -> "new_enquiry"
    [] t = "enquiry" /\ code = "sold" -> "enquiry_converted"
    [] OTHER -> code

OnSite(i) == listed[i].approval = "approved" /\ listed[i].active

\* An enquiry whose property was deleted: its lead's live fields are empty
isOrphan(i) == listed[i].deleted

\* The leads a property is allocated to, as its page lists them and as the guard
\* of its removal finds them
listByProperty(code) == {i \in Live("enquiry") : code \in listed[i].wants}

listEnquiriesReferencingPropertyCode(code) ==
  {i \in Stock : /\ listed[i] # Missing /\ listed[i].table = "enquiry"
                 /\ code \in listed[i].wants}

\* The lists of the admin: every filter that is given must hold; "to" is
\* inclusive.  A website row has an approval instead of a status and is never
\* a draft.
MatchesInventory(i, f) ==
  /\ f.status = "" \/ listed[i].status = f.status
  /\ f.draft = "" \/ listed[i].draft = (f.draft = "yes")
  /\ f.from = -1 \/ listed[i].born >= f.from
  /\ f.to = -1 \/ listed[i].born < f.to + 1

MatchesEnquiry(i, f) == MatchesInventory(i, f)

MatchesWebsite(i, f) ==
  /\ f.approval = "" \/ listed[i].approval = f.approval
  /\ f.from = -1 \/ listed[i].born >= f.from
  /\ f.to = -1 \/ listed[i].born < f.to + 1

Matching(list, f) ==
  CASE list = "inventory" -> {i \in Live("inventory") : MatchesInventory(i, f)}
    [] list = "enquiry" -> {i \in Live("enquiry") : MatchesEnquiry(i, f)}
    [] list = "website" -> {i \in Live("website") : MatchesWebsite(i, f)}
    [] list = "public" -> {i \in Live("website") : OnSite(i)}
    [] list = "crm" -> Live("enquiry")

\* A mutant: rows of one title may come in any order
MutBefore(list, i, j) == listed[i].title < listed[j].title

\* ORDER BY title, id for the admin; the public list is newest first
Before(list, i, j) ==
  IF list = "public"
  THEN listed[i].approvedOn > listed[j].approvedOn
       \/ (listed[i].approvedOn = listed[j].approvedOn /\ i > j)
  ELSE listed[i].title < listed[j].title \/ (listed[i].title = listed[j].title /\ i < j)

\* The CRM orders by created_at alone
NotAfter(list, i, j) ==
  IF list = "crm" THEN listed[i].born >= listed[j].born ELSE ~Before(list, j, i)

\* What a statement may return: any order its ORDER BY admits
Orders(list, S) ==
  {s \in SetToSeqs(S) : \A m, n \in 1..Len(s) : m < n => NotAfter(list, s[m], s[n])}

PageRows(s, page, size) ==
  SubSeq(s, (page - 1) * size + 1, IF page * size < Len(s) THEN page * size ELSE Len(s))

TotalPages(total, size) ==
  IF total = 0 THEN 1 ELSE (total + size - 1) \div size

-----------------------------------------------------------------------------
(* The dashboard: figures of one statement each *)

websiteCounters ==
  [total |-> Cardinality(Live("website")),
   pending |-> Cardinality({i \in Live("website") : listed[i].approval = "pending"}),
   live |-> Cardinality({i \in Live("website") : OnSite(i)}),
   featured |-> Cardinality({i \in Live("website") : listed[i].featured})]

\* Per-status counts: the active codes of the master, with their rows
byStatus(t) == [c \in shown[t] |-> Cardinality({i \in Live(t) : listed[i].status = c})]

Monday(d) == d - (d % 7)
MonthOf(d) == d \div 30

DayBuckets(n) == [k \in 1..n |-> date - n + k]

DayBucketsBetween(from, to) ==
  IF to < from THEN << >>
  ELSE LET all == [k \in 1..(to - from + 1) |-> from + k - 1]
       IN IF Len(all) > 366 THEN SubSeq(all, Len(all) - 365, Len(all)) ELSE all

WeekBuckets(n) == [k \in 1..n |-> Monday(date) - (n - k) * 7]
MonthBuckets(n) == [k \in 1..n |-> MonthOf(date) - (n - k)]

Granularities == {"daily", "weekly", "monthly", "custom"}

Buckets(g, from, to) ==
  CASE g = "weekly" -> WeekBuckets(12)
    [] g = "monthly" -> MonthBuckets(12)
    [] g = "custom" -> DayBucketsBetween(from, to)
    [] OTHER -> DayBuckets(30)

\* bucketSql: the bucket the database puts a row in
BucketOf(g, d) ==
  CASE g = "weekly" -> Monday(d) [] g = "monthly" -> MonthOf(d) [] OTHER -> d

\* The first day of the first bucket
Since(g, b) == IF b = << >> THEN date ELSE IF g = "monthly" THEN b[1] * 30 ELSE b[1]

listingsByBucketSingle(t, g, from, to) ==
  LET b == Buckets(g, from, to)
      rows == {i \in Live(t) : listed[i].born >= Since(g, b)}
  IN [k \in DOMAIN b |-> Cardinality({i \in rows : BucketOf(g, listed[i].born) = b[k]})]

\* Places with their counts, the largest first; rows without a place are left out
topAreas(t) ==
  LET placed == {i \in Live(t) : listed[i].place # ""}
  IN [p \in {listed[i].place : i \in placed} |-> Cardinality({i \in placed : listed[i].place = p})]

\* suggest: the newest rows that are not drafts
suggest(t, limit) ==
  LET rows == {i \in Live(t) : ~listed[i].draft}
  IN {i \in rows : Cardinality({j \in rows : j > i}) < limit}

-----------------------------------------------------------------------------
CatalogueInit ==
  /\ \E first \in Firsts : listed = first.listed /\ date = first.date
  /\ shown = StatusCodes
  /\ report = Unread
  /\ answer = NoAnswerYet
  /\ grew = FALSE
  /\ shrank = FALSE
  /\ writes = 0
  /\ reads = 0

(* The writers, each one statement *)

Write(grows, shrinks) ==
  /\ writes < MaxChanges
  /\ writes' = writes + 1
  /\ grew' = (grew \/ grows)
  /\ shrank' = (shrank \/ shrinks)
  /\ UNCHANGED <<report, answer, reads>>

Accepted(t, code) == t # "website" => HealedStatus(t, code) \in shown[t]

\* createProperty: a row of the inventory, an enquiry or a listing; the status
\* is one of the master's active codes
AddRow ==
  \E i \in Stock, form \in Arrivals :
    /\ listed[i] = Missing
    /\ \A j \in Stock : j < i => listed[j] # Missing
    /\ Accepted(form.table, form.status)
    /\ listed' = [listed EXCEPT ![i] = [form EXCEPT !.status = HealedStatus(form.table, @),
                                                  !.born = date]]
    /\ Write(TRUE, FALSE)
    /\ UNCHANGED <<shown, date>>

\* updateStatus
SetEntryStatus ==
  \E i \in Stock, code \in UNION {StatusCodes[t] : t \in DOMAIN StatusCodes} :
    /\ i \in Live("inventory") \cup Live("enquiry")
    /\ Accepted(listed[i].table, code)
    /\ listed' = [listed EXCEPT ![i].status = HealedStatus(listed[i].table, code)]
    /\ Write(TRUE, TRUE)
    /\ UNCHANGED <<shown, date>>

\* approve and reject; both stamp approved_at
DecideEntry ==
  \E i \in Live("website"), a \in {"approved", "rejected"} :
    /\ listed' = [listed EXCEPT ![i].approval = a, ![i].approvedOn = date]
    /\ Write(TRUE, TRUE)
    /\ UNCHANGED <<shown, date>>

\* softDelete; that of a listing hides it too
RemoveEntry ==
  \E i \in Stock :
    /\ \E t \in Tables : i \in Live(t)
    /\ listed' = [listed EXCEPT ![i].deleted = TRUE,
                             ![i].active = @ /\ listed[i].table # "website"]
    /\ Write(FALSE, TRUE)
    /\ UNCHANGED <<shown, date>>

\* A status master is switched on or off, used or not
SwitchStatus ==
  \E t \in DOMAIN StatusCodes : \E c \in StatusCodes[t] :
    /\ shown' = [shown EXCEPT ![t] = IF c \in @ THEN @ \ {c} ELSE @ \cup {c}]
    /\ Write(FALSE, FALSE)
    /\ UNCHANGED <<listed, date>>

NextDate ==
  /\ date' = date + 1
  /\ Write(FALSE, FALSE)
  /\ UNCHANGED <<listed, shown>>

(* The readers: one report at a time, a statement a step *)

Ask(next) ==
  /\ report = Unread
  /\ reads < MaxReads
  /\ reads' = reads + 1
  /\ report' = next
  /\ answer' = NoAnswerYet
  /\ grew' = FALSE
  /\ shrank' = FALSE
  /\ UNCHANGED <<listed, shown, date, writes>>

\* The next statement of the report, or its answer
Step(next, reply) ==
  /\ report' = next
  /\ answer' = reply
  /\ UNCHANGED <<listed, shown, date, grew, shrank, writes, reads>>

\* A reader turns the pages of a list; an export asks for one page of everything
BeginList ==
  \E list \in Tables \cup {"public", "crm"}, f \in Filters, size \in {PerPage, ExportSize} :
    /\ list \in {"public", "crm"} => f = CHOOSE g \in Filters : TRUE
    /\ list \in {"public", "crm"} => size = PerPage
    /\ Ask([what |-> "list", at |-> IF list = "crm" THEN "enquiries" ELSE "count", list |-> list,
            filter |-> f, size |-> size, page |-> 1, got |-> << >>, matched |-> 0, total |-> 0,
            hidden |-> 0, strayed |-> FALSE, tied |-> FALSE])

ToPage(r) == IF r.size = PerPage /\ r.page < TotalPages(r.total, r.size)
             THEN Step([r EXCEPT !.at = IF r.list = "crm" THEN "enquiries" ELSE "count",
                                 !.page = @ + 1], answer)
             ELSE Step(Unread, r)

CountRows ==
  /\ report.at = "count"
  /\ Step([report EXCEPT !.at = "rows",
                         !.total = Cardinality(Matching(report.list, report.filter))], answer)

FetchRows ==
  /\ report.at = "rows"
  /\ \E s \in Orders(report.list, Matching(report.list, report.filter)) :
       ToPage([report EXCEPT !.got = @ \o PageRows(s, report.page, report.size)])

\* Two enquiries created at once
Ties == \E i, j \in Live("enquiry") : i # j /\ listed[i].born = listed[j].born

\* listEnquiries: only enquiries whose property still lives, newest first
FetchEnquiries ==
  /\ report.at = "enquiries"
  /\ \E s \in Orders("crm", Matching("crm", report.filter)) :
       Step([report EXCEPT !.at = "found", !.matched = Len(s), !.tied = @ \/ Ties,
                           !.got = @ \o PageRows(s, report.page, report.size)], answer)

\* FOUND_ROWS() is asked of the pool: it may run on another connection than
\* the list did, and then tells of that connection's last SELECT
ReadFound ==
  /\ report.at = "found"
  /\ \/ Step([report EXCEPT !.at = "orphans", !.total = report.matched], answer)
     \/ \E n \in Elsewhere :
          Step([report EXCEPT !.at = "orphans", !.total = n, !.strayed = TRUE], answer)

\* The enquiries hidden, as their property was deleted
CountOrphans ==
  /\ report.at = "orphans"
  /\ ToPage([report EXCEPT !.hidden = Cardinality({i \in Stock : /\ listed[i] # Missing
                                                                /\ listed[i].table = "enquiry"
                                                                /\ listed[i].deleted})])

\* dynamicStatusCounters: the total, then the counts by status
BeginCounters ==
  \E t \in DOMAIN StatusCodes :
    Ask([what |-> "counters", at |-> "statuses", table |-> t, total |-> Cardinality(Live(t)),
         by |-> << >>])

CountStatuses ==
  /\ report.at = "statuses"
  /\ Step(Unread, [report EXCEPT !.by = byStatus(report.table)])

\* listSimilar: the listing is read, then up to three queries fill the list
BeginSimilar ==
  \E i \in Live("website") :
    /\ OnSite(i)
    /\ Ask([what |-> "similar", at |-> "similar", tier |-> 1, base |-> i, row |-> listed[i],
            got |-> << >>])

Tier(n, i) ==
  LET same == report.row
  IN CASE n = 1 -> /\ same.price > 0
                   /\ listed[i].type = same.type /\ listed[i].deal = same.deal
                   /\ listed[i].price * 10 \in (same.price * 7)..(same.price * 13)
       [] n = 2 -> listed[i].type = same.type
       [] n = 3 -> listed[i].deal = same.deal

TierRows(n) ==
  {i \in Live("website") : OnSite(i) /\ i # report.base /\ Tier(n, i)
                           /\ i \notin ToSet(report.got)}

FillSimilar ==
  /\ report.at = "similar"
  /\ \E s \in Orders("public", TierRows(report.tier)) :
       LET got == report.got \o PageRows(s, 1, SimilarLimit - Len(report.got))
       IN IF report.tier = 3 \/ Len(got) >= SimilarLimit
          THEN Step(Unread, [report EXCEPT !.got = got])
          ELSE Step([report EXCEPT !.got = got, !.tier = @ + 1], answer)

CatalogueNext ==
  \/ AddRow \/ SetEntryStatus \/ DecideEntry \/ RemoveEntry \/ SwitchStatus \/ NextDate
  \/ BeginList \/ CountRows \/ FetchRows
  \/ FetchEnquiries \/ ReadFound \/ CountOrphans
  \/ BeginCounters \/ CountStatuses
  \/ BeginSimilar \/ FillSimilar

-----------------------------------------------------------------------------
Unfiltered == [status |-> "", draft |-> "", approval |-> "", from |-> -1, to |-> -1]

SumOf(f) == SumFunctionOnSet(f, {k \in DOMAIN f : f[k] > 0})
Once(s) == \A m, n \in DOMAIN s : s[m] = s[n] => m = n

\* Who turns the pages of a list to its end (list() and totalPages of each
\* table, listEnquiries) sees a row twice only if rows entered the list
\* meanwhile; rows that leave it make nobody see one twice.  Of enquiries
\* created at once a page may repeat one and leave out another.
PagesRepeatNothing ==
  answer.what = "list" /\ ~grew /\ ~answer.tied => Once(answer.got)

\* The CRM's total may be asked of another connection and is right otherwise,
\* like the other lists' unless rows came or went; then, with the hidden ones,
\* it counts every enquiry.
Quiet(r) == ~grew /\ ~shrank /\ ~r.strayed
TotalsRight ==
  answer.what = "list" /\ Quiet(answer) =>
    /\ answer.total = Cardinality(Matching(answer.list, answer.filter))
    /\ answer.list = "crm" =>
         answer.total + answer.hidden = Cardinality({i \in Stock : listed[i] # Missing
                                                                   /\ listed[i].table = "enquiry"})

\* If none entered or left, each row is seen, in order; an export misses rows
\* beyond its size.
PagesInOrder ==
  answer.what = "list" /\ Quiet(answer) /\ ~answer.tied =>
    LET rows == Matching(answer.list, answer.filter)
        last == IF answer.size = PerPage THEN Cardinality(rows) ELSE ExportSize
    IN \E s \in Orders(answer.list, rows) : answer.got = PageRows(s, 1, last)

PagesSound == PagesRepeatNothing /\ TotalsRight /\ PagesInOrder

\* Each card of the dashboard counts what the list behind it shows: the live
\* listings those of the public site, a status its filter; and what the cards
\* of one report leave out of its total are rows whose status was switched off.
\* The page of a property lists the leads that keep it from being removed but
\* for the orphans.
CardsSound ==
  LET Length(list, f) == Cardinality(Matching(list, f))
  IN /\ websiteCounters.total = Length("website", Unfiltered)
     /\ websiteCounters.pending = Length("website", [Unfiltered EXCEPT !.approval = "pending"])
     /\ websiteCounters.live = Length("public", Unfiltered)
     /\ \A t \in DOMAIN StatusCodes : \A c \in shown[t] :
          byStatus(t)[c] = Length(t, [Unfiltered EXCEPT !.status = c])
     /\ \A code \in UNION {f.wants : f \in Arrivals} :
          listByProperty(code) = {i \in listEnquiriesReferencingPropertyCode(code) : ~isOrphan(i)}
     /\ (answer.what = "counters" /\ ~grew /\ ~shrank) =>
          answer.total - SumOf(answer.by)
            = Cardinality({i \in Live(answer.table) : listed[i].status \notin DOMAIN answer.by})

\* A chart shows each row of its window in one bar, and no other row: the days,
\* weeks and months the service counts are those the database groups by.
ChartsSound ==
  \A t \in Tables, g \in Granularities :
    LET from == CASE g = "daily" -> date - 29
                  [] g = "weekly" -> Monday(date) - 77
                  [] g = "monthly" -> (MonthOf(date) - 11) * 30
                  [] g = "custom" -> IF date > 365 THEN date - 365 ELSE 0
    IN /\ SumOf(listingsByBucketSingle(t, g, 0, date))
            = Cardinality({i \in Live(t) : listed[i].born \in from..date})
       /\ SumOf(topAreas(t)) <= Cardinality(Live(t))
       /\ suggest(t, 2) \subseteq
            IF t = "website" THEN Live(t) ELSE Matching(t, [Unfiltered EXCEPT !.draft = "no"])

\* Similar listings are filled by up to three queries, while listings come and
\* go: never the listing itself, none twice, no more than asked for, and if
\* nothing changed, fewer only if no other listing shares its type or deal.
SimilarSound ==
  answer.what = "similar" =>
    LET r == answer
    IN /\ Once(r.got) /\ r.base \notin ToSet(r.got) /\ Len(r.got) <= SimilarLimit
       /\ (~grew /\ ~shrank /\ Len(r.got) < SimilarLimit) =>
            \A i \in Live("website") \ {r.base} :
              (OnSite(i) /\ (listed[i].type = r.row.type \/ listed[i].deal = r.row.deal))
                => i \in ToSet(r.got)

\* What the lists and the cards promise; the charts are ChartsSound.
CatalogueSound ==
  /\ \A t \in DOMAIN StatusCodes, i \in Stock : i \in Live(t) => listed[i].status \in StatusCodes[t]
  /\ PagesSound /\ CardsSound /\ SimilarSound
=============================================================================
