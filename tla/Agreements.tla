------------------------------ MODULE Agreements ------------------------------
(***************************************************************************)
(* Rent and lease agreements and their reminders                           *)
(* (services/agreement/agreementCompute.js, routes/admin/                  *)
(* agreement-reminders.js).  Nothing is stored about a reminder: its       *)
(* status, the summary and the badge are computed from the end date each   *)
(* time they are asked for.  Dates are day numbers.                        *)
(***************************************************************************)
EXTENDS Integers, Sequences, FiniteSets, SequencesExt

CONSTANTS Agreed,     \* properties of both tables, inventory and enquiry
          LastDay,    \* bound: the days the model lives through, 0..LastDay
          EndDays,    \* end dates an admin may enter
          None        \* no end date

ASSUME AgreementAssumption ==
  LastDay \in Nat /\ EndDays \subseteq Int /\ None \notin Int /\ IsFiniteSet(Agreed)

VARIABLES today,      \* the current UTC day
          lease       \* per property: the columns the reminders read

agreementVars == <<today, lease>>

ReminderStartDays == 30
UpcomingExpiryMin == 15

OutVariants == {"rent_out", "lease_out"}
\* transaction_variant, and transaction_type, which older rows use instead
Deals == {[variant |-> "rent_out", type |-> "rent"], [variant |-> "lease_out", type |-> "lease"],
          [variant |-> "rent_in", type |-> "rent"], [variant |-> "none", type |-> "rent_out"]}
Leased(deal, end) == [variant |-> deal.variant, type |-> deal.type, end |-> end, deleted |-> FALSE]

-----------------------------------------------------------------------------

\* computeAgreementState; the branches of 1-7 and 8-14 days say the same
StatusOf(days) ==
  CASE days > ReminderStartDays -> "active"
    [] days = ReminderStartDays -> "reminder_started"
    [] days >= UpcomingExpiryMin /\ days < ReminderStartDays -> "upcoming_expiry"
    [] days >= 1 /\ days < UpcomingExpiryMin -> "expiring_soon"
    [] days = 0 -> "expires_today"
    [] OTHER -> "overdue"

\* a mutant: the day the window opens counts as active still
MutComputeAgreementState(end, day) ==
  IF end = None THEN [status |-> "unset", countable |-> FALSE]
  ELSE [status |-> StatusOf(end - day), daysRemaining |-> end - day,
        countable |-> end - day < ReminderStartDays]

computeAgreementState(end, day) ==
  IF end = None THEN [status |-> "unset", countable |-> FALSE]
  ELSE [status |-> StatusOf(end - day), daysRemaining |-> end - day,
        countable |-> StatusOf(end - day) # "active"]

\* WHERE of the summary and of the list, before its own filters
Columns(p) == {lease[p].variant, lease[p].type}

Tracked == {p \in Agreed : ~lease[p].deleted /\ Columns(p) \cap OutVariants # {}
                           /\ lease[p].end # None}

StateOf(p) == computeAgreementState(lease[p].end, today)

CountIf(Test(_)) == Cardinality({p \in Tracked : Test(StateOf(p))})

fetchSummary ==
  [totalActive      |-> CountIf(LAMBDA s : s.status = "active"),
   expiringWithin30 |-> CountIf(LAMBDA s : s.daysRemaining \in 0..30),
   expiringWithin7  |-> CountIf(LAMBDA s : s.daysRemaining \in 0..7),
   expiringToday    |-> CountIf(LAMBDA s : s.status = "expires_today"),
   totalOverdue     |-> CountIf(LAMBDA s : s.status = "overdue"),
   badgeCount       |-> CountIf(LAMBDA s : s.countable)]

(***************************************************************************)
(* GET /list: SQL filters (here the transaction type, which may be in      *)
(* either column), derived filters, a stable sort by end date, a page.     *)
(***************************************************************************)
NoFilter == [type |-> "", status |-> "", min |-> None, max |-> None]

fetchListRows(f) == {p \in Tracked : f.type = "" \/ f.type \in Columns(p)}

DerivedFilter(f) ==
  {p \in fetchListRows(f) :
     /\ f.status = "" \/ StateOf(p).status = f.status
     /\ f.min = None \/ StateOf(p).daysRemaining >= f.min
     /\ f.max = None \/ StateOf(p).daysRemaining <= f.max}

\* rows of equal end date stay as the two queries returned them
Sorted(f) == SetToSortSeq(DerivedFilter(f), LAMBDA p, q : lease[p].end < lease[q].end)

PageOf(f, n, size) == SubSeq(Sorted(f), (n - 1) * size + 1,
                             IF n * size < Len(Sorted(f)) THEN n * size ELSE Len(Sorted(f)))

Listed(f) == Cardinality(DerivedFilter(f))

-----------------------------------------------------------------------------
AgreementsInit ==
  /\ today = 0
  /\ lease \in [Agreed -> {Leased(deal, end) : deal \in Deals, end \in EndDays \cup {None}}]

\* POST / and PUT /:id of either table: the dates are columns of the property
\* and are taken as they are sent, whatever the variant; an end before the
\* start is refused, but the start, which may be missing, is not kept here
SaveLease(p) ==
  \E deal \in Deals, end \in EndDays \cup {None} :
    /\ lease' = [lease EXCEPT ![p] = Leased(deal, end)]
    /\ UNCHANGED today

RemoveLease(p) ==
  /\ ~lease[p].deleted
  /\ lease' = [lease EXCEPT ![p].deleted = TRUE]
  /\ UNCHANGED today

Midnight == today < LastDay /\ today' = today + 1 /\ UNCHANGED lease

-----------------------------------------------------------------------------
(***************************************************************************)
(* The summary cards, the badge and the list are computed by different     *)
(* code from one predicate each; they must tell one story.                 *)
(***************************************************************************)
ByStatus(s) == Listed([NoFilter EXCEPT !.status = s])

Between(a, b) == Listed([NoFilter EXCEPT !.min = a, !.max = b])

\* every card of the summary is the length of the list it links to
CardsMatchList ==
  /\ fetchSummary.totalActive = ByStatus("active")
  /\ fetchSummary.expiringToday = ByStatus("expires_today")
  /\ fetchSummary.totalOverdue = ByStatus("overdue")
  /\ fetchSummary.expiringWithin30 = Between(0, 30)
  /\ fetchSummary.expiringWithin7 = Between(0, 7)
  /\ Tracked = UNION {fetchListRows([NoFilter EXCEPT !.type = t]) : t \in OutVariants}

\* the badge counts what runs out within 30 days or has run out
BadgeCountsDue ==
  /\ fetchSummary.badgeCount = fetchSummary.expiringWithin30 + fetchSummary.totalOverdue
  /\ fetchSummary.badgeCount + fetchSummary.totalActive = Listed(NoFilter)

\* the pages, one after the other, are the list
PagesMakeList ==
  \A size \in 1..2 : LET Final == (Listed(NoFilter) + size - 1) \div size IN
    FlattenSeq([n \in 1..Final |-> PageOf(NoFilter, n, size)]) = Sorted(NoFilter)

\* days only make an agreement more pressing: no status comes back
Rank(s) == CHOOSE n \in 1..6 : s = <<"active", "reminder_started", "upcoming_expiry",
                                      "expiring_soon", "expires_today", "overdue">>[n]
StatusNeverReturns ==
  \A p \in Tracked : \A d \in today..LastDay :
    Rank(StateOf(p).status) <= Rank(StatusOf(lease[p].end - d))

\* What the figures of the agreements promise; that the pages make the list stands
\* with the other lists.
AgreementsSound == CardsMatchList /\ BadgeCountsDue /\ StatusNeverReturns

AgreementsNext == Midnight \/ \E p \in Agreed : SaveLease(p) \/ RemoveLease(p)
=============================================================================
