----------------------------- MODULE Listings -----------------------------
(***************************************************************************)
(* Website listings and the buyer leads they attract: a seller submits a   *)
(* listing and edits it until it is approved, an admin approves, rejects,  *)
(* hides and features it, a buyer who proved an email address leaves a     *)
(* lead on a listing that is public, and an admin moves the lead to its    *)
(* end. None of it runs in a transaction: every handler reads a row, then  *)
(* writes with statements of its own.                                      *)
(***************************************************************************)
EXTENDS Naturals, Sequences, FiniteSets

CONSTANTS
  Listed,              \* website_properties rows, submitted by sellers
  NoListing,           \* of a general enquiry
  Handlers,            \* requests that may run at once
  Assignees, Nobody,   \* active sub-admins with lead access
  MaxBuyers, MaxCalls, MaxDrops   \* bounds: leads, requests, requests cut short

VARIABLES
  listing,   \* [approval, active, featured, deleted, seen], seen: an admin approved or wrote it
  buyer,     \* leads rows: [listing, status, deleted, assignee]
  told,      \* notifications of an assignment: <<lead, assignee>>
  handler,   \* the requests
  crossed,   \* history: listings approved while an edit by the seller ran
  raced,     \* history: leads handled by two requests at once, or while their listing's sale ran
  cut,       \* history: listings whose sale was cut short, or which went back on the market
  calls, drops

listVars == <<listing, buyer, told, handler, crossed, raced, cut, calls, drops>>

Waiting == [at |-> "idle"]
LeadTerminal == {"closed_won", "closed_lost"}
OpenStatuses == {"new", "contacted", "site_visit"}
Statuses == OpenStatuses \cup LeadTerminal

ListingsInit ==
  /\ listing = [p \in Listed |-> [approval |-> "pending", active |-> TRUE, featured |-> FALSE,
                                  deleted |-> FALSE, seen |-> FALSE]]
  /\ buyer = <<>>
  /\ told = {}
  /\ handler = [h \in Handlers |-> Waiting]
  /\ crossed = {}
  /\ raced = {}
  /\ cut = {}
  /\ calls = 0
  /\ drops = 0

Call(h, next) ==
  /\ handler[h] = Waiting
  /\ calls < MaxCalls
  /\ calls' = calls + 1
  /\ handler' = [handler EXCEPT ![h] = next]

Now(h, next) == handler' = [handler EXCEPT ![h] = next]

Public(p) == listing[p].approval = "approved" /\ listing[p].active /\ ~listing[p].deleted

\* Requests of others on listing p, and on its leads.
Others(h, point) == {g \in Handlers \ {h} : handler[g].at \in point}
Editing(h, p) == \E g \in Others(h, {"edit"}) : handler[g].listing = p

---------------------------------------------------------------------------
(* The admin's desk: one existence check, one UPDATE ... WHERE deleted_at IS NULL *)

SetListing(h, p, row) ==
  /\ ~listing[p].deleted
  /\ Call(h, Waiting)
  /\ listing' = [listing EXCEPT ![p] = row]
  /\ UNCHANGED <<buyer, told, raced, drops>>

approveProperty(h, p) ==
  /\ SetListing(h, p, [listing[p] EXCEPT !.approval = "approved", !.seen = TRUE])
  /\ crossed' = IF Editing(h, p) THEN crossed \cup {p} ELSE crossed
  /\ UNCHANGED cut

rejectProperty(h, p) ==
  /\ SetListing(h, p, [listing[p] EXCEPT !.approval = "rejected"])
  /\ UNCHANGED <<crossed, cut>>

setActive(h, p, on) ==
  /\ SetListing(h, p, [listing[p] EXCEPT !.active = on])
  /\ cut' = IF on THEN cut \cup {p} ELSE cut
  /\ UNCHANGED crossed

setFeatured(h, p, on) ==
  /\ SetListing(h, p, [listing[p] EXCEPT !.featured = on])
  /\ UNCHANGED <<crossed, cut>>

updateProperty(h, p) ==
  /\ SetListing(h, p, [listing[p] EXCEPT !.seen = TRUE])
  /\ UNCHANGED <<crossed, cut>>

\* softDelete also clears is_active; an admin's is guarded by the CRM
\* allocations (Properties), a seller's is not.
removeListing(h, p) ==
  /\ SetListing(h, p, [listing[p] EXCEPT !.deleted = TRUE, !.active = FALSE])
  /\ UNCHANGED <<crossed, cut>>

---------------------------------------------------------------------------
(* The seller *)

\* mutant: an approved listing is not refused
MutUpdateOwn(h, p) ==
  /\ ~listing[p].deleted
  /\ Call(h, [at |-> "edit", listing |-> p])
  /\ UNCHANGED <<listing, buyer, told, crossed, raced, cut, drops>>

\* updateOwn: an approved listing is refused, then the row is written.
updateOwn(h, p) ==
  /\ ~listing[p].deleted
  /\ listing[p].approval # "approved"
  /\ Call(h, [at |-> "edit", listing |-> p])
  /\ UNCHANGED <<listing, buyer, told, crossed, raced, cut, drops>>

WriteOwn(h) ==
  /\ handler[h].at = "edit"
  /\ LET p == handler[h].listing
     IN listing' = [listing EXCEPT ![p].seen = IF listing[p].deleted THEN @ ELSE FALSE]
  /\ Now(h, Waiting)
  /\ UNCHANGED <<buyer, told, crossed, raced, cut, calls, drops>>

---------------------------------------------------------------------------
(* The buyer *)

\* verify: the listing is public, the code is right (OneTimeCodes) ...
VerifyBuyer(h, p) ==
  /\ Public(p)
  /\ Call(h, [at |-> "enquire", listing |-> p])
  /\ UNCHANGED <<listing, buyer, told, crossed, raced, cut, drops>>

\* The contact page: verify asks for a code and names no listing ...
VerifyEnquiry(h) ==
  /\ Call(h, [at |-> "enquire", listing |-> NoListing])
  /\ UNCHANGED <<listing, buyer, told, crossed, raced, cut, drops>>

NewLead(p) == [listing |-> p, status |-> "new", deleted |-> FALSE, assignee |-> Nobody]

\* ... submit asks for none and inserts the lead at once.
SubmitEnquiry(h) ==
  /\ Len(buyer) < MaxBuyers
  /\ Call(h, Waiting)
  /\ buyer' = Append(buyer, NewLead(NoListing))
  /\ UNCHANGED <<listing, told, crossed, raced, cut, drops>>

\* Either verify then inserts the lead. A sale may have begun since.
CreateLead(h) ==
  /\ handler[h].at = "enquire"
  /\ Len(buyer) < MaxBuyers
  /\ LET p == handler[h].listing
     IN /\ buyer' = Append(buyer, NewLead(p))
        /\ raced' = IF p # NoListing /\ (~Public(p) \/ \E g \in Others(h, {"siblings", "hide"}) :
                                           handler[g].listing = p)
                    THEN raced \cup {Len(buyer) + 1} ELSE raced
  /\ Now(h, Waiting)
  /\ UNCHANGED <<listing, told, crossed, cut, calls, drops>>

---------------------------------------------------------------------------
(* The lead pipeline *)

MutMayMove(from, to) == to = "new" => from = "new"   \* mutant: closed leads may be reopened

\* Closed leads stay closed; a lead that moved on does not become new again.
MayMove(from, to) ==
  /\ from \in LeadTerminal => to = from
  /\ to = "new" => from = "new"

\* Two requests meet: both on this lead, or this one on a lead of a listing
\* that the other is selling.
Meets(h, l) ==
  \E g \in Others(h, {"move", "siblings", "hide"}) :
    handler[g].lead = l \/ (buyer[l].listing # NoListing /\ handler[g].listing = buyer[l].listing)

Busy(p) == {m \in DOMAIN buyer : p # NoListing /\ buyer[m].listing = p}

StartMove(h, l, to) ==
  /\ ~buyer[l].deleted
  /\ MayMove(buyer[l].status, to)
  /\ Call(h, [at |-> "move", lead |-> l, listing |-> buyer[l].listing,
              from |-> buyer[l].status, to |-> to])
  /\ raced' = IF Meets(h, l) THEN raced \cup {l} \cup Busy(buyer[l].listing) ELSE raced
  /\ UNCHANGED <<listing, buyer, told, crossed, cut, drops>>

\* The status is written, whatever it is by now. A lead newly won on a
\* listing goes on to settle the sale.
WriteMove(h) ==
  /\ handler[h].at = "move"
  /\ LET l == handler[h].lead
         sale == handler[h].to = "closed_won" /\ handler[h].from # "closed_won"
                 /\ handler[h].listing # NoListing
     IN /\ buyer' = [buyer EXCEPT ![l].status = IF buyer[l].deleted THEN @ ELSE handler[h].to]
        /\ Now(h, IF sale THEN [handler[h] EXCEPT !.at = "siblings"] ELSE Waiting)
  /\ UNCHANGED <<listing, told, crossed, raced, cut, calls, drops>>

\* mutant: only leads nobody has touched are closed
MutSiblings(l) == {m \in DOMAIN buyer \ {l} : /\ buyer[m].listing = buyer[l].listing
                                              /\ buyer[m].status = "new"
                                              /\ ~buyer[m].deleted}

\* closeSiblingsAsLost: one UPDATE of the listing's other open leads.
Siblings(l) == {m \in DOMAIN buyer \ {l} : /\ buyer[m].listing = buyer[l].listing
                                           /\ buyer[m].status \in OpenStatuses
                                           /\ ~buyer[m].deleted}

CloseSiblings(h) ==
  /\ handler[h].at = "siblings"
  /\ LET lost == Siblings(handler[h].lead)
     IN buyer' = [m \in DOMAIN buyer |-> IF m \in lost
                    THEN [buyer[m] EXCEPT !.status = "closed_lost"] ELSE buyer[m]]
  /\ Now(h, [handler[h] EXCEPT !.at = "hide"])
  /\ UNCHANGED <<listing, told, crossed, raced, cut, calls, drops>>

HideSold(h) ==
  /\ handler[h].at = "hide"
  /\ LET p == handler[h].listing
     IN listing' = [listing EXCEPT ![p].active = IF listing[p].deleted THEN @ ELSE FALSE]
  /\ Now(h, Waiting)
  /\ UNCHANGED <<buyer, told, crossed, raced, cut, calls, drops>>

removeLead(h, l) ==
  /\ ~buyer[l].deleted
  /\ Call(h, Waiting)
  /\ buyer' = [buyer EXCEPT ![l].deleted = TRUE]
  /\ UNCHANGED <<listing, told, crossed, raced, cut, drops>>

\* updateAssignment: a new assignee is checked, the row written, and the
\* assignee told unless the row already named them.
NeedsNotice(l, a) == a # Nobody /\ a # buyer[l].assignee

updateAssignment(h, l, a, noticeFails) ==
  /\ ~buyer[l].deleted
  /\ Call(h, Waiting)
  /\ buyer' = [buyer EXCEPT ![l].assignee = a]
  /\ told' = IF NeedsNotice(l, a) /\ ~noticeFails THEN told \cup {<<l, a>>} ELSE told
  /\ UNCHANGED <<listing, crossed, raced, cut, drops>>

\* The process stops, or a statement throws: nothing is taken back, and a
\* repeated closed_won does not settle the sale again.
HandlerDrops(h) ==
  /\ handler[h] # Waiting
  /\ drops < MaxDrops
  /\ drops' = drops + 1
  /\ cut' = IF handler[h].at \in {"siblings", "hide"} THEN cut \cup {handler[h].listing} ELSE cut
  /\ Now(h, Waiting)
  /\ UNCHANGED <<listing, buyer, told, crossed, raced, calls>>

\* What an idle request may be asked for, and what one at work does next.
ListingCall(h) ==
  \/ \E p \in Listed :
       \/ approveProperty(h, p) \/ rejectProperty(h, p) \/ updateProperty(h, p)
       \/ removeListing(h, p) \/ updateOwn(h, p) \/ VerifyBuyer(h, p)
       \/ \E on \in BOOLEAN : setActive(h, p, on) \/ setFeatured(h, p, on)
  \/ VerifyEnquiry(h) \/ SubmitEnquiry(h)
  \/ \E l \in DOMAIN buyer :
       \/ \E to \in Statuses : StartMove(h, l, to)
       \/ \E a \in Assignees \cup {Nobody}, fails \in BOOLEAN : updateAssignment(h, l, a, fails)
       \/ removeLead(h, l)

ListingWork(h) ==
  \/ WriteOwn(h) \/ CreateLead(h)
  \/ WriteMove(h) \/ CloseSiblings(h) \/ HideSold(h)
  \/ HandlerDrops(h)

ListingsNext ==
  \E h \in Handlers :
    \/ handler[h] = Waiting /\ ListingCall(h)
    \/ handler[h] # Waiting /\ ListingWork(h)

ListingsSpec == ListingsInit /\ [][ListingsNext]_listVars

---------------------------------------------------------------------------
ListingsTypeOK ==
  /\ listing \in [Listed -> [approval : {"pending", "approved", "rejected"}, active : BOOLEAN,
                             featured : BOOLEAN, deleted : BOOLEAN, seen : BOOLEAN]]
  /\ buyer \in Seq([listing : Listed \cup {NoListing}, status : Statuses, deleted : BOOLEAN,
                    assignee : Assignees \cup {Nobody}])

\* The public site shows only text an admin approved or wrote: a seller
\* cannot change a listing once it is live (updateOwn's NOT_EDITABLE), except
\* by an edit that was already past its check when the approval came.
PublicIsReviewed == \A p \in Listed \ crossed : Public(p) => listing[p].seen

Selling(p) == \E h \in Handlers : handler[h].at \in {"siblings", "hide"} /\ handler[h].listing = p

\* "Once a lead is won or lost you can't bump it back up" (admin/leads.js:28-31),
\* and a deal that is done leaves no other open lead on its listing, one
\* winner, and the listing off the site; unless requests met, the sale was
\* cut short or the listing was put back on the market.
SaleSettled ==
  /\ ListingsTypeOK
  /\ \A l \in DOMAIN buyer :
       LET p == buyer[l].listing
       IN buyer[l].status = "closed_won" /\ p # NoListing /\ p \notin cut
            /\ raced \cap Busy(p) = {} /\ ~Selling(p)
          => /\ ~listing[p].active
             /\ \A m \in Busy(p) \ {l} : ~buyer[m].deleted => buyer[m].status = "closed_lost"

\* A lead that is won or lost stays so (admin/leads.js:28-31), however often
\* it is handled, unless two requests handled it at once.
ClosedStays ==
  [][\A l \in DOMAIN buyer : buyer[l].status \in LeadTerminal /\ l \notin raced
       => buyer'[l].status = buyer[l].status]_listVars
==========================================================================
