----------------------------- MODULE OwnerSearch -----------------------------
(***************************************************************************)
(* The search for a person in all books at once (services/admin/           *)
(* owner_search.js): inventory, enquiries and business associates are      *)
(* asked side by side, the people on the rows found are filtered, those    *)
(* that seem to be one person are shown as one, with every record they     *)
(* were found in.  Rows come and go while the three queries run.           *)
(* A name is a sequence of words, a number or an address a word; a query   *)
(* is a word, and "contains" is having it.                                 *)
(***************************************************************************)
EXTENDS Integers, Sequences, FiniteSets, SequencesExt

CONSTANTS Asked,        \* what may be searched for
          Digits,       \* those of it that are numbers
          Empty,        \* an empty field
          FirstBooks,   \* what the tables hold at first
          NewRecords,   \* records that may be saved
          PerSourceCap, \* PER_SOURCE_CAP
          ShowLimit,    \* limit
          MaxLookups, MaxSaved   \* bounds: searches, rows written

PeopleBooks == <<"inventory", "enquiry", "business_associate">>

VARIABLES people,   \* the rows, in the order they were created: [source, id, gone, ...]
          lookup,   \* the search under way: what was asked, and what each book gave
          found,    \* what the last search answered
          written, lookups

ownerVars == <<people, lookup, found, written, lookups>>

NoLookup == [at |-> "idle"]
NoFind == [flat |-> << >>, grouped |-> << >>, rows |-> {}, q |-> Empty]

OwnerInit ==
  /\ people \in FirstBooks /\ lookup = NoLookup /\ found = NoFind
  /\ written = 0 /\ lookups = 0

-----------------------------------------------------------------------------
(* The rows of the books.  A property has an owner, a number, cards of      *)
(* contacts and key persons, and other text; an associate is one card.      *)

NoText == [owner |-> << >>, contact |-> Empty, cards |-> << >>, text |-> {}, whatsapp |-> Empty,
           designation |-> Empty]
Card(name, phones, mobiles, emails) ==
  [name |-> name, phones |-> phones, mobiles |-> mobiles, emails |-> emails]

Words(card) == ToSet(card.name) \cup ToSet(card.phones) \cup ToSet(card.mobiles) \cup ToSet(card.emails)

\* LIKE over every column and the whole of details
Hit(r, q) == \/ q \in ToSet(r.owner) \cup r.text \cup {r.contact, r.whatsapp, r.designation}
             \/ \E i \in DOMAIN r.cards : q \in Words(r.cards[i])

\* ORDER BY created_at DESC LIMIT PER_SOURCE_CAP
newest(source, q) ==
  LET hits == SelectSeq(people, LAMBDA r : r.source = source /\ ~r.gone /\ Hit(r, q))
  IN SubSeq(Reverse(hits), 1, IF Len(hits) < PerSourceCap THEN Len(hits) ELSE PerSourceCap)

searchInventory(q) == newest("inventory", q)
searchEnquiry(q) == newest("enquiry", q)
searchBusinessAssociates(q) == newest("business_associate", q)
searchBook(source, q) == CASE source = "inventory" -> searchInventory(q)
                           [] source = "enquiry" -> searchEnquiry(q)
                           [] OTHER -> searchBusinessAssociates(q)

-----------------------------------------------------------------------------
(* The people on a row *)

firstNonEmpty(fields) ==
  LET given == SelectSeq(fields, LAMBDA f : f # Empty) IN IF given = << >> THEN Empty ELSE given[1]

Person(r, name, phone, mobile, email) ==
  [source |-> r.source, id |-> r.id, name |-> name, phone |-> phone, mobile |-> mobile,
   email |-> email, whatsapp |-> Empty, designation |-> Empty]

\* the columns, then the cards that are not blank
extractPropertyCandidates(r) ==
  LET top == IF r.owner = << >> /\ r.contact = Empty THEN << >>
             ELSE <<Person(r, r.owner, r.contact, r.contact, Empty)>>
      card(c) == Person(r, c.name, firstNonEmpty(c.phones \o c.mobiles),
                        firstNonEmpty(c.mobiles), firstNonEmpty(c.emails))
      cards == [i \in DOMAIN r.cards |-> card(r.cards[i])]
      NoPerson(p) == p.name = << >> /\ p.phone = Empty /\ p.email = Empty
  IN top \o SelectSeq(cards, LAMBDA p : ~NoPerson(p))

\* mobile1, phone1, mobile2, mobile3, whatsapp: phone2 is not among them
baseCandidateFromBa(r) ==
  LET c == r.cards[1]
      numbers == SubSeq(c.mobiles, 1, 1) \o SubSeq(c.phones, 1, 1) \o SubSeq(c.mobiles, 2, Len(c.mobiles))
  IN [Person(r, c.name, firstNonEmpty(numbers \o <<r.whatsapp>>), firstNonEmpty(c.mobiles),
             firstNonEmpty(c.emails))
      EXCEPT !.whatsapp = r.whatsapp, !.designation = r.designation]

Candidates(rows) ==
  FlattenSeq([i \in DOMAIN rows |-> IF rows[i].source = "business_associate"
                                    THEN <<baseCandidateFromBa(rows[i])>>
                                    ELSE extractPropertyCandidates(rows[i])])

candidateMatches(p, q) ==
  \/ q \in ToSet(p.name) \/ q \in {p.designation, p.email}
  \/ q \in Digits /\ q \in {p.phone, p.mobile, p.whatsapp}

-----------------------------------------------------------------------------
(* One person, one suggestion *)

\* A mutant: the number goes before the name
MutDedupeKey(p) ==
  LET number == firstNonEmpty(<<p.phone, p.mobile, p.whatsapp>>)
  IN IF number # Empty THEN <<"p", number>>
     ELSE IF p.name # << >> THEN <<"n", p.name>> ELSE <<"r", p.source, p.id>>

dedupeKey(p) ==
  IF p.name # << >> THEN <<"n", p.name>>
  ELSE LET number == firstNonEmpty(<<p.phone, p.mobile, p.whatsapp>>)
       IN IF number # Empty THEN <<"p", number>> ELSE <<"r", p.source, p.id>>

Promoted == {"whatsapp", "email", "mobile", "phone", "designation"}

\* each field of the first that is empty takes the first later one that is not
FilledUp(group) ==
  [f \in DOMAIN group[1] |->
     IF f \in Promoted THEN firstNonEmpty([i \in DOMAIN group |-> group[i][f]]) ELSE group[1][f]]

\* what is seen before is left out
Distinct(items) ==
  LET add(seen, x) == IF \E i \in DOMAIN seen : seen[i] = x THEN seen ELSE Append(seen, x)
  IN FoldLeft(add, << >>, items)

Suggestions(relevant) ==
  LET keys == Distinct([i \in DOMAIN relevant |-> dedupeKey(relevant[i])])
      group(key) == SelectSeq(relevant, LAMBDA p : dedupeKey(p) = key)
      usages(g) == Distinct([i \in DOMAIN g |-> <<g[i].source, g[i].id>>])
  IN [n \in DOMAIN keys |->
        LET g == group(keys[n]) IN [id |-> dedupeKey(FilledUp(g)), primary |-> FilledUp(g), usages |-> usages(g)]]

FirstOf(s, n) == SubSeq(s, 1, IF Len(s) < n THEN Len(s) ELSE n)

-----------------------------------------------------------------------------
(* The search *)

\* "exclude" is the record being edited, or <<>>
StartOwnerSearch(q, sources, exclude) ==
  /\ lookup = NoLookup /\ lookups < MaxLookups /\ lookups' = lookups + 1
  /\ lookup' = [at |-> "asking", q |-> q, exclude |-> exclude, todo |-> sources,
                got |-> [s \in ToSet(PeopleBooks) |-> << >>]]
  /\ found' = NoFind
  /\ UNCHANGED <<people, written>>

\* Promise.all: each query on a connection of its own, in any order
AskBook(source) ==
  /\ lookup.at = "asking" /\ source \in lookup.todo
  /\ lookup' = [lookup EXCEPT !.todo = @ \ {source}, !.got[source] = searchBook(source, lookup.q)]
  /\ UNCHANGED <<people, found, written, lookups>>

Relevant ==
  LET rows == FlattenSeq([i \in DOMAIN PeopleBooks |-> lookup.got[PeopleBooks[i]]])
  IN SelectSeq(Candidates(rows), LAMBDA p : /\ <<p.source, p.id>> # lookup.exclude
                                            /\ candidateMatches(p, lookup.q))

\* both answers the caller may ask for: the flat list, and a list for each source
AnswerOwnerSearch ==
  /\ lookup.at = "asking" /\ lookup.todo = {}
  /\ LET all == Suggestions(Relevant)
         bucket(s) == FirstOf(SelectSeq(all, LAMBDA x : x.primary.source = s), ShowLimit)
     IN found' = [flat |-> FirstOf(all, ShowLimit),
                  grouped |-> [i \in DOMAIN PeopleBooks |-> bucket(PeopleBooks[i])],
                  rows |-> UNION {ToSet(lookup.got[s]) : s \in ToSet(PeopleBooks)}, q |-> lookup.q,
                  exclude |-> lookup.exclude, all |-> Len(all)]
  /\ lookup' = NoLookup
  /\ UNCHANGED <<people, written, lookups>>

\* rows that others save and delete meanwhile
SaveRecord(r) ==
  /\ written < MaxSaved /\ written' = written + 1
  /\ LET id == 1 + Len(SelectSeq(people, LAMBDA x : x.source = r.source))
     IN people' = Append(people, [r EXCEPT !.id = id])
  /\ UNCHANGED <<lookup, found, lookups>>

DropRecord(i) ==
  /\ ~people[i].gone /\ written < MaxSaved /\ written' = written + 1
  /\ people' = [people EXCEPT ![i].gone = TRUE]
  /\ UNCHANGED <<lookup, found, lookups>>

OwnerNext ==
  \/ \E q \in Asked, sources \in {ToSet(PeopleBooks), {"inventory", "enquiry"}},
        exclude \in {<< >>} \cup {<<people[i].source, people[i].id>> : i \in DOMAIN people} :
       StartOwnerSearch(q, sources, exclude)
  \/ \E s \in ToSet(PeopleBooks) : AskBook(s)
  \/ AnswerOwnerSearch
  \/ \E r \in NewRecords : SaveRecord(r)
  \/ \E i \in DOMAIN people : DropRecord(i)

-----------------------------------------------------------------------------
Answered == found # NoFind
Suggested == ToSet(found.flat)
UsedIn == UNION {ToSet(s.usages) : s \in Suggested}

\* A person whose name, first address or first number is asked for is on the
\* list, for every row that names him, under one entry only, which lists no row
\* twice - as long as neither the rows nor the entries are cut off; the record
\* being edited never is.
EveryoneFound ==
  Answered =>
    /\ \A r \in found.rows :
         (/\ <<r.source, r.id>> # found.exclude /\ found.all <= ShowLimit
          /\ \/ found.q \in ToSet(r.owner) \cup {r.contact}
             \/ \E i \in DOMAIN r.cards :
                  LET c == r.cards[i]
                  IN found.q \in ToSet(c.name) \cup {firstNonEmpty(c.mobiles), firstNonEmpty(c.emails)})
         => <<r.source, r.id>> \in UsedIn
    /\ found.exclude \notin UsedIn
    /\ \A s, t \in Suggested : s.id = t.id => s = t
    /\ \A s \in Suggested : Len(s.usages) = Cardinality(ToSet(s.usages))

\* Nobody is shown who does not fit the question himself ("a candidate person on
\* that same row who doesn't personally match the query would leak through",
\* owner_search.js:171-177), and each field of an entry stands on a row that the
\* entry lists under "used in".
Fits(r, name, q) ==
  \/ r.owner = name /\ q \in ToSet(name) \cup {r.contact}
  \/ \E i \in DOMAIN r.cards :
       r.cards[i].name = name /\ q \in Words(r.cards[i]) \cup {r.whatsapp, r.designation}
ContactsAreTheirs ==
  Answered =>
    \A s \in Suggested :
      /\ <<s.primary.source, s.primary.id>> \in ToSet(s.usages)
      /\ \A r \in found.rows :
           <<r.source, r.id>> \in ToSet(s.usages) => Fits(r, s.primary.name, found.q)
      /\ \A f \in Promoted : s.primary[f] # Empty =>
           \E r \in found.rows : <<r.source, r.id>> \in ToSet(s.usages) /\ Hit(r, s.primary[f])

\* The lists by source hold what the flat list holds, each entry once.
BucketsPartition ==
  Answered /\ found.all <= ShowLimit =>
    /\ ToSet(FlattenSeq(found.grouped)) = Suggested
    /\ Len(FlattenSeq(found.grouped)) = Len(found.flat)

OwnerTypeOK ==
  /\ \A i \in DOMAIN people : people[i].source \in ToSet(PeopleBooks) /\ people[i].gone \in BOOLEAN
  /\ lookups <= MaxLookups /\ written <= MaxSaved

\* What the search for a person promises, in its parts.
OwnersSound == OwnerTypeOK /\ EveryoneFound /\ ContactsAreTheirs /\ BucketsPartition
=============================================================================
