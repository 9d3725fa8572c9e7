------------------------ MODULE DuplicateResolver ------------------------
(***************************************************************************)
(* services/crm/duplicateResolver.js: every new website lead or enquiry    *)
(* property is filed in the CRM as an enquiry of a parent (a person known  *)
(* by mobile, by email or by both), or staged as a conflict when its       *)
(* mobile and its email belong to two parents; an admin then attaches the  *)
(* staged enquiry to one of them.                                          *)
(*                                                                         *)
(* A request is a transaction: what it inserts becomes visible with its    *)
(* commit, what it locked (parents, the conflict, the row of the code      *)
(* sequence) is released with it.                                          *)
(***************************************************************************)
EXTENDS Naturals, Sequences, FiniteSets

CONSTANTS
  Mobiles, Emails,     \* normalised keys
  NoKey,               \* SQL NULL
  Sources,             \* rows of leads and enquiry_properties
  Ingesters,           \* requests that may run at once
  MaxIngests,          \* requests ever made
  MaxLost              \* transactions that may be rolled back

VARIABLES
  parent,     \* crm_parents
  enquiry,    \* crm_enquiries, with the conflict each was staged in (0: none)
  conflict,   \* crm_duplicate_conflicts
  nextSeq,    \* crm_enquiry_sequence
  ing,        \* the requests' program points and local variables
  made, lost  \* bounds only

crmVars == <<parent, enquiry, conflict, nextSeq, ing, made, lost>>

Quiet == [at |-> "idle"]

\* A number as typed: shorter than ten digits it identifies nobody, longer
\* it stands for its last ten digits, whatever the country prefix.
RawMobiles == [local : Mobiles, digits : {8, 10, 12}]
normalizeMobile(raw) == IF raw.digits < 10 THEN NoKey ELSE raw.local

\* An address as typed: case does not count, one without an @ is no address.
RawEmails == [mailbox : Emails, at : BOOLEAN]
normalizeEmail(raw) == IF raw.at THEN raw.mailbox ELSE NoKey

\* Rows: at most one has the key, by the UNIQUE indexes of migration 101.
FindByMobile(m) == {i \in DOMAIN parent : m # NoKey /\ parent[i].mobile = m}
FindByEmail(e) == {i \in DOMAIN parent : e # NoKey /\ parent[i].email = e}
FindBySource(s) == {i \in DOMAIN enquiry : enquiry[i].source = s}

SameKey(p, q) == \/ p.mobile # NoKey /\ p.mobile = q.mobile
                 \/ p.email # NoKey /\ p.email = q.email

\* Transactions other than r's with a row locked or inserted for a person r
\* also looks for; r's SELECT ... FOR UPDATE and INSERT wait for them.
Holders(r, person) ==
  {q \in Ingesters \ {r} : /\ ing[q].at \in {"code", "file"}
                           /\ ing[q].conflict = 0
                           /\ SameKey(ing[q].person, person)}

MutSequenceFree(r) == TRUE   \* mutant: SELECT next_seq without FOR UPDATE

SequenceFree(r) == \A q \in Ingesters \ {r} : ing[q].at # "file"

IngestInit ==
  /\ parent = <<>>
  /\ enquiry = <<>>
  /\ conflict = <<>>
  /\ nextSeq = 1
  /\ ing = [r \in Ingesters |-> Quiet]
  /\ made = 0
  /\ lost = 0

Request(r, next) ==
  /\ ing[r] = Quiet
  /\ made < MaxIngests
  /\ made' = made + 1
  /\ ing' = [ing EXCEPT ![r] = next]

\* ingest: the source type is one of two, and a payload without a source row
\* must identify somebody; the callers always pass the row they just created,
\* and none passes a row while another request files it.
StartIngest(r, rawMobile, rawEmail, source) ==
  /\ \A q \in Ingesters : ing[q] # Quiet => ing[q].source # source
  /\ Request(r, [at |-> "look", source |-> source, conflict |-> 0, parent |-> 0,
                 code |-> 0, person |-> [mobile |-> normalizeMobile(rawMobile),
                                         email |-> normalizeEmail(rawEmail)]])
  /\ UNCHANGED <<parent, enquiry, conflict, nextSeq, lost>>

Anonymous(r) == ing[r].person = [mobile |-> NoKey, email |-> NoKey]

\* No identity: a source that was filed before is left as it is, any other
\* gets a parent of its own with no keys.
LookAnonymous(r) ==
  /\ ing[r].at = "look"
  /\ Anonymous(r)
  /\ ing' = [ing EXCEPT ![r] = IF FindBySource(@.source) # {} THEN Quiet
                               ELSE [@ EXCEPT !.at = "code"]]
  /\ UNCHANGED <<parent, enquiry, conflict, nextSeq, made, lost>>

\* Case E: mobile and email are two people. Staged, nothing is filed.
Stage(r, a, b) ==
  /\ conflict' = Append(conflict, [a |-> a, b |-> b, source |-> ing[r].source,
                                   resolved |-> 0])
  /\ ing' = [ing EXCEPT ![r] = Quiet]
  /\ UNCHANGED <<parent, enquiry, nextSeq, made, lost>>

\* Cases A, B, C and D: the parent both keys agree on, the one a single key
\* finds, or none yet.
LookUp(r) ==
  /\ ing[r].at = "look"
  /\ ~Anonymous(r)
  /\ Holders(r, ing[r].person) = {}
  /\ LET m == FindByMobile(ing[r].person.mobile)
         e == FindByEmail(ing[r].person.email)
     IN \/ \E a \in m, b \in e : a # b /\ Stage(r, a, b)
        \/ /\ ~ \E a \in m, b \in e : a # b
           /\ ing' = [ing EXCEPT ![r] =
                IF m \cup e = {} THEN [@ EXCEPT !.at = "insert"]
                ELSE [@ EXCEPT !.at = "code", !.parent = CHOOSE i \in m \cup e : TRUE]]
           /\ UNCHANGED <<parent, enquiry, conflict, nextSeq, made, lost>>

\* The INSERT of a new parent. Another request may have inserted the person
\* since the lookup: ER_DUP_ENTRY, and the row that is there is taken, the
\* one with the mobile first.
InsertParent(r) ==
  /\ ing[r].at = "insert"
  /\ Holders(r, ing[r].person) = {}
  /\ LET m == FindByMobile(ing[r].person.mobile)
         e == FindByEmail(ing[r].person.email)
         found == IF m # {} THEN m ELSE e
     IN ing' = [ing EXCEPT ![r].at = "code",
                           ![r].parent = IF found = {} THEN 0
                                         ELSE CHOOSE i \in found : TRUE]
  /\ UNCHANGED <<parent, enquiry, conflict, nextSeq, made, lost>>

\* The next code of the year; the row stays locked until the commit.
NextEnquiryCode(r) ==
  /\ ing[r].at = "code"
  /\ SequenceFree(r)
  /\ ing' = [ing EXCEPT ![r].at = "file", ![r].code = nextSeq]
  /\ UNCHANGED <<parent, enquiry, conflict, nextSeq, made, lost>>

\* The id the INSERT of a new parent returns.
InsertId == Len(parent) + 1

\* Parent (when it is new), enquiry, first history entry, conflict (when it
\* is resolved): all of it with the commit.
FileEnquiry(r) ==
  /\ ing[r].at = "file"
  /\ LET new == ing[r].parent = 0
         c == ing[r].conflict
     IN /\ parent' = IF new THEN Append(parent, ing[r].person) ELSE parent
        /\ enquiry' = Append(enquiry,
             [parent |-> IF new THEN InsertId ELSE ing[r].parent,
              code |-> ing[r].code, source |-> ing[r].source, conflict |-> c])
        /\ conflict' = IF c = 0 THEN conflict
                       ELSE [conflict EXCEPT ![c].resolved = Len(enquiry) + 1]
  /\ nextSeq' = ing[r].code + 1
  /\ ing' = [ing EXCEPT ![r] = Quiet]
  /\ UNCHANGED <<made, lost>>

\* resolveConflict: the conflict is locked and read; resolved already, the
\* request ends; otherwise the target must be one of its two parents.
ConflictFree(c) == \A q \in Ingesters : ing[q] # Quiet => ing[q].conflict # c

StartResolve(r, c, target) ==
  /\ ConflictFree(c)
  /\ target \in {conflict[c].a, conflict[c].b}
  /\ Request(r, IF conflict[c].resolved # 0 THEN Quiet
                ELSE [at |-> "code", source |-> conflict[c].source, conflict |-> c,
                      parent |-> target, code |-> 0,
                      person |-> [mobile |-> NoKey, email |-> NoKey]])
  /\ UNCHANGED <<parent, enquiry, conflict, nextSeq, lost>>

\* A statement throws, is the victim of a deadlock, or the process stops.
IngestRollback(r) ==
  /\ ing[r] # Quiet
  /\ lost < MaxLost
  /\ lost' = lost + 1
  /\ ing' = [ing EXCEPT ![r] = Quiet]
  /\ UNCHANGED <<parent, enquiry, conflict, nextSeq, made>>

IngestNext ==
  \E r \in Ingesters :
    \/ \E m \in RawMobiles, e \in RawEmails, s \in Sources : StartIngest(r, m, e, s)
    \/ LookAnonymous(r)
    \/ LookUp(r)
    \/ InsertParent(r)
    \/ NextEnquiryCode(r)
    \/ FileEnquiry(r)
    \/ \E c \in DOMAIN conflict : \E p \in DOMAIN parent : StartResolve(r, c, p)
    \/ IngestRollback(r)

IngestSpec == IngestInit /\ [][IngestNext]_crmVars

---------------------------------------------------------------------------
IngestTypeOK ==
  /\ parent \in Seq([mobile : Mobiles \cup {NoKey}, email : Emails \cup {NoKey}])
  /\ \A i \in DOMAIN enquiry : enquiry[i].parent \in DOMAIN parent
  /\ \A c \in DOMAIN conflict : {conflict[c].a, conflict[c].b} \subseteq DOMAIN parent
  /\ nextSeq \in Nat

\* Nobody is two parents: no key is shared, however ingestions of the same
\* person overlap (the lookup at duplicateResolver.js:176 may be stale).
OneParentPerKey == \A i, j \in DOMAIN parent : SameKey(parent[i], parent[j]) => i = j

\* A staged enquiry is filed at most once, under one of the two parents the
\* conflict was about, and the conflict names the enquiry.
ConflictFiledOnce ==
  \A c \in DOMAIN conflict :
    LET filed == {i \in DOMAIN enquiry : enquiry[i].conflict = c}
    IN /\ filed = IF conflict[c].resolved = 0 THEN {} ELSE {conflict[c].resolved}
       /\ \A i \in filed : enquiry[i].parent \in {conflict[c].a, conflict[c].b}

\* Enquiry codes are issued once, and a rolled back request burns none.
CodesGapless == \A i \in DOMAIN enquiry : enquiry[i].code = i

\* What ingestion promises, in its three parts.
IngestionSound == IngestTypeOK /\ OneParentPerKey /\ ConflictFiledOnce /\ CodesGapless
==========================================================================
