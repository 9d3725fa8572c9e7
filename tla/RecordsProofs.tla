---------------------------- MODULE RecordsProofs ----------------------------
(***************************************************************************)
(* Proofs about the records of the back office: the filing of enquiries in *)
(* the CRM, the listings of sellers with their leads, property codes, the  *)
(* masters, the places with their import, and their cached search, for     *)
(* every number of requests, rows, lines and keys.                         *)
(***************************************************************************)
EXTENDS MCRecords, SumLemmas, FiniteSetTheorems, SequenceTheorems, TLAPS

-----------------------------------------------------------------------------
(* Ingestion.                                                                *)

Persons   == [mobile : Mobiles \cup {NoKey}, email : Emails \cup {NoKey}]
Enquiries == [parent : Nat, code : Nat, source : Sources, conflict : Nat]
Conflicts == [a : Nat, b : Nat, source : Sources, resolved : Nat]
Filings   == [at : {"look", "insert", "code", "file"}, source : Sources, conflict : Nat,
              parent : Nat, code : Nat, person : Persons]

\* Rows point at rows that are there.
IngestTypes ==
  /\ parent \in Seq(Persons) /\ enquiry \in Seq(Enquiries) /\ conflict \in Seq(Conflicts)
  /\ nextSeq = Len(enquiry) + 1
  /\ ing \in [Ingesters -> {Quiet} \cup Filings]
  /\ \A i \in 1..Len(enquiry) : enquiry[i].parent \in 1..Len(parent) /\ enquiry[i].conflict \in 0..Len(conflict)
  /\ \A n \in 1..Len(conflict) : {conflict[n].a, conflict[n].b} \subseteq 1..Len(parent)
  /\ \A r \in Ingesters : ing[r] # Quiet => ing[r].parent \in 0..Len(parent) /\ ing[r].conflict \in 0..Len(conflict)

Filing(x) == x.at \in {"code", "file"}

\* Who is about to insert a parent holds its keys: no row and no other such
\* request has them.
PersonInv ==
  /\ OneParentPerKey
  /\ \A r \in Ingesters : Filing(ing[r]) /\ ing[r].parent = 0 =>
       /\ ing[r].conflict = 0
       /\ \A i \in 1..Len(parent) : ~SameKey(parent[i], ing[r].person)
       /\ \A s \in Ingesters \ {r} : Filing(ing[s]) /\ ing[s].conflict = 0 =>
            ~SameKey(ing[s].person, ing[r].person)

\* One request at a time has the row of the sequence, and its next code.
CodeInv ==
  /\ CodesGapless
  /\ \A r \in Ingesters : ing[r].at = "file" =>
       ing[r].code = nextSeq /\ \A s \in Ingesters : ing[s].at = "file" => s = r

\* Who resolves a conflict holds it, unresolved, and files under one of its two.
ConflictInv ==
  /\ ConflictFiledOnce
  /\ \A r \in Ingesters : ing[r] # Quiet /\ ing[r].conflict # 0 =>
       /\ Filing(ing[r])
       /\ conflict[ing[r].conflict].resolved = 0
       /\ ing[r].parent \in {conflict[ing[r].conflict].a, conflict[ing[r].conflict].b}
       /\ \A s \in Ingesters : ing[s] # Quiet /\ ing[s].conflict = ing[r].conflict => s = r

IngestInv == IngestTypes /\ PersonInv /\ CodeInv /\ ConflictInv

\* What a request that is not at rest holds.
LEMMA FilingKinds ==
  ASSUME IngestTypes, NEW r \in Ingesters
  PROVE  /\ ing[r] \in {Quiet} \cup Filings /\ (ing[r] = Quiet <=> ing[r].at = "idle")
         /\ ing[r] # Quiet => ing[r] \in Filings /\ ing[r].parent \in 0..Len(parent)
                              /\ ing[r].conflict \in 0..Len(conflict)
         /\ Filing(ing[r]) => ing[r] # Quiet
<1>1. ing[r] \in {Quiet} \cup Filings
  BY DEF IngestTypes
<1>2. Quiet.at = "idle" /\ \A x \in Filings : x.at # "idle"
  BY DEF Quiet, Filings
<1>3. ing[r] = Quiet <=> ing[r].at = "idle"
  BY <1>1, <1>2
<1>4. ing[r] # Quiet => ing[r].parent \in 0..Len(parent) /\ ing[r].conflict \in 0..Len(conflict)
  BY DEF IngestTypes
<1>5. Filing(ing[r]) => ing[r] # Quiet
  BY <1>3 DEF Filing
<1> QED BY <1>1, <1>3, <1>4, <1>5

\* Rows are numbered from 1.
LEMMA IngestRows ==
  ASSUME IngestTypes
  PROVE  /\ DOMAIN parent = 1..Len(parent) /\ Len(parent) \in Nat /\ \A i \in 1..Len(parent) : parent[i] \in Persons
         /\ DOMAIN enquiry = 1..Len(enquiry) /\ Len(enquiry) \in Nat
         /\ \A i \in 1..Len(enquiry) : enquiry[i] \in Enquiries
         /\ DOMAIN conflict = 1..Len(conflict) /\ Len(conflict) \in Nat
         /\ \A i \in 1..Len(conflict) : conflict[i] \in Conflicts
BY DEF IngestTypes

\* A request goes on, and writes no row.
LEMMA IngestTurn ==
  ASSUME IngestInv, NEW r \in Ingesters, NEW x \in {Quiet} \cup Filings, ing' = [ing EXCEPT ![r] = x],
         UNCHANGED <<parent, enquiry, conflict, nextSeq>>,
         x # Quiet => x.parent \in 0..Len(parent) /\ x.conflict \in 0..Len(conflict),
         Filing(x) /\ x.parent = 0 =>
           /\ x.conflict = 0
           /\ \A i \in 1..Len(parent) : ~SameKey(parent[i], x.person),
         Filing(x) /\ x.conflict = 0 =>
           \A s \in Ingesters \ {r} :
             Filing(ing[s]) /\ ing[s].conflict = 0 /\ (ing[s].parent = 0 \/ x.parent = 0) =>
               ~SameKey(ing[s].person, x.person) /\ ~SameKey(x.person, ing[s].person),
         x.at = "file" => x.code = nextSeq /\ \A s \in Ingesters \ {r} : ing[s].at # "file",
         x # Quiet /\ x.conflict # 0 =>
           /\ Filing(x) /\ conflict[x.conflict].resolved = 0
           /\ x.parent \in {conflict[x.conflict].a, conflict[x.conflict].b}
           /\ \A s \in Ingesters \ {r} : ing[s] # Quiet => ing[s].conflict # x.conflict
  PROVE  IngestInv'
<1>1. IngestTypes /\ PersonInv /\ CodeInv /\ ConflictInv
  BY DEF IngestInv
<1>2. /\ ing' \in [Ingesters -> {Quiet} \cup Filings]
      /\ ing'[r] = x /\ \A s \in Ingesters \ {r} : ing'[s] = ing[s]
  BY <1>1 DEF IngestTypes
<1>3. \A s \in Ingesters : (s = r /\ ing'[s] = x) \/ (s # r /\ ing'[s] = ing[s])
  BY <1>2
<1>4. IngestTypes'
  BY <1>1, <1>2, <1>3 DEF IngestTypes
<1>5. PersonInv'
  <2>1. OneParentPerKey'
    BY <1>1 DEF PersonInv, OneParentPerKey
  <2>2. ASSUME NEW s \in Ingesters, Filing(ing'[s]), ing'[s].parent = 0
        PROVE  /\ ing'[s].conflict = 0
               /\ \A i \in 1..Len(parent) : ~SameKey(parent[i], ing'[s].person)
               /\ \A t \in Ingesters \ {s} : Filing(ing'[t]) /\ ing'[t].conflict = 0 =>
                    ~SameKey(ing'[t].person, ing'[s].person)
    <3>1. CASE s = r
      BY <1>3, <2>2, <3>1
    <3>2. CASE s # r
      <4>1. /\ ing[s].conflict = 0 /\ ing'[s] = ing[s]
            /\ \A i \in 1..Len(parent) : ~SameKey(parent[i], ing[s].person)
            /\ \A t \in Ingesters \ {s} : Filing(ing[t]) /\ ing[t].conflict = 0 =>
                 ~SameKey(ing[t].person, ing[s].person)
        BY <1>1, <1>3, <2>2, <3>2 DEF PersonInv
      <4>2. ASSUME NEW t \in Ingesters \ {s}, Filing(ing'[t]), ing'[t].conflict = 0
            PROVE  ~SameKey(ing'[t].person, ing[s].person)
        <5>1. CASE t = r
          BY <1>3, <2>2, <3>2, <4>1, <4>2, <5>1
        <5>2. CASE t # r
          BY <1>3, <4>1, <4>2, <5>2
        <5> QED BY <5>1, <5>2
      <4> QED BY <4>1, <4>2
    <3> QED BY <3>1, <3>2
  <2> QED BY <2>1, <2>2 DEF PersonInv
<1>6. CodeInv'
  <2>1. CodesGapless'
    BY <1>1 DEF CodeInv, CodesGapless
  <2>2. ASSUME NEW s \in Ingesters, ing'[s].at = "file"
        PROVE  ing'[s].code = nextSeq /\ \A t \in Ingesters : ing'[t].at = "file" => t = s
    BY <1>1, <1>3, <2>2 DEF CodeInv
  <2> QED BY <2>1, <2>2 DEF CodeInv
<1>7. ConflictInv'
  <2>1. ConflictFiledOnce'
    BY <1>1 DEF ConflictInv, ConflictFiledOnce
  <2>2. ASSUME NEW s \in Ingesters, ing'[s] # Quiet, ing'[s].conflict # 0
        PROVE  /\ Filing(ing'[s]) /\ conflict[ing'[s].conflict].resolved = 0
               /\ ing'[s].parent \in {conflict[ing'[s].conflict].a, conflict[ing'[s].conflict].b}
               /\ \A t \in Ingesters : ing'[t] # Quiet /\ ing'[t].conflict = ing'[s].conflict => t = s
    <3>1. CASE s = r
      BY <1>3, <2>2, <3>1
    <3>2. CASE s # r
      BY <1>1, <1>3, <2>2, <3>2 DEF ConflictInv
    <3> QED BY <3>1, <3>2
  <2>3. Quiet' = Quiet
    BY DEF Quiet
  <2> QED BY <2>1, <2>2, <2>3 DEF ConflictInv
<1> QED BY <1>4, <1>5, <1>6, <1>7 DEF IngestInv

\* A number typed and an address typed stand for keys.
LEMMA Keys ==
  ASSUME NEW m \in RawMobiles, NEW e \in RawEmails
  PROVE  [mobile |-> normalizeMobile(m), email |-> normalizeEmail(e)] \in Persons
<1>1. normalizeMobile(m) \in Mobiles \cup {NoKey}
  BY DEF RawMobiles, normalizeMobile
<1>2. normalizeEmail(e) \in Emails \cup {NoKey}
  BY DEF RawEmails, normalizeEmail
<1> QED BY <1>1, <1>2 DEF Persons

\* Sharing a key goes both ways, and nobody shares one with a stranger.
LEMMA KeyShared ==
  ASSUME NEW p, NEW q
  PROVE  /\ SameKey(p, q) => SameKey(q, p)
         /\ p.mobile = NoKey /\ p.email = NoKey => ~SameKey(p, q) /\ ~SameKey(q, p)
BY DEF SameKey

\* A request starts to file a row.
LEMMA StartIngestStep ==
  ASSUME IngestInv, NEW r \in Ingesters, NEW m \in RawMobiles, NEW e \in RawEmails, NEW source \in Sources,
         StartIngest(r, m, e, source)
  PROVE  IngestInv'
<1> DEFINE x == [at |-> "look", source |-> source, conflict |-> 0, parent |-> 0, code |-> 0,
                 person |-> [mobile |-> normalizeMobile(m), email |-> normalizeEmail(e)]]
<1>1. ing' = [ing EXCEPT ![r] = x] /\ UNCHANGED <<parent, enquiry, conflict, nextSeq>>
  BY DEF StartIngest, Request
<1>2. x \in Filings
  BY Keys DEF Filings
<1>3. x.at = "look" /\ x.conflict = 0 /\ x.parent = 0 /\ ~Filing(x)
  BY DEF Filing
<1>4. 0 \in 0..Len(parent) /\ 0 \in 0..Len(conflict)
  BY IngestRows DEF IngestInv
<1> HIDE DEF x
<1> QED BY <1>1, <1>2, <1>3, <1>4, IngestTurn

\* Whoever is nobody files under a parent without keys.
LEMMA LookAnonymousStep ==
  ASSUME IngestInv, NEW r \in Ingesters, LookAnonymous(r)
  PROVE  IngestInv'
<1> DEFINE x == IF FindBySource(ing[r].source) # {} THEN Quiet ELSE [ing[r] EXCEPT !.at = "code"]
<1>1. IngestTypes /\ ConflictInv
  BY DEF IngestInv
<1>2. ing' = [ing EXCEPT ![r] = x] /\ UNCHANGED <<parent, enquiry, conflict, nextSeq>>
  BY DEF LookAnonymous
<1>3. CASE FindBySource(ing[r].source) # {}
  <2>1. x = Quiet /\ Quiet.at = "idle" /\ ~Filing(Quiet)
    BY <1>3 DEF Quiet, Filing
  <2> HIDE DEF x
  <2> QED BY <1>2, <2>1, IngestTurn
<1>4. CASE FindBySource(ing[r].source) = {}
  <2>1. /\ ing[r] \in Filings /\ ing[r].conflict = 0 /\ ing[r].parent \in 0..Len(parent)
        /\ ing[r].person.mobile = NoKey /\ ing[r].person.email = NoKey
    <3>1. ing[r].at = "look" /\ ing[r].person = [mobile |-> NoKey, email |-> NoKey]
      BY DEF LookAnonymous, Anonymous
    <3>2. ing[r] # Quiet /\ ~Filing(ing[r])
      BY <3>1 DEF Quiet, Filing
    <3> QED BY <1>1, <3>1, <3>2, FilingKinds DEF ConflictInv
  <2>2. x = [ing[r] EXCEPT !.at = "code"]
    BY <1>4
  <2>3. /\ x \in Filings /\ x.at = "code" /\ x.conflict = 0 /\ x.parent = ing[r].parent
        /\ x.person = ing[r].person
    BY <2>1, <2>2 DEF Filings
  <2>4. 0 \in 0..Len(conflict)
    BY <1>1, IngestRows
  <2> HIDE DEF x
  <2>5. \A p : ~SameKey(p, x.person) /\ ~SameKey(x.person, p)
    BY <2>1, <2>3, KeyShared
  <2> QED BY <1>2, <2>1, <2>3, <2>4, <2>5, IngestTurn
<1> QED BY <1>3, <1>4

\* A transaction is rolled back.
LEMMA IngestRollbackStep ==
  ASSUME IngestInv, NEW r \in Ingesters, IngestRollback(r)
  PROVE  IngestInv'
<1>1. ing' = [ing EXCEPT ![r] = Quiet] /\ UNCHANGED <<parent, enquiry, conflict, nextSeq>>
  BY DEF IngestRollback
<1>2. Quiet.at = "idle" /\ ~Filing(Quiet)
  BY DEF Quiet, Filing
<1> QED BY <1>1, <1>2, IngestTurn

\* The next code is taken by one request at a time.
LEMMA NextEnquiryCodeStep ==
  ASSUME IngestInv, NEW r \in Ingesters, NextEnquiryCode(r)
  PROVE  IngestInv'
<1> DEFINE x == [ing[r] EXCEPT !.at = "file", !.code = nextSeq]
<1>1. IngestTypes /\ PersonInv /\ ConflictInv
  BY DEF IngestInv
<1>2. ing' = [ing EXCEPT ![r] = x] /\ UNCHANGED <<parent, enquiry, conflict, nextSeq>>
  BY DEF NextEnquiryCode
<1>3. ing[r].at = "code" /\ \A s \in Ingesters \ {r} : ing[s].at # "file"
  BY DEF NextEnquiryCode, SequenceFree
<1>4. Filing(ing[r]) /\ ing[r] # Quiet
  BY <1>3 DEF Filing, Quiet
<1>5. ing[r] \in Filings /\ ing[r].parent \in 0..Len(parent) /\ ing[r].conflict \in 0..Len(conflict)
  BY <1>1, <1>4, FilingKinds
<1>6. nextSeq \in Nat
  BY <1>1, IngestRows DEF IngestTypes
<1>7. /\ x \in Filings /\ x.at = "file" /\ x.code = nextSeq /\ x.conflict = ing[r].conflict
      /\ x.parent = ing[r].parent /\ x.person = ing[r].person
  BY <1>5, <1>6 DEF Filings
<1> HIDE DEF x
<1>8. Filing(x) /\ x.parent = 0 =>
        x.conflict = 0 /\ \A i \in 1..Len(parent) : ~SameKey(parent[i], x.person)
  BY <1>1, <1>4, <1>7 DEF PersonInv
<1>9. ASSUME x.conflict = 0, NEW s \in Ingesters \ {r}, Filing(ing[s]), ing[s].conflict = 0,
             ing[s].parent = 0 \/ x.parent = 0
      PROVE  ~SameKey(ing[s].person, x.person) /\ ~SameKey(x.person, ing[s].person)
  BY <1>1, <1>4, <1>7, <1>9, KeyShared DEF PersonInv
<1>10. x.conflict # 0 =>
         /\ Filing(x) /\ conflict[x.conflict].resolved = 0
         /\ x.parent \in {conflict[x.conflict].a, conflict[x.conflict].b}
         /\ \A s \in Ingesters \ {r} : ing[s] # Quiet => ing[s].conflict # x.conflict
  <2>1. Filing(x)
    BY <1>7 DEF Filing
  <2> QED BY <1>1, <1>4, <1>7, <2>1 DEF ConflictInv
<1> QED BY <1>2, <1>3, <1>5, <1>7, <1>8, <1>9, <1>10, IngestTurn

\* What the lookups by key find.
LEMMA Found ==
  ASSUME IngestTypes, NEW p
  PROVE  /\ FindByMobile(p.mobile) \subseteq 1..Len(parent) /\ FindByEmail(p.email) \subseteq 1..Len(parent)
         /\ FindByMobile(p.mobile) \cup FindByEmail(p.email) = {} =>
              \A i \in 1..Len(parent) : ~SameKey(parent[i], p)
BY IngestRows DEF FindByMobile, FindByEmail, SameKey

\* A request that waits for nobody shares no key with one that files.
LEMMA NobodyHolds ==
  ASSUME NEW r \in Ingesters, NEW p, Holders(r, p) = {}
  PROVE  \A s \in Ingesters \ {r} : Filing(ing[s]) /\ ing[s].conflict = 0 =>
           ~SameKey(ing[s].person, p) /\ ~SameKey(p, ing[s].person)
BY KeyShared DEF Holders, Filing

\* The request finds its parent, or becomes the one that inserts it.
LEMMA ParentSettled ==
  ASSUME IngestInv, NEW r \in Ingesters, ing[r] \in Filings, ing[r].conflict = 0,
         Holders(r, ing[r].person) = {}, NEW n \in 0..Len(parent),
         n = 0 => \A i \in 1..Len(parent) : ~SameKey(parent[i], ing[r].person),
         ing' = [ing EXCEPT ![r] = [ing[r] EXCEPT !.at = "code", !.parent = n]],
         UNCHANGED <<parent, enquiry, conflict, nextSeq>>
  PROVE  IngestInv'
<1> DEFINE x == [ing[r] EXCEPT !.at = "code", !.parent = n]
<1>1. n \in Nat /\ 0 \in 0..Len(conflict)
  BY IngestRows DEF IngestInv
<1>2. x \in Filings /\ x.at = "code" /\ x.conflict = 0 /\ x.parent = n /\ x.person = ing[r].person
  BY <1>1 DEF Filings
<1>3. \A s \in Ingesters \ {r} : Filing(ing[s]) /\ ing[s].conflict = 0 =>
        ~SameKey(ing[s].person, x.person) /\ ~SameKey(x.person, ing[s].person)
  BY <1>2, NobodyHolds
<1>4. ing' = [ing EXCEPT ![r] = x]
  OBVIOUS
<1> HIDE DEF x
<1> QED BY ZenonT(60), <1>1, <1>2, <1>3, <1>4, IngestTurn

\* A request that looks up somebody, or waits to insert him, resolves nothing.
LEMMA NotFilingYet ==
  ASSUME IngestInv, NEW r \in Ingesters, ing[r].at \in {"look", "insert"}
  PROVE  ing[r] \in Filings /\ ing[r].conflict = 0
<1>1. IngestTypes /\ ConflictInv
  BY DEF IngestInv
<1>2. ing[r] # Quiet /\ ~Filing(ing[r])
  BY DEF Quiet, Filing
<1> QED BY <1>1, <1>2, FilingKinds DEF ConflictInv

\* The insert of a parent, or the row another request inserted since.
LEMMA InsertParentStep ==
  ASSUME IngestInv, NEW r \in Ingesters, InsertParent(r)
  PROVE  IngestInv'
<1> DEFINE m == FindByMobile(ing[r].person.mobile)
           e == FindByEmail(ing[r].person.email)
           found == IF m # {} THEN m ELSE e
           n == IF found = {} THEN 0 ELSE CHOOSE i \in found : TRUE
<1>1. /\ ing[r] \in Filings /\ ing[r].conflict = 0 /\ Holders(r, ing[r].person) = {}
      /\ IngestTypes /\ Len(parent) \in Nat
  BY NotFilingYet, IngestRows DEF InsertParent, IngestInv
<1>2. ing' = [ing EXCEPT ![r] = [ing[r] EXCEPT !.at = "code", !.parent = n]]
  BY DEF InsertParent
<1>3. m \subseteq 1..Len(parent) /\ e \subseteq 1..Len(parent)
  BY <1>1, Found
<1>4. m \cup e = {} => \A i \in 1..Len(parent) : ~SameKey(parent[i], ing[r].person)
  BY <1>1, Found
<1> HIDE DEF m, e
<1>5. found = {} => m \cup e = {}
  OBVIOUS
<1>6. n \in 0..Len(parent) /\ (n = 0 => found = {})
  <2>1. CASE found = {}
    BY <1>1, <2>1
  <2>2. CASE found # {}
    <3>1. n = CHOOSE i \in found : TRUE
      BY <2>2
    <3> HIDE DEF n, found
    <3>2. n \in found
      BY <2>2, <3>1, Zenon
    <3>3. found \subseteq 1..Len(parent)
      BY <1>3 DEF found
    <3> QED BY <1>1, <2>2, <3>2, <3>3
  <2> QED BY <2>1, <2>2
<1>7. UNCHANGED <<parent, enquiry, conflict, nextSeq>>
  BY DEF InsertParent
<1> HIDE DEF n, found
<1> QED BY <1>1, <1>2, <1>4, <1>5, <1>6, <1>7, ParentSettled

\* An admin starts to resolve a conflict, or finds it resolved.
LEMMA StartResolveStep ==
  ASSUME IngestInv, NEW r \in Ingesters, NEW n \in DOMAIN conflict, NEW p \in DOMAIN parent,
         StartResolve(r, n, p)
  PROVE  IngestInv'
<1> DEFINE nobody == [mobile |-> NoKey, email |-> NoKey]
           x == [at |-> "code", source |-> conflict[n].source, conflict |-> n, parent |-> p, code |-> 0,
                 person |-> nobody]
<1>1. /\ IngestTypes /\ n \in 1..Len(conflict) /\ p \in 1..Len(parent) /\ conflict[n] \in Conflicts
      /\ n \in Nat /\ p \in Nat /\ n # 0 /\ p # 0 /\ n \in 0..Len(conflict) /\ p \in 0..Len(parent)
  BY IngestRows DEF IngestInv
<1>2. /\ UNCHANGED <<parent, enquiry, conflict, nextSeq>>
      /\ \A s \in Ingesters : ing[s] # Quiet => ing[s].conflict # n
      /\ p \in {conflict[n].a, conflict[n].b}
      /\ ing' = [ing EXCEPT ![r] = IF conflict[n].resolved # 0 THEN Quiet ELSE x]
  BY DEF StartResolve, Request, ConflictFree
<1>3. CASE conflict[n].resolved # 0
  <2>1. Quiet.at = "idle" /\ ~Filing(Quiet)
    BY DEF Quiet, Filing
  <2>2. ing' = [ing EXCEPT ![r] = Quiet]
    BY <1>2, <1>3
  <2> QED BY <1>2, <2>1, <2>2, IngestTurn
<1>4. CASE conflict[n].resolved = 0
  <2>1. nobody \in Persons
    BY DEF Persons
  <2>2. conflict[n].source \in Sources
    BY <1>1 DEF Conflicts
  <2>3. /\ x \in Filings /\ x.at = "code" /\ x.conflict = n /\ x.parent = p /\ Filing(x)
    BY <1>1, <2>1, <2>2 DEF Filings, Filing
  <2>4. ing' = [ing EXCEPT ![r] = x]
    BY <1>2, <1>4
  <2> HIDE DEF x
  <2> QED BY <1>1, <1>2, <1>4, <2>3, <2>4, IngestTurn
<1> QED BY <1>3, <1>4

\* A request is done: the others keep what they hold.
LEMMA IngestDone ==
  ASSUME IngestTypes, NEW r \in Ingesters, ing' = [ing EXCEPT ![r] = Quiet]
  PROVE  /\ ing' \in [Ingesters -> {Quiet} \cup Filings]
         /\ ing'[r] = Quiet /\ ~Filing(ing'[r]) /\ ing'[r].at # "file"
         /\ \A s \in Ingesters : s # r => ing'[s] = ing[s]
BY DEF IngestTypes, Quiet, Filing

\* A person whose keys are two parents is staged.
LEMMA StageStep ==
  ASSUME IngestInv, NEW r \in Ingesters, ing[r] \in Filings, NEW i0 \in 1..Len(parent),
         NEW i1 \in 1..Len(parent), Stage(r, i0, i1)
  PROVE  IngestInv'
<1> DEFINE staged == [a |-> i0, b |-> i1, source |-> ing[r].source, resolved |-> 0]
           n0 == Len(conflict)
<1>1. IngestTypes /\ PersonInv /\ CodeInv /\ ConflictInv
  BY DEF IngestInv
<1>2. /\ UNCHANGED <<parent, enquiry, nextSeq>> /\ conflict' = Append(conflict, staged)
      /\ ing' = [ing EXCEPT ![r] = Quiet]
  BY DEF Stage
<1>3. n0 \in Nat /\ staged \in Conflicts /\ staged.a = i0 /\ staged.b = i1 /\ staged.resolved = 0
  BY <1>1, IngestRows DEF Conflicts, Filings
<1>4. /\ ing' \in [Ingesters -> {Quiet} \cup Filings]
      /\ ing'[r] = Quiet /\ ~Filing(ing'[r]) /\ ing'[r].at # "file"
      /\ \A s \in Ingesters : s # r => ing'[s] = ing[s]
  BY <1>1, <1>2, IngestDone
<1> HIDE DEF staged
<1>5. /\ conflict' \in Seq(Conflicts) /\ Len(conflict') = n0 + 1 /\ conflict'[n0 + 1] = staged
      /\ \A n \in 1..n0 : conflict'[n] = conflict[n]
  BY <1>1, <1>2, <1>3 DEF IngestTypes
<1>6. IngestTypes'
  <2>1. \A i \in 1..Len(enquiry) : enquiry[i].conflict \in 0..(n0 + 1)
    BY <1>1, <1>3 DEF IngestTypes
  <2>2. ASSUME NEW n \in 1..(n0 + 1)
        PROVE  {conflict'[n].a, conflict'[n].b} \subseteq 1..Len(parent)
    <3>1. CASE n \in 1..n0
      BY <1>1, <1>5, <3>1 DEF IngestTypes
    <3>2. CASE n = n0 + 1
      BY <1>3, <1>5, <3>2
    <3> QED BY <1>3, <3>1, <3>2
  <2>3. ASSUME NEW s \in Ingesters, ing'[s] # Quiet
        PROVE  ing'[s].parent \in 0..Len(parent) /\ ing'[s].conflict \in 0..(n0 + 1)
    BY <1>1, <1>3, <1>4, <2>3 DEF IngestTypes
  <2>4. Quiet' = Quiet /\ Filings' = Filings
    BY DEF Quiet, Filings, Persons
  <2> HIDE DEF n0
  <2> QED BY <1>1, <1>2, <1>4, <1>5, <2>1, <2>2, <2>3, <2>4 DEF IngestTypes
<1>7. PersonInv'
  <2>1. OneParentPerKey'
    BY <1>1, <1>2 DEF PersonInv, OneParentPerKey
  <2>2. ASSUME NEW s \in Ingesters, Filing(ing'[s]), ing'[s].parent = 0
        PROVE  /\ ing'[s].conflict = 0
               /\ \A i \in 1..Len(parent) : ~SameKey(parent[i], ing'[s].person)
               /\ \A t \in Ingesters \ {s} : Filing(ing'[t]) /\ ing'[t].conflict = 0 =>
                    ~SameKey(ing'[t].person, ing'[s].person)
    BY <1>1, <1>4, <2>2 DEF PersonInv
  <2> QED BY <1>2, <2>1, <2>2 DEF PersonInv
<1>8. CodeInv'
  BY <1>1, <1>2, <1>4 DEF CodeInv, CodesGapless
<1>9. ConflictInv'
  <2>1. ASSUME NEW n \in 1..(n0 + 1)
        PROVE  LET filed == {i \in DOMAIN enquiry : enquiry[i].conflict = n}
               IN /\ filed = IF conflict'[n].resolved = 0 THEN {} ELSE {conflict'[n].resolved}
                  /\ \A i \in filed : enquiry[i].parent \in {conflict'[n].a, conflict'[n].b}
    <3>1. CASE n \in 1..n0
      BY <1>1, <1>5, <3>1, IngestRows DEF ConflictInv, ConflictFiledOnce
    <3>2. CASE n = n0 + 1
      <4>1. \A i \in DOMAIN enquiry : enquiry[i].conflict # n
        BY <1>1, <1>3, <3>2, IngestRows DEF IngestTypes
      <4> QED BY <1>3, <1>5, <3>2, <4>1
    <3> QED BY <1>3, <3>1, <3>2
  <2>2. DOMAIN conflict' = 1..(n0 + 1)
    BY <1>5
  <2>3. ConflictFiledOnce'
    BY <1>2, <2>1, <2>2 DEF ConflictFiledOnce
  <2>4. ASSUME NEW s \in Ingesters, ing'[s] # Quiet, ing'[s].conflict # 0
        PROVE  /\ Filing(ing'[s]) /\ conflict'[ing'[s].conflict].resolved = 0
               /\ ing'[s].parent \in {conflict'[ing'[s].conflict].a, conflict'[ing'[s].conflict].b}
               /\ \A t \in Ingesters : ing'[t] # Quiet /\ ing'[t].conflict = ing'[s].conflict => t = s
    <3>1. ing'[s] = ing[s] /\ ing[s].conflict \in 1..n0
      BY <1>1, <1>3, <1>4, <2>4 DEF IngestTypes
    <3> QED BY SMTT(30), <1>1, <1>4, <1>5, <2>4, <3>1 DEF ConflictInv
  <2>5. Quiet' = Quiet
    BY DEF Quiet
  <2> QED BY <2>3, <2>4, <2>5 DEF ConflictInv
<1> QED BY <1>6, <1>7, <1>8, <1>9 DEF IngestInv

\* The lookup: a parent, two, or none.
LEMMA LookUpStep ==
  ASSUME IngestInv, NEW r \in Ingesters, LookUp(r)
  PROVE  IngestInv'
<1> DEFINE m == FindByMobile(ing[r].person.mobile)
           e == FindByEmail(ing[r].person.email)
<1>1. /\ ing[r] \in Filings /\ ing[r].conflict = 0 /\ Holders(r, ing[r].person) = {}
      /\ IngestTypes /\ Len(parent) \in Nat
  BY NotFilingYet, IngestRows DEF LookUp, IngestInv
<1>2. m \subseteq 1..Len(parent) /\ e \subseteq 1..Len(parent)
  BY <1>1, Found
<1>3. \/ \E i0 \in m, i1 \in e : Stage(r, i0, i1)
      \/ /\ ing' = [ing EXCEPT ![r] =
               IF m \cup e = {} THEN [ing[r] EXCEPT !.at = "insert"]
               ELSE [ing[r] EXCEPT !.at = "code", !.parent = CHOOSE i \in m \cup e : TRUE]]
         /\ UNCHANGED <<parent, enquiry, conflict, nextSeq>>
  BY DEF LookUp
<1> HIDE DEF m, e
<1>4. CASE \E i0 \in m, i1 \in e : Stage(r, i0, i1)
  BY <1>1, <1>2, <1>4, StageStep
<1>5. ASSUME UNCHANGED <<parent, enquiry, conflict, nextSeq>>, m \cup e = {},
             ing' = [ing EXCEPT ![r] = [ing[r] EXCEPT !.at = "insert"]]
      PROVE  IngestInv'
  <2> DEFINE x == [ing[r] EXCEPT !.at = "insert"]
  <2>1. x \in Filings /\ x.at = "insert" /\ x.conflict = 0 /\ x.parent = ing[r].parent /\ ~Filing(x)
    BY <1>1 DEF Filings, Filing
  <2>2. ing[r].parent \in 0..Len(parent) /\ 0 \in 0..Len(conflict)
    <3>1. ing[r] # Quiet
      BY NotFilingYet DEF LookUp, Quiet
    <3> QED BY <1>1, <3>1, FilingKinds, IngestRows
  <2>3. ing' = [ing EXCEPT ![r] = x]
    BY <1>5
  <2> HIDE DEF x
  <2> QED BY <1>5, <2>1, <2>2, <2>3, IngestTurn
<1>6. ASSUME UNCHANGED <<parent, enquiry, conflict, nextSeq>>, m \cup e # {},
             ing' = [ing EXCEPT ![r] = [ing[r] EXCEPT !.at = "code", !.parent = CHOOSE i \in m \cup e : TRUE]]
      PROVE  IngestInv'
  <2> DEFINE n == CHOOSE i \in m \cup e : TRUE
  <2>1. n \in m \cup e
    BY <1>6, Zenon
  <2>2. ing' = [ing EXCEPT ![r] = [ing[r] EXCEPT !.at = "code", !.parent = n]]
    BY <1>6
  <2> HIDE DEF n
  <2>3. n \in 1..Len(parent) /\ n \in 0..Len(parent) /\ n # 0
    BY <1>1, <1>2, <2>1
  <2> QED BY <1>1, <1>6, <2>2, <2>3, ParentSettled
<1> QED BY <1>3, <1>4, <1>5, <1>6

\* The commit of a request that files: parent, enquiry, conflict and code.
LEMMA FileEnquiryStep ==
  ASSUME IngestInv, NEW r \in Ingesters, FileEnquiry(r)
  PROVE  IngestInv'
<1> DEFINE new == ing[r].parent = 0
           n == ing[r].conflict
           k == Len(enquiry)
           h == Len(parent)
           p0 == IF new THEN h + 1 ELSE ing[r].parent
           filed == [parent |-> p0, code |-> ing[r].code, source |-> ing[r].source, conflict |-> n]
           h1 == IF new THEN h + 1 ELSE h
<1>1. IngestTypes /\ PersonInv /\ CodeInv /\ ConflictInv
  BY DEF IngestInv
<1>2. /\ parent' = IF new THEN Append(parent, ing[r].person) ELSE parent
      /\ enquiry' = Append(enquiry, filed)
      /\ conflict' = IF n = 0 THEN conflict ELSE [conflict EXCEPT ![n].resolved = k + 1]
      /\ nextSeq' = ing[r].code + 1 /\ ing' = [ing EXCEPT ![r] = Quiet]
  BY DEF FileEnquiry, InsertId
<1>3. ing[r].at = "file" /\ Filing(ing[r]) /\ ing[r] # Quiet
  BY DEF FileEnquiry, Filing, Quiet
<1>4. /\ ing[r] \in Filings /\ ing[r].parent \in 0..h /\ n \in 0..Len(conflict) /\ k \in Nat /\ h \in Nat
      /\ Len(conflict) \in Nat /\ ing[r].person \in Persons /\ ing[r].source \in Sources
  BY <1>1, <1>3, FilingKinds, IngestRows DEF Filings
<1>5. /\ ing[r].code = k + 1 /\ \A s \in Ingesters : s # r => ing[s].at # "file"
  BY <1>1, <1>3 DEF CodeInv, IngestTypes
<1>6. /\ ing' \in [Ingesters -> {Quiet} \cup Filings]
      /\ ing'[r] = Quiet /\ ~Filing(ing'[r]) /\ ing'[r].at # "file"
      /\ \A s \in Ingesters : s # r => ing'[s] = ing[s]
  BY <1>1, <1>2, IngestDone
<1>7. new => /\ n = 0
             /\ \A i \in 1..h : ~SameKey(parent[i], ing[r].person)
  BY <1>1, <1>3 DEF PersonInv
<1>8. n # 0 => /\ conflict[n].resolved = 0 /\ ing[r].parent \in {conflict[n].a, conflict[n].b}
               /\ n \in 1..Len(conflict) /\ conflict[n] \in Conflicts
               /\ \A s \in Ingesters : s # r /\ ing[s] # Quiet => ing[s].conflict # n
  BY <1>1, <1>3, <1>4, IngestRows DEF ConflictInv
<1>9. p0 \in 1..h1 /\ h1 \in Nat /\ h <= h1 /\ filed \in Enquiries /\ (~new => p0 = ing[r].parent)
  BY <1>4, <1>5 DEF Enquiries
<1>10. /\ parent' \in Seq(Persons) /\ Len(parent') = h1 /\ \A i \in 1..h : parent'[i] = parent[i]
       /\ \A i \in 1..h1 : i \in 1..h \/ (new /\ i = h + 1 /\ parent'[i] = ing[r].person)
  BY <1>1, <1>2, <1>4 DEF IngestTypes
<1>11. /\ filed.parent = p0 /\ filed.code = k + 1 /\ filed.conflict = n
  BY <1>5
<1> HIDE DEF filed
<1>12. /\ enquiry' \in Seq(Enquiries) /\ Len(enquiry') = k + 1 /\ enquiry'[k + 1] = filed
       /\ \A i \in 1..k : enquiry'[i] = enquiry[i]
  BY <1>1, <1>2, <1>4, <1>9 DEF IngestTypes
<1>13. /\ conflict' \in Seq(Conflicts) /\ Len(conflict') = Len(conflict)
       /\ \A q \in 1..Len(conflict) :
            /\ conflict'[q].a = conflict[q].a /\ conflict'[q].b = conflict[q].b
            /\ conflict'[q].resolved = IF q = n THEN k + 1 ELSE conflict[q].resolved
  <2>1. CASE n = 0
    BY <1>1, <1>2, <2>1 DEF IngestTypes
  <2>2. CASE n # 0
    <3>1. conflict' = [conflict EXCEPT ![n].resolved = k + 1]
      BY <1>2, <2>2
    <3>2. [conflict[n] EXCEPT !.resolved = k + 1] \in Conflicts
      BY SMTT(30), <1>4, <1>8, <2>2 DEF Conflicts
    <3>3. conflict' = [conflict EXCEPT ![n] = [conflict[n] EXCEPT !.resolved = k + 1]]
      BY <3>1
    <3>4. /\ conflict' \in Seq(Conflicts) /\ Len(conflict') = Len(conflict)
      BY <1>1, <1>8, <2>2, <3>2, <3>3 DEF IngestTypes
    <3>5. \A q \in 1..Len(conflict) :
            conflict'[q] = IF q = n THEN [conflict[n] EXCEPT !.resolved = k + 1] ELSE conflict[q]
      BY <1>1, <3>3 DEF IngestTypes
    <3>6. \A q \in 1..Len(conflict) : conflict[q] \in Conflicts
      BY <1>1, IngestRows
    <3>7. ASSUME NEW q \in 1..Len(conflict)
          PROVE  /\ conflict'[q].a = conflict[q].a /\ conflict'[q].b = conflict[q].b
                 /\ conflict'[q].resolved = IF q = n THEN k + 1 ELSE conflict[q].resolved
      <4>1. CASE q = n
        <5>1. conflict'[q] = [conflict[q] EXCEPT !.resolved = k + 1] /\ conflict[q] \in Conflicts
          BY <3>5, <3>6, <4>1
        <5> QED BY <4>1, <5>1 DEF Conflicts
      <4>2. CASE q # n
        BY <3>5, <4>2
      <4> QED BY <4>1, <4>2
    <3> QED BY <3>4, <3>7
  <2> QED BY <2>1, <2>2
<1>14. \A i \in 1..(k + 1) : i \in 1..k \/ i = k + 1
  BY <1>4
<1> HIDE DEF p0, h1

<1>15. 1..Len(parent) \subseteq 1..h1
  BY <1>4, <1>9
<1>16. IngestTypes'
  <2>1. ASSUME NEW i \in 1..(k + 1)
        PROVE  enquiry'[i].parent \in 1..h1 /\ enquiry'[i].conflict \in 0..Len(conflict)
    <3>1. CASE i \in 1..k
      <4>1. enquiry'[i] = enquiry[i]
        BY <1>12, <3>1
      <4>2. enquiry[i].parent \in 1..Len(parent) /\ enquiry[i].conflict \in 0..Len(conflict)
        BY <1>1, <3>1 DEF IngestTypes
      <4> QED BY <1>15, <4>1, <4>2
    <3>2. CASE i = k + 1
      BY <1>4, <1>9, <1>11, <1>12, <3>2
    <3> QED BY <1>14, <3>1, <3>2
  <2>2. ASSUME NEW q \in 1..Len(conflict)
        PROVE  {conflict'[q].a, conflict'[q].b} \subseteq 1..h1
    <3>1. {conflict[q].a, conflict[q].b} \subseteq 1..Len(parent)
      BY <1>1 DEF IngestTypes
    <3>2. conflict'[q].a = conflict[q].a /\ conflict'[q].b = conflict[q].b
      BY <1>13
    <3> QED BY <1>15, <3>1, <3>2
  <2>3. ASSUME NEW s \in Ingesters, ing'[s] # Quiet
        PROVE  ing'[s].parent \in 0..h1 /\ ing'[s].conflict \in 0..Len(conflict)
    BY <1>1, <1>4, <1>6, <1>9, <2>3 DEF IngestTypes
  <2>4. Quiet' = Quiet /\ Filings' = Filings
    BY DEF Quiet, Filings, Persons
  <2>5. nextSeq' = (k + 1) + 1
    BY <1>2, <1>5
  <2> QED BY <1>6, <1>10, <1>12, <1>13, <2>1, <2>2, <2>3, <2>4, <2>5 DEF IngestTypes
<1>17. PersonInv'
  <2>1. ASSUME NEW i \in 1..h1, NEW j \in 1..h1, SameKey(parent'[i], parent'[j])
        PROVE  i = j
    <3>1. CASE i \in 1..h /\ j \in 1..h
      BY <1>1, <1>10, <2>1, <3>1, IngestRows DEF PersonInv, OneParentPerKey
    <3>2. CASE i \notin 1..h \/ j \notin 1..h
      BY <1>7, <1>10, <2>1, <3>2, KeyShared
    <3> QED BY <3>1, <3>2
  <2>2. DOMAIN parent' = 1..h1
    BY <1>10
  <2>3. OneParentPerKey'
    BY <2>1, <2>2 DEF OneParentPerKey, SameKey
  <2>4. ASSUME NEW s \in Ingesters, Filing(ing'[s]), ing'[s].parent = 0
        PROVE  /\ ing'[s].conflict = 0
               /\ \A i \in 1..h1 : ~SameKey(parent'[i], ing'[s].person)
               /\ \A t \in Ingesters \ {s} : Filing(ing'[t]) /\ ing'[t].conflict = 0 =>
                    ~SameKey(ing'[t].person, ing'[s].person)
    <3>1. s # r /\ ing'[s] = ing[s]
      BY <1>6, <2>4
    <3>2. /\ ing[s].conflict = 0
          /\ \A i \in 1..h : ~SameKey(parent[i], ing[s].person)
          /\ \A t \in Ingesters \ {s} : Filing(ing[t]) /\ ing[t].conflict = 0 =>
               ~SameKey(ing[t].person, ing[s].person)
      BY <1>1, <2>4, <3>1 DEF PersonInv
    <3>3. new => ~SameKey(ing[r].person, ing[s].person)
      BY <1>3, <1>7, <3>1, <3>2
    <3>4. \A i \in 1..h1 : ~SameKey(parent'[i], ing[s].person)
      BY <1>10, <3>2, <3>3
    <3> QED BY <1>6, <3>1, <3>2, <3>4
  <2> QED BY <1>10, <2>3, <2>4 DEF PersonInv, Filing, SameKey
<1>18. CodeInv'
  <2>1. ASSUME NEW i \in 1..(k + 1)
        PROVE  enquiry'[i].code = i
    BY <1>1, <1>11, <1>12, <1>14, IngestRows DEF CodeInv, CodesGapless
  <2>2. DOMAIN enquiry' = 1..(k + 1)
    BY <1>12
  <2>3. CodesGapless'
    BY <2>1, <2>2 DEF CodesGapless
  <2>4. \A s \in Ingesters : ing'[s].at # "file"
    BY <1>5, <1>6
  <2> QED BY <2>3, <2>4 DEF CodeInv
<1>19. ConflictInv'
  <2>1. DOMAIN enquiry = 1..k /\ DOMAIN enquiry' = 1..(k + 1)
    BY <1>1, <1>12, IngestRows
  <2>2. DOMAIN conflict = 1..Len(conflict) /\ DOMAIN conflict' = 1..Len(conflict)
    BY <1>1, <1>13, IngestRows
  <2>3. ASSUME NEW q \in 1..Len(conflict)
        PROVE  LET found == {i \in 1..(k + 1) : enquiry'[i].conflict = q}
               IN /\ found = IF conflict'[q].resolved = 0 THEN {} ELSE {conflict'[q].resolved}
                  /\ \A i \in found : enquiry'[i].parent \in {conflict'[q].a, conflict'[q].b}
    <3> DEFINE before == {i \in 1..k : enquiry[i].conflict = q}
               after  == {i \in 1..(k + 1) : enquiry'[i].conflict = q}
    <3>1. /\ before = IF conflict[q].resolved = 0 THEN {} ELSE {conflict[q].resolved}
          /\ \A i \in before : enquiry[i].parent \in {conflict[q].a, conflict[q].b}
      BY <1>1, <2>1, <2>2 DEF ConflictInv, ConflictFiledOnce
    <3>2. after = before \cup (IF n = q THEN {k + 1} ELSE {})
      BY <1>4, <1>11, <1>12, <1>14
    <3>3. \A i \in before : enquiry'[i].parent = enquiry[i].parent
      BY <1>12
    <3> HIDE DEF before, after
    <3>4. CASE n = q
      <4>1. n # 0 /\ before = {} /\ conflict'[q].resolved = k + 1 /\ k + 1 # 0
        BY <1>4, <1>8, <1>13, <3>1, <3>4
      <4>2. enquiry'[k + 1].parent \in {conflict'[q].a, conflict'[q].b}
        <5>1. ing[r].parent # 0
          BY <1>7, <4>1
        <5> QED BY <1>8, <1>9, <1>11, <1>12, <1>13, <3>4, <4>1, <5>1
      <4>3. after = {k + 1}
        BY <3>2, <3>4, <4>1
      <4> QED BY <4>1, <4>2, <4>3 DEF after
    <3>5. CASE n # q
      <4>1. after = before
        BY <3>2, <3>5
      <4> QED BY <1>13, <3>1, <3>3, <3>5, <4>1 DEF after
    <3> QED BY <3>4, <3>5
  <2>4. ConflictFiledOnce'
    BY <2>1, <2>2, <2>3 DEF ConflictFiledOnce
  <2>5. ASSUME NEW s \in Ingesters, ing'[s] # Quiet, ing'[s].conflict # 0
        PROVE  /\ Filing(ing'[s]) /\ conflict'[ing'[s].conflict].resolved = 0
               /\ ing'[s].parent \in {conflict'[ing'[s].conflict].a, conflict'[ing'[s].conflict].b}
               /\ \A t \in Ingesters : ing'[t] # Quiet /\ ing'[t].conflict = ing'[s].conflict => t = s
    <3>1. s # r /\ ing'[s] = ing[s]
      BY <1>6, <2>5
    <3>2. ing[s].conflict \in 1..Len(conflict)
      BY <1>1, <1>4, <2>5, <3>1 DEF IngestTypes
    <3>3. ing[s].conflict # n
      BY <1>8, <2>5, <3>1
    <3>4. /\ Filing(ing[s]) /\ conflict[ing[s].conflict].resolved = 0
          /\ ing[s].parent \in {conflict[ing[s].conflict].a, conflict[ing[s].conflict].b}
          /\ \A t \in Ingesters : ing[t] # Quiet /\ ing[t].conflict = ing[s].conflict => t = s
      BY <1>1, <2>5, <3>1 DEF ConflictInv
    <3> QED BY <1>6, <1>13, <3>1, <3>2, <3>3, <3>4
  <2>6. Quiet' = Quiet
    BY DEF Quiet
  <2> QED BY <2>4, <2>5, <2>6 DEF ConflictInv, Filing
<1> QED BY <1>16, <1>17, <1>18, <1>19 DEF IngestInv

\* However ingestions, resolutions and rollbacks interleave, with any number
\* of requests, keys and sources: nobody is two parents, an enquiry staged is
\* filed at most once and under one of the two, codes have no gap
\* (duplicateResolver.js:176, :262, :318).
THEOREM IngestionIsSound == IngestSpec => []IngestionSound
<1>1. IngestInit => IngestInv
  <2> SUFFICES ASSUME IngestInit
               PROVE  IngestInv
    OBVIOUS
  <2>1. /\ parent = <<>> /\ enquiry = <<>> /\ conflict = <<>> /\ nextSeq = 1
        /\ ing = [r \in Ingesters |-> Quiet]
    BY DEF IngestInit
  <2>2. \A r \in Ingesters : ing[r] = Quiet /\ ~Filing(ing[r]) /\ ing[r].at # "file"
    BY <2>1 DEF Quiet, Filing
  <2>3. /\ DOMAIN parent = {} /\ DOMAIN enquiry = {} /\ DOMAIN conflict = {} /\ Len(parent) = 0
        /\ Len(enquiry) = 0 /\ Len(conflict) = 0
    BY <2>1
  <2>4. IngestTypes
    BY <2>1, <2>2, <2>3 DEF IngestTypes
  <2>5. PersonInv
    BY <2>2, <2>3 DEF PersonInv, OneParentPerKey
  <2>6. CodeInv
    BY <2>2, <2>3 DEF CodeInv, CodesGapless
  <2>7. ConflictInv
    BY <2>2, <2>3 DEF ConflictInv, ConflictFiledOnce
  <2> QED BY <2>4, <2>5, <2>6, <2>7 DEF IngestInv
<1>2. IngestInv /\ [IngestNext]_crmVars => IngestInv'
  <2> SUFFICES ASSUME IngestInv, [IngestNext]_crmVars
               PROVE  IngestInv'
    OBVIOUS
  <2>1. CASE UNCHANGED crmVars
    BY <2>1 DEF crmVars, IngestInv, IngestTypes, PersonInv, CodeInv, ConflictInv, OneParentPerKey, CodesGapless,
       ConflictFiledOnce, Filing, Filings, Persons, Quiet, SameKey
  <2>2. CASE IngestNext
    <3> PICK r \in Ingesters :
          \/ \E m \in RawMobiles, e \in RawEmails, s \in Sources : StartIngest(r, m, e, s)
          \/ LookAnonymous(r)
          \/ LookUp(r)
          \/ InsertParent(r)
          \/ NextEnquiryCode(r)
          \/ FileEnquiry(r)
          \/ \E n \in DOMAIN conflict : \E p \in DOMAIN parent : StartResolve(r, n, p)
          \/ IngestRollback(r)
      BY <2>2 DEF IngestNext
    <3> QED BY StartIngestStep, LookAnonymousStep, LookUpStep, InsertParentStep, NextEnquiryCodeStep,
               FileEnquiryStep, StartResolveStep, IngestRollbackStep
  <2> QED BY <2>1, <2>2
<1>3. IngestInv => IngestionSound
  <2> SUFFICES ASSUME IngestInv
               PROVE  IngestionSound
    OBVIOUS
  <2>1. IngestTypes /\ OneParentPerKey /\ CodesGapless /\ ConflictFiledOnce
    BY DEF IngestInv, PersonInv, CodeInv, ConflictInv
  <2>2. IngestTypeOK
    <3>1. /\ parent \in Seq([mobile : Mobiles \cup {NoKey}, email : Emails \cup {NoKey}])
          /\ DOMAIN parent = 1..Len(parent) /\ DOMAIN enquiry = 1..Len(enquiry)
          /\ DOMAIN conflict = 1..Len(conflict) /\ nextSeq \in Nat
      BY <2>1, IngestRows DEF IngestTypes, Persons
    <3>2. /\ \A i \in 1..Len(enquiry) : enquiry[i].parent \in 1..Len(parent)
          /\ \A n \in 1..Len(conflict) : {conflict[n].a, conflict[n].b} \subseteq 1..Len(parent)
      BY <2>1 DEF IngestTypes
    <3> QED BY <3>1, <3>2 DEF IngestTypeOK
  <2> QED BY <2>1, <2>2 DEF IngestionSound
<1> QED BY <1>1, <1>2, <1>3, PTL DEF IngestSpec

-----------------------------------------------------------------------------
(* Listings and leads.                                                       *)

Sellings  == [approval : {"pending", "approved", "rejected"}, active : BOOLEAN,
              featured : BOOLEAN, deleted : BOOLEAN, seen : BOOLEAN]
Buyers    == [listing : Listed \cup {NoListing}, status : Statuses, deleted : BOOLEAN,
              assignee : Assignees \cup {Nobody}]
Moves     == [at : {"move", "siblings", "hide"}, lead : Nat, listing : Listed \cup {NoListing},
              from : Statuses, to : Statuses]
Edits     == [at : {"edit"}, listing : Listed]
Verifying == [at : {"enquire"}, listing : Listed \cup {NoListing}]

Works(x) == x.at \in {"move", "siblings", "hide"}
Sells(x) == x.at \in {"siblings", "hide"}

\* A request that handles a lead handles one that is there, and knows its listing.
DeskTypes ==
  /\ listing \in [Listed -> Sellings] /\ buyer \in Seq(Buyers)
  /\ handler \in [Handlers -> {Waiting} \cup Edits \cup Verifying \cup Moves]
  /\ \A h \in Handlers : Works(handler[h]) =>
       /\ handler[h].lead \in 1..Len(buyer)
       /\ buyer[handler[h].lead].listing = handler[h].listing
       /\ Sells(handler[h]) => handler[h].listing # NoListing

\* An approved listing is reviewed, and the seller's edits of it are over.
ReviewInv ==
  \A p \in Listed \ crossed : listing[p].approval = "approved" =>
    /\ listing[p].seen
    /\ \A h \in Handlers : ~(handler[h].at = "edit" /\ handler[h].listing = p)

\* Requests that meet leave a trace; one that met nobody writes what may
\* follow the status it read.
MeetInv ==
  /\ \A h \in Handlers : handler[h].at = "move" =>
       /\ MayMove(handler[h].from, handler[h].to)
       /\ handler[h].lead \notin raced => buyer[handler[h].lead].status = handler[h].from
  /\ \A g, h \in Handlers :
       g # h /\ Works(handler[g]) /\ Works(handler[h])
       /\ (handler[g].lead = handler[h].lead
           \/ (handler[h].listing # NoListing /\ handler[g].listing = handler[h].listing))
       => handler[h].lead \in raced

\* Nothing disturbed the sales of p.
Calm(p) == p # NoListing /\ p \notin cut /\ raced \cap Busy(p) = {}

Sale(x) == x.at = "move" /\ x.to = "closed_won" /\ x.from # "closed_won"

\* A sale in progress has no other winner, and once its siblings are closed,
\* no other lead that is open.
SaleInv ==
  /\ \A p \in Listed : listing[p].deleted => ~listing[p].active
  /\ \A l \in 1..Len(buyer) :
       LET p == buyer[l].listing
       IN buyer[l].status = "closed_won" /\ Calm(p) /\ ~Selling(p)
          => /\ ~listing[p].active
             /\ \A m \in Busy(p) \ {l} : ~buyer[m].deleted => buyer[m].status = "closed_lost"
  /\ \A h \in Handlers : Works(handler[h]) /\ Calm(handler[h].listing) =>
       LET others == Busy(handler[h].listing) \ {handler[h].lead}
       IN /\ Sale(handler[h]) => \A m \in Busy(handler[h].listing) : buyer[m].status # "closed_won"
          /\ Sells(handler[h]) => \A m \in others : buyer[m].status # "closed_won"
          /\ handler[h].at = "hide" =>
               \A m \in others : ~buyer[m].deleted => buyer[m].status = "closed_lost"

DeskInv == DeskTypes /\ ReviewInv /\ MeetInv /\ SaleInv
\* The rows of the desk, by number.
LEMMA DeskRows ==
  ASSUME DeskTypes
  PROVE  /\ Len(buyer) \in Nat /\ DOMAIN buyer = 1..Len(buyer)
         /\ \A l \in 1..Len(buyer) : buyer[l] \in Buyers
         /\ \A p \in Listed : listing[p] \in Sellings
         /\ \A h \in Handlers : handler[h] \in {Waiting} \cup Edits \cup Verifying \cup Moves
BY DEF DeskTypes

\* What a request is, by its point.
LEMMA DeskKinds ==
  ASSUME DeskTypes, NEW h \in Handlers
  PROVE  /\ handler[h].at = "edit" => handler[h] \in Edits
         /\ handler[h].at = "enquire" => handler[h] \in Verifying
         /\ Works(handler[h]) =>
              /\ handler[h] \in Moves /\ handler[h].lead \in 1..Len(buyer)
              /\ buyer[handler[h].lead].listing = handler[h].listing
              /\ Sells(handler[h]) => handler[h].listing # NoListing
         /\ Sells(handler[h]) => Works(handler[h])
         /\ handler[h].at = "move" => Works(handler[h])
         /\ handler[h] = Waiting => ~Works(handler[h]) /\ handler[h].at # "edit"
<1>1. handler[h] \in {Waiting} \cup Edits \cup Verifying \cup Moves
  BY DEF DeskTypes
<1>2. Waiting.at = "idle"
  BY DEF Waiting
<1>3. Works(handler[h]) => handler[h].lead \in 1..Len(buyer)
         /\ buyer[handler[h].lead].listing = handler[h].listing
         /\ (Sells(handler[h]) => handler[h].listing # NoListing)
  BY DEF DeskTypes
<1>4. /\ Sells(handler[h]) => Works(handler[h])
      /\ handler[h].at = "move" => Works(handler[h])
  BY DEF Sells, Works
<1>5. handler[h].at \in {"idle", "edit", "enquire", "move", "siblings", "hide"}
  BY <1>1 DEF Waiting, Edits, Verifying, Moves
<1>6. /\ handler[h].at = "edit" => handler[h] \in Edits
      /\ handler[h].at = "enquire" => handler[h] \in Verifying
      /\ Works(handler[h]) => handler[h] \in Moves
  BY <1>1 DEF Waiting, Edits, Verifying, Moves, Works
<1>7. handler[h] = Waiting => ~Works(handler[h]) /\ handler[h].at # "edit"
  BY <1>2 DEF Works
<1> QED BY <1>3, <1>4, <1>6, <1>7

\* A request goes on: it handles no lead, or it handles the one it handled.
LEMMA DeskTurn ==
  ASSUME DeskTypes, NEW h \in Handlers, NEW x \in {Waiting} \cup Edits \cup Verifying \cup Moves,
         handler' = [handler EXCEPT ![h] = x]
  PROVE  /\ handler' \in [Handlers -> {Waiting} \cup Edits \cup Verifying \cup Moves]
         /\ handler'[h] = x /\ \A g \in Handlers : g # h => handler'[g] = handler[g]
BY DEF DeskTypes

\* A request that handles no lead starts, goes on or ends, and may write
\* listings: the desk is sound as long as it hides what it deletes, records
\* what it puts back on the market, and approves no edit unseen.
LEMMA FrontStep ==
  ASSUME DeskInv, NEW h \in Handlers, NEW x \in {Waiting} \cup Edits \cup Verifying,
         ~Works(handler[h]), handler' = [handler EXCEPT ![h] = x],
         UNCHANGED <<buyer, raced>>, cut \subseteq cut', crossed \subseteq crossed',
         listing' \in [Listed -> Sellings],
         \A p \in Listed : listing'[p].deleted => ~listing'[p].active,
         \A p \in Listed : listing'[p].active => listing[p].active \/ p \in cut',
         \A p \in Listed \ crossed' : listing'[p].approval = "approved" =>
           /\ listing'[p].seen
           /\ \A g \in Handlers : ~(handler'[g].at = "edit" /\ handler'[g].listing = p)
  PROVE  DeskInv'
<1>1. DeskTypes /\ ReviewInv /\ MeetInv /\ SaleInv
  BY DEF DeskInv
<1>2. ~Works(x)
  BY DEF Works, Waiting, Edits, Verifying
<1>3. /\ handler' \in [Handlers -> {Waiting} \cup Edits \cup Verifying \cup Moves]
      /\ handler'[h] = x /\ \A g \in Handlers : g # h => handler'[g] = handler[g]
  BY <1>1, DeskTurn
<1>4. \A g \in Handlers : Works(handler'[g]) => g # h /\ handler'[g] = handler[g] /\ Works(handler[g])
  BY <1>2, <1>3
<1>5. \A g \in Handlers : Works(handler[g]) => handler'[g] = handler[g]
  BY <1>3
<1>6. Waiting' = Waiting /\ \A y : (Sells(y) => Works(y)) /\ (y.at = "move" => Works(y)) /\ (Sale(y) => Works(y))
  BY DEF Waiting, Sells, Works, Sale
<1>7. DeskTypes'
  BY <1>1, <1>3, <1>4, <1>6 DEF DeskTypes, Works, Sells, Sellings, Buyers, Moves, Edits, Verifying
<1>8. ReviewInv'
  BY DEF ReviewInv
<1>9. MeetInv'
  BY <1>1, <1>4, <1>6 DEF MeetInv, Works
<1>10. SaleInv'
  <2>1. \A p : Selling(p)' <=> Selling(p)
    BY <1>4, <1>5, <1>6 DEF Selling, Sells
  <2>2. \A p : Busy(p)' = Busy(p) /\ (Calm(p)' => Calm(p))
    BY DEF Busy, Calm
  <2>3. ASSUME NEW l \in 1..Len(buyer), buyer[l].status = "closed_won", Calm(buyer[l].listing)',
               ~Selling(buyer[l].listing)'
        PROVE  /\ ~listing'[buyer[l].listing].active
               /\ \A m \in Busy(buyer[l].listing) \ {l} : ~buyer[m].deleted => buyer[m].status = "closed_lost"
    <3>1. buyer[l].listing \in Listed /\ buyer[l].listing \notin cut'
      BY <1>1, <2>3, DeskRows DEF Calm, Buyers
    <3>2. Calm(buyer[l].listing) /\ ~Selling(buyer[l].listing)
      BY <2>1, <2>2, <2>3
    <3> QED BY <1>1, <2>3, <3>1, <3>2 DEF SaleInv
  <2>4. ASSUME NEW g \in Handlers, Works(handler[g])', Calm(handler[g].listing)'
        PROVE  LET others == Busy(handler[g].listing) \ {handler[g].lead}
               IN /\ handler'[g] = handler[g]
                  /\ Sale(handler[g]) => \A m \in Busy(handler[g].listing) : buyer[m].status # "closed_won"
                  /\ Sells(handler[g]) => \A m \in others : buyer[m].status # "closed_won"
                  /\ handler[g].at = "hide" =>
                       \A m \in others : ~buyer[m].deleted => buyer[m].status = "closed_lost"
    <3>1. handler'[g] = handler[g] /\ Works(handler[g])
      BY <1>4, <2>4 DEF Works
    <3>2. Calm(handler[g].listing)
      BY <2>4, <3>1 DEF Calm, Busy
    <3> QED BY <1>1, <3>1, <3>2 DEF SaleInv
  <2>5. \A l \in 1..Len(buyer) : (buyer[l].status = "closed_won" /\ Calm(buyer[l].listing) /\ ~Selling(buyer[l].listing)
          => /\ ~listing[buyer[l].listing].active
             /\ \A m \in Busy(buyer[l].listing) \ {l} : ~buyer[m].deleted => buyer[m].status = "closed_lost")'
    BY <2>3 DEF Calm, Busy, Selling
  <2> QED BY <2>4, <2>5 DEF SaleInv, Works, Sells, Sale, Busy
<1> QED BY <1>7, <1>8, <1>9, <1>10 DEF DeskInv

\* An admin writes one listing that is not deleted.
LEMMA SetListingStep ==
  ASSUME DeskInv, NEW h \in Handlers, handler[h] = Waiting, NEW p \in Listed, NEW put \in Sellings,
         SetListing(h, p, put), crossed \subseteq crossed', cut \subseteq cut',
         put.deleted => ~put.active,
         put.active => listing[p].active \/ p \in cut',
         p \in crossed'
           \/ (put.approval = "approved" => put.seen /\ ~Editing(h, p))
  PROVE  DeskInv'
<1>1. DeskTypes /\ ReviewInv /\ MeetInv /\ SaleInv
  BY DEF DeskInv
<1>2. /\ listing' = [listing EXCEPT ![p] = put] /\ UNCHANGED <<buyer, raced>>
      /\ handler' = [handler EXCEPT ![h] = Waiting]
  BY DEF SetListing, Call
<1>3. ~Works(handler[h])
  BY DEF Waiting, Works
<1>4. \A g \in Handlers : handler'[g] = handler[g]
  BY <1>1, <1>2 DEF DeskTypes
<1>5. /\ listing' \in [Listed -> Sellings] /\ listing'[p] = put
      /\ \A q \in Listed : q # p => listing'[q] = listing[q]
  BY <1>1, <1>2 DEF DeskTypes
<1>6. \A q \in Listed : listing'[q].deleted => ~listing'[q].active
  BY <1>1, <1>5 DEF SaleInv
<1>7. \A q \in Listed : listing'[q].active => listing[q].active \/ q \in cut'
  BY <1>5
<1>8. ASSUME NEW q \in Listed \ crossed', listing'[q].approval = "approved"
      PROVE  /\ listing'[q].seen
             /\ \A g \in Handlers : ~(handler'[g].at = "edit" /\ handler'[g].listing = q)
  <2>1. CASE q = p
    <3>1. put.seen /\ ~Editing(h, p)
      BY <1>5, <1>8, <2>1
    <3>2. \A g \in Handlers : ~(handler[g].at = "edit" /\ handler[g].listing = p)
      BY <3>1 DEF Editing, Others, Waiting
    <3> QED BY <1>4, <1>5, <2>1, <3>1, <3>2
  <2>2. CASE q # p
    BY <1>1, <1>4, <1>5, <1>8, <2>2 DEF ReviewInv
  <2> QED BY <2>1, <2>2
<1> QED BY <1>2, <1>3, <1>5, <1>6, <1>7, <1>8, FrontStep

\* The admin's desk.
LEMMA AdminStep ==
  ASSUME DeskInv, NEW h \in Handlers, handler[h] = Waiting, NEW p \in Listed, NEW on \in BOOLEAN,
         \/ approveProperty(h, p) \/ rejectProperty(h, p) \/ updateProperty(h, p)
         \/ removeListing(h, p) \/ setActive(h, p, on) \/ setFeatured(h, p, on)
  PROVE  DeskInv'
<1>1. DeskTypes /\ ReviewInv /\ SaleInv
  BY DEF DeskInv
<1>2. listing[p] \in Sellings /\ (listing[p].deleted => ~listing[p].active)
  BY <1>1, DeskRows DEF SaleInv
<1>3. p \in crossed \/ (listing[p].approval = "approved" => listing[p].seen /\ ~Editing(h, p))
  BY <1>1 DEF ReviewInv, Editing, Others
<1>4. CASE approveProperty(h, p)
  <2> DEFINE put == [listing[p] EXCEPT !.approval = "approved", !.seen = TRUE]
  <2>1. put \in Sellings /\ put.deleted = listing[p].deleted /\ put.active = listing[p].active /\ put.seen
    BY <1>2 DEF Sellings
  <2>2. /\ SetListing(h, p, put) /\ cut' = cut /\ crossed \subseteq crossed'
        /\ p \in crossed' \/ ~Editing(h, p)
    BY <1>4 DEF approveProperty
  <2> HIDE DEF put
  <2> QED BY <1>2, <2>1, <2>2, SetListingStep
<1>5. CASE rejectProperty(h, p)
  <2> DEFINE put == [listing[p] EXCEPT !.approval = "rejected"]
  <2>1. /\ put \in Sellings /\ put.deleted = listing[p].deleted /\ put.active = listing[p].active
        /\ put.approval # "approved"
    BY <1>2 DEF Sellings
  <2>2. SetListing(h, p, put) /\ cut' = cut /\ crossed' = crossed
    BY <1>5 DEF rejectProperty
  <2> HIDE DEF put
  <2> QED BY <1>2, <2>1, <2>2, SetListingStep
<1>6. CASE updateProperty(h, p)
  <2> DEFINE put == [listing[p] EXCEPT !.seen = TRUE]
  <2>1. /\ put \in Sellings /\ put.deleted = listing[p].deleted /\ put.active = listing[p].active
        /\ put.approval = listing[p].approval /\ put.seen
    BY <1>2 DEF Sellings
  <2>2. SetListing(h, p, put) /\ cut' = cut /\ crossed' = crossed
    BY <1>6 DEF updateProperty
  <2> HIDE DEF put
  <2> QED BY <1>2, <1>3, <2>1, <2>2, SetListingStep
<1>7. CASE removeListing(h, p)
  <2> DEFINE put == [listing[p] EXCEPT !.deleted = TRUE, !.active = FALSE]
  <2>1. /\ put \in Sellings /\ ~put.active /\ put.approval = listing[p].approval /\ put.seen = listing[p].seen
    BY <1>2 DEF Sellings
  <2>2. SetListing(h, p, put) /\ cut' = cut /\ crossed' = crossed
    BY <1>7 DEF removeListing
  <2> HIDE DEF put
  <2> QED BY <1>2, <1>3, <2>1, <2>2, SetListingStep
<1>8. CASE setActive(h, p, on)
  <2> DEFINE put == [listing[p] EXCEPT !.active = on]
  <2>1. /\ put \in Sellings /\ put.active = on /\ put.deleted = listing[p].deleted
        /\ put.approval = listing[p].approval /\ put.seen = listing[p].seen
    BY <1>2 DEF Sellings
  <2>2. /\ SetListing(h, p, put) /\ cut \subseteq cut' /\ crossed' = crossed /\ ~listing[p].deleted
        /\ on => p \in cut'
    BY <1>8 DEF setActive, SetListing
  <2> HIDE DEF put
  <2> QED BY <1>2, <1>3, <2>1, <2>2, SetListingStep
<1>9. CASE setFeatured(h, p, on)
  <2> DEFINE put == [listing[p] EXCEPT !.featured = on]
  <2>1. /\ put \in Sellings /\ put.deleted = listing[p].deleted /\ put.active = listing[p].active
        /\ put.approval = listing[p].approval /\ put.seen = listing[p].seen
    BY <1>2 DEF Sellings
  <2>2. SetListing(h, p, put) /\ cut' = cut /\ crossed' = crossed
    BY <1>9 DEF setFeatured
  <2> HIDE DEF put
  <2> QED BY <1>2, <1>3, <2>1, <2>2, SetListingStep
<1> QED BY <1>4, <1>5, <1>6, <1>7, <1>8, <1>9

\* A request that writes no listing keeps what the listings say.
LEMMA FrontTurn ==
  ASSUME DeskInv, NEW h \in Handlers, NEW x \in {Waiting} \cup Edits \cup Verifying,
         ~Works(handler[h]), handler' = [handler EXCEPT ![h] = x],
         UNCHANGED <<listing, buyer, raced, cut, crossed>>,
         x.at = "edit" => listing[x.listing].approval # "approved"
  PROVE  DeskInv'
<1>1. DeskTypes /\ ReviewInv /\ SaleInv
  BY DEF DeskInv
<1>2. handler'[h] = x /\ \A g \in Handlers : g # h => handler'[g] = handler[g]
  BY <1>1, DeskTurn
<1>3. ASSUME NEW q \in Listed \ crossed', listing'[q].approval = "approved"
      PROVE  /\ listing'[q].seen
             /\ \A g \in Handlers : ~(handler'[g].at = "edit" /\ handler'[g].listing = q)
  BY <1>1, <1>2, <1>3 DEF ReviewInv
<1>4. /\ listing' \in [Listed -> Sellings]
      /\ \A q \in Listed : listing'[q].deleted => ~listing'[q].active
  BY <1>1 DEF DeskTypes, SaleInv
<1> QED BY <1>3, <1>4, FrontStep

\* The seller's edits and the buyers' codes.
LEMMA VisitorStep ==
  ASSUME DeskInv, NEW h \in Handlers,
         \/ handler[h] = Waiting /\ VerifyEnquiry(h)
         \/ handler[h] = Waiting /\ \E p \in Listed : updateOwn(h, p) \/ VerifyBuyer(h, p)
         \/ WriteOwn(h)
  PROVE  DeskInv'
<1>1. DeskTypes /\ ReviewInv /\ SaleInv
  BY DEF DeskInv
<1>2. handler[h] = Waiting => ~Works(handler[h])
  BY DEF Waiting, Works
<1>3. CASE handler[h] = Waiting /\ VerifyEnquiry(h)
  <2> DEFINE x == [at |-> "enquire", listing |-> NoListing]
  <2>1. x \in Verifying /\ x.at # "edit"
    BY DEF Verifying
  <2>2. handler' = [handler EXCEPT ![h] = x] /\ UNCHANGED <<listing, buyer, raced, cut, crossed>>
    BY <1>3 DEF VerifyEnquiry, Call
  <2> HIDE DEF x
  <2> QED BY <1>2, <1>3, <2>1, <2>2, FrontTurn
<1>4. ASSUME NEW p \in Listed, handler[h] = Waiting, updateOwn(h, p)
      PROVE  DeskInv'
  <2> DEFINE x == [at |-> "edit", listing |-> p]
  <2>1. x \in Edits /\ x.listing = p
    BY DEF Edits
  <2>2. /\ handler' = [handler EXCEPT ![h] = x] /\ UNCHANGED <<listing, buyer, raced, cut, crossed>>
        /\ listing[p].approval # "approved"
    BY <1>4 DEF updateOwn, Call
  <2> HIDE DEF x
  <2> QED BY <1>2, <1>4, <2>1, <2>2, FrontTurn
<1>5. ASSUME NEW p \in Listed, handler[h] = Waiting, VerifyBuyer(h, p)
      PROVE  DeskInv'
  <2> DEFINE x == [at |-> "enquire", listing |-> p]
  <2>1. x \in Verifying /\ x.at # "edit"
    BY DEF Verifying
  <2>2. handler' = [handler EXCEPT ![h] = x] /\ UNCHANGED <<listing, buyer, raced, cut, crossed>>
    BY <1>5 DEF VerifyBuyer, Call
  <2> HIDE DEF x
  <2> QED BY <1>2, <1>5, <2>1, <2>2, FrontTurn
<1>6. CASE WriteOwn(h)
  <2> DEFINE p == handler[h].listing
             put == [listing[p] EXCEPT !.seen = IF listing[p].deleted THEN @ ELSE FALSE]
  <2>1. handler[h].at = "edit" /\ ~Works(handler[h])
    BY <1>6 DEF WriteOwn, Works
  <2>2. p \in Listed /\ listing[p] \in Sellings
    <3>1. handler[h] \in Edits
      BY <1>1, <2>1, DeskKinds
    <3> QED BY <1>1, <3>1, DeskRows DEF Edits
  <2>3. /\ put \in Sellings /\ put.deleted = listing[p].deleted /\ put.active = listing[p].active
        /\ put.approval = listing[p].approval
    BY <2>2 DEF Sellings
  <2>4. /\ listing' = [listing EXCEPT ![p] = put] /\ handler' = [handler EXCEPT ![h] = Waiting]
        /\ UNCHANGED <<buyer, raced, cut, crossed>>
    BY <1>6 DEF WriteOwn, Now
  <2>5. /\ handler'[h] = Waiting /\ Waiting.at # "edit"
        /\ \A g \in Handlers : g # h => handler'[g] = handler[g]
    BY <1>1, <2>4, DeskTurn DEF Waiting
  <2> HIDE DEF put
  <2>6. /\ listing' \in [Listed -> Sellings] /\ listing'[p] = put
        /\ \A q \in Listed : q # p => listing'[q] = listing[q]
    BY <1>1, <2>2, <2>3, <2>4 DEF DeskTypes
  <2>7. ASSUME NEW q \in Listed \ crossed', listing'[q].approval = "approved"
        PROVE  /\ listing'[q].seen
               /\ \A g \in Handlers : ~(handler'[g].at = "edit" /\ handler'[g].listing = q)
    <3>1. q # p
      BY <1>1, <2>1, <2>2, <2>3, <2>4, <2>6, <2>7 DEF ReviewInv
    <3> QED BY <1>1, <2>4, <2>5, <2>6, <2>7, <3>1 DEF ReviewInv
  <2>8. \A q \in Listed : listing'[q].active = listing[q].active /\ listing'[q].deleted = listing[q].deleted
    BY <2>3, <2>6
  <2>9. \A q \in Listed : listing'[q].deleted => ~listing'[q].active
    BY <1>1, <2>8 DEF SaleInv
  <2> QED BY <2>1, <2>4, <2>6, <2>7, <2>8, <2>9, FrontStep
<1> QED BY <1>3, <1>4, <1>5, <1>6

\* A request that handles no lead ends with the leads it writes: no status
\* changes, and a new lead on a listing that is not for sale is on record.
LEMMA LeadRowsStep ==
  ASSUME DeskInv, NEW h \in Handlers, ~Works(handler[h]), handler' = [handler EXCEPT ![h] = Waiting],
         UNCHANGED <<listing, cut, crossed>>, raced \subseteq raced',
         buyer' \in Seq(Buyers), NEW k \in Nat, k = Len(buyer'), Len(buyer) <= k,
         \A l \in 1..Len(buyer) :
           /\ buyer'[l].listing = buyer[l].listing /\ buyer'[l].status = buyer[l].status
           /\ buyer[l].deleted => buyer'[l].deleted,
         \A l \in 1..k \ 1..Len(buyer) :
           /\ buyer'[l].status = "new"
           /\ \/ buyer'[l].listing = NoListing \/ l \in raced'
              \/ listing[buyer'[l].listing].active /\ ~Selling(buyer'[l].listing)
  PROVE  DeskInv'
<1>1. DeskTypes /\ ReviewInv /\ MeetInv /\ SaleInv
  BY DEF DeskInv
<1>2. ~Works(Waiting) /\ Waiting.at # "edit" /\ Waiting' = Waiting
  BY DEF Works, Waiting
<1>3. /\ handler' \in [Handlers -> {Waiting} \cup Edits \cup Verifying \cup Moves]
      /\ handler'[h] = Waiting /\ \A g \in Handlers : g # h => handler'[g] = handler[g]
  BY <1>1, DeskTurn
<1>4. \A g \in Handlers : Works(handler'[g]) => g # h /\ handler'[g] = handler[g] /\ Works(handler[g])
  BY <1>2, <1>3
<1>5. \A g \in Handlers : Works(handler[g]) => handler'[g] = handler[g]
  BY <1>3
<1>6. \A y : (Sells(y) => Works(y)) /\ (y.at = "move" => Works(y)) /\ (Sale(y) => Works(y))
  BY DEF Sells, Works, Sale
<1>7. Len(buyer) \in Nat /\ 1..Len(buyer) \subseteq 1..k /\ DOMAIN buyer = 1..Len(buyer) /\ DOMAIN buyer' = 1..k
  BY <1>1, DeskRows
<1>8. DeskTypes'
  <2>1. ASSUME NEW g \in Handlers, Works(handler[g])'
        PROVE  /\ handler'[g].lead \in 1..k
               /\ buyer'[handler'[g].lead].listing = handler'[g].listing
               /\ Sells(handler[g])' => handler'[g].listing # NoListing
    <3>1. handler'[g] = handler[g] /\ Works(handler[g])
      BY <1>4, <2>1 DEF Works
    <3>2. /\ handler[g].lead \in 1..Len(buyer) /\ buyer[handler[g].lead].listing = handler[g].listing
          /\ Sells(handler[g]) => handler[g].listing # NoListing
      BY <1>1, <3>1 DEF DeskTypes
    <3> QED BY <1>7, <3>1, <3>2 DEF Sells
  <2> QED BY <1>1, <1>2, <1>3, <2>1 DEF DeskTypes, Sellings, Buyers, Moves, Edits, Verifying
<1>9. ReviewInv'
  BY <1>1, <1>2, <1>3 DEF ReviewInv
<1>10. MeetInv'
  <2>1. ASSUME NEW g \in Handlers, handler'[g].at = "move"
        PROVE  /\ MayMove(handler'[g].from, handler'[g].to)
               /\ handler'[g].lead \notin raced' => buyer'[handler'[g].lead].status = handler'[g].from
    <3>1. handler'[g] = handler[g] /\ Works(handler[g])
      BY <1>4, <1>6, <2>1
    <3>2. handler[g].lead \in 1..Len(buyer)
      BY <1>1, <3>1 DEF DeskTypes
    <3> QED BY <1>1, <2>1, <3>1, <3>2 DEF MeetInv
  <2>2. ASSUME NEW f \in Handlers, NEW g \in Handlers, f # g, Works(handler'[f]), Works(handler'[g]),
               handler'[f].lead = handler'[g].lead
                 \/ (handler'[g].listing # NoListing /\ handler'[f].listing = handler'[g].listing)
        PROVE  handler'[g].lead \in raced'
    BY <1>1, <1>4, <2>2 DEF MeetInv
  <2> QED BY <2>1, <2>2 DEF MeetInv, Works, MayMove
<1>11. SaleInv'
  <2>1. \A p : Selling(p)' <=> Selling(p)
    BY <1>4, <1>5, <1>6 DEF Selling, Sells
  <2>2. ASSUME NEW p, Calm(p)'
        PROVE  /\ Calm(p)
               /\ \A m \in Busy(p) : m \in Busy(p)'
               /\ \A m \in Busy(p)' : m \in Busy(p) \/ (listing[p].active /\ ~Selling(p) /\ buyer'[m].status = "new")
    <3>1. p # NoListing /\ p \notin cut /\ \A m \in Busy(p)' : m \notin raced'
      BY <2>2 DEF Calm
    <3>2. \A m \in Busy(p) : m \in 1..Len(buyer) /\ m \in Busy(p)'
      BY <1>7 DEF Busy
    <3>3. ASSUME NEW m \in Busy(p)', m \notin Busy(p)
          PROVE  listing[p].active /\ ~Selling(p) /\ buyer'[m].status = "new"
      <4>1. m \in 1..k /\ buyer'[m].listing = p
        BY <1>7, <3>3 DEF Busy
      <4>2. m \notin 1..Len(buyer)
        BY <1>7, <3>1, <3>3, <4>1 DEF Busy
      <4> QED BY <3>1, <4>1, <4>2
    <3> QED BY <3>1, <3>2, <3>3 DEF Calm
  <2>3. \A l \in 1..Len(buyer) : /\ buyer'[l].status = buyer[l].status /\ (buyer[l].deleted => buyer'[l].deleted)
                                 /\ buyer'[l].listing = buyer[l].listing
    OBVIOUS
  <2>4. ASSUME NEW l \in 1..k, NEW p, p = buyer'[l].listing, buyer'[l].status = "closed_won", Calm(p)',
               ~Selling(p)'
        PROVE  /\ ~listing'[p].active
               /\ \A m \in Busy(p)' \ {l} : ~buyer'[m].deleted => buyer'[m].status = "closed_lost"
    <3>1. l \in 1..Len(buyer) /\ buyer[l].listing = p /\ buyer[l].status = "closed_won"
      BY <2>4
    <3>2. Calm(p) /\ ~Selling(p)
      BY <2>1, <2>2, <2>4
    <3>3. /\ ~listing[p].active
          /\ \A m \in Busy(p) \ {l} : ~buyer[m].deleted => buyer[m].status = "closed_lost"
      BY <1>1, <3>1, <3>2 DEF SaleInv
    <3>4. \A m \in Busy(p)' : m \in Busy(p)
      BY <2>2, <2>4, <3>3
    <3>5. \A m \in Busy(p) : m \in 1..Len(buyer)
      BY <1>7 DEF Busy
    <3> QED BY <2>3, <3>3, <3>4, <3>5
  <2>5. ASSUME NEW g \in Handlers, NEW p, p = handler'[g].listing, Works(handler[g])', Calm(p)'
        PROVE  /\ Sale(handler[g])' => \A m \in Busy(p)' : buyer'[m].status # "closed_won"
               /\ Sells(handler[g])' => \A m \in Busy(p)' \ {handler'[g].lead} : buyer'[m].status # "closed_won"
               /\ handler'[g].at = "hide" =>
                    \A m \in Busy(p)' \ {handler'[g].lead} : ~buyer'[m].deleted => buyer'[m].status = "closed_lost"
    <3>1. handler'[g] = handler[g] /\ Works(handler[g])
      BY <1>4, <2>5 DEF Works
    <3>2. /\ Sale(handler[g]) => \A m \in Busy(p) : buyer[m].status # "closed_won"
          /\ Sells(handler[g]) => \A m \in Busy(p) \ {handler[g].lead} : buyer[m].status # "closed_won"
          /\ handler[g].at = "hide" =>
                \A m \in Busy(p) \ {handler[g].lead} : ~buyer[m].deleted => buyer[m].status = "closed_lost"
      BY <1>1, <2>2, <2>5, <3>1 DEF SaleInv
    <3>3. Sells(handler[g]) => \A m \in Busy(p)' : m \in Busy(p)
      BY <2>2, <2>5, <3>1 DEF Selling, Sells
    <3>4. \A m \in Busy(p) : m \in 1..Len(buyer)
      BY <1>7 DEF Busy
    <3>5. Sale(handler[g]) => \A m \in Busy(p)' : buyer'[m].status # "closed_won"
      BY <2>2, <2>3, <2>5, <3>2, <3>4
    <3>6. Sells(handler[g]) => \A m \in Busy(p)' \ {handler[g].lead} : buyer'[m].status # "closed_won"
      BY <2>3, <3>2, <3>3, <3>4
    <3>7. handler[g].at = "hide" =>
            \A m \in Busy(p)' \ {handler[g].lead} : ~buyer'[m].deleted => buyer'[m].status = "closed_lost"
      BY <2>3, <3>2, <3>3, <3>4 DEF Sells
    <3> QED BY <3>1, <3>5, <3>6, <3>7 DEF Sells, Sale
  <2> QED BY <1>1, <2>4, <2>5 DEF SaleInv, Calm, Busy, Selling
<1> QED BY <1>8, <1>9, <1>10, <1>11 DEF DeskInv

\* A new lead.
LEMMA NewLeadStep ==
  ASSUME DeskInv, NEW h \in Handlers, ~Works(handler[h]), handler' = [handler EXCEPT ![h] = Waiting],
         UNCHANGED <<listing, cut, crossed>>, raced \subseteq raced', NEW p \in Listed \cup {NoListing},
         buyer' = Append(buyer, NewLead(p)),
         \/ p = NoListing \/ Len(buyer) + 1 \in raced'
         \/ listing[p].active /\ ~Selling(p)
  PROVE  DeskInv'
<1>1. DeskTypes
  BY DEF DeskInv
<1>2. NewLead(p) \in Buyers /\ NewLead(p).listing = p /\ NewLead(p).status = "new"
  BY DEF NewLead, Buyers, Statuses, OpenStatuses
<1>3. Len(buyer) \in Nat
  BY <1>1, DeskRows
<1>4. /\ buyer' \in Seq(Buyers) /\ Len(buyer') = Len(buyer) + 1 /\ buyer'[Len(buyer) + 1] = NewLead(p)
      /\ \A l \in 1..Len(buyer) : buyer'[l] = buyer[l]
  BY <1>1, <1>2, <1>3 DEF DeskTypes
<1>5. Len(buyer') \in Nat /\ Len(buyer) <= Len(buyer')
  BY <1>3, <1>4
<1>6. \A l \in 1..Len(buyer') \ 1..Len(buyer) : l = Len(buyer) + 1
  BY <1>3, <1>4
<1>7. \A l \in 1..Len(buyer') \ 1..Len(buyer) :
        /\ buyer'[l].status = "new"
        /\ \/ buyer'[l].listing = NoListing \/ l \in raced'
           \/ listing[buyer'[l].listing].active /\ ~Selling(buyer'[l].listing)
  BY <1>2, <1>4, <1>6
<1> QED BY <1>4, <1>5, <1>7, LeadRowsStep

\* A lead is written, its status and its listing are not.
LEMMA LeadWrittenStep ==
  ASSUME DeskInv, NEW h \in Handlers, ~Works(handler[h]), handler' = [handler EXCEPT ![h] = Waiting],
         UNCHANGED <<listing, raced, cut, crossed>>, NEW l \in 1..Len(buyer), NEW put \in Buyers,
         buyer' = [buyer EXCEPT ![l] = put], put.status = buyer[l].status, put.listing = buyer[l].listing,
         buyer[l].deleted => put.deleted
  PROVE  DeskInv'
<1>1. DeskTypes
  BY DEF DeskInv
<1>2. /\ buyer' \in Seq(Buyers) /\ Len(buyer') = Len(buyer) /\ Len(buyer) \in Nat
      /\ \A m \in 1..Len(buyer) : buyer'[m] = IF m = l THEN put ELSE buyer[m]
  BY <1>1 DEF DeskTypes
<1>3. \A m \in 1..Len(buyer) :
        /\ buyer'[m].listing = buyer[m].listing /\ buyer'[m].status = buyer[m].status
        /\ buyer[m].deleted => buyer'[m].deleted
  BY <1>2
<1>4. 1..Len(buyer') \ 1..Len(buyer) = {}
  BY <1>2
<1>5. Len(buyer') \in Nat /\ Len(buyer) <= Len(buyer')
  BY <1>2
<1> QED BY <1>2, <1>3, <1>4, <1>5, LeadRowsStep

\* Buyers leave leads, admins assign and remove them.
LEMMA LeadDeskStep ==
  ASSUME DeskInv, NEW h \in Handlers,
         \/ handler[h] = Waiting /\ SubmitEnquiry(h)
         \/ CreateLead(h)
         \/ handler[h] = Waiting /\ \E l \in DOMAIN buyer : removeLead(h, l)
         \/ handler[h] = Waiting /\ \E l \in DOMAIN buyer : \E who \in Assignees \cup {Nobody}, fails \in BOOLEAN :
              updateAssignment(h, l, who, fails)
  PROVE  DeskInv'
<1>1. DeskTypes /\ DOMAIN buyer = 1..Len(buyer) /\ \A l \in 1..Len(buyer) : buyer[l] \in Buyers
  BY DeskRows DEF DeskInv
<1>2. handler[h] = Waiting => ~Works(handler[h])
  BY DEF Waiting, Works
<1>3. CASE handler[h] = Waiting /\ SubmitEnquiry(h)
  <2>1. /\ handler' = [handler EXCEPT ![h] = Waiting] /\ UNCHANGED <<listing, cut, crossed, raced>>
        /\ buyer' = Append(buyer, NewLead(NoListing))
    BY <1>3 DEF SubmitEnquiry, Call
  <2> QED BY <1>2, <1>3, <2>1, NewLeadStep
<1>4. CASE CreateLead(h)
  <2>1. handler[h].at = "enquire" /\ ~Works(handler[h])
    BY <1>4 DEF CreateLead, Works
  <2>2. handler[h] \in Verifying
    BY <1>1, <2>1, DeskKinds
  <2>3. PICK p \in Listed \cup {NoListing} : p = handler[h].listing
    BY <2>2 DEF Verifying
  <2>4. /\ handler' = [handler EXCEPT ![h] = Waiting] /\ UNCHANGED <<listing, cut, crossed>>
        /\ buyer' = Append(buyer, NewLead(p)) /\ raced \subseteq raced'
    BY <1>4, <2>3 DEF CreateLead, Now
  <2>5. \/ p = NoListing \/ Len(buyer) + 1 \in raced'
        \/ Public(p) /\ ~ \E g \in Others(h, {"siblings", "hide"}) : handler[g].listing = p
    BY <1>4, <2>3 DEF CreateLead
  <2>6. ~Sells(handler[h])
    BY <2>1 DEF Sells
  <2>7. \/ p = NoListing \/ Len(buyer) + 1 \in raced'
        \/ listing[p].active /\ ~Selling(p)
    BY <2>5, <2>6 DEF Public, Others, Selling, Sells
  <2> QED BY <2>1, <2>4, <2>7, NewLeadStep
<1>5. ASSUME NEW l \in DOMAIN buyer, handler[h] = Waiting, removeLead(h, l)
      PROVE  DeskInv'
  <2> DEFINE put == [buyer[l] EXCEPT !.deleted = TRUE]
  <2>1. /\ put \in Buyers /\ put.status = buyer[l].status /\ put.listing = buyer[l].listing /\ put.deleted
        /\ l \in 1..Len(buyer)
    BY <1>1 DEF Buyers
  <2>2. /\ handler' = [handler EXCEPT ![h] = Waiting] /\ UNCHANGED <<listing, raced, cut, crossed>>
        /\ buyer' = [buyer EXCEPT ![l] = put]
    BY <1>5 DEF removeLead, Call
  <2> HIDE DEF put
  <2> QED BY <1>2, <1>5, <2>1, <2>2, LeadWrittenStep
<1>6. ASSUME NEW l \in DOMAIN buyer, NEW who \in Assignees \cup {Nobody}, NEW fails \in BOOLEAN,
             handler[h] = Waiting, updateAssignment(h, l, who, fails)
      PROVE  DeskInv'
  <2> DEFINE put == [buyer[l] EXCEPT !.assignee = who]
  <2>1. /\ put \in Buyers /\ put.status = buyer[l].status /\ put.listing = buyer[l].listing
        /\ put.deleted = buyer[l].deleted /\ l \in 1..Len(buyer)
    BY <1>1 DEF Buyers
  <2>2. /\ handler' = [handler EXCEPT ![h] = Waiting] /\ UNCHANGED <<listing, raced, cut, crossed>>
        /\ buyer' = [buyer EXCEPT ![l] = put]
    BY <1>6 DEF updateAssignment, Call
  <2> HIDE DEF put
  <2> QED BY <1>2, <1>6, <2>1, <2>2, LeadWrittenStep
<1> QED BY <1>3, <1>4, <1>5, <1>6

\* An admin starts to move a lead.
LEMMA StartMoveStep ==
  ASSUME DeskInv, NEW h \in Handlers, handler[h] = Waiting, NEW l \in DOMAIN buyer, NEW to \in Statuses,
         StartMove(h, l, to)
  PROVE  DeskInv'
<1> DEFINE p == buyer[l].listing
           x == [at |-> "move", lead |-> l, listing |-> p, from |-> buyer[l].status, to |-> to]
<1>1. DeskTypes /\ ReviewInv /\ MeetInv /\ SaleInv /\ ~Works(handler[h])
  BY DEF DeskInv, Waiting, Works
<1>2. /\ ~buyer[l].deleted /\ MayMove(buyer[l].status, to) /\ handler' = [handler EXCEPT ![h] = x]
      /\ UNCHANGED <<listing, buyer, crossed, cut>>
      /\ raced' = IF Meets(h, l) THEN raced \cup {l} \cup Busy(p) ELSE raced
  BY DEF StartMove, Call
<1>3. DOMAIN buyer = 1..Len(buyer) /\ l \in 1..Len(buyer) /\ buyer[l] \in Buyers /\ Len(buyer) \in Nat
  BY <1>1, DeskRows
<1>4. /\ x \in Moves /\ x.at = "move" /\ x.lead = l /\ x.listing = p /\ x.from = buyer[l].status /\ x.to = to
      /\ Works(x) /\ ~Sells(x)
  BY <1>3 DEF Moves, Buyers, Works, Sells
<1> HIDE DEF x
<1>5. /\ handler' \in [Handlers -> {Waiting} \cup Edits \cup Verifying \cup Moves]
      /\ handler'[h] = x /\ \A g \in Handlers : g # h => handler'[g] = handler[g]
  BY <1>1, <1>2, <1>4, DeskTurn
<1>6. \A g \in Handlers : (g = h /\ handler'[g] = x) \/ (g # h /\ handler'[g] = handler[g])
  BY <1>5
<1>7. \A g \in Handlers : g # h /\ Works(handler[g])
        /\ (handler[g].lead = l \/ (p # NoListing /\ handler[g].listing = p)) => Meets(h, l)
  BY DEF Meets, Others, Works
<1>8. DeskTypes'
  <2>1. ASSUME NEW g \in Handlers, Works(handler[g])'
        PROVE  /\ handler'[g].lead \in 1..Len(buyer)
               /\ buyer[handler'[g].lead].listing = handler'[g].listing
               /\ Sells(handler[g])' => handler'[g].listing # NoListing
    BY <1>1, <1>3, <1>4, <1>6, <2>1 DEF DeskTypes, Works, Sells
  <2> QED BY <1>1, <1>2, <1>5, <2>1 DEF DeskTypes, Sellings, Buyers, Moves, Edits, Verifying, Waiting
<1>9. ReviewInv'
  BY <1>1, <1>2, <1>4, <1>6 DEF ReviewInv
<1>10. MeetInv'
  <2>1. ASSUME NEW g \in Handlers, handler'[g].at = "move"
        PROVE  /\ MayMove(handler'[g].from, handler'[g].to)
               /\ handler'[g].lead \notin raced' => buyer[handler'[g].lead].status = handler'[g].from
    BY <1>1, <1>2, <1>4, <1>6, <2>1 DEF MeetInv
  <2>2. ASSUME NEW f \in Handlers, NEW g \in Handlers, f # g, Works(handler'[f]), Works(handler'[g]),
               handler'[f].lead = handler'[g].lead
                 \/ (handler'[g].listing # NoListing /\ handler'[f].listing = handler'[g].listing)
        PROVE  handler'[g].lead \in raced'
    <3>1. CASE g = h
      <4>1. f # h /\ handler'[f] = handler[f] /\ handler'[g] = x
        BY <1>6, <2>2, <3>1
      <4>2. Meets(h, l)
        BY <1>4, <1>7, <2>2, <4>1
      <4> QED BY <1>2, <1>4, <4>1, <4>2
    <3>2. CASE f = h
      <4>1. g # h /\ handler'[g] = handler[g] /\ handler'[f] = x
        BY <1>6, <2>2, <3>2
      <4>2. Meets(h, l)
        BY <1>4, <1>7, <2>2, <4>1
      <4>3. handler[g].lead \in 1..Len(buyer) /\ buyer[handler[g].lead].listing = handler[g].listing
        BY <1>1, <2>2, <4>1 DEF DeskTypes
      <4>4. handler[g].lead = l \/ handler[g].lead \in Busy(p)
        BY <1>3, <1>4, <2>2, <4>1, <4>3 DEF Busy
      <4> QED BY <1>2, <4>1, <4>2, <4>4
    <3>3. CASE f # h /\ g # h
      <4>1. handler[g].lead \in raced
        BY <1>1, <1>6, <2>2, <3>3 DEF MeetInv
      <4> QED BY <1>2, <1>6, <3>3, <4>1
    <3> QED BY <3>1, <3>2, <3>3
  <2> QED BY <1>2, <2>1, <2>2 DEF MeetInv, Works, MayMove
<1>11. SaleInv'
  <2>1. \A q : Selling(q)' <=> Selling(q)
    BY <1>1, <1>4, <1>6 DEF Selling, Sells, Works
  <2>2. \A q : Busy(q)' = Busy(q) /\ (Calm(q)' => Calm(q))
    BY <1>2 DEF Busy, Calm
  <2>3. ASSUME NEW s, s = p, Calm(s)', Sale(x), NEW m \in Busy(s), buyer[m].status = "closed_won"
        PROVE  FALSE
    <3>1. Calm(p) /\ m \in Busy(p) /\ m \notin raced' /\ m \in 1..Len(buyer) /\ buyer[m].listing = p
      BY <1>2, <1>3, <2>2, <2>3 DEF Calm, Busy
    <3>2. ~Meets(h, l)
      BY <1>2, <2>3, <3>1
    <3>3. ~Selling(p)
      <4> SUFFICES ASSUME NEW g \in Handlers, Sells(handler[g]), handler[g].listing = p
                   PROVE  FALSE
        BY DEF Selling, Sells
      <4>1. Works(handler[g]) /\ g # h
        BY <1>1 DEF Sells, Works
      <4> QED BY <1>7, <3>1, <3>2, <4>1 DEF Calm
    <3>4. \A q \in Busy(p) \ {m} : ~buyer[q].deleted => buyer[q].status = "closed_lost"
      BY <1>1, <2>3, <3>1, <3>3 DEF SaleInv
    <3>5. l \in Busy(p) \ {m}
      BY <1>3, <1>4, <2>3, <3>1 DEF Busy, Calm, Sale
    <3>6. buyer[l].status = "closed_lost" /\ to = "closed_won"
      BY <1>2, <1>4, <2>3, <3>4, <3>5 DEF Sale
    <3> QED BY <1>2, <3>6 DEF MayMove, LeadTerminal
  <2>4. ASSUME NEW q \in 1..Len(buyer), NEW s, s = buyer[q].listing, buyer[q].status = "closed_won",
               Calm(s)', ~Selling(s)'
        PROVE  /\ ~listing[s].active
               /\ \A m \in Busy(s) \ {q} : ~buyer[m].deleted => buyer[m].status = "closed_lost"
    <3>1. Calm(s) /\ ~Selling(s)
      BY <2>1, <2>2, <2>4
    <3> QED BY <1>1, <2>4, <3>1 DEF SaleInv
  <2>5. ASSUME NEW g \in Handlers, NEW s, s = handler'[g].listing, Works(handler[g])', Calm(s)'
        PROVE  /\ Sale(handler[g])' => \A m \in Busy(s) : buyer[m].status # "closed_won"
               /\ Sells(handler[g])' => \A m \in Busy(s) \ {handler'[g].lead} : buyer[m].status # "closed_won"
               /\ handler'[g].at = "hide" =>
                    \A m \in Busy(s) \ {handler'[g].lead} : ~buyer[m].deleted => buyer[m].status = "closed_lost"
    <3>1. CASE g = h
      <4>1. handler'[g] = x /\ s = p
        BY <1>4, <1>6, <2>5, <3>1
      <4> QED BY <1>4, <2>3, <2>5, <4>1 DEF Sale, Sells
    <3>2. CASE g # h
      <4>1. handler'[g] = handler[g] /\ Works(handler[g]) /\ Calm(s) /\ s = handler[g].listing
        BY <1>6, <2>2, <2>5, <3>2 DEF Works
      <4> QED BY <1>1, <2>5, <4>1 DEF SaleInv, Sale, Sells
    <3> QED BY <3>1, <3>2
  <2> QED BY <1>1, <1>2, <2>4, <2>5 DEF SaleInv, Calm, Busy, Selling
<1> QED BY <1>8, <1>9, <1>10, <1>11 DEF DeskInv

\* A request that handles a lead knows what the others may do: whoever handles
\* a lead of its listing left a trace, and so did whoever handles its lead.
LEMMA OthersMeet ==
  ASSUME DeskTypes, MeetInv, NEW h \in Handlers, NEW g \in Handlers, g # h,
         Works(handler[h]), Works(handler[g])
  PROVE  /\ handler[g].lead = handler[h].lead => handler[g].lead \in raced
         /\ Calm(handler[g].listing) => handler[g].listing # handler[h].listing
<1>1. /\ handler[g].lead \in DOMAIN buyer /\ buyer[handler[g].lead].listing = handler[g].listing
  BY DeskRows DEF DeskTypes
<1>2. handler[g].lead = handler[h].lead
        \/ (handler[g].listing # NoListing /\ handler[h].listing = handler[g].listing)
      => handler[g].lead \in raced
  BY DEF MeetInv
<1>3. handler[g].listing # NoListing => handler[g].lead \in Busy(handler[g].listing)
  BY <1>1 DEF Busy
<1> QED BY <1>2, <1>3 DEF Calm

\* The status of a lead is written.
LEMMA WriteMoveStep ==
  ASSUME DeskInv, NEW h \in Handlers, WriteMove(h)
  PROVE  DeskInv'
<1> DEFINE l == handler[h].lead
           p == handler[h].listing
           to == handler[h].to
           sale == to = "closed_won" /\ handler[h].from # "closed_won" /\ p # NoListing
           st == IF buyer[l].deleted THEN buyer[l].status ELSE to
           x == IF sale THEN [handler[h] EXCEPT !.at = "siblings"] ELSE Waiting
<1>1. DeskTypes /\ ReviewInv /\ MeetInv /\ SaleInv
  BY DEF DeskInv
<1>2. /\ handler[h].at = "move" /\ handler' = [handler EXCEPT ![h] = x]
      /\ UNCHANGED <<listing, crossed, raced, cut>>
      /\ buyer' = [buyer EXCEPT ![l].status = st]
  BY DEF WriteMove, Now
<1>3. /\ Works(handler[h]) /\ ~Sells(handler[h]) /\ handler[h] \in Moves /\ l \in 1..Len(buyer)
      /\ buyer[l].listing = p /\ Len(buyer) \in Nat /\ DOMAIN buyer = 1..Len(buyer)
  BY <1>1, <1>2, DeskKinds, DeskRows DEF Works, Sells
<1>4. /\ MayMove(handler[h].from, to)
      /\ l \notin raced => buyer[l].status = handler[h].from
  BY <1>1, <1>2 DEF MeetInv
<1>5. [buyer[l] EXCEPT !.status = st] \in Buyers
  BY <1>1, <1>3, DeskRows DEF Buyers, Moves
<1>6. /\ buyer' \in Seq(Buyers) /\ Len(buyer') = Len(buyer) /\ DOMAIN buyer' = 1..Len(buyer)
      /\ buyer' = [buyer EXCEPT ![l] = [buyer[l] EXCEPT !.status = st]]
  BY <1>1, <1>2, <1>3, <1>5 DEF DeskTypes
<1>7. /\ \A q \in 1..Len(buyer) : q # l => buyer'[q] = buyer[q]
      /\ buyer'[l].status = st /\ buyer'[l].listing = p /\ buyer'[l].deleted = buyer[l].deleted
  BY <1>1, <1>3, <1>6, DeskRows DEF DeskTypes, Buyers
<1>8. /\ sale => x \in Moves /\ x.at = "siblings" /\ x.lead = l /\ x.listing = p
      /\ ~sale => x = Waiting
  BY <1>3 DEF Moves
<1>9. x \in {Waiting} \cup Moves
  BY <1>8
<1>10. Works(x) => sale
  BY <1>8 DEF Works, Waiting
<1> HIDE DEF x, st
<1>11. /\ handler' \in [Handlers -> {Waiting} \cup Edits \cup Verifying \cup Moves]
       /\ handler'[h] = x /\ \A g \in Handlers : g # h => handler'[g] = handler[g]
  BY <1>1, <1>2, <1>9, DeskTurn
<1>12. /\ \A q \in 1..Len(buyer) : buyer'[q].listing = buyer[q].listing /\ buyer'[q].deleted = buyer[q].deleted
       /\ \A q \in 1..Len(buyer) : buyer[q].listing # p => buyer'[q] = buyer[q]
  BY <1>3, <1>7
<1>13. DeskTypes'
  <2>1. ASSUME NEW g \in Handlers, Works(handler[g])'
        PROVE  /\ handler'[g].lead \in 1..Len(buyer)
               /\ buyer'[handler'[g].lead].listing = handler'[g].listing
               /\ Sells(handler[g])' => handler'[g].listing # NoListing
    <3>1. CASE g = h
      BY <1>3, <1>7, <1>8, <1>10, <1>11, <2>1, <3>1 DEF Works
    <3>2. CASE g # h
      <4>1. handler'[g] = handler[g] /\ Works(handler[g])
        BY <1>11, <2>1, <3>2 DEF Works
      <4>2. /\ handler[g].lead \in 1..Len(buyer) /\ buyer[handler[g].lead].listing = handler[g].listing
            /\ Sells(handler[g]) => handler[g].listing # NoListing
        BY <1>1, <4>1 DEF DeskTypes
      <4> QED BY <1>12, <4>1, <4>2 DEF Sells
    <3> QED BY <3>1, <3>2
  <2> QED BY <1>1, <1>2, <1>6, <1>11, <2>1 DEF DeskTypes, Sellings, Buyers, Moves, Edits, Verifying, Waiting
<1>14. ReviewInv'
  BY <1>1, <1>2, <1>8, <1>11 DEF ReviewInv, Waiting
<1>15. MeetInv'
  <2>1. ASSUME NEW g \in Handlers, handler'[g].at = "move"
        PROVE  /\ MayMove(handler'[g].from, handler'[g].to)
               /\ handler'[g].lead \notin raced => buyer'[handler'[g].lead].status = handler'[g].from
    <3>1. g # h /\ handler'[g] = handler[g] /\ Works(handler[g])
      BY <1>8, <1>11, <2>1 DEF Waiting, Works
    <3>2. handler[g].lead \in 1..Len(buyer) /\ (handler[g].lead = l => handler[g].lead \in raced)
      BY <1>1, <1>3, <3>1, OthersMeet DEF DeskTypes
    <3> QED BY <1>1, <1>7, <2>1, <3>1, <3>2 DEF MeetInv
  <2>2. ASSUME NEW f \in Handlers, NEW g \in Handlers, f # g, Works(handler'[f]), Works(handler'[g]),
               handler'[f].lead = handler'[g].lead
                 \/ (handler'[g].listing # NoListing /\ handler'[f].listing = handler'[g].listing)
        PROVE  handler'[g].lead \in raced
    <3>1. \A e \in Handlers : Works(handler'[e]) => /\ Works(handler[e]) /\ handler'[e].lead = handler[e].lead
                                                    /\ handler'[e].listing = handler[e].listing
      BY <1>3, <1>8, <1>10, <1>11
    <3> QED BY <1>1, <2>2, <3>1 DEF MeetInv
  <2> QED BY <1>2, <2>1, <2>2 DEF MeetInv, Works, MayMove
<1>16. SaleInv'
  <2>1. \A s : Busy(s)' = Busy(s) /\ (Calm(s)' => Calm(s)) /\ Busy(s) \subseteq 1..Len(buyer)
    BY <1>2, <1>3, <1>6, <1>12 DEF Busy, Calm
  <2>2. \A s : Selling(s) => Selling(s)'
    BY <1>3, <1>11 DEF Selling, Sells
  <2>3. sale => Selling(p)'
    BY <1>8, <1>11 DEF Selling
  <2>4. ASSUME NEW q \in 1..Len(buyer), NEW s, s = buyer[q].listing, buyer'[q].status = "closed_won",
               Calm(s)', ~Selling(s)'
        PROVE  /\ ~listing[s].active
               /\ \A m \in Busy(s) \ {q} : ~buyer'[m].deleted => buyer'[m].status = "closed_lost"
    <3>1. Calm(s) /\ ~Selling(s)
      BY <2>1, <2>2, <2>4
    <3>2. CASE s # p
      <4>1. \A m \in Busy(s) : m \in 1..Len(buyer) /\ buyer'[m] = buyer[m]
        BY <1>3, <1>7, <3>2 DEF Busy
      <4>2. buyer'[q] = buyer[q]
        BY <1>12, <2>4, <3>2
      <4> QED BY <1>1, <2>4, <3>1, <4>1, <4>2 DEF SaleInv
    <3>3. CASE s = p
      <4>1. ~sale /\ p # NoListing /\ l \in Busy(p) /\ l \notin raced
        <5>1. ~sale
          <6> SUFFICES ASSUME sale PROVE FALSE
            OBVIOUS
          <6> QED BY <1>8, <1>11, <2>4, <3>3 DEF Selling
        <5>2. p # NoListing /\ l \in Busy(p)
          BY <1>3, <3>1, <3>3 DEF Calm, Busy
        <5> QED BY <3>1, <3>3, <5>1, <5>2 DEF Calm
      <4>2. buyer[l].status = handler[h].from
        BY <1>4, <4>1
      <4>3. CASE q = l
        <5>1. buyer[q].status = "closed_won"
          BY <1>7, <2>4, <4>1, <4>2, <4>3 DEF st
        <5>2. /\ ~listing[s].active
              /\ \A m \in Busy(s) \ {q} : ~buyer[m].deleted => buyer[m].status = "closed_lost"
          BY <1>1, <2>4, <3>1, <5>1 DEF SaleInv
        <5> QED BY <1>7, <2>1, <4>3, <5>2
      <4>4. CASE q # l
        <5>1. buyer[q].status = "closed_won"
          BY <1>7, <2>4, <4>4
        <5>2. /\ ~listing[s].active
              /\ \A m \in Busy(s) \ {q} : ~buyer[m].deleted => buyer[m].status = "closed_lost"
          BY <1>1, <2>4, <3>1, <5>1 DEF SaleInv
        <5>3. ~buyer[l].deleted => buyer'[l].status = "closed_lost"
          <6>1. ~buyer[l].deleted => buyer[l].status = "closed_lost"
            BY <3>3, <4>1, <4>4, <5>2
          <6> QED BY <1>4, <1>7, <4>2, <6>1 DEF st, MayMove, LeadTerminal
        <5> QED BY <1>7, <2>1, <5>2, <5>3
      <4> QED BY <4>3, <4>4
    <3> QED BY <3>2, <3>3
  <2>5. ASSUME NEW g \in Handlers, NEW s, s = handler'[g].listing, Works(handler[g])', Calm(s)'
        PROVE  /\ Sale(handler[g])' => \A m \in Busy(s) : buyer'[m].status # "closed_won"
               /\ Sells(handler[g])' => \A m \in Busy(s) \ {handler'[g].lead} : buyer'[m].status # "closed_won"
               /\ handler'[g].at = "hide" =>
                    \A m \in Busy(s) \ {handler'[g].lead} : ~buyer'[m].deleted => buyer'[m].status = "closed_lost"
    <3>1. Calm(s)
      BY <2>1, <2>5
    <3>2. CASE g = h
      <4>1. sale /\ handler'[g].at = "siblings" /\ handler'[g].lead = l /\ s = p
        BY <1>8, <1>10, <1>11, <2>5, <3>2 DEF Works
      <4>2. \A m \in Busy(p) : buyer[m].status # "closed_won"
        BY <1>1, <1>2, <1>3, <3>1, <4>1 DEF SaleInv, Sale
      <4>3. \A m \in Busy(p) \ {l} : buyer'[m].status # "closed_won"
        BY <1>7, <2>1, <4>2
      <4> QED BY <4>1, <4>3 DEF Sale, Sells
    <3>3. CASE g # h
      <4>1. handler'[g] = handler[g] /\ Works(handler[g]) /\ s = handler[g].listing
        BY <1>11, <2>5, <3>3 DEF Works
      <4>2. s # p
        BY <1>1, <1>3, <3>1, <3>3, <4>1, OthersMeet
      <4>3. \A m \in Busy(s) : buyer'[m] = buyer[m]
        BY <1>3, <1>7, <4>2 DEF Busy
      <4> QED BY <1>1, <3>1, <4>1, <4>3 DEF SaleInv, Sale, Sells
    <3> QED BY <3>2, <3>3
  <2>6. \A q \in Listed : listing[q].deleted => ~listing[q].active
    BY <1>1 DEF SaleInv
  <2> QED BY SMTT(60), <1>2, <1>6, <1>12, <2>1, <2>4, <2>5, <2>6 DEF SaleInv, Calm, Busy, Selling
<1> QED BY <1>13, <1>14, <1>15, <1>16 DEF DeskInv

\* A function on 1..n is a sequence of length n.
LEMMA RowsOfSeq ==
  ASSUME NEW S, NEW n \in Nat, NEW f \in [1..n -> S]
  PROVE  f \in Seq(S) /\ Len(f) = n
BY LenProperties, SeqDef

\* The listing's other open leads are closed as lost.
LEMMA CloseSiblingsStep ==
  ASSUME DeskInv, NEW h \in Handlers, CloseSiblings(h)
  PROVE  DeskInv'
<1> DEFINE l == handler[h].lead
           p == handler[h].listing
           x == [handler[h] EXCEPT !.at = "hide"]
           closed(m) == IF m \in Siblings(l) THEN [buyer[m] EXCEPT !.status = "closed_lost"] ELSE buyer[m]
<1>1. DeskTypes /\ ReviewInv /\ MeetInv /\ SaleInv
  BY DEF DeskInv
<1>2. /\ handler[h].at = "siblings" /\ handler' = [handler EXCEPT ![h] = x]
      /\ UNCHANGED <<listing, crossed, raced, cut>>
      /\ buyer' = [m \in DOMAIN buyer |-> closed(m)]
  BY DEF CloseSiblings, Now
<1>3. /\ Works(handler[h]) /\ Sells(handler[h]) /\ handler[h] \in Moves /\ l \in 1..Len(buyer)
      /\ buyer[l].listing = p /\ Len(buyer) \in Nat /\ DOMAIN buyer = 1..Len(buyer) /\ p # NoListing
  BY <1>1, <1>2, DeskKinds, DeskRows DEF Works, Sells
<1>4. /\ x \in Moves /\ x.at = "hide" /\ x.lead = l /\ x.listing = p /\ Works(x)
  BY <1>3 DEF Moves, Works
<1>5. ASSUME NEW m \in 1..Len(buyer)
      PROVE  /\ closed(m) \in Buyers /\ closed(m).listing = buyer[m].listing /\ closed(m).deleted = buyer[m].deleted
             /\ buyer[m].listing # p => closed(m) = buyer[m]
             /\ closed(m).status # buyer[m].status => closed(m).status = "closed_lost" /\ buyer[m].listing = p
             /\ buyer[m].listing = p /\ m # l /\ ~buyer[m].deleted =>
                  closed(m).status \in {"closed_won", "closed_lost"}
  <2>1. buyer[m] \in Buyers
    BY <1>1, DeskRows
  <2>2. [buyer[m] EXCEPT !.status = "closed_lost"] \in Buyers
    BY <2>1 DEF Buyers, Statuses, LeadTerminal
  <2>3. CASE m \in Siblings(l)
    BY <1>3, <2>1, <2>2, <2>3 DEF Siblings, Buyers
  <2>4. CASE m \notin Siblings(l)
    <3>1. closed(m) = buyer[m]
      BY <2>4
    <3>2. buyer[m].listing = p /\ m # l /\ ~buyer[m].deleted => buyer[m].status \notin OpenStatuses
      BY <1>3, <2>4 DEF Siblings
    <3> QED BY <2>1, <3>1, <3>2 DEF Buyers, Statuses, LeadTerminal
  <2> QED BY <2>3, <2>4
<1> HIDE DEF x, closed
<1>6. /\ buyer' \in [1..Len(buyer) -> Buyers] /\ \A m \in 1..Len(buyer) : buyer'[m] = closed(m)
  BY <1>2, <1>3, <1>5
<1>7. buyer' \in Seq(Buyers) /\ Len(buyer') = Len(buyer) /\ DOMAIN buyer' = 1..Len(buyer)
  BY <1>3, <1>6, RowsOfSeq
<1>8. /\ handler' \in [Handlers -> {Waiting} \cup Edits \cup Verifying \cup Moves]
      /\ handler'[h] = x /\ \A g \in Handlers : g # h => handler'[g] = handler[g]
  BY <1>1, <1>2, <1>4, DeskTurn
<1>9. \A m \in 1..Len(buyer) : /\ buyer'[m].listing = buyer[m].listing /\ buyer'[m].deleted = buyer[m].deleted
                               /\ buyer[m].listing # p => buyer'[m] = buyer[m]
                               /\ buyer'[m].status = "closed_won" => buyer[m].status = "closed_won"
  BY <1>5, <1>6
<1>10. DeskTypes'
  <2>1. ASSUME NEW g \in Handlers, Works(handler[g])'
        PROVE  /\ handler'[g].lead \in 1..Len(buyer)
               /\ buyer'[handler'[g].lead].listing = handler'[g].listing
               /\ Sells(handler[g])' => handler'[g].listing # NoListing
    <3>1. CASE g = h
      BY <1>3, <1>4, <1>8, <1>9, <3>1
    <3>2. CASE g # h
      <4>1. handler'[g] = handler[g] /\ Works(handler[g])
        BY <1>8, <2>1, <3>2 DEF Works
      <4>2. /\ handler[g].lead \in 1..Len(buyer) /\ buyer[handler[g].lead].listing = handler[g].listing
            /\ Sells(handler[g]) => handler[g].listing # NoListing
        BY <1>1, <4>1 DEF DeskTypes
      <4> QED BY <1>9, <4>1, <4>2 DEF Sells
    <3> QED BY <3>1, <3>2
  <2> QED BY <1>1, <1>2, <1>7, <1>8, <2>1 DEF DeskTypes, Sellings, Buyers, Moves, Edits, Verifying, Waiting
<1>11. ReviewInv'
  BY <1>1, <1>2, <1>4, <1>8 DEF ReviewInv
<1>12. MeetInv'
  <2>1. ASSUME NEW g \in Handlers, handler'[g].at = "move"
        PROVE  /\ MayMove(handler'[g].from, handler'[g].to)
               /\ handler'[g].lead \notin raced => buyer'[handler'[g].lead].status = handler'[g].from
    <3>1. g # h /\ handler'[g] = handler[g] /\ Works(handler[g])
      BY <1>4, <1>8, <2>1 DEF Works
    <3>2. handler[g].lead \in 1..Len(buyer) /\ buyer[handler[g].lead].listing = handler[g].listing
      BY <1>1, <3>1 DEF DeskTypes
    <3>3. handler[g].listing = p => handler[g].lead \in raced
      BY <1>1, <1>3, <3>1 DEF MeetInv
    <3> QED BY <1>1, <1>9, <2>1, <3>1, <3>2, <3>3 DEF MeetInv
  <2>2. ASSUME NEW f \in Handlers, NEW g \in Handlers, f # g, Works(handler'[f]), Works(handler'[g]),
               handler'[f].lead = handler'[g].lead
                 \/ (handler'[g].listing # NoListing /\ handler'[f].listing = handler'[g].listing)
        PROVE  handler'[g].lead \in raced
    <3>1. \A e \in Handlers : Works(handler'[e]) => /\ Works(handler[e]) /\ handler'[e].lead = handler[e].lead
                                                    /\ handler'[e].listing = handler[e].listing
      BY <1>3, <1>4, <1>8
    <3> QED BY <1>1, <2>2, <3>1 DEF MeetInv
  <2> QED BY <1>2, <2>1, <2>2 DEF MeetInv, Works, MayMove
<1>13. SaleInv'
  <2>6. UNCHANGED <<listing, raced, cut>>
    BY <1>2
  <2>1. \A s : Busy(s)' = Busy(s) /\ (Calm(s)' => Calm(s)) /\ Busy(s) \subseteq 1..Len(buyer)
    <3>1. \A s : Busy(s)' = Busy(s) /\ Busy(s) \subseteq 1..Len(buyer)
      BY <1>3, <1>7, <1>9 DEF Busy
    <3> QED BY <2>6, <3>1 DEF Calm
  <2>2. \A s : Selling(s) => Selling(s)'
    BY <1>4, <1>8 DEF Selling, Sells
  <2>3. ASSUME NEW q \in 1..Len(buyer), NEW s, s = buyer[q].listing, buyer'[q].status = "closed_won",
               Calm(s)', ~Selling(s)'
        PROVE  /\ ~listing[s].active
               /\ \A m \in Busy(s) \ {q} : ~buyer'[m].deleted => buyer'[m].status = "closed_lost"
    <3>1. Calm(s) /\ ~Selling(s) /\ s # p
      BY SMTT(30), <1>2, <2>1, <2>2, <2>3 DEF Selling
    <3>2. \A m \in Busy(s) : m \in 1..Len(buyer) /\ buyer'[m] = buyer[m]
      BY <1>3, <1>9, <3>1 DEF Busy
    <3>3. buyer'[q] = buyer[q]
      BY <1>9, <2>3, <3>1
    <3> QED BY <1>1, <2>3, <3>1, <3>2, <3>3 DEF SaleInv
  <2>4. ASSUME NEW g \in Handlers, NEW s, s = handler'[g].listing, Works(handler[g])', Calm(s)'
        PROVE  /\ Sale(handler[g])' => \A m \in Busy(s) : buyer'[m].status # "closed_won"
               /\ Sells(handler[g])' => \A m \in Busy(s) \ {handler'[g].lead} : buyer'[m].status # "closed_won"
               /\ handler'[g].at = "hide" =>
                    \A m \in Busy(s) \ {handler'[g].lead} : ~buyer'[m].deleted => buyer'[m].status = "closed_lost"
    <3>1. Calm(s)
      BY <2>1, <2>4
    <3>2. CASE g = h
      <4>1. handler'[g].at = "hide" /\ handler'[g].lead = l /\ s = p
        BY <1>4, <1>8, <2>4, <3>2
      <4>2. \A m \in Busy(p) \ {l} : buyer[m].status # "closed_won"
        BY <1>1, <1>3, <3>1, <4>1 DEF SaleInv
      <4>3. \A m \in Busy(p) \ {l} : buyer'[m].status # "closed_won"
        BY <1>9, <2>1, <4>2
      <4>4. \A m \in Busy(p) : m \in 1..Len(buyer) /\ buyer[m].listing = p
        BY <1>3 DEF Busy
      <4>5. \A m \in Busy(p) \ {l} : ~buyer'[m].deleted => buyer'[m].status \in {"closed_won", "closed_lost"}
        BY <1>5, <1>6, <4>4
      <4> QED BY <4>1, <4>3, <4>5 DEF Sale
    <3>3. CASE g # h
      <4>1. handler'[g] = handler[g] /\ Works(handler[g]) /\ s = handler[g].listing
        BY <1>8, <2>4, <3>3 DEF Works
      <4>2. s # p
        BY <1>1, <1>3, <3>1, <3>3, <4>1, OthersMeet
      <4>3. \A m \in Busy(s) : buyer'[m] = buyer[m]
        BY <1>3, <1>9, <4>2 DEF Busy
      <4> QED BY <1>1, <3>1, <4>1, <4>3 DEF SaleInv, Sale, Sells
    <3> QED BY <3>2, <3>3
  <2>5. \A q \in Listed : listing[q].deleted => ~listing[q].active
    BY <1>1 DEF SaleInv
  <2> QED BY <1>7, <1>9, <2>1, <2>3, <2>4, <2>5, <2>6 DEF SaleInv, Calm, Busy, Selling
<1> QED BY <1>10, <1>11, <1>12, <1>13 DEF DeskInv

\* A request that handles a lead ends: it hides the listing it sold, it is cut
\* short in a sale, or it had none.
LEMMA DeskEnds ==
  ASSUME DeskInv, NEW h \in Handlers, Works(handler[h]), handler' = [handler EXCEPT ![h] = Waiting],
         UNCHANGED <<buyer, raced, crossed>>, cut \subseteq cut', listing' \in [Listed -> Sellings],
         \A p \in Listed : /\ listing'[p].approval = listing[p].approval /\ listing'[p].seen = listing[p].seen
                           /\ listing'[p].active => listing[p].active
                           /\ listing'[p].deleted => ~listing'[p].active,
         Sells(handler[h]) => \/ handler[h].listing \in cut'
                              \/ handler[h].at = "hide" /\ ~listing'[handler[h].listing].active
  PROVE  DeskInv'
<1>1. DeskTypes /\ ReviewInv /\ MeetInv /\ SaleInv
  BY DEF DeskInv
<1>2. ~Works(Waiting) /\ Waiting.at # "edit" /\ Waiting' = Waiting
  BY DEF Works, Waiting
<1>3. /\ handler' \in [Handlers -> {Waiting} \cup Edits \cup Verifying \cup Moves]
      /\ handler'[h] = Waiting /\ \A g \in Handlers : g # h => handler'[g] = handler[g]
  BY <1>1, DeskTurn
<1>4. \A g \in Handlers : Works(handler'[g]) => g # h /\ handler'[g] = handler[g] /\ Works(handler[g])
  BY <1>2, <1>3
<1>5. \A y : (Sells(y) => Works(y)) /\ (y.at = "move" => Works(y)) /\ (Sale(y) => Works(y))
  BY DEF Sells, Works, Sale
<1>6. /\ DOMAIN buyer = 1..Len(buyer) /\ \A q \in 1..Len(buyer) : buyer[q] \in Buyers
  BY <1>1, DeskRows
<1>7. DeskTypes'
  BY <1>1, <1>2, <1>3, <1>4, <1>5 DEF DeskTypes, Works, Sells, Sellings, Buyers, Moves, Edits, Verifying
<1>8. ReviewInv'
  BY <1>1, <1>2, <1>3 DEF ReviewInv
<1>9. MeetInv'
  BY <1>1, <1>4, <1>5 DEF MeetInv, Works
<1>10. SaleInv'
  <2>1. \A s : Busy(s)' = Busy(s) /\ (Calm(s)' => Calm(s))
    BY DEF Busy, Calm
  <2>2. ASSUME NEW q \in 1..Len(buyer), NEW s, s = buyer[q].listing, buyer[q].status = "closed_won",
               Calm(s)', ~Selling(s)'
        PROVE  /\ ~listing'[s].active
               /\ \A m \in Busy(s) \ {q} : ~buyer[m].deleted => buyer[m].status = "closed_lost"
    <3>1. Calm(s) /\ s \in Listed /\ s \notin cut' /\ q \in Busy(s)
      BY <1>6, <2>1, <2>2 DEF Calm, Buyers, Busy
    <3>2. CASE Sells(handler[h]) /\ handler[h].listing = s
      <4>1. handler[h].at = "hide" /\ ~listing'[s].active
        BY <3>1, <3>2
      <4>2. /\ \A m \in Busy(s) \ {handler[h].lead} : buyer[m].status # "closed_won"
            /\ \A m \in Busy(s) \ {handler[h].lead} : ~buyer[m].deleted => buyer[m].status = "closed_lost"
        BY <1>1, <3>1, <3>2, <4>1 DEF SaleInv
      <4>3. q = handler[h].lead
        BY <2>2, <3>1, <4>2
      <4> QED BY <4>1, <4>2, <4>3
    <3>3. CASE ~(Sells(handler[h]) /\ handler[h].listing = s)
      <4>1. ~Selling(s)
        BY <1>3, <2>2, <3>3 DEF Selling, Sells
      <4>2. /\ ~listing[s].active
            /\ \A m \in Busy(s) \ {q} : ~buyer[m].deleted => buyer[m].status = "closed_lost"
        BY <1>1, <2>2, <3>1, <4>1 DEF SaleInv
      <4> QED BY <3>1, <4>2
    <3> QED BY <3>2, <3>3
  <2>3. ASSUME NEW g \in Handlers, NEW s, s = handler'[g].listing, Works(handler[g])', Calm(s)'
        PROVE  /\ Sale(handler[g])' => \A m \in Busy(s) : buyer[m].status # "closed_won"
               /\ Sells(handler[g])' => \A m \in Busy(s) \ {handler'[g].lead} : buyer[m].status # "closed_won"
               /\ handler'[g].at = "hide" =>
                    \A m \in Busy(s) \ {handler'[g].lead} : ~buyer[m].deleted => buyer[m].status = "closed_lost"
    <3>1. handler'[g] = handler[g] /\ Works(handler[g]) /\ Calm(s) /\ s = handler[g].listing
      BY <1>4, <2>1, <2>3 DEF Works
    <3> QED BY <1>1, <2>3, <3>1 DEF SaleInv, Sale, Sells
  <2> QED BY <2>1, <2>2, <2>3 DEF SaleInv, Calm, Busy, Selling
<1> QED BY <1>7, <1>8, <1>9, <1>10 DEF DeskInv

\* The listing is hidden, or the request is cut short.
LEMMA EndStep ==
  ASSUME DeskInv, NEW h \in Handlers, HideSold(h) \/ HandlerDrops(h)
  PROVE  DeskInv'
<1>1. DeskTypes /\ SaleInv
  BY DEF DeskInv
<1>2. CASE HideSold(h)
  <2> DEFINE p == handler[h].listing
             put == [listing[p] EXCEPT !.active = IF listing[p].deleted THEN listing[p].active ELSE FALSE]
  <2>1. handler[h].at = "hide" /\ Works(handler[h]) /\ Sells(handler[h])
    BY <1>2 DEF HideSold, Works, Sells
  <2>2. p \in Listed /\ listing[p] \in Sellings
    <3>1. handler[h] \in Moves /\ p # NoListing
      BY <1>1, <2>1, DeskKinds
    <3>2. p \in Listed
      BY <3>1 DEF Moves
    <3> QED BY <1>1, <3>2, DeskRows
  <2>3. /\ listing' = [listing EXCEPT ![p] = put] /\ handler' = [handler EXCEPT ![h] = Waiting]
        /\ UNCHANGED <<buyer, raced, cut, crossed>>
    BY <1>2 DEF HideSold, Now
  <2>4. /\ put \in Sellings /\ ~put.active /\ put.approval = listing[p].approval /\ put.seen = listing[p].seen
        /\ put.deleted = listing[p].deleted
    BY <1>1, <2>2 DEF Sellings, SaleInv
  <2> HIDE DEF put
  <2>5. /\ listing' \in [Listed -> Sellings] /\ listing'[p] = put
        /\ \A q \in Listed : q # p => listing'[q] = listing[q]
    BY <1>1, <2>2, <2>3, <2>4 DEF DeskTypes
  <2>6. \A q \in Listed : /\ listing'[q].approval = listing[q].approval /\ listing'[q].seen = listing[q].seen
                          /\ listing'[q].active => listing[q].active
                          /\ listing'[q].deleted => ~listing'[q].active
    BY <1>1, <2>4, <2>5 DEF SaleInv
  <2>7. ~listing'[p].active
    BY <2>4, <2>5
  <2> HIDE DEF p
  <2> QED BY <2>1, <2>3, <2>5, <2>6, <2>7, DeskEnds DEF p
<1>3. CASE HandlerDrops(h)
  <2>1. /\ handler' = [handler EXCEPT ![h] = Waiting] /\ UNCHANGED <<listing, buyer, raced, crossed>>
        /\ cut \subseteq cut' /\ (Sells(handler[h]) => handler[h].listing \in cut')
        /\ ~Sells(handler[h]) => cut' = cut
    BY <1>3 DEF HandlerDrops, Now, Sells
  <2>2. /\ listing' \in [Listed -> Sellings]
        /\ \A q \in Listed : listing'[q].deleted => ~listing'[q].active
    BY <1>1, <2>1 DEF DeskTypes, SaleInv
  <2>3. CASE Works(handler[h])
    BY <2>1, <2>2, <2>3, DeskEnds
  <2>4. CASE ~Works(handler[h])
    <3>1. Waiting.at # "edit" /\ cut' = cut
      BY <2>1, <2>4 DEF Waiting, Works, Sells
    <3> QED BY <2>1, <2>4, <3>1, FrontTurn
  <2> QED BY <2>3, <2>4
<1> QED BY <1>2, <1>3

\* Every step of the desk keeps it sound.
LEMMA DeskStep ==
  ASSUME DeskInv, [ListingsNext]_listVars
  PROVE  DeskInv'
<1>1. CASE UNCHANGED listVars
  BY <1>1 DEF listVars, DeskInv, DeskTypes, ReviewInv, MeetInv, SaleInv, Works, Sells, Sale, Calm, Busy, Selling,
     Waiting, Sellings, Buyers, Moves, Edits, Verifying, MayMove
<1>2. ASSUME NEW h \in Handlers, handler[h] = Waiting, ListingCall(h)
      PROVE  DeskInv'
  <2>1. CASE \E p \in Listed : \/ approveProperty(h, p) \/ rejectProperty(h, p) \/ updateProperty(h, p)
                               \/ removeListing(h, p)
                               \/ \E on \in BOOLEAN : setActive(h, p, on) \/ setFeatured(h, p, on)
    BY <1>2, <2>1, AdminStep
  <2>2. CASE VerifyEnquiry(h) \/ \E p \in Listed : updateOwn(h, p) \/ VerifyBuyer(h, p)
    BY <1>2, <2>2, VisitorStep
  <2>3. CASE SubmitEnquiry(h)
    BY <1>2, <2>3, LeadDeskStep
  <2>4. ASSUME NEW l \in DOMAIN buyer,
               \/ \E to \in Statuses : StartMove(h, l, to)
               \/ \E who \in Assignees \cup {Nobody}, fails \in BOOLEAN : updateAssignment(h, l, who, fails)
               \/ removeLead(h, l)
        PROVE  DeskInv'
    BY <1>2, <2>4, StartMoveStep, LeadDeskStep
  <2> QED BY <1>2, <2>1, <2>2, <2>3, <2>4 DEF ListingCall
<1>3. ASSUME NEW h \in Handlers, ListingWork(h)
      PROVE  DeskInv'
  BY <1>3, VisitorStep, LeadDeskStep, WriteMoveStep, CloseSiblingsStep, EndStep DEF ListingWork
<1> QED BY <1>1, <1>2, <1>3 DEF ListingsNext

\* The desk opens sound.
LEMMA DeskOpens == ListingsInit => DeskInv
<1> SUFFICES ASSUME ListingsInit
             PROVE  DeskInv
  OBVIOUS
<1>1. /\ \A p \in Listed : listing[p] = [approval |-> "pending", active |-> TRUE, featured |-> FALSE,
                                         deleted |-> FALSE, seen |-> FALSE]
      /\ listing \in [Listed -> Sellings] /\ buyer = <<>> /\ handler = [h \in Handlers |-> Waiting]
  BY DEF ListingsInit, Sellings
<1>2. \A h \in Handlers : handler[h] = Waiting /\ ~Works(handler[h]) /\ handler[h].at = "idle"
  BY <1>1 DEF Waiting, Works
<1>3. DeskTypes
  BY <1>1, <1>2 DEF DeskTypes
<1>4. ReviewInv
  BY <1>1 DEF ReviewInv
<1>5. MeetInv
  BY <1>2 DEF MeetInv
<1>6. SaleInv
  BY <1>1, <1>2 DEF SaleInv
<1> QED BY <1>3, <1>4, <1>5, <1>6 DEF DeskInv

\* Whatever sellers, buyers and admins do at once: a listing the public sees is
\* one an admin approved or wrote, unless an edit was past its check when the
\* approval came (websiteProperties/management.js, updateOwn and approve).
THEOREM ListingsAreReviewed == ListingsSpec => []PublicIsReviewed
<1>1. DeskInv => PublicIsReviewed
  BY DEF DeskInv, ReviewInv, PublicIsReviewed, Public
<1> QED BY <1>1, DeskOpens, DeskStep, PTL DEF ListingsSpec

\* A deal that is done leaves no open lead on its listing, one winner, and the
\* listing off the site, with any number of requests, listings and leads, unless
\* requests met, the sale was cut short or the listing came back.
THEOREM SalesAreSettled == ListingsSpec => []SaleSettled
<1>1. DeskInv => SaleSettled
  <2> SUFFICES ASSUME DeskInv
               PROVE  SaleSettled
    OBVIOUS
  <2>1. DeskTypes /\ SaleInv /\ DOMAIN buyer = 1..Len(buyer)
    BY DeskRows DEF DeskInv
  <2>2. ListingsTypeOK
    BY <2>1 DEF DeskTypes, ListingsTypeOK, Sellings, Buyers
  <2> QED BY <2>1, <2>2 DEF SaleSettled, SaleInv, Calm
<1> QED BY <1>1, DeskOpens, DeskStep, PTL DEF ListingsSpec

\* A lead that is won or lost stays so, unless two requests handled it at once.
THEOREM LeadsStayClosed == ListingsSpec => ClosedStays
<1> DEFINE Stays == \A l \in DOMAIN buyer : buyer[l].status \in LeadTerminal /\ l \notin raced
                      => buyer'[l].status = buyer[l].status
<1>1. ASSUME DeskInv, [ListingsNext]_listVars
      PROVE  [Stays]_listVars
  <2>1. /\ DeskTypes /\ MeetInv /\ DOMAIN buyer = 1..Len(buyer) /\ Len(buyer) \in Nat
        /\ \A l \in 1..Len(buyer) : buyer[l] \in Buyers
    BY <1>1, DeskRows DEF DeskInv
  <2>2. ASSUME NEW p \in Listed \cup {NoListing}, buyer' = Append(buyer, NewLead(p))
        PROVE  Stays
    BY <2>1, <2>2 DEF DeskTypes
  <2>3. ASSUME NEW h \in Handlers, ListingWork(h)
        PROVE  Stays
    <3>1. CASE WriteMove(h)
      <4>1. /\ handler[h].at = "move"
            /\ buyer' = [buyer EXCEPT ![handler[h].lead].status =
                           IF buyer[handler[h].lead].deleted THEN @ ELSE handler[h].to]
        BY <3>1 DEF WriteMove
      <4>2. /\ MayMove(handler[h].from, handler[h].to)
            /\ handler[h].lead \notin raced => buyer[handler[h].lead].status = handler[h].from
        BY <2>1, <4>1 DEF MeetInv
      <4> QED BY <2>1, <4>1, <4>2 DEF MayMove, Buyers
    <3>2. CASE CloseSiblings(h)
      <4>1. buyer' = [m \in DOMAIN buyer |-> IF m \in Siblings(handler[h].lead)
                        THEN [buyer[m] EXCEPT !.status = "closed_lost"] ELSE buyer[m]]
        BY <3>2 DEF CloseSiblings
      <4>2. \A m \in Siblings(handler[h].lead) : buyer[m].status \notin LeadTerminal
        BY DEF Siblings, OpenStatuses, LeadTerminal
      <4> QED BY <4>1, <4>2
    <3>3. CASE CreateLead(h)
      <4>1. handler[h] \in Verifying /\ buyer' = Append(buyer, NewLead(handler[h].listing))
        BY <2>1, <3>3, DeskKinds DEF CreateLead
      <4> QED BY <2>2, <4>1 DEF Verifying
    <3>4. CASE WriteOwn(h) \/ HideSold(h) \/ HandlerDrops(h)
      BY <3>4 DEF WriteOwn, HideSold, HandlerDrops
    <3> QED BY <2>3, <3>1, <3>2, <3>3, <3>4 DEF ListingWork
  <2>4. ASSUME NEW h \in Handlers, ListingCall(h)
        PROVE  Stays
    <3>1. ASSUME NEW l \in DOMAIN buyer, removeLead(h, l)
          PROVE  Stays
      BY <2>1, <3>1 DEF removeLead, Buyers
    <3>2. ASSUME NEW l \in DOMAIN buyer, NEW who, NEW fails, updateAssignment(h, l, who, fails)
          PROVE  Stays
      BY <2>1, <3>2 DEF updateAssignment, Buyers
    <3>3. CASE SubmitEnquiry(h)
      BY <2>2, <3>3 DEF SubmitEnquiry
    <3>4. ASSUME NEW l, NEW to, StartMove(h, l, to)
          PROVE  Stays
      BY <3>4 DEF StartMove
    <3>5. ASSUME NEW p \in Listed, NEW on,
                 \/ approveProperty(h, p) \/ rejectProperty(h, p) \/ updateProperty(h, p)
                 \/ removeListing(h, p) \/ updateOwn(h, p) \/ VerifyBuyer(h, p)
                 \/ setActive(h, p, on) \/ setFeatured(h, p, on)
          PROVE  Stays
      BY <3>5 DEF approveProperty, rejectProperty, updateProperty, removeListing, updateOwn, VerifyBuyer,
         setActive, setFeatured, SetListing
    <3>6. CASE VerifyEnquiry(h)
      BY <3>6 DEF VerifyEnquiry
    <3> QED BY <2>4, <3>1, <3>2, <3>3, <3>4, <3>5, <3>6 DEF ListingCall
  <2> QED BY <1>1, <2>3, <2>4 DEF ListingsNext
<1> QED BY <1>1, DeskOpens, DeskStep, PTL DEF ListingsSpec, ClosedStays

-----------------------------------------------------------------------------
(* Property codes.                                                           *)

Assigning(x) == x.at \in {"assign", "code"}

\* A request that assigns a code has a row of its own that has none yet.
CodeTypes ==
  /\ prop \in Seq(PropertyRows)
  /\ client = [r \in Clients |-> client[r]]
  /\ \A r \in Clients : Assigning(client[r]) =>
       /\ client[r].owner \in 1..Len(prop)
       /\ prop[client[r].owner].code = NoCode
       /\ \A q \in Clients \ {r} : Assigning(client[q]) => client[q].owner # client[r].owner

\* Two requests that hold one code met, and so did a request that holds a code
\* and the row that has it.
CodesInv ==
  /\ CodeNamesOneProperty
  /\ \A r \in Clients : client[r].at = "code" =>
       /\ client[r].code \in Codes
       /\ \A q \in Clients \ {r} : client[q].at = "code" /\ client[q].code = client[r].code =>
            client[r].owner \in overlap
       /\ \A j \in 1..Len(prop) : prop[j].code = client[r].code /\ prop[j].code # NoCode =>
            {j, client[r].owner} \subseteq overlap

NamesInv == CodeTypes /\ CodesInv
\* A request goes on.
LEMMA ClientTurn ==
  ASSUME CodeTypes, NEW r \in Clients, NEW x, client' = [client EXCEPT ![r] = x]
  PROVE  /\ client' = [q \in Clients |-> client'[q]] /\ client'[r] = x
         /\ \A q \in Clients : q # r => client'[q] = client[q]
<1>1. client = [q \in Clients |-> client[q]]
  BY DEF CodeTypes
<1>2. client' = [q \in Clients |-> IF q = r THEN x ELSE client[q]]
  BY <1>1
<1> QED BY <1>2

\* The rows keep their codes, and a request holds none, or goes on with its row.
LEMMA CodesStand ==
  ASSUME NamesInv, NEW r \in Clients, NEW x, client' = [client EXCEPT ![r] = x],
         x.at # "code",
         Assigning(x) => Assigning(client[r]) /\ x.owner = client[r].owner,
         prop' \in Seq(PropertyRows), Len(prop') = Len(prop),
         \A j \in 1..Len(prop) : prop'[j].code = prop[j].code /\ prop'[j].kind = prop[j].kind,
         overlap \subseteq overlap'
  PROVE  NamesInv'
<1>1. CodeTypes /\ CodesInv
  BY DEF NamesInv
<1>2. /\ client' = [q \in Clients |-> client'[q]] /\ client'[r] = x
      /\ \A q \in Clients : q # r => client'[q] = client[q]
  BY <1>1, ClientTurn
<1>3. \A q \in Clients : Assigning(client'[q]) => Assigning(client[q]) /\ client'[q].owner = client[q].owner
  BY <1>2
<1>4. \A q \in Clients : client'[q].at = "code" => q # r /\ client'[q] = client[q]
  BY <1>2
<1>5. CodeTypes'
  <2>1. ASSUME NEW q \in Clients, Assigning(client[q])'
        PROVE  /\ client'[q].owner \in 1..Len(prop) /\ prop'[client'[q].owner].code = NoCode
               /\ \A s \in Clients \ {q} : Assigning(client[s])' => client'[s].owner # client'[q].owner
    <3>1. Assigning(client'[q]) /\ \A s \in Clients : Assigning(client[s])' => Assigning(client'[s])
      BY <2>1 DEF Assigning
    <3>2. Assigning(client[q]) /\ client'[q].owner = client[q].owner
      BY <1>3, <3>1
    <3> QED BY <1>1, <1>3, <3>1, <3>2 DEF CodeTypes
  <2> QED BY <1>2, <2>1 DEF CodeTypes, PropertyRows, Surfaces
<1>6. CodesInv'
  <2>1. DOMAIN prop = 1..Len(prop) /\ DOMAIN prop' = 1..Len(prop)
    BY <1>1 DEF CodeTypes
  <2>2. CodeNamesOneProperty'
    BY <1>1, <2>1 DEF CodesInv, CodeNamesOneProperty
  <2>3. ASSUME NEW q \in Clients, client'[q].at = "code"
        PROVE  /\ client'[q].code \in Codes
               /\ \A s \in Clients \ {q} : client'[s].at = "code" /\ client'[s].code = client'[q].code =>
                    client'[q].owner \in overlap'
               /\ \A j \in 1..Len(prop) : prop'[j].code = client'[q].code /\ prop'[j].code # NoCode =>
                    {j, client'[q].owner} \subseteq overlap'
    BY <1>1, <1>4, <2>3 DEF CodesInv
  <2> QED BY <2>2, <2>3 DEF CodesInv
<1> QED BY <1>5, <1>6 DEF NamesInv

\* The same, of a request that leaves the rows alone.
LEMMA CodesLeft ==
  ASSUME NamesInv, NEW r \in Clients, NEW x, client' = [client EXCEPT ![r] = x],
         x.at \notin {"assign", "code"}, prop' = prop, overlap \subseteq overlap'
  PROVE  NamesInv'
<1>1. ~Assigning(x) /\ prop \in Seq(PropertyRows)
  BY DEF Assigning, NamesInv, CodeTypes
<1> QED BY <1>1, CodesStand

\* The same, of one that writes the state of a row.
LEMMA StateWritten ==
  ASSUME NamesInv, NEW r \in Clients, NEW x, client' = [client EXCEPT ![r] = x],
         x.at \notin {"assign", "code"}, NEW i, NEW st,
         i \in DOMAIN prop => st \in {"live", "removed", "withdrawn"},
         prop' = [prop EXCEPT ![i].state = st], overlap \subseteq overlap'
  PROVE  NamesInv'
<1>1. ~Assigning(x) /\ prop \in Seq(PropertyRows)
  BY DEF Assigning, NamesInv, CodeTypes
<1>2. CASE i \in DOMAIN prop
  <2>1. /\ i \in 1..Len(prop) /\ prop[i] \in PropertyRows
        /\ prop' = [prop EXCEPT ![i] = [prop[i] EXCEPT !.state = st]]
    BY <1>1, <1>2
  <2>2. /\ [prop[i] EXCEPT !.state = st] \in PropertyRows
        /\ [prop[i] EXCEPT !.state = st].code = prop[i].code /\ [prop[i] EXCEPT !.state = st].kind = prop[i].kind
    BY <1>2, <2>1 DEF PropertyRows
  <2>3. prop' \in Seq(PropertyRows) /\ Len(prop') = Len(prop)
    BY <1>1, <2>1, <2>2
  <2>4. \A j \in 1..Len(prop) : prop'[j].code = prop[j].code /\ prop'[j].kind = prop[j].kind
    BY <1>1, <2>1, <2>2
  <2> QED BY <1>1, <2>3, <2>4, CodesStand
<1>3. CASE i \notin DOMAIN prop
  <2>1. prop' = prop
    BY <1>1, <1>3
  <2> QED BY <2>1, CodesLeft
<1> QED BY <1>2, <1>3

\* A property is created, under a placeholder.
LEMMA StartCreateStep ==
  ASSUME NamesInv, NEW r \in Clients, client[r] = Resting, NEW kind \in Surfaces, StartCreate(r, kind)
  PROVE  NamesInv'
<1> DEFINE n == Len(prop)
           new == [kind |-> kind, code |-> NoCode, state |-> "live"]
           x == [at |-> "assign", owner |-> n + 1, attempt |-> 0]
<1>1. CodeTypes /\ CodesInv /\ n \in Nat /\ DOMAIN prop = 1..n
  BY DEF NamesInv, CodeTypes
<1>2. client' = [client EXCEPT ![r] = x] /\ prop' = Append(prop, new) /\ overlap' = overlap
  BY DEF StartCreate, Ask
<1>3. new \in PropertyRows /\ new.code = NoCode
  BY DEF PropertyRows
<1>4. x.at = "assign" /\ x.owner = n + 1 /\ ~Assigning(client[r])
  BY DEF Resting, Assigning
<1> HIDE DEF new, x
<1>5. /\ prop' \in Seq(PropertyRows) /\ Len(prop') = n + 1 /\ DOMAIN prop' = 1..(n + 1) /\ prop'[n + 1] = new
      /\ \A j \in 1..n : prop'[j] = prop[j]
  BY <1>1, <1>2, <1>3 DEF CodeTypes
<1>6. /\ client' = [q \in Clients |-> client'[q]] /\ client'[r] = x
      /\ \A q \in Clients : q # r => client'[q] = client[q]
  BY <1>1, <1>2, ClientTurn
<1>7. CodeTypes'
  <2>1. ASSUME NEW q \in Clients, Assigning(client[q])'
        PROVE  /\ client'[q].owner \in 1..(n + 1) /\ prop'[client'[q].owner].code = NoCode
               /\ q # r => client'[q] = client[q] /\ client[q].owner \in 1..n /\ Assigning(client[q])
    <3>1. CASE q = r
      BY <1>1, <1>3, <1>4, <1>5, <1>6, <3>1
    <3>2. CASE q # r
      <4>1. client'[q] = client[q] /\ Assigning(client[q])
        BY <1>6, <2>1, <3>2 DEF Assigning
      <4> QED BY <1>1, <1>5, <4>1 DEF CodeTypes
    <3> QED BY <3>1, <3>2
  <2>2. ASSUME NEW q \in Clients, NEW s \in Clients \ {q}, Assigning(client[q])', Assigning(client[s])'
        PROVE  client'[s].owner # client'[q].owner
    BY <1>1, <1>4, <1>6, <2>1, <2>2 DEF CodeTypes
  <2> QED BY <1>5, <1>6, <2>1, <2>2 DEF CodeTypes, PropertyRows, Surfaces
<1>8. CodesInv'
  <2>1. CodeNamesOneProperty'
    <3>1. \A i \in 1..(n + 1) : prop'[i].code # NoCode => i \in 1..n /\ prop'[i] = prop[i]
      BY <1>1, <1>3, <1>5
    <3> QED BY <1>1, <1>2, <1>5, <3>1 DEF CodesInv, CodeNamesOneProperty
  <2>2. ASSUME NEW q \in Clients, client'[q].at = "code"
        PROVE  /\ client'[q].code \in Codes
               /\ \A s \in Clients \ {q} : client'[s].at = "code" /\ client'[s].code = client'[q].code =>
                    client'[q].owner \in overlap
               /\ \A j \in 1..(n + 1) : prop'[j].code = client'[q].code /\ prop'[j].code # NoCode =>
                    {j, client'[q].owner} \subseteq overlap
    <3>1. \A s \in Clients : client'[s].at = "code" => s # r /\ client'[s] = client[s]
      BY <1>4, <1>6
    <3>2. \A j \in 1..(n + 1) : prop'[j].code # NoCode => j \in 1..n /\ prop'[j] = prop[j]
      BY <1>1, <1>3, <1>5
    <3> QED BY <1>1, <2>2, <3>1, <3>2 DEF CodesInv
  <2> QED BY <1>2, <1>5, <2>1, <2>2 DEF CodesInv
<1> QED BY <1>7, <1>8 DEF NamesInv

\* A candidate is rejected, or drawn: then whoever holds it, or has it in spite
\* of the lookup, is on record.
LEMMA TryCodeStep ==
  ASSUME NamesInv, NEW r \in Clients, NEW c \in Codes, NEW fails \in BOOLEAN, TryCode(r, c, fails)
  PROVE  NamesInv'
<1> DEFINE i == client[r].owner
           racing == {client[q].owner : q \in {p \in Clients \ {r} : client[p].at = "code" /\ client[p].code = c}}
           owners == {j \in DOMAIN prop : prop[j].code = c}
<1>1. CodeTypes /\ CodesInv /\ DOMAIN prop = 1..Len(prop) /\ prop \in Seq(PropertyRows)
  BY DEF NamesInv, CodeTypes
<1>2. client[r].at = "assign" /\ Assigning(client[r]) /\ prop' = prop
  BY DEF TryCode, Assigning
<1>3. CASE codeExistsAnywhere(c) /\ ~fails
  <2> DEFINE x == [client[r] EXCEPT !.attempt = client[r].attempt + 1]
  <2>1. client' = [client EXCEPT ![r] = x] /\ overlap' = overlap
    BY <1>3 DEF TryCode, Step
  <2>2. x.at = client[r].at /\ x.owner = client[r].owner
    OBVIOUS
  <2> HIDE DEF x
  <2> QED BY <1>1, <1>2, <2>1, <2>2, CodesStand
<1>4. CASE ~codeExistsAnywhere(c) \/ fails
  <2> DEFINE x == [at |-> "code", owner |-> i, attempt |-> client[r].attempt, code |-> c]
  <2>1. /\ client' = [client EXCEPT ![r] = x]
        /\ overlap' = IF racing # {} THEN overlap \cup racing \cup {i}
                      ELSE IF fails THEN overlap \cup owners \cup {i}
                      ELSE overlap
    BY <1>4 DEF TryCode, Step
  <2>2. x.at = "code" /\ x.owner = i /\ x.code = c /\ Assigning(x)
    BY DEF Assigning
  <2>3. /\ \A q \in Clients \ {r} : client[q].at = "code" /\ client[q].code = c =>
             client[q].owner \in overlap' /\ i \in overlap'
    BY <2>1
  <2>4. \A j \in 1..Len(prop) : prop[j].code = c /\ c # NoCode => j \in overlap' /\ i \in overlap'
    <3> SUFFICES ASSUME NEW j \in 1..Len(prop), prop[j].code = c, c # NoCode
                 PROVE  j \in overlap' /\ i \in overlap'
      OBVIOUS
    <3>1. fails /\ j \in owners
      BY <1>1, <1>4 DEF codeExistsAnywhere
    <3>2. CASE racing = {}
      BY <2>1, <3>1, <3>2
    <3>3. CASE racing # {}
      <4>1. PICK q \in Clients \ {r} : client[q].at = "code" /\ client[q].code = c
        BY <3>3
      <4>2. j \in overlap
        BY <1>1, <4>1 DEF CodesInv
      <4> QED BY <2>1, <3>3, <4>2
    <3> QED BY <3>2, <3>3
  <2>5. overlap \subseteq overlap'
    BY <2>1
  <2> HIDE DEF x, racing, owners
  <2>6. /\ client' = [q \in Clients |-> client'[q]] /\ client'[r] = x
        /\ \A q \in Clients : q # r => client'[q] = client[q]
    BY <1>1, <2>1, ClientTurn
  <2>7. \A q \in Clients : Assigning(client'[q]) => Assigning(client[q]) /\ client'[q].owner = client[q].owner
    BY <1>2, <2>2, <2>6
  <2>8. CodeTypes'
    <3>1. ASSUME NEW q \in Clients, Assigning(client[q])'
          PROVE  /\ client'[q].owner \in 1..Len(prop) /\ prop[client'[q].owner].code = NoCode
                 /\ \A s \in Clients \ {q} : Assigning(client[s])' => client'[s].owner # client'[q].owner
      <4>1. \A s \in Clients : Assigning(client[s])' => Assigning(client'[s])
        BY DEF Assigning
      <4> QED BY <1>1, <2>7, <3>1, <4>1 DEF CodeTypes
    <3> QED BY <1>1, <1>2, <2>6, <3>1 DEF CodeTypes, PropertyRows, Surfaces
  <2>9. CodesInv'
    <3>1. CodeNamesOneProperty'
      BY <1>1, <1>2, <2>5 DEF CodesInv, CodeNamesOneProperty
    <3>2. ASSUME NEW q \in Clients, client'[q].at = "code"
          PROVE  /\ client'[q].code \in Codes
                 /\ \A s \in Clients \ {q} : client'[s].at = "code" /\ client'[s].code = client'[q].code =>
                      client'[q].owner \in overlap'
                 /\ \A j \in 1..Len(prop) : prop[j].code = client'[q].code /\ prop[j].code # NoCode =>
                      {j, client'[q].owner} \subseteq overlap'
      <4>1. CASE q = r
        BY <2>2, <2>3, <2>4, <2>6, <4>1
      <4>2. CASE q # r
        <5>1. /\ client'[q] = client[q] /\ client[q].at = "code" /\ client[q].code \in Codes
              /\ \A s \in Clients \ {q} : client[s].at = "code" /\ client[s].code = client[q].code =>
                   client[q].owner \in overlap
              /\ \A j \in 1..Len(prop) : prop[j].code = client[q].code /\ prop[j].code # NoCode =>
                   {j, client[q].owner} \subseteq overlap
          BY <1>1, <2>6, <3>2, <4>2 DEF CodesInv
        <5>2. c = client[q].code => client[q].owner \in overlap'
          BY <2>3, <4>2, <5>1
        <5>3. \A s \in Clients \ {q} : client'[s].at = "code" /\ client'[s].code = client[q].code =>
                client[q].owner \in overlap'
          BY <2>2, <2>5, <2>6, <5>1, <5>2
        <5> QED BY <2>5, <5>1, <5>3
      <4> QED BY <4>1, <4>2
    <3> QED BY <1>2, <3>1, <3>2 DEF CodesInv
  <2> QED BY <2>8, <2>9 DEF NamesInv
<1> QED BY <1>3, <1>4

\* The index of the row's own table has the last word.
LEMMA AssignCodeStep ==
  ASSUME NamesInv, NEW r \in Clients, AssignCode(r)
  PROVE  NamesInv'
<1> DEFINE i == client[r].owner
           c == client[r].code
           taken == \E j \in DOMAIN prop : prop[j].kind = prop[i].kind /\ prop[j].code = c
<1>1. CodeTypes /\ CodesInv /\ DOMAIN prop = 1..Len(prop) /\ prop \in Seq(PropertyRows)
  BY DEF NamesInv, CodeTypes
<1>2. client[r].at = "code" /\ Assigning(client[r]) /\ overlap' = overlap
  BY DEF AssignCode, Assigning
<1>3. i \in 1..Len(prop) /\ prop[i].code = NoCode /\ c \in Codes
  BY <1>1, <1>2 DEF CodeTypes, CodesInv
<1>4. CASE taken
  <2> DEFINE x == [at |-> "assign", owner |-> i, attempt |-> client[r].attempt + 1]
  <2>1. client' = [client EXCEPT ![r] = x] /\ prop' = prop
    BY <1>4 DEF AssignCode, Step
  <2>2. x.at = "assign" /\ x.owner = client[r].owner
    OBVIOUS
  <2> HIDE DEF x
  <2> QED BY <1>1, <1>2, <2>1, <2>2, CodesStand
<1>5. CASE ~taken
  <2>1. client' = [client EXCEPT ![r] = Resting] /\ prop' = [prop EXCEPT ![i].code = c]
    BY <1>5 DEF AssignCode, Step
  <2>2. prop[i] \in PropertyRows /\ prop' = [prop EXCEPT ![i] = [prop[i] EXCEPT !.code = c]]
    BY <1>1, <1>3, <2>1
  <2>3. [prop[i] EXCEPT !.code = c] \in PropertyRows
    BY <1>3, <2>2 DEF PropertyRows
  <2>4. /\ prop' \in Seq(PropertyRows) /\ Len(prop') = Len(prop) /\ DOMAIN prop' = 1..Len(prop)
        /\ \A j \in 1..Len(prop) : j # i => prop'[j] = prop[j]
        /\ prop'[i].code = c /\ prop'[i].kind = prop[i].kind
    BY <1>1, <1>3, <2>2, <2>3 DEF PropertyRows
  <2>5. /\ client' = [q \in Clients |-> client'[q]] /\ client'[r] = Resting
        /\ \A q \in Clients : q # r => client'[q] = client[q]
    BY <1>1, <2>1, ClientTurn
  <2>6. Resting.at = "idle"
    BY DEF Resting
  <2>7. \A q \in Clients : client'[q].at \in {"assign", "code"} =>
          q # r /\ client'[q] = client[q] /\ Assigning(client[q]) /\ client[q].owner # i
    BY <1>1, <1>2, <2>5, <2>6 DEF CodeTypes, Assigning
  <2>8. CodeTypes'
    <3>1. ASSUME NEW q \in Clients, Assigning(client[q])'
          PROVE  /\ client'[q].owner \in 1..Len(prop) /\ prop'[client'[q].owner].code = NoCode
                 /\ \A s \in Clients \ {q} : Assigning(client[s])' => client'[s].owner # client'[q].owner
      <4>1. \A s \in Clients : Assigning(client[s])' =>
              client'[s] = client[s] /\ Assigning(client[s]) /\ client[s].owner # i
        BY <2>7 DEF Assigning
      <4> QED BY <1>1, <2>4, <3>1, <4>1 DEF CodeTypes
    <3> QED BY <2>4, <2>5, <3>1 DEF CodeTypes, PropertyRows, Surfaces
  <2>9. CodesInv'
    <3>1. CodeNamesOneProperty'
      <4> SUFFICES ASSUME NEW j \in 1..Len(prop), NEW k \in 1..Len(prop), j # k, prop'[j].code = prop'[k].code,
                          prop'[j].code # NoCode
                   PROVE  prop'[j].kind # prop'[k].kind /\ {j, k} \subseteq overlap
        BY <1>2, <2>4 DEF CodeNamesOneProperty
      <4>1. \A m \in 1..Len(prop) : prop[m].code = c /\ c # NoCode => {m, i} \subseteq overlap
        BY <1>1, <1>2 DEF CodesInv
      <4>2. \A m \in 1..Len(prop) : prop[m].code = c => prop[m].kind # prop[i].kind
        BY <1>1, <1>5
      <4>3. CASE j = i
        BY <2>4, <4>1, <4>2, <4>3
      <4>4. CASE k = i
        BY <2>4, <4>1, <4>2, <4>4
      <4>5. CASE j # i /\ k # i
        BY <1>1, <2>4, <4>5 DEF CodesInv, CodeNamesOneProperty
      <4> QED BY <4>3, <4>4, <4>5
    <3>2. ASSUME NEW q \in Clients, client'[q].at = "code"
          PROVE  /\ client'[q].code \in Codes
                 /\ \A s \in Clients \ {q} : client'[s].at = "code" /\ client'[s].code = client'[q].code =>
                      client'[q].owner \in overlap
                 /\ \A j \in 1..Len(prop) : prop'[j].code = client'[q].code /\ prop'[j].code # NoCode =>
                      {j, client'[q].owner} \subseteq overlap
      <4>1. q # r /\ client'[q] = client[q] /\ client[q].at = "code"
        BY <2>7, <3>2
      <4>2. /\ client[q].code \in Codes
            /\ \A s \in Clients \ {q} : client[s].at = "code" /\ client[s].code = client[q].code =>
                 client[q].owner \in overlap
            /\ \A j \in 1..Len(prop) : prop[j].code = client[q].code /\ prop[j].code # NoCode =>
                 {j, client[q].owner} \subseteq overlap
        BY <1>1, <4>1 DEF CodesInv
      <4>3. client[q].code = c => {i, client[q].owner} \subseteq overlap
        BY <1>1, <1>2, <4>1 DEF CodesInv
      <4>4. \A j \in 1..Len(prop) : prop'[j].code = client[q].code /\ prop'[j].code # NoCode =>
              {j, client[q].owner} \subseteq overlap
        BY <2>4, <4>2, <4>3
      <4> QED BY <2>7, <4>1, <4>2, <4>4
    <3> QED BY <1>2, <2>4, <3>1, <3>2 DEF CodesInv
  <2> QED BY <2>8, <2>9 DEF NamesInv
<1> QED BY <1>4, <1>5

\* Uploads, deletions, allocations and removals start: no code changes hands.
LEMMA PropertyCallStep ==
  ASSUME NamesInv, NEW r \in Clients, client[r] = Resting, PropertyCall(r)
  PROVE  NamesInv'
<1>1. Resting.at = "idle" /\ overlap \subseteq overlap
  BY DEF Resting
<1>2. ASSUME NEW x, Ask(r, x), x.at \notin {"assign", "code"}, prop' = prop, overlap \subseteq overlap'
      PROVE  NamesInv'
  BY <1>2, CodesLeft DEF Ask
<1>3. ASSUME NEW o, Meet(r, o)
      PROVE  overlap \subseteq overlap'
  BY <1>3 DEF Meet
<1>4. CASE CreateInventory(r) \/ CreateEnquiry(r) \/ CreateWebsite(r) \/ CreateOwn(r)
  BY <1>4, StartCreateStep DEF CreateInventory, CreateEnquiry, CreateWebsite, CreateOwn, Surfaces
<1>5. ASSUME NEW o, removeInventory(r, o) \/ removeEnquiry(r, o) \/ removeWebsite(r, o)
      PROVE  NamesInv'
  <2> DEFINE x == [at |-> IF prop[o].kind = "website" THEN "delist" ELSE "remove", owner |-> o]
  <2>1. Ask(r, x) /\ Meet(r, o) /\ prop' = prop
    BY <1>5 DEF removeInventory, removeEnquiry, removeWebsite, StartRemove
  <2>2. x.at \notin {"assign", "code"}
    OBVIOUS
  <2> HIDE DEF x
  <2> QED BY <1>2, <1>3, <2>1, <2>2
<1>6. ASSUME NEW o, removeOwn(r, o)
      PROVE  NamesInv'
  <2>1. /\ client' = [client EXCEPT ![r] = Resting] /\ overlap' = overlap
        /\ prop' = [prop EXCEPT ![o].state = "withdrawn"]
    BY <1>6 DEF removeOwn, Ask
  <2> QED BY <1>1, <2>1, StateWritten
<1>7. ASSUME NEW o, NEW l, StartAllocate(r, l, o)
      PROVE  NamesInv'
  <2> DEFINE x == [at |-> "allocate", owner |-> o, lead |-> l]
  <2>1. Ask(r, x) /\ Meet(r, o) /\ prop' = prop /\ x.at \notin {"assign", "code"}
    BY <1>7 DEF StartAllocate
  <2> HIDE DEF x
  <2> QED BY <1>2, <1>3, <2>1
<1>8. ASSUME NEW o, NEW kind, NEW sizes, StartUpload(r, o, kind, sizes)
      PROVE  NamesInv'
  <2> DEFINE x == [at |-> "quota", owner |-> o, kind |-> kind, sizes |-> sizes]
  <2>1. Ask(r, x) /\ Meet(r, o) /\ prop' = prop /\ x.at \notin {"assign", "code"}
    BY <1>8 DEF StartUpload
  <2> HIDE DEF x
  <2> QED BY <1>2, <1>3, <2>1
<1>9. ASSUME NEW o, NEW f, NEW route, FindFile(r, o, f, route)
      PROVE  NamesInv'
  <2> DEFINE x == [at |-> "drop", owner |-> o, row |-> f,
                   unlink |-> IF (f.kind = "document") = (route = "document") THEN {f.id} ELSE {}]
  <2>1. Ask(r, x) /\ Meet(r, o) /\ prop' = prop
    BY <1>9 DEF FindFile
  <2>2. x.at \notin {"assign", "code"}
    OBVIOUS
  <2> HIDE DEF x
  <2> QED BY <1>2, <1>3, <2>1, <2>2
<1>10. ASSUME NEW l, NEW c, Deallocate(r, l, c)
       PROVE  NamesInv'
  BY <1>1, <1>2, <1>10 DEF Deallocate
<1> QED BY <1>4, <1>5, <1>6, <1>7, <1>8, <1>9, <1>10 DEF PropertyCall, addImages, addDocuments, addAmenities,
        persistSellerDocuments, deleteImage, deletePropertyDocument, deleteSellerDocument

\* And they go on.
LEMMA PropertyWorkStep ==
  ASSUME NamesInv, NEW r \in Clients, PropertyWork(r)
  PROVE  NamesInv'
<1>1. Resting.at = "idle" /\ overlap \subseteq overlap
  BY DEF Resting
<1>2. ASSUME NEW x, Step(r, x), x.at \notin {"assign", "code"}, prop' = prop, overlap' = overlap
      PROVE  NamesInv'
  BY <1>2, CodesLeft DEF Step
<1>3. CASE GiveUpCode(r) \/ InsertFiles(r) \/ Allocate(r) \/ UnlinkFiles(r)
           \/ \E stops \in BOOLEAN : PropertyRequestFails(r, stops)
  BY <1>1, <1>2, <1>3 DEF GiveUpCode, InsertFiles, Allocate, UnlinkFiles, PropertyRequestFails
<1>4. CASE WriteFiles(r)
  <2> DEFINE x == [at |-> "insert", owner |-> client[r].owner, kind |-> client[r].kind,
                   sizes |-> client[r].sizes, first |-> nextFile]
  <2>1. (Step(r, Resting) \/ Step(r, x)) /\ prop' = prop /\ overlap' = overlap
    BY <1>4 DEF WriteFiles
  <2>2. x.at \notin {"assign", "code"}
    OBVIOUS
  <2> HIDE DEF x
  <2> QED BY <1>1, <1>2, <2>1, <2>2
<1>5. CASE DropFile(r)
  <2> DEFINE x == [at |-> "unlink", owner |-> client[r].owner, unlink |-> client[r].unlink]
  <2>1. Step(r, x) /\ prop' = prop /\ overlap' = overlap /\ x.at \notin {"assign", "code"}
    BY <1>5 DEF DropFile
  <2> HIDE DEF x
  <2> QED BY <1>2, <2>1
<1>6. CASE ListFiles(r)
  <2> DEFINE x == [at |-> "purge", owner |-> client[r].owner, rows |-> Owned(client[r].owner)]
  <2>1. Step(r, x) /\ prop' = prop /\ overlap' = overlap /\ x.at \notin {"assign", "code"}
    BY <1>6 DEF ListFiles
  <2> HIDE DEF x
  <2> QED BY <1>2, <2>1
<1>7. ASSUME NEW i, NEW x, Step(r, x), x.at \notin {"assign", "code"}, overlap' = overlap,
             prop' = [prop EXCEPT ![i].state = IF prop[i].state = "live" THEN "removed" ELSE prop[i].state]
      PROVE  NamesInv'
  <2> DEFINE st == IF prop[i].state = "live" THEN "removed" ELSE prop[i].state
  <2>1. i \in DOMAIN prop => st \in {"live", "removed", "withdrawn"}
    <3>1. i \in DOMAIN prop => prop[i] \in PropertyRows
      BY DEF NamesInv, CodeTypes
    <3> QED BY <3>1 DEF PropertyRows
  <2>2. prop' = [prop EXCEPT ![i].state = st]
    BY <1>7
  <2> HIDE DEF st
  <2> QED BY <1>7, <2>1, <2>2, StateWritten DEF Step
<1>8. CASE Purge(r)
  <2> DEFINE x == [at |-> "unlink", owner |-> client[r].owner, unlink |-> {f.id : f \in client[r].rows}]
  <2>1. /\ Step(r, x) /\ overlap' = overlap /\ x.at \notin {"assign", "code"}
        /\ prop' = [prop EXCEPT ![client[r].owner].state =
             IF prop[client[r].owner].state = "live" THEN "removed" ELSE prop[client[r].owner].state]
    BY <1>8 DEF Purge
  <2> HIDE DEF x
  <2> QED BY <1>7, <2>1
<1>9. CASE Delist(r)
  <2>1. /\ Step(r, Resting) /\ overlap' = overlap
        /\ prop' = [prop EXCEPT ![client[r].owner].state =
             IF prop[client[r].owner].state = "live" THEN "removed" ELSE prop[client[r].owner].state]
    BY <1>9 DEF Delist
  <2> QED BY <1>1, <1>7, <2>1
<1> QED BY <1>3, <1>4, <1>5, <1>6, <1>8, <1>9, TryCodeStep, AssignCodeStep DEF PropertyWork

\* At first the rows have their codes to themselves.
LEMMA NamesOpen == PropertiesInit => NamesInv
<1> SUFFICES ASSUME PropertiesInit
             PROVE  NamesInv
  OBVIOUS
<1>1. prop = Existing /\ overlap = {} /\ client = [r \in Clients |-> Resting]
  BY DEF PropertiesInit
<1>2. \A r \in Clients : client[r].at = "idle"
  BY <1>1 DEF Resting
<1>3. CodeTypes
  BY <1>1, <1>2, ExistingAssumption DEF CodeTypes, Assigning
<1>4. CodesInv
  BY <1>1, <1>2, ExistingAssumption DEF CodesInv, CodeNamesOneProperty
<1> QED BY <1>3, <1>4 DEF NamesInv

\* A step that changes nothing changes no code.
LEMMA NamesStutter ==
  ASSUME NamesInv, UNCHANGED propVars
  PROVE  NamesInv'
BY DEF propVars, NamesInv, CodeTypes, CodesInv, CodeNamesOneProperty, Assigning, PropertyRows, Surfaces

\* An operator who reads a code gets one property: rows of a table never share
\* one, whatever requests draw at once and whichever lookup fails, and rows of
\* two tables only after the window propertyCode.js admits.
THEOREM CodesAreUnique == PropertiesSpec => []CodeNamesOneProperty
<1>1. PropertiesInit => NamesInv
  BY NamesOpen
<1>2. NamesInv /\ [PropertiesNext]_propVars => NamesInv'
  BY NamesStutter, PropertyCallStep, PropertyWorkStep DEF PropertiesNext
<1>3. NamesInv => CodeNamesOneProperty
  BY DEF NamesInv, CodesInv
<1> QED BY <1>1, <1>2, <1>3, PTL DEF PropertiesSpec

-----------------------------------------------------------------------------
(* What the other tables hold of a property.                                 *)

\* The file rows a deletion has read, and the files it is about to unlink.
Held(x) == IF x.at = "drop" THEN {x.row} ELSE IF x.at = "purge" THEN x.rows ELSE {}
Freed(x) == IF x.at = "unlink" THEN x.unlink ELSE {}
Known == file \cup UNION {Held(client[r]) : r \in Clients}
IsFile(f) == f.id \in Nat /\ f.size \in Nat /\ f.place \in Nat

\* The owners, and what each request carries from statement to statement.
OwnersFit ==
  /\ \A f \in file : f.owner \in {SellerDesk} \cup DOMAIN prop
  /\ overlap \subseteq {SellerDesk} \cup DOMAIN prop
  /\ \A r \in Clients : client[r] # Resting =>
       /\ client[r].at # "idle" /\ client[r].owner \in {SellerDesk} \cup DOMAIN prop
       /\ client[r].at \in {"quota", "insert"} => client[r].sizes \in Seq(Nat)
       /\ \A f \in Held(client[r]) : f.owner = client[r].owner

\* A file is known by its id; an upload that has written its files, of which there
\* is one at a time, has the latest ids, and what is being unlinked has no row.
FilesKnown ==
  /\ nextFile \in Nat /\ IsFiniteSet(Known)
  /\ \A f \in Known : IsFile(f) /\ f.id < nextFile
  /\ \A f, g \in Known : f.id = g.id => f = g
  /\ \A r \in Clients : \A h \in Freed(client[r]) : h \in 0 .. (nextFile - 1) /\ \A f \in file : f.id # h
  /\ \A r \in Clients : client[r].at = "drop" => client[r].unlink \subseteq {client[r].row.id}
  /\ \A r \in Clients : client[r].at = "insert" =>
       LET x == client[r]
       IN /\ x.first \in Nat /\ x.first + Len(x.sizes) = nextFile
          /\ x.first .. (nextFile - 1) \subseteq disk
          /\ \A q \in Clients \ {r} : client[q].at # "insert"
          /\ \A f \in Known : f.id < x.first
          /\ \A q \in Clients : \A h \in Freed(client[q]) : h < x.first

\* The quota, with what the upload at work is about to add.
QuotaKept ==
  /\ used \in Nat /\ torn \in BOOLEAN
  /\ \A r \in Clients : client[r].at = "insert" => used + Sum(client[r].sizes) <= Quota

\* Unless two requests met on a property: who adds to it has it standing, with room
\* for what is added, and who removes it has it allocated to nobody.
Counted(i, kind) == Cardinality({f \in Owned(i) : f.kind = kind})
ClientFits(x) ==
  LET i == x.owner
  IN /\ x.at \in {"allocate", "remove", "purge", "delist"} => i \in DOMAIN prop
     /\ x.at = "delist" => prop[i].kind = "website"
     /\ x.at = "allocate" => x.lead \in Leads /\ prop[i].code # NoCode
     /\ x # Resting /\ i \in DOMAIN prop \ overlap =>
          /\ x.at \in {"assign", "code", "quota", "insert", "allocate"} => prop[i].state # "removed"
          /\ x.at \in {"quota", "insert"} /\ x.kind \in {"image", "document"} =>
               Counted(i, x.kind) + Len(x.sizes) <= Cap
          /\ x.at \in {"remove", "purge", "delist"} => Unallocated(i)

\* Two requests on one property met.
OneAtOwner ==
  \A r, q \in Clients : r # q /\ client[r] # Resting /\ client[q] # Resting
                        /\ client[r].owner = client[q].owner => client[r].owner \in overlap

LeadsFit ==
  /\ lead = [l \in Leads |-> lead[l]]
  /\ \A l \in Leads : /\ lead[l] \in Seq(ToSet(lead[l])) /\ IsInjective(lead[l])
                      /\ ToSet(lead[l]) \subseteq {prop[i].code : i \in DOMAIN prop} \ {NoCode}

\* A property where no two requests met.
Tidy(i) ==
  /\ prop[i].state = "removed" /\ prop[i].kind # "website" => Owned(i) = {}
  /\ \A kind \in {"image", "document"} : Counted(i, kind) <= Cap
  /\ prop[i].state = "removed" => Unallocated(i)

FilesHold == OwnersFit /\ FilesKnown /\ QuotaKept /\ BytesAccounted
DeskHolds == /\ OneAtOwner /\ LeadsFit /\ \A r \in Clients : ClientFits(client[r])
             /\ \A i \in DOMAIN prop \ overlap : Tidy(i)
HoldInv == NamesInv /\ FilesHold /\ DeskHolds

\* The bytes of some files are a sum over them, in whatever function holds the sizes.
LEMMA BytesOf ==
  ASSUME NEW All, NEW F \in SUBSET All, IsFiniteSet(F), \A f \in F : f.size \in Nat
  PROVE  Bytes(F) = SumFunctionOnSet([f \in All |-> f.size], F) /\ Bytes(F) \in Nat
<1> DEFINE g == [f \in F |-> f.size]
           h == [f \in All |-> f.size]
<1>1. \A f \in F : g[f] \in Int /\ g[f] = h[f] /\ g[f] \in Nat
  OBVIOUS
<1>2. Bytes(F) = SumFunctionOnSet(g, F)
  BY DEF Bytes
<1> HIDE DEF g, h
<1>3. SumFunctionOnSet(g, F) = SumFunctionOnSet(h, F)
  BY <1>1, SumSame
<1>4. SumFunctionOnSet(g, F) \in Nat
  BY <1>1, SumNat
<1> QED BY <1>2, <1>3, <1>4 DEF h

\* Files that go take their bytes with them.
LEMMA BytesLess ==
  ASSUME NEW F, IsFiniteSet(F), \A f \in F : f.size \in Nat, NEW G \in SUBSET F
  PROVE  Bytes(F) = Bytes(G) + Bytes(F \ G) /\ Bytes(G) \in Nat /\ Bytes(F \ G) \in Nat
<1> DEFINE h == [f \in F |-> f.size]
<1>1. \A f \in F : h[f] \in Int
  OBVIOUS
<1>2. /\ F \in SUBSET F /\ F \ G \in SUBSET F /\ IsFiniteSet(G) /\ IsFiniteSet(F \ G)
      /\ (\A f \in G : f.size \in Nat) /\ \A f \in F \ G : f.size \in Nat
  BY FS_Subset
<1>3. /\ Bytes(F) = SumFunctionOnSet(h, F) /\ Bytes(G) = SumFunctionOnSet(h, G)
      /\ Bytes(F \ G) = SumFunctionOnSet(h, F \ G) /\ Bytes(G) \in Nat /\ Bytes(F \ G) \in Nat
  BY <1>2, BytesOf
<1> HIDE DEF h
<1> QED BY <1>1, <1>3, SumSplit

\* Files that come bring the bytes of the upload.
LEMMA BytesMore ==
  ASSUME NEW F, IsFiniteSet(F), \A f \in F : f.size \in Nat, NEW sizes \in Seq(Nat), NEW entry,
         \A n \in DOMAIN sizes : entry[n] \notin F /\ entry[n].size = sizes[n],
         \A n, m \in DOMAIN sizes : entry[n] = entry[m] => n = m
  PROVE  /\ IsFiniteSet(Joined(F, Len(sizes), entry))
         /\ Bytes(Joined(F, Len(sizes), entry)) = Bytes(F) + Sum(sizes)
<1> DEFINE N == Len(sizes)
           G == F \cup {entry[n] : n \in 1..N}
           h == [f \in G |-> f.size]
<1>1. N \in Nat /\ DOMAIN sizes = 1..N /\ \A n \in 1..N : sizes[n] \in Nat
  OBVIOUS
<1>2. IsFiniteSet(G)
  <2>1. IsFiniteSet(1..N)
    BY <1>1, FS_Interval
  <2>2. IsFiniteSet({entry[n] : n \in 1..N})
    <3> DEFINE T == {entry[n] : n \in 1..N}
               D == 1..N
    <3>3. IsFiniteSet(D) /\ \A y \in T : \E n \in D : y = entry[n]
      BY <2>1
    <3> HIDE DEF D, T
    <3>2. IsFiniteSet(T)
      BY <3>3, ImageIsFinite
    <3> QED BY <3>2 DEF T
  <2> QED BY <2>2, FS_Union
<1>3. \A f \in G : f.size \in Nat
  BY <1>1
<1>4. Bytes(F) = SumFunctionOnSet(h, F) /\ Bytes(G) = SumFunctionOnSet(h, G)
  BY <1>2, <1>3, BytesOf
<1>5. /\ \A f \in F : h[f] \in Int
      /\ \A n \in 1..N : entry[n] \notin F /\ sizes[n] \in Int /\ h[entry[n]] = sizes[n]
      /\ \A n, m \in 1..N : entry[n] = entry[m] => n = m
  <2>1. \A n \in 1..N : entry[n] \in G
    OBVIOUS
  <2>2. \A f \in G : h[f] = f.size
    OBVIOUS
  <2>3. \A f \in F : f \in G
    OBVIOUS
  <2>4. \A n \in 1..N : entry[n] \notin F /\ entry[n].size = sizes[n] /\ sizes[n] \in Int
    BY <1>1
  <2>5. \A n, m \in 1..N : entry[n] = entry[m] => n = m
    BY <1>1
  <2> HIDE DEF G, h, N
  <2>6. \A f \in F : h[f] \in Int
    BY <1>3, <2>2, <2>3
  <2>7. \A n \in 1..N : h[entry[n]] = sizes[n]
    BY <2>1, <2>2, <2>4
  <2> QED BY <2>4, <2>5, <2>6, <2>7
<1>6. Sum(sizes) = SumFunctionOnSet(sizes, 1..N)
  BY <1>1 DEF Sum, SumFunction
<1>8. N \in Nat
  OBVIOUS
<1>9. G = Joined(F, N, entry) /\ Brings(h, F, N, entry, sizes)
  BY <1>5 DEF Joined, Brings
<1> HIDE DEF h, N, G
<1>7. SumFunctionOnSet(h, G) = SumFunctionOnSet(h, F) + SumFunctionOnSet(sizes, 1..N)
  BY <1>5, <1>8, <1>9, SumJoin
<1> QED BY <1>2, <1>4, <1>6, <1>7, <1>9 DEF N

\* A number of files of a kind is not larger than that of more files.
LEMMA FewerFiles ==
  ASSUME NEW S, IsFiniteSet(S), NEW T \in SUBSET S
  PROVE  Cardinality(T) \in Nat /\ Cardinality(S) \in Nat /\ Cardinality(T) <= Cardinality(S)
BY FS_Subset, FS_CardinalityType

\* The last place of a property is a number, and no file of it is farther back.
LEMMA LastPlaceIs ==
  ASSUME IsFiniteSet(file), \A f \in file : f.place \in Nat, NEW o
  PROVE  LastPlace(o) \in Nat /\ \A f \in Owned(o) : f.place <= LastPlace(o)
<1> DEFINE S == {f.place : f \in Owned(o)} \cup {0}
           R == OpToRel(<, Nat)
<1>1. IsFiniteSet(Owned(o)) /\ Owned(o) \subseteq file
  BY FS_Subset DEF Owned
<1>2. IsFiniteSet(S) /\ S \subseteq Nat /\ S # {}
  <2> DEFINE back == [f \in Owned(o) |-> f.place]
         T == {f.place : f \in Owned(o)}
  <2>1. \A y \in T : \E f \in Owned(o) : y = back[f]
    OBVIOUS
  <2> HIDE DEF back, T
  <2>2. IsFiniteSet(T)
    BY <1>1, <2>1, ImageIsFinite
  <2> USE DEF T
  <2>3. IsFiniteSet(S)
    BY <2>2, FS_AddElement, Zenon
  <2>4. \A f \in Owned(o) : f.place \in Nat
    BY <1>1
  <2> QED BY <2>3, <2>4
<1>3. \E x \in S : \A y \in S : x >= y
  <2> HIDE DEF S
  <2> QED BY <1>2, HasLargest
<1>4. LastPlace(o) \in S /\ \A y \in S : LastPlace(o) >= y
  <2>1. LastPlace(o) = CHOOSE x \in S : \A y \in S : x >= y
    BY DEF LastPlace, Max
  <2> HIDE DEF S
  <2> QED BY <1>3, <2>1
<1> QED BY <1>2, <1>4

\* The bytes of an upload are a number.
LEMMA SizesSum == ASSUME NEW sizes \in Seq(Nat) PROVE Sum(sizes) \in Nat
<1>1. IsFiniteSet(DOMAIN sizes) /\ \A n \in DOMAIN sizes : sizes[n] \in Nat
  <2>1. DOMAIN sizes = 1..Len(sizes) /\ Len(sizes) \in Nat
    OBVIOUS
  <2>2. IsFiniteSet(1..Len(sizes))
    BY <2>1, FS_Interval
  <2>3. \A n \in DOMAIN sizes : sizes[n] \in Nat
    BY <2>1
  <2> QED BY <2>1, <2>2, <2>3
<1> QED BY <1>1, SumNat DEF Sum, SumFunction

\* One file has its bytes.
LEMMA BytesOfOne == ASSUME NEW f, f.size \in Nat PROVE Bytes({f}) = f.size
<1> DEFINE h == [g \in {f} |-> g.size]
<1>1. h[f] = f.size /\ (\A g \in {f} : h[g] \in Int) /\ f \in {f} /\ {f} \ {f} = {}
  OBVIOUS
<1>5. IsFiniteSet({f})
  BY FS_Singleton
<1>2. Bytes({f}) = SumFunctionOnSet(h, {f})
  BY DEF Bytes
<1> HIDE DEF h
<1>3. SumFunctionOnSet(h, {f}) = h[f] + SumFunctionOnSet(h, {f} \ {f})
  BY <1>1, <1>5, SumRemove
<1>4. SumFunctionOnSet(h, {f} \ {f}) = 0
  BY <1>1, SumEmpty
<1> QED BY <1>1, <1>2, <1>3, <1>4

\* A list without a code: what was in it, in its order, but for the code.
LEMMA WithoutIs ==
  ASSUME NEW S, NEW codes \in Seq(S), NEW c
  PROVE  /\ Without(codes, c) \in Seq(S)
         /\ ToSet(Without(codes, c)) \subseteq ToSet(codes) \ {c}
         /\ IsInjective(codes) => IsInjective(Without(codes, c))
<1> DEFINE L == Len(codes)
           Next(g, n) == IF n = 0 THEN << >>
                         ELSE IF codes[n] = c THEN g[n - 1] ELSE Append(g[n - 1], codes[n])
           Left == CHOOSE g : g = [n \in 0..L |-> Next(g, n)]
           Upto(g, k) == \A n \in 0..k : g[n] = Next(g, n)
           Some(k) == \E g \in [0..k -> Seq(S)] : Upto(g, k)
           Steps == {k \in Nat : k <= L => Some(k)}
<1>1. L \in Nat /\ \A n \in 1..L : codes[n] \in S
  OBVIOUS
<1>2. 0 \in Steps
  <2> DEFINE g == [n \in 0..0 |-> << >>]
  <2>1. g \in [0..0 -> Seq(S)] /\ Upto(g, 0)
    OBVIOUS
  <2> QED BY <2>1
<1>3. ASSUME NEW k \in Nat, k \in Steps PROVE k + 1 \in Steps
  <2> SUFFICES ASSUME k + 1 <= L PROVE Some(k + 1)
    <3> HIDE DEF Some
    <3> QED OBVIOUS
  <2>9. Some(k)
    <3> HIDE DEF Some
    <3> QED BY <1>1, <1>3
  <2>1. PICK h \in [0..k -> Seq(S)] : Upto(h, k)
    BY <2>9
  <2> DEFINE e == IF codes[k + 1] = c THEN h[k] ELSE Append(h[k], codes[k + 1])
             g == [n \in 0..(k + 1) |-> IF n = k + 1 THEN e ELSE h[n]]
  <2>2. h[k] \in Seq(S) /\ codes[k + 1] \in S
    BY <1>1
  <2>3. e \in Seq(S)
    BY <2>2
  <2> HIDE DEF e
  <2>4. g \in [0..(k + 1) -> Seq(S)]
    BY <2>3
  <2>5. g[k + 1] = e /\ \A n \in 0..k : g[n] = h[n]
    OBVIOUS
  <2> HIDE DEF g
  <2>6. \A n \in 0..k : g[n] = Next(g, n)
    <3> SUFFICES ASSUME NEW n \in 0..k PROVE g[n] = Next(g, n)
      OBVIOUS
    <3>1. h[n] = Next(h, n)
      BY <2>1
    <3>2. g[n] = h[n]
      BY <2>5
    <3>3. n # 0 => n - 1 \in 0..k
      OBVIOUS
    <3>4. n # 0 => g[n - 1] = h[n - 1]
      BY <2>5, <3>3
    <3> QED BY <3>1, <3>2, <3>4
  <2>7. g[k + 1] = Next(g, k + 1)
    <3>1. k + 1 # 0 /\ (k + 1) - 1 = k /\ g[k] = h[k] /\ g[k + 1] = e
      BY <2>5
    <3> QED BY <3>1 DEF e
  <2>8. Upto(g, k + 1)
    BY <2>6, <2>7
  <2> QED BY <2>4, <2>8
<1>4. L \in Steps
  <2> HIDE DEF Steps
  <2> QED BY <1>1, <1>2, <1>3, SetOfNaturals
<1>5. PICK h \in [0..L -> Seq(S)] : Upto(h, L)
  BY <1>1, <1>4
<1>6. h = [n \in 0..L |-> Next(h, n)]
  BY <1>5
<1>7. Left = [n \in 0..L |-> Next(Left, n)]
  BY <1>6
<1>8. Without(codes, c) = Left[L]
  BY DEF Without
<1> HIDE DEF Left
<1> DEFINE Fine(s, n) == /\ s \in Seq(S)
                         /\ \A i \in DOMAIN s : s[i] # c /\ \E m \in 1..n : s[i] = codes[m]
                         /\ IsInjective(codes) => IsInjective(s)
           Goods == {k \in Nat : k <= L => Fine(Left[k], k)}
<1>9. 0 \in Goods
  <2>1. Left[0] = << >>
    BY <1>1, <1>7
  <2>2. Fine(Left[0], 0)
    BY <2>1 DEF IsInjective
  <2> HIDE DEF Fine
  <2> QED BY <2>2
<1>10. ASSUME NEW k \in Nat, k \in Goods PROVE k + 1 \in Goods
  <2> SUFFICES ASSUME k + 1 <= L PROVE Fine(Left[k + 1], k + 1)
    <3> HIDE DEF Fine
    <3> QED OBVIOUS
  <2> DEFINE s == Left[k]
             t == Left[k + 1]
  <2>1. Fine(s, k)
    <3> HIDE DEF Fine
    <3> QED BY <1>1, <1>10
  <2>2. t = IF codes[k + 1] = c THEN s ELSE Append(s, codes[k + 1])
    <3>1. k + 1 \in 0..L /\ k + 1 # 0 /\ (k + 1) - 1 = k
      BY <1>1
    <3> QED BY <1>7, <3>1
  <2>3. codes[k + 1] \in S /\ DOMAIN codes = 1..L /\ k + 1 \in DOMAIN codes /\ \A m \in 1..k : m \in DOMAIN codes /\ m # k + 1
    BY <1>1
  <2> HIDE DEF s, t
  <2>4. CASE codes[k + 1] = c
    <3>1. t = s /\ \A m \in 1..k : m \in 1..(k + 1)
      BY <2>2, <2>4
    <3>2. Fine(s, k + 1)
      BY <2>1, <3>1
    <3> HIDE DEF Fine
    <3> QED BY <3>1, <3>2 DEF t
  <2>5. CASE codes[k + 1] # c
    <3>1. t = Append(s, codes[k + 1]) /\ s \in Seq(S)
      BY <2>1, <2>2, <2>5
    <3>2. /\ t \in Seq(S) /\ DOMAIN t = 1..(Len(s) + 1) /\ t[Len(s) + 1] = codes[k + 1] /\ Len(s) \in Nat
          /\ \A i \in 1..Len(s) : t[i] = s[i] /\ i \in DOMAIN s
      BY <2>3, <3>1
    <3>3. \A i \in DOMAIN t : t[i] # c /\ \E m \in 1..(k + 1) : t[i] = codes[m]
      <4> SUFFICES ASSUME NEW i \in DOMAIN t PROVE t[i] # c /\ \E m \in 1..(k + 1) : t[i] = codes[m]
        OBVIOUS
      <4>1. CASE i \in 1..Len(s)
        BY <2>1, <3>2, <4>1
      <4>2. CASE i = Len(s) + 1
        BY <2>5, <3>2, <4>2
      <4> QED BY <3>2, <4>1, <4>2
    <3>4. ASSUME IsInjective(codes) PROVE IsInjective(t)
      <4>1. \A i \in 1..Len(s) : s[i] # codes[k + 1]
        BY <2>1, <2>3, <3>2, <3>4 DEF IsInjective
      <4>2. \A i, j \in 1..Len(s) : s[i] = s[j] => i = j
        BY <2>1, <3>2, <3>4 DEF IsInjective
      <4>3. \A i, j \in DOMAIN t : t[i] = t[j] => i = j
        BY <3>2, <4>1, <4>2
      <4> QED BY <4>3 DEF IsInjective
    <3>5. Fine(t, k + 1)
      BY <3>2, <3>3, <3>4
    <3> HIDE DEF Fine
    <3> QED BY <3>5 DEF t
  <2> QED BY <2>4, <2>5
<1>11. L \in Goods
  <2> HIDE DEF Goods
  <2> QED BY <1>1, <1>9, <1>10, SetOfNaturals
<1>12. Fine(Left[L], L)
  BY <1>1, <1>11
<1>13. \A m \in 1..L : codes[m] \in ToSet(codes)
  BY DEF ToSet
<1> HIDE DEF L
<1> QED BY <1>8, <1>12, <1>13 DEF ToSet

\* What a request has in hand changes with its own steps only.
LEMMA HandsTurn ==
  ASSUME CodeTypes, NEW r \in Clients, NEW x, client' = [client EXCEPT ![r] = x]
  PROVE  /\ client'[r] = x /\ Held(client[r])' = Held(x) /\ Freed(client[r])' = Freed(x)
         /\ \A q \in Clients : q # r => /\ client'[q] = client[q] /\ Held(client[q])' = Held(client[q])
                                        /\ Freed(client[q])' = Freed(client[q])
<1>1. client'[r] = x /\ \A q \in Clients : q # r => client'[q] = client[q]
  BY ClientTurn
<1> QED BY <1>1 DEF Held, Freed

\* A step that leaves the rows, the counter and the ids alone.
LEMMA FilesLeft ==
  ASSUME FilesHold, CodeTypes, NEW r \in Clients, NEW x, client' = [client EXCEPT ![r] = x],
         file' = file, used' = used, torn' = torn, nextFile' = nextFile,
         {f.id : f \in file} \subseteq disk',
         \A q \in Clients \ {r} : client[q].at = "insert" => client[q].first .. (nextFile - 1) \subseteq disk',
         DOMAIN prop \subseteq DOMAIN prop', overlap' \subseteq {SellerDesk} \cup DOMAIN prop',
         x # Resting => x.at # "idle" /\ x.owner \in {SellerDesk} \cup DOMAIN prop',
         x.at \notin {"insert", "unlink"}, x.at = "quota" => x.sizes \in Seq(Nat),
         Held(x) \subseteq file, \A f \in Held(x) : f.owner = x.owner,
         x.at = "drop" => x.unlink \subseteq {x.row.id}
  PROVE  FilesHold'
<1>1. OwnersFit /\ FilesKnown /\ QuotaKept /\ BytesAccounted
  BY DEF FilesHold
<1>2. /\ client'[r] = x /\ Held(client[r])' = Held(x) /\ Freed(client[r])' = Freed(x)
      /\ \A q \in Clients : q # r => /\ client'[q] = client[q] /\ Held(client[q])' = Held(client[q])
                                     /\ Freed(client[q])' = Freed(client[q])
  BY HandsTurn
<1>3. Freed(x) = {}
  BY DEF Freed
<1>4. Known' \subseteq Known
  BY <1>2 DEF Known
<1>5. OwnersFit'
  BY <1>1, <1>2 DEF OwnersFit
<1>6. FilesKnown'
  <2>1. nextFile' \in Nat /\ IsFiniteSet(Known')
    BY <1>1, <1>4, FS_Subset DEF FilesKnown
  <2>2. /\ \A f \in Known' : IsFile(f) /\ f.id < nextFile
        /\ \A f, g \in Known' : f.id = g.id => f = g
    BY <1>1, <1>4 DEF FilesKnown
  <2>3. \A q \in Clients : \A h \in Freed(client[q])' : h \in 0 .. (nextFile - 1) /\ \A f \in file : f.id # h
    BY <1>1, <1>2, <1>3 DEF FilesKnown
  <2>4. \A q \in Clients : client'[q].at = "drop" => client'[q].unlink \subseteq {client'[q].row.id}
    BY <1>1, <1>2 DEF FilesKnown
  <2>5. ASSUME NEW q \in Clients, client'[q].at = "insert"
        PROVE  /\ client'[q].first \in Nat /\ client'[q].first + Len(client'[q].sizes) = nextFile
               /\ client'[q].first .. (nextFile - 1) \subseteq disk'
               /\ \A s \in Clients \ {q} : client'[s].at # "insert"
               /\ \A f \in Known' : f.id < client'[q].first
               /\ \A s \in Clients : \A h \in Freed(client[s])' : h < client'[q].first
    <3>1. q # r /\ client'[q] = client[q] /\ client[q].at = "insert"
      BY <1>2, <2>5
    <3>2. /\ client[q].first \in Nat /\ client[q].first + Len(client[q].sizes) = nextFile
          /\ \A s \in Clients \ {q} : client[s].at # "insert"
          /\ \A f \in Known : f.id < client[q].first
          /\ \A s \in Clients : \A h \in Freed(client[s]) : h < client[q].first
      BY <1>1, <3>1 DEF FilesKnown
    <3>3. client[q].first .. (nextFile - 1) \subseteq disk'
      BY <3>1
    <3>4. \A s \in Clients \ {q} : client'[s].at # "insert"
      BY <1>2, <3>2
    <3>5. \A s \in Clients : \A h \in Freed(client[s])' : h < client[q].first
      BY <1>2, <1>3, <3>2
    <3> QED BY <1>4, <3>1, <3>2, <3>3, <3>4, <3>5
  <2> QED BY <2>1, <2>2, <2>3, <2>4, <2>5 DEF FilesKnown, IsFile
<1>7. QuotaKept'
  <2>1. \A q \in Clients : client'[q].at = "insert" => client'[q] = client[q]
    BY <1>2
  <2> QED BY <1>1, <2>1 DEF QuotaKept
<1>8. BytesAccounted'
  BY <1>1 DEF BytesAccounted, Bytes
<1> QED BY <1>5, <1>6, <1>7, <1>8 DEF FilesHold

\* The files of an upload are written under fresh names, within the quota.
LEMMA FilesWritten ==
  ASSUME FilesHold, CodeTypes, NEW r \in Clients, WriteFiles(r), used + Sum(client[r].sizes) <= Quota
  PROVE  FilesHold'
<1>1. OwnersFit /\ FilesKnown /\ QuotaKept /\ BytesAccounted
  BY DEF FilesHold
<1>2. PICK x : x = [at |-> "insert", owner |-> client[r].owner, kind |-> client[r].kind,
                    sizes |-> client[r].sizes, first |-> nextFile]
  OBVIOUS
<1>3. x.at = "insert" /\ x.owner = client[r].owner /\ x.sizes = client[r].sizes /\ x.first = nextFile
  BY <1>2
<1>4. /\ client[r].at = "quota" /\ StorageFree(r)
      /\ client' = [client EXCEPT ![r] = x] /\ disk' = disk \cup (nextFile .. nextFile + Len(x.sizes) - 1)
      /\ nextFile' = nextFile + Len(x.sizes)
      /\ UNCHANGED <<prop, file, used, lead, torn, overlap, asked, failed>>
  <2>1. nextFile \in Nat /\ client[r].sizes \in Seq(Nat) /\ client[r].at = "quota"
    <3>1. client[r].at = "quota" /\ client[r] # Resting
      BY DEF WriteFiles, Resting
    <3> QED BY <1>1, <3>1 DEF OwnersFit, FilesKnown
  <2>2. ~(used + Sum(client[r].sizes) > Quota)
    <3>1. used \in Nat /\ Quota \in Nat /\ Sum(client[r].sizes) \in Int
      BY <1>1, <2>1, SizesSum, UploadAssumption DEF QuotaKept
    <3> QED BY <3>1
  <2>3. x.sizes = client[r].sizes
    BY <1>3
  <2> QED BY <1>2, <2>1, <2>2, <2>3 DEF WriteFiles, Step
<1>5. /\ client'[r] = x /\ Held(client[r])' = Held(x) /\ Freed(client[r])' = Freed(x)
      /\ \A q \in Clients : q # r => /\ client'[q] = client[q] /\ Held(client[q])' = Held(client[q])
                                     /\ Freed(client[q])' = Freed(client[q])
  BY <1>4, HandsTurn
<1>6. Freed(x) = {} /\ Held(x) = {} /\ x # Resting
  BY <1>3 DEF Freed, Held, Resting
<1>7. Known' \subseteq Known
  BY <1>4, <1>5, <1>6 DEF Known
<1>8. client[r] # Resting /\ x.sizes \in Seq(Nat) /\ nextFile \in Nat /\ Len(x.sizes) \in Nat
      /\ x.owner \in {SellerDesk} \cup DOMAIN prop
  <2>1. client[r] # Resting
    BY <1>4 DEF Resting
  <2>2. client[r].sizes \in Seq(Nat)
    BY <1>1, <1>4, <2>1 DEF OwnersFit
  <2> QED BY <1>1, <1>3, <2>1, <2>2 DEF OwnersFit, FilesKnown
<1>9. \A q \in Clients : q # r => client'[q].at # "insert"
  BY <1>4, <1>5 DEF StorageFree
<1>10. OwnersFit'
  BY <1>1, <1>3, <1>4, <1>5, <1>6, <1>8 DEF OwnersFit
<1>11. FilesKnown'
  <2>1. nextFile' \in Nat /\ IsFiniteSet(Known') /\ nextFile <= nextFile'
    BY <1>1, <1>4, <1>7, <1>8, FS_Subset DEF FilesKnown
  <2>2. \A f \in Known' : IsFile(f) /\ f.id < nextFile /\ f.id < nextFile'
    <3> SUFFICES ASSUME NEW f \in Known' PROVE IsFile(f) /\ f.id < nextFile /\ f.id < nextFile'
      OBVIOUS
    <3>1. IsFile(f) /\ f.id < nextFile
      BY <1>1, <1>7 DEF FilesKnown
    <3> QED BY <2>1, <3>1, <1>8 DEF IsFile
  <2>3. \A f, g \in Known' : f.id = g.id => f = g
    BY <1>1, <1>7 DEF FilesKnown
  <2>4. \A q \in Clients : \A h \in Freed(client[q])' : h \in 0 .. (nextFile - 1) /\ \A f \in file : f.id # h
    BY <1>1, <1>5, <1>6 DEF FilesKnown
  <2>5. \A h \in 0 .. (nextFile - 1) : h \in 0 .. (nextFile' - 1) /\ h < nextFile
    BY <1>8, <2>1
  <2>6. \A q \in Clients : client'[q].at = "drop" => client'[q].unlink \subseteq {client'[q].row.id}
    BY <1>1, <1>3, <1>5 DEF FilesKnown
  <2>7. x.first .. (nextFile' - 1) \subseteq disk'
    BY <1>3, <1>4, <1>8
  <2>8. ASSUME NEW q \in Clients, client'[q].at = "insert" PROVE q = r /\ client'[q] = x
    BY <1>5, <1>9, <2>8
  <2> QED BY <1>3, <1>4, <1>8, <1>9, <2>1, <2>2, <2>3, <2>4, <2>5, <2>6, <2>7, <2>8 DEF FilesKnown, IsFile
<1>12. QuotaKept'
  BY <1>1, <1>3, <1>4, <1>5, <1>9 DEF QuotaKept
<1>13. BytesAccounted'
  BY <1>1, <1>4 DEF BytesAccounted, Bytes
<1> QED BY <1>10, <1>11, <1>12, <1>13 DEF FilesHold

\* The rows of an upload and its bytes come in together.
LEMMA FilesInserted ==
  ASSUME FilesHold, CodeTypes, NEW r \in Clients, InsertFiles(r)
  PROVE  FilesHold'
<1>1. OwnersFit /\ FilesKnown /\ QuotaKept /\ BytesAccounted
  BY DEF FilesHold
<1>2. PICK x : x = client[r]
  OBVIOUS
<1> DEFINE last == LastPlace(x.owner)
           new(n) == [id |-> x.first + n - 1, owner |-> x.owner, kind |-> x.kind,
                      size |-> x.sizes[n], place |-> last + n]
           More == {new(n) : n \in DOMAIN x.sizes}
           L == Len(x.sizes)
<1>3. /\ x.at = "insert" /\ client' = [client EXCEPT ![r] = Resting] /\ file' = file \cup More
      /\ used' = used + Sum(x.sizes)
      /\ UNCHANGED <<prop, disk, lead, torn, overlap, nextFile, asked, failed>>
  BY <1>2 DEF InsertFiles, Step
<1>4. x # Resting /\ x.owner \in {SellerDesk} \cup DOMAIN prop /\ x.sizes \in Seq(Nat)
  <2>1. x # Resting
    BY <1>3 DEF Resting
  <2> QED BY <1>1, <1>2, <1>3, <2>1 DEF OwnersFit
<1>5. L \in Nat /\ DOMAIN x.sizes = 1..L /\ \A n \in 1..L : x.sizes[n] \in Nat
  BY <1>4
<1>6. /\ x.first \in Nat /\ x.first + L = nextFile /\ x.first .. (nextFile - 1) \subseteq disk
      /\ \A q \in Clients \ {r} : client[q].at # "insert"
      /\ \A f \in Known : f.id < x.first
      /\ \A q \in Clients : \A h \in Freed(client[q]) : h < x.first
  BY <1>1, <1>2, <1>3 DEF FilesKnown
<1>7. Resting.at = "idle" /\ Held(Resting) = {} /\ Freed(Resting) = {}
  BY DEF Resting, Held, Freed
<1>8. /\ client'[r] = Resting /\ Held(client[r])' = {} /\ Freed(client[r])' = {}
      /\ \A q \in Clients : q # r => /\ client'[q] = client[q] /\ Held(client[q])' = Held(client[q])
                                     /\ Freed(client[q])' = Freed(client[q])
  BY <1>3, <1>7, HandsTurn
<1>9. IsFiniteSet(file) /\ file \subseteq Known /\ \A f \in file : f.size \in Nat /\ f.place \in Nat /\ f.id \in Nat
  BY <1>1, FS_Subset DEF FilesKnown, Known, IsFile
<1>10. last \in Nat /\ \A f \in Owned(x.owner) : f.place <= last
  BY <1>9, LastPlaceIs
<1> HIDE DEF last, L
<1>11. \A n \in 1..L : /\ new(n).id = x.first + n - 1 /\ new(n).owner = x.owner /\ new(n).size = x.sizes[n]
                      /\ new(n).place = last + n
  OBVIOUS
<1>12. \A n \in 1..L : /\ new(n).id \in Nat /\ new(n).id >= x.first /\ new(n).id < nextFile
                      /\ new(n).id \in x.first .. (nextFile - 1)
                      /\ new(n).size \in Nat /\ new(n).place \in Nat /\ new(n) \notin file
  <2> SUFFICES ASSUME NEW n \in 1..L
               PROVE  /\ new(n).id \in Nat /\ new(n).id >= x.first /\ new(n).id < nextFile
                      /\ new(n).id \in x.first .. (nextFile - 1)
                      /\ new(n).size \in Nat /\ new(n).place \in Nat /\ new(n) \notin file
    OBVIOUS
  <2>1. x.first + n - 1 \in Nat /\ x.first + n - 1 >= x.first /\ x.first + n - 1 < nextFile /\ last + n \in Nat
        /\ x.first + n - 1 \in x.first .. (nextFile - 1)
    BY <1>5, <1>6, <1>10
  <2>2. new(n).id = x.first + n - 1 /\ new(n).size \in Nat /\ new(n).place = last + n
    BY <1>5, <1>11
  <2> HIDE DEF new
  <2>3. ASSUME new(n) \in file PROVE FALSE
    <3>1. new(n).id < x.first
      BY <1>6, <1>9, <2>3
    <3> QED BY <1>6, <2>1, <2>2, <3>1
  <2> QED BY <2>1, <2>2, <2>3
<1>13. \A n, m \in 1..L : new(n) = new(m) \/ new(n).id = new(m).id \/ new(n).place = new(m).place => n = m
  <2> SUFFICES ASSUME NEW n \in 1..L, NEW m \in 1..L, new(n).id = new(m).id \/ new(n).place = new(m).place PROVE n = m
    OBVIOUS
  <2>1. new(n).id = x.first + n - 1 /\ new(m).id = x.first + m - 1 /\ new(n).place = last + n /\ new(m).place = last + m
    BY <1>11
  <2> HIDE DEF new
  <2> QED BY <1>5, <1>6, <1>10, <2>1
<1>14. IsFiniteSet(file') /\ (~torn => used' = Bytes(file'))
  <2> DEFINE fresh == [n \in 1..L |-> new(n)]
  <2>1. \A n \in DOMAIN x.sizes : fresh[n] = new(n)
    BY <1>5
  <2>2. file \cup More = Joined(file, Len(x.sizes), fresh)
    BY <1>5, <2>1 DEF Joined, L
  <2>3. /\ \A n \in DOMAIN x.sizes : fresh[n] \notin file /\ fresh[n].size = x.sizes[n]
        /\ \A n, m \in DOMAIN x.sizes : fresh[n] = fresh[m] => n = m
    BY <1>5, <1>11, <1>12, <1>13, <2>1
  <2> HIDE DEF fresh, More, new
  <2>4. /\ IsFiniteSet(Joined(file, Len(x.sizes), fresh))
        /\ Bytes(Joined(file, Len(x.sizes), fresh)) = Bytes(file) + Sum(x.sizes)
    BY <1>4, <1>9, <2>3, BytesMore
  <2>5. ~torn => used = Bytes(file)
    BY <1>1 DEF BytesAccounted
  <2>6. IsFiniteSet(file \cup More) /\ Bytes(file \cup More) = Bytes(file) + Sum(x.sizes)
    BY <2>2, <2>4
  <2>7. Bytes(file') = Bytes(file \cup More)
    BY <1>3
  <2> QED BY <1>3, <2>5, <2>6, <2>7
<1>15. \A f \in file' : f \in file \/ \E n \in 1..L : f = new(n)
  BY <1>3, <1>5
<1> HIDE DEF More, new
<1>16. Known' \subseteq Known \cup file' /\ file' \subseteq Known'
  BY <1>3, <1>8 DEF Known
<1>17. \A q \in Clients : client'[q] # Resting => q # r /\ client'[q] = client[q] /\ client[q] # Resting
  BY <1>8
<1>18. OwnersFit'
  <2>1. \A f \in file' : f.owner \in {SellerDesk} \cup DOMAIN prop
    BY <1>1, <1>4, <1>11, <1>15 DEF OwnersFit
  <2> QED BY <1>1, <1>3, <1>8, <1>17, <2>1 DEF OwnersFit
<1>19. FilesKnown'
  <2>1. \A f \in Known' : f \in Known \/ \E n \in 1..L : f = new(n)
    BY <1>9, <1>15, <1>16
  <2>2. nextFile' \in Nat /\ IsFiniteSet(Known')
    <3>1. IsFiniteSet(Known \cup file')
      BY <1>1, <1>14, FS_Union DEF FilesKnown
    <3> QED BY <1>1, <1>3, <1>16, <3>1, FS_Subset DEF FilesKnown
  <2>3. \A f \in Known' : IsFile(f) /\ f.id < nextFile
    BY <1>1, <1>12, <2>1 DEF FilesKnown, IsFile
  <2>4. \A f, g \in Known' : f.id = g.id => f = g
    <3> SUFFICES ASSUME NEW f \in Known', NEW g \in Known', f.id = g.id PROVE f = g
      OBVIOUS
    <3>1. CASE f \in Known /\ g \in Known
      BY <1>1, <3>1 DEF FilesKnown
    <3>2. ASSUME NEW n \in 1..L, NEW e \in Known, e.id = new(n).id PROVE FALSE
      <4>1. e.id < x.first /\ e.id \in Nat /\ new(n).id >= x.first /\ new(n).id \in Nat
        BY <1>1, <1>6, <1>12 DEF FilesKnown, IsFile
      <4> QED BY <1>6, <3>2, <4>1
    <3>3. ASSUME NEW n \in 1..L, f = new(n), NEW m \in 1..L, g = new(m) PROVE f = g
      <4>1. n = m
        BY <1>13, <3>3
      <4> QED BY <3>3, <4>1
    <3> QED BY <2>1, <3>1, <3>2, <3>3
  <2>5. \A q \in Clients : \A h \in Freed(client[q])' : h \in 0 .. (nextFile - 1) /\ \A f \in file' : f.id # h
    <3> SUFFICES ASSUME NEW q \in Clients, NEW h \in Freed(client[q])'
                 PROVE  h \in 0 .. (nextFile - 1) /\ \A f \in file' : f.id # h
      OBVIOUS
    <3>1. h \in Freed(client[q])
      BY <1>8
    <3>2. h \in 0 .. (nextFile - 1) /\ (\A f \in file : f.id # h) /\ h < x.first
      BY <1>1, <1>6, <3>1 DEF FilesKnown
    <3>3. \A n \in 1..L : new(n).id # h
      <4> SUFFICES ASSUME NEW n \in 1..L PROVE new(n).id # h
        OBVIOUS
      <4>1. new(n).id >= x.first /\ new(n).id \in Nat
        BY <1>12
      <4> QED BY <1>1, <1>6, <3>2, <4>1 DEF FilesKnown
    <3> QED BY <1>15, <3>2, <3>3
  <2>6. \A q \in Clients : client'[q].at = "drop" => client'[q].unlink \subseteq {client'[q].row.id}
    BY <1>1, <1>7, <1>8 DEF FilesKnown
  <2>7. \A q \in Clients : client'[q].at # "insert"
    BY <1>6, <1>7, <1>8
  <2> QED BY <1>3, <2>2, <2>3, <2>4, <2>5, <2>6, <2>7 DEF FilesKnown, IsFile
<1>20. QuotaKept'
  <2>1. \A q \in Clients : client'[q].at # "insert"
    BY <1>6, <1>7, <1>8
  <2>2. used' \in Nat
    BY <1>1, <1>3, <1>4, SizesSum DEF QuotaKept
  <2> QED BY <1>1, <1>3, <2>1, <2>2 DEF QuotaKept
<1>21. BytesAccounted'
  <2>1. {f.id : f \in file'} \subseteq disk'
    <3> SUFFICES ASSUME NEW f \in file' PROVE f.id \in disk
      BY <1>3
    <3> QED BY <1>1, <1>6, <1>12, <1>15 DEF BytesAccounted
  <2>2. \A f, g \in file' : f # g => <<f.owner, f.place>> # <<g.owner, g.place>> \/ f.owner = SellerDesk
    <3> SUFFICES ASSUME NEW f \in file', NEW g \in file', f # g, f.owner = g.owner, f.place = g.place
                 PROVE  f.owner = SellerDesk
      OBVIOUS
    <3>1. CASE f \in file /\ g \in file
      BY <1>1, <3>1 DEF BytesAccounted
    <3>2. ASSUME NEW n \in 1..L, NEW e \in file, e.owner = new(n).owner, e.place = new(n).place PROVE FALSE
      <4>1. e \in Owned(x.owner) /\ new(n).place = last + n
        BY <1>11, <3>2 DEF Owned
      <4> QED BY <1>5, <1>9, <1>10, <3>2, <4>1
    <3>3. ASSUME NEW n \in 1..L, f = new(n), NEW m \in 1..L, g = new(m) PROVE f = g
      <4>1. n = m
        BY <1>13, <3>3
      <4> QED BY <3>3, <4>1
    <3> QED BY <1>15, <3>1, <3>2, <3>3
  <2>3. used' <= Quota
    BY <1>1, <1>2, <1>3 DEF QuotaKept
  <2> QED BY <1>3, <1>14, <2>1, <2>2, <2>3 DEF BytesAccounted
<1> QED BY <1>18, <1>19, <1>20, <1>21 DEF FilesHold

\* A deletion takes its rows out; their files are unlinked later.
LEMMA FilesDropped ==
  ASSUME FilesHold, CodeTypes, NEW r \in Clients, NEW x, client' = [client EXCEPT ![r] = x],
         client[r].at \in {"drop", "purge"}, StorageFree(r), x.at = "unlink", x.owner = client[r].owner,
         x.unlink \subseteq {f.id : f \in Held(client[r])},
         file' \subseteq file, \A f \in Held(client[r]) : f \notin file',
         used' \in Nat, used' <= used, torn' \in BOOLEAN, ~torn' => used' = Bytes(file'),
         disk' = disk, nextFile' = nextFile, DOMAIN prop' = DOMAIN prop, overlap' = overlap
  PROVE  FilesHold'
<1>1. OwnersFit /\ FilesKnown /\ QuotaKept /\ BytesAccounted
  BY DEF FilesHold
<1>2. /\ client'[r] = x /\ Held(client[r])' = Held(x) /\ Freed(client[r])' = Freed(x)
      /\ \A q \in Clients : q # r => /\ client'[q] = client[q] /\ Held(client[q])' = Held(client[q])
                                     /\ Freed(client[q])' = Freed(client[q])
  BY HandsTurn
<1>3. Freed(x) = x.unlink /\ Held(x) = {} /\ x # Resting /\ client[r] # Resting
  BY DEF Freed, Held, Resting
<1>4. Known' \subseteq Known /\ Held(client[r]) \subseteq Known
  BY <1>2, <1>3 DEF Known
<1>5. \A q \in Clients : client'[q].at # "insert"
  BY <1>2 DEF StorageFree
<1>6. OwnersFit'
  BY <1>1, <1>2, <1>3 DEF OwnersFit
<1>7. FilesKnown'
  <2>1. nextFile' \in Nat /\ IsFiniteSet(Known')
    BY <1>1, <1>4, FS_Subset DEF FilesKnown
  <2>2. /\ \A f \in Known' : IsFile(f) /\ f.id < nextFile
        /\ \A f, g \in Known' : f.id = g.id => f = g
    BY <1>1, <1>4 DEF FilesKnown
  <2>3. \A h \in x.unlink : h \in 0 .. (nextFile - 1) /\ \A f \in file' : f.id # h
    <3> SUFFICES ASSUME NEW h \in x.unlink PROVE h \in 0 .. (nextFile - 1) /\ \A f \in file' : f.id # h
      OBVIOUS
    <3>1. PICK e \in Held(client[r]) : h = e.id
      OBVIOUS
    <3>2. e \in Known /\ e \notin file' /\ file' \subseteq Known
      BY <1>4 DEF Known
    <3>3. h \in Nat /\ h < nextFile /\ nextFile \in Nat
      BY <1>1, <3>1, <3>2 DEF FilesKnown, IsFile
    <3>4. \A f \in file' : f.id # h
      BY <1>1, <3>1, <3>2 DEF FilesKnown
    <3> QED BY <3>3, <3>4
  <2>4. \A q \in Clients : \A h \in Freed(client[q])' : h \in 0 .. (nextFile - 1) /\ \A f \in file' : f.id # h
    BY <1>1, <1>2, <1>3, <2>3 DEF FilesKnown
  <2>5. \A q \in Clients : client'[q].at = "drop" => client'[q].unlink \subseteq {client'[q].row.id}
    BY <1>1, <1>2 DEF FilesKnown
  <2> QED BY <1>5, <2>1, <2>2, <2>4, <2>5 DEF FilesKnown, IsFile
<1>8. QuotaKept'
  BY <1>5 DEF QuotaKept
<1>9. BytesAccounted'
  <2>1. used' <= Quota
    BY <1>1, UploadAssumption DEF BytesAccounted, QuotaKept
  <2> QED BY <1>1, <2>1 DEF BytesAccounted
<1> QED BY <1>6, <1>7, <1>8, <1>9 DEF FilesHold

\* What is subtracted stops at zero.
LEMMA SubtractIs ==
  ASSUME used \in Nat, NEW bytes \in Nat
  PROVE  subtractBytes(bytes) \in Nat /\ subtractBytes(bytes) <= used /\ (used >= bytes => subtractBytes(bytes) = used - bytes)
BY DEF subtractBytes, Larger

\* One file.
LEMMA DropFileFiles ==
  ASSUME FilesHold, CodeTypes, NEW r \in Clients, DropFile(r)
  PROVE  FilesHold'
<1>1. OwnersFit /\ FilesKnown /\ QuotaKept /\ BytesAccounted
  BY DEF FilesHold
<1>2. PICK f : f = client[r].row
  OBVIOUS
<1>3. PICK x : x = [at |-> "unlink", owner |-> client[r].owner, unlink |-> client[r].unlink]
  OBVIOUS
<1>4. /\ client[r].at = "drop" /\ StorageFree(r) /\ client' = [client EXCEPT ![r] = x]
      /\ file' = file \ {f} /\ used' = subtractBytes(f.size) /\ torn' = (torn \/ f \notin file)
      /\ UNCHANGED <<prop, disk, overlap, nextFile>>
  BY <1>2, <1>3 DEF DropFile, Step
<1>5. x.at = "unlink" /\ x.owner = client[r].owner /\ x.unlink = client[r].unlink
  BY <1>3
<1>6. Held(client[r]) = {f} /\ f \in Known
  BY <1>2, <1>4 DEF Held, Known
<1>7. x.unlink \subseteq {e.id : e \in Held(client[r])}
  BY <1>1, <1>2, <1>4, <1>5, <1>6 DEF FilesKnown
<1>8. used \in Nat /\ torn \in BOOLEAN /\ f.size \in Nat /\ IsFiniteSet(file) /\ \A g \in file : g.size \in Nat
  BY <1>1, <1>6, FS_Subset DEF QuotaKept, FilesKnown, IsFile, Known
<1>9. used' \in Nat /\ used' <= used /\ torn' \in BOOLEAN
  BY <1>4, <1>8, SubtractIs
<1>10. ASSUME ~torn' PROVE used' = Bytes(file')
  <2>1. f \in file /\ ~torn /\ used = Bytes(file)
    BY <1>1, <1>4, <1>10 DEF BytesAccounted
  <2>2. {f} \in SUBSET file /\ IsFiniteSet({f}) /\ \A g \in {f} : g.size \in Nat
    BY <1>8, <2>1, FS_Singleton
  <2>3. Bytes(file) = Bytes({f}) + Bytes(file \ {f}) /\ Bytes(file \ {f}) \in Nat /\ Bytes({f}) \in Nat
    BY <1>8, <2>2, BytesLess
  <2>4. Bytes({f}) = f.size
    BY <1>8, BytesOfOne
  <2>5. Bytes(file') = Bytes(file \ {f})
    BY <1>4
  <2>6. used = f.size + Bytes(file')
    BY <2>1, <2>3, <2>4, <2>5
  <2>7. Bytes(file') \in Nat
    BY <2>3, <2>5
  <2>8. used >= f.size /\ used - f.size = Bytes(file')
    BY <1>8, <2>6, <2>7
  <2>9. subtractBytes(f.size) = used - f.size
    BY <1>8, <2>8, SubtractIs
  <2> QED BY <1>4, <2>8, <2>9
<1> QED BY <1>4, <1>5, <1>6, <1>7, <1>9, <1>10, FilesDropped

\* All files of a property that is removed.
LEMMA PurgeFiles ==
  ASSUME FilesHold, CodeTypes, NEW r \in Clients, Purge(r)
  PROVE  FilesHold'
<1>1. OwnersFit /\ FilesKnown /\ QuotaKept /\ BytesAccounted
  BY DEF FilesHold
<1>2. PICK i, rows : i = client[r].owner /\ rows = client[r].rows
  OBVIOUS
<1>3. PICK x : x = [at |-> "unlink", owner |-> client[r].owner, unlink |-> {f.id : f \in client[r].rows}]
  OBVIOUS
<1>4. /\ client[r].at = "purge" /\ StorageFree(r) /\ client' = [client EXCEPT ![r] = x]
      /\ file' = file \ Owned(i) /\ used' = subtractBytes(Bytes(rows)) /\ torn' = (torn \/ rows # Owned(i))
      /\ UNCHANGED <<disk, overlap, nextFile>>
      /\ prop' = [prop EXCEPT ![i].state = IF prop[i].state = "live" THEN "removed" ELSE prop[i].state]
  BY <1>2, <1>3 DEF Purge, Step
<1>5. Held(client[r]) = rows /\ rows \subseteq Known
  BY <1>2, <1>4 DEF Held, Known
<1>6. x.at = "unlink" /\ x.owner = client[r].owner /\ x.unlink = {f.id : f \in Held(client[r])}
  BY <1>2, <1>3, <1>5
<1>7. client[r] # Resting
  BY <1>4 DEF Resting
<1>8. \A f \in rows : f \notin file'
  BY <1>1, <1>2, <1>4, <1>5, <1>7 DEF OwnersFit, Owned
<1>9. /\ used \in Nat /\ torn \in BOOLEAN /\ IsFiniteSet(file) /\ IsFiniteSet(rows)
      /\ (\A g \in file : g.size \in Nat) /\ \A g \in rows : g.size \in Nat
  BY <1>1, <1>5, FS_Subset DEF QuotaKept, FilesKnown, IsFile, Known
<1>10. Bytes(rows) \in Nat
  BY <1>9, BytesOf
<1>11. used' \in Nat /\ used' <= used /\ torn' \in BOOLEAN
  BY <1>4, <1>9, <1>10, SubtractIs
<1>12. ASSUME ~torn' PROVE used' = Bytes(file')
  <2>1. rows = Owned(i) /\ ~torn /\ used = Bytes(file)
    BY <1>1, <1>4, <1>12 DEF BytesAccounted
  <2>2. rows \in SUBSET file
    BY <2>1 DEF Owned
  <2>3. Bytes(file) = Bytes(rows) + Bytes(file \ rows) /\ Bytes(file \ rows) \in Nat
    BY <1>9, <2>2, BytesLess
  <2>4. Bytes(file') = Bytes(file \ rows)
    BY <1>4, <2>1
  <2>6. used = Bytes(rows) + Bytes(file')
    BY <2>1, <2>3, <2>4
  <2>7. Bytes(file') \in Nat
    BY <2>3, <2>4
  <2>8. used >= Bytes(rows) /\ used - Bytes(rows) = Bytes(file')
    BY <1>9, <1>10, <2>6, <2>7
  <2>9. subtractBytes(Bytes(rows)) = used - Bytes(rows)
    BY <1>9, <1>10, <2>8, SubtractIs
  <2> QED BY <1>4, <2>8, <2>9
<1>13. DOMAIN prop' = DOMAIN prop
  BY <1>4 DEF CodeTypes
<1> QED BY <1>4, <1>5, <1>6, <1>8, <1>11, <1>12, <1>13, FilesDropped

\* To be in a list is to be one of its values.
LEMMA ContainsIs ==
  ASSUME NEW s, NEW S, s \in Seq(S), NEW e
  PROVE  Contains(s, e) <=> e \in ToSet(s)
BY DEF Contains, ToSet

\* A step at the property o: no other row is written but for leaving its state
\* "live", and no lead comes by a code but o's.
RowsKept(o) ==
  /\ DOMAIN prop \subseteq DOMAIN prop' /\ (\A j \in DOMAIN prop' : j \in DOMAIN prop \/ j = o)
  /\ \A j \in DOMAIN prop : /\ prop'[j].kind = prop[j].kind
                            /\ (j # o \/ prop[j].code # NoCode) => prop'[j].code = prop[j].code
                            /\ (j # o /\ prop'[j].state = "removed") => prop[j].state = "removed"
LeadsKept(o) ==
  /\ lead' = [l \in Leads |-> lead'[l]]
  /\ \A l \in Leads : lead'[l] \in Seq(ToSet(lead'[l])) /\ IsInjective(lead'[l])
  /\ \A l \in Leads : \A c \in ToSet(lead'[l]) :
       c \in ToSet(lead[l]) \/ (o \in DOMAIN prop /\ c = prop[o].code /\ c # NoCode)

\* Who stands by while r works on one property: the other requests, rows, files and
\* leads are as they were, so what was so of them is so.
LEMMA HoldTurn ==
  ASSUME NamesInv, FilesHold, DeskHolds, NEW r \in Clients, NEW x, client' = [client EXCEPT ![r] = x], NEW o,
         overlap \subseteq overlap',
         \A q \in Clients \ {r} : client[q] # Resting /\ client[q].owner = o => o \in overlap',
         x # Resting => x.owner = o,
         RowsKept(o), LeadsKept(o),
         \A f \in file' : f.owner # o => f \in file,
         ClientFits(client[r])', o \in DOMAIN prop' \ overlap' => Tidy(o)'
  PROVE  DeskHolds'
<1> /\ DOMAIN prop \subseteq DOMAIN prop' /\ (\A j \in DOMAIN prop' : j \in DOMAIN prop \/ j = o)
    /\ \A j \in DOMAIN prop : /\ prop'[j].kind = prop[j].kind
                              /\ (j # o \/ prop[j].code # NoCode) => prop'[j].code = prop[j].code
                              /\ (j # o /\ prop'[j].state = "removed") => prop[j].state = "removed"
    /\ lead' = [l \in Leads |-> lead'[l]]
    /\ \A l \in Leads : lead'[l] \in Seq(ToSet(lead'[l])) /\ IsInjective(lead'[l])
    /\ \A l \in Leads : \A c \in ToSet(lead'[l]) :
         c \in ToSet(lead[l]) \/ (o \in DOMAIN prop /\ c = prop[o].code /\ c # NoCode)
  BY DEF RowsKept, LeadsKept
<1>1. /\ OneAtOwner /\ LeadsFit /\ \A q \in Clients : ClientFits(client[q])
      /\ \A i \in DOMAIN prop \ overlap : Tidy(i)
  BY DEF DeskHolds
<1>2. CodeTypes /\ CodeNamesOneProperty /\ OwnersFit
  BY DEF NamesInv, CodesInv, FilesHold
<1>3. client'[r] = x /\ \A q \in Clients : q # r => client'[q] = client[q]
  BY <1>2, ClientTurn
<1>4. ASSUME NEW j \in DOMAIN prop \ overlap', j # o, NEW l \in Leads, Contains(lead'[l], prop'[j].code)
      PROVE  Contains(lead[l], prop[j].code)
  <2>1. prop'[j].code = prop[j].code
    BY <1>4
  <2>2. prop[j].code \in ToSet(lead'[l]) /\ lead[l] \in Seq(ToSet(lead[l]))
    BY <1>1, <1>4, <2>1, ContainsIs DEF LeadsFit
  <2>3. CASE prop[j].code \in ToSet(lead[l])
    BY <2>2, <2>3, ContainsIs
  <2>4. CASE o \in DOMAIN prop /\ prop[j].code = prop[o].code /\ prop[j].code # NoCode
    BY <1>2, <1>4, <2>4 DEF CodeNamesOneProperty
  <2> QED BY <2>2, <2>3, <2>4
<1>5. ASSUME NEW j \in DOMAIN prop \ overlap', j # o, Unallocated(j)
      PROVE  Unallocated(j)'
  BY <1>4, <1>5 DEF Unallocated
<1>6. ASSUME NEW j, j # o
      PROVE  Owned(j)' \subseteq Owned(j)
  BY <1>6 DEF Owned
<1>7. ASSUME NEW j, j # o, NEW kind
      PROVE  Counted(j, kind)' \in Nat /\ Counted(j, kind) \in Nat /\ Counted(j, kind)' <= Counted(j, kind)
  <2>1. IsFiniteSet({f \in Owned(j) : f.kind = kind})
    BY FS_Subset DEF FilesHold, FilesKnown, Known, Owned
  <2>2. {f \in Owned(j) : f.kind = kind}' \subseteq {f \in Owned(j) : f.kind = kind}
    BY <1>6, <1>7
  <2> QED BY <2>1, <2>2, FewerFiles DEF Counted
<1>8. OneAtOwner'
  <2> SUFFICES ASSUME NEW q \in Clients, NEW s \in Clients, q # s, client'[q] # Resting, client'[s] # Resting,
                      client'[q].owner = client'[s].owner
               PROVE  client'[q].owner \in overlap'
    BY DEF OneAtOwner, Resting
  <2>1. CASE q = r
    BY <1>3, <2>1
  <2>2. CASE s = r
    BY <1>3, <2>2
  <2>3. CASE q # r /\ s # r
    BY <1>1, <1>3, <2>3 DEF OneAtOwner
  <2> QED BY <2>1, <2>2, <2>3
<1>9. LeadsFit'
  <2>1. ASSUME NEW l \in Leads, NEW c \in ToSet(lead'[l])
        PROVE  c # NoCode /\ \E i \in DOMAIN prop' : prop'[i].code = c
    <3>1. CASE c \in ToSet(lead[l])
      <4>2. ToSet(lead[l]) \subseteq {prop[i].code : i \in DOMAIN prop} \ {NoCode}
        BY <1>1 DEF LeadsFit
      <4>1. PICK i \in DOMAIN prop : prop[i].code = c /\ c # NoCode
        <5>1. c \in {prop[i].code : i \in DOMAIN prop} /\ c # NoCode
          BY <3>1, <4>2
        <5> QED BY <5>1
      <4> QED BY <4>1
    <3>2. CASE o \in DOMAIN prop /\ c = prop[o].code /\ c # NoCode
      BY <3>2
    <3> QED BY <2>1, <3>1, <3>2
  <2> QED BY <2>1 DEF LeadsFit
<1>10. ASSUME NEW q \in Clients PROVE ClientFits(client[q])'
  <2>1. CASE q = r
    BY <2>1
  <2>2. CASE q # r
    <3>1. PICK y : y = client[q]
      OBVIOUS
    <3>2. client'[q] = y /\ ClientFits(y)
      BY <1>1, <1>3, <2>2, <3>1
    <3>3. /\ y.at \in {"allocate", "remove", "purge", "delist"} => y.owner \in DOMAIN prop'
          /\ y.at = "delist" => prop'[y.owner].kind = "website"
          /\ y.at = "allocate" => y.lead \in Leads /\ prop'[y.owner].code # NoCode
      BY <3>2 DEF ClientFits
    <3>4. ASSUME y # Resting, y.owner \in DOMAIN prop' \ overlap'
          PROVE  /\ y.at \in {"assign", "code", "quota", "insert", "allocate"} => prop'[y.owner].state # "removed"
                 /\ y.at \in {"quota", "insert"} /\ y.kind \in {"image", "document"} =>
                      Counted(y.owner, y.kind)' + Len(y.sizes) <= Cap
                 /\ y.at \in {"remove", "purge", "delist"} => Unallocated(y.owner)'
      <4>1. y.owner # o /\ y.owner \in DOMAIN prop \ overlap'
        BY <2>2, <3>1, <3>4
      <4>2. /\ y.at \in {"assign", "code", "quota", "insert", "allocate"} => prop[y.owner].state # "removed"
            /\ y.at \in {"quota", "insert"} /\ y.kind \in {"image", "document"} =>
                 Counted(y.owner, y.kind) + Len(y.sizes) <= Cap
            /\ y.at \in {"remove", "purge", "delist"} => Unallocated(y.owner)
        BY <3>2, <3>4, <4>1 DEF ClientFits
      <4>3. y.at \in {"quota", "insert"} => Len(y.sizes) \in Nat
        BY <1>2, <3>1, <3>4 DEF OwnersFit
      <4>4. Counted(y.owner, y.kind)' \in Nat /\ Counted(y.owner, y.kind) \in Nat
            /\ Counted(y.owner, y.kind)' <= Counted(y.owner, y.kind) /\ Cap \in Nat
        BY <1>7, <4>1, UploadAssumption
      <4> QED BY <1>5, <4>1, <4>2, <4>3, <4>4
    <3> QED BY <3>2, <3>3, <3>4 DEF ClientFits, Counted, Owned, Unallocated, Resting
  <2> QED BY <2>1, <2>2
<1>11. ASSUME NEW i \in DOMAIN prop' \ overlap' PROVE Tidy(i)'
  <2>1. CASE i = o
    BY <2>1
  <2>2. CASE i # o
    <3>1. i \in DOMAIN prop \ overlap /\ Tidy(i)
      BY <1>1, <2>2
    <3>2. prop'[i].state = "removed" => prop[i].state = "removed"
      BY <2>2, <3>1
    <3>3. prop'[i].state = "removed" /\ prop'[i].kind # "website" => Owned(i)' = {}
      BY <1>6, <2>2, <3>1, <3>2 DEF Tidy
    <3>4. \A kind \in {"image", "document"} : Counted(i, kind)' <= Cap
      <4> SUFFICES ASSUME NEW kind \in {"image", "document"} PROVE Counted(i, kind)' <= Cap
        OBVIOUS
      <4>1. Counted(i, kind) <= Cap /\ Cap \in Nat
        BY <3>1, UploadAssumption DEF Tidy
      <4>2. Counted(i, kind)' \in Nat /\ Counted(i, kind) \in Nat /\ Counted(i, kind)' <= Counted(i, kind)
        BY <1>7, <2>2
      <4> QED BY <4>1, <4>2
    <3>5. prop'[i].state = "removed" => Unallocated(i)'
      BY <1>5, <2>2, <3>1, <3>2 DEF Tidy
    <3> QED BY <3>3, <3>4, <3>5 DEF Tidy
  <2> QED BY <2>1, <2>2
<1> QED BY <1>8, <1>9, <1>10, <1>11 DEF DeskHolds

\* Rows and leads that are as they were.
LEMMA AllKept ==
  ASSUME NEW o
  PROVE  /\ prop' = prop => RowsKept(o)
         /\ DeskHolds /\ lead' = lead => LeadsKept(o)
BY DEF RowsKept, LeadsKept, DeskHolds, LeadsFit

\* A disk with the files that are listed and those of the uploads of others.
Stored(r, D) == /\ {f.id : f \in file} \subseteq D
                /\ \A q \in Clients \ {r} : client[q].at = "insert" => client[q].first .. (nextFile - 1) \subseteq D

\* A step that leaves the rows and the leads alone.
LEMMA QuietTurn ==
  ASSUME NamesInv, FilesHold, DeskHolds, NEW r \in Clients, NEW x, client' = [client EXCEPT ![r] = x], NEW o,
         UNCHANGED <<prop, file, used, lead, torn, nextFile>>,
         Stored(r, disk'), overlap \subseteq overlap', overlap' \subseteq {SellerDesk} \cup DOMAIN prop,
         \A q \in Clients \ {r} : client[q] # Resting /\ client[q].owner = o => o \in overlap',
         x # Resting => x.at # "idle" /\ x.owner = o /\ o \in {SellerDesk} \cup DOMAIN prop,
         x.at \notin {"insert", "unlink"}, x.at = "quota" => x.sizes \in Seq(Nat),
         Held(x) \subseteq file, \A f \in Held(x) : f.owner = x.owner,
         x.at = "drop" => x.unlink \subseteq {x.row.id}, ClientFits(x)'
  PROVE  FilesHold' /\ DeskHolds'
<1>1. CodeTypes /\ LeadsFit /\ \A i \in DOMAIN prop \ overlap : Tidy(i)
  BY DEF NamesInv, DeskHolds
<1>2. FilesHold'
  BY <1>1, FilesLeft DEF Stored
<1>3. client'[r] = x
  BY <1>1, ClientTurn
<1>4. ClientFits(client[r])'
  BY <1>3
<1>5. ASSUME o \in DOMAIN prop' \ overlap' PROVE Tidy(o)'
  <2>1. Tidy(o) /\ prop' = prop /\ file' = file /\ lead' = lead
    BY <1>1, <1>5
  <2> QED BY <2>1 DEF Tidy, Owned, Counted, Unallocated
<1>6. RowsKept(o) /\ LeadsKept(o)
  BY AllKept
<1>8. DeskHolds'
  BY <1>4, <1>5, <1>6, HoldTurn
<1> QED BY <1>2, <1>8

\* A request that is asked for something of the owner o.
LEMMA AskHolds ==
  ASSUME NamesInv, FilesHold, DeskHolds, NEW r \in Clients, NEW x, NEW o, Ask(r, x), Meet(r, o),
         UNCHANGED <<prop, file, disk, used, lead, torn, nextFile>>,
         x.owner = o, o \in {SellerDesk} \cup DOMAIN prop, x.at \notin {"idle", "insert", "unlink"},
         x.at = "quota" => x.sizes \in Seq(Nat),
         Held(x) \subseteq file, \A f \in Held(x) : f.owner = o,
         x.at = "drop" => x.unlink \subseteq {x.row.id}, ClientFits(x)'
  PROVE  FilesHold' /\ DeskHolds'
<1>1. OwnersFit /\ FilesKnown /\ BytesAccounted
  BY DEF FilesHold
<1>2. client' = [client EXCEPT ![r] = x]
  BY DEF Ask
<1>3. /\ overlap \subseteq overlap' /\ overlap' \subseteq {SellerDesk} \cup DOMAIN prop
      /\ \A q \in Clients \ {r} : client[q] # Resting /\ client[q].owner = o => o \in overlap'
  BY <1>1 DEF Meet, OwnersFit
<1>4. Stored(r, disk')
  BY <1>1 DEF BytesAccounted, FilesKnown, Stored
<1>5. /\ x # Resting => x.at # "idle" /\ x.owner = o /\ o \in {SellerDesk} \cup DOMAIN prop
      /\ \A f \in Held(x) : f.owner = x.owner
      /\ x.at \notin {"insert", "unlink"}
  OBVIOUS
<1> QED BY <1>2, <1>3, <1>4, <1>5, QuietTurn

\* An upload is asked for.
LEMMA UploadStarts ==
  ASSUME NamesInv, FilesHold, DeskHolds, NEW r \in Clients, NEW o, NEW kind, NEW sizes \in Batches,
         StartUpload(r, o, kind, sizes)
  PROVE  FilesHold' /\ DeskHolds'
<1>1. PICK x : x = [at |-> "quota", owner |-> o, kind |-> kind, sizes |-> sizes]
  OBVIOUS
<1>2. x.at = "quota" /\ x.owner = o /\ x.kind = kind /\ x.sizes = sizes
  BY <1>1
<1>3. /\ Ask(r, x) /\ Meet(r, o) /\ UNCHANGED <<prop, file, disk, used, lead, torn, nextFile>>
      /\ Present(o) /\ UnderCap(o, kind, sizes)
  BY <1>1 DEF StartUpload
<1>4. Held(x) = {} /\ sizes \in Seq(Nat)
  BY <1>2, UploadAssumption DEF Held
<1>5. o \in {SellerDesk} \cup DOMAIN prop /\ (o \in DOMAIN prop => o # SellerDesk /\ prop[o].state = "live")
  <2>1. DOMAIN prop = 1..Len(prop)
    BY DEF NamesInv, CodeTypes
  <2> QED BY <1>3, <2>1 DEF Present, Live, SellerDesk
<1>6. o \in DOMAIN prop /\ kind \in {"image", "document"} => Counted(o, kind) + Len(sizes) <= Cap
  BY <1>3, <1>5 DEF UnderCap, Counted
<1>7. ClientFits(x)'
  BY <1>2, <1>3, <1>5, <1>6 DEF ClientFits, Counted, Owned
<1> QED BY <1>2, <1>3, <1>4, <1>5, <1>7, AskHolds

\* The deletion of a file is asked for.
LEMMA DropStarts ==
  ASSUME NamesInv, FilesHold, DeskHolds, NEW r \in Clients, NEW o, NEW f, NEW route, FindFile(r, o, f, route)
  PROVE  FilesHold' /\ DeskHolds'
<1>1. PICK x : x = [at |-> "drop", owner |-> o, row |-> f,
                    unlink |-> IF (f.kind = "document") = (route = "document") THEN {f.id} ELSE {}]
  OBVIOUS
<1>2. x.at = "drop" /\ x.owner = o /\ x.row = f /\ x.unlink \subseteq {f.id}
  BY <1>1
<1>3. /\ Ask(r, x) /\ Meet(r, o) /\ UNCHANGED <<prop, file, disk, used, lead, torn, nextFile>>
      /\ Present(o) /\ f \in Owned(o)
  BY <1>1 DEF FindFile
<1>4. Held(x) = {f} /\ f \in file /\ f.owner = o
  BY <1>2, <1>3 DEF Held, Owned
<1>5. o \in {SellerDesk} \cup DOMAIN prop
  BY <1>3 DEF Present, Live
<1>7. ClientFits(x)'
  BY <1>2 DEF ClientFits
<1> QED BY <1>2, <1>3, <1>4, <1>5, <1>7, AskHolds

\* An allocation is asked for.
LEMMA AllocationStarts ==
  ASSUME NamesInv, FilesHold, DeskHolds, NEW r \in Clients, NEW i, NEW l \in Leads, StartAllocate(r, l, i)
  PROVE  FilesHold' /\ DeskHolds'
<1>1. PICK x : x = [at |-> "allocate", owner |-> i, lead |-> l]
  OBVIOUS
<1>2. x.at = "allocate" /\ x.owner = i /\ x.lead = l
  BY <1>1
<1>3. /\ Ask(r, x) /\ Meet(r, i) /\ UNCHANGED <<prop, file, disk, used, lead, torn, nextFile>>
      /\ i \in DOMAIN prop /\ prop[i].state = "live" /\ prop[i].code # NoCode
  BY <1>1 DEF StartAllocate, Live
<1>4. Held(x) = {}
  BY <1>2 DEF Held
<1>7. ClientFits(x)'
  BY <1>2, <1>3 DEF ClientFits
<1> QED BY <1>2, <1>3, <1>4, <1>7, AskHolds

\* A removal is asked for.
LEMMA RemovalStarts ==
  ASSUME NamesInv, FilesHold, DeskHolds, NEW r \in Clients, NEW i, StartRemove(r, i)
  PROVE  FilesHold' /\ DeskHolds'
<1>1. PICK x : x = [at |-> IF prop[i].kind = "website" THEN "delist" ELSE "remove", owner |-> i]
  OBVIOUS
<1>2. x.at \in {"delist", "remove"} /\ x.owner = i /\ (x.at = "delist" => prop[i].kind = "website")
  BY <1>1
<1>3. /\ Ask(r, x) /\ Meet(r, i) /\ UNCHANGED <<prop, file, disk, used, lead, torn, nextFile>>
      /\ i \in DOMAIN prop /\ Unallocated(i)
  BY <1>1 DEF StartRemove, Live
<1>4. Held(x) = {}
  BY <1>2 DEF Held
<1>7. ClientFits(x)'
  BY <1>2, <1>3 DEF ClientFits, Unallocated
<1> QED BY <1>2, <1>3, <1>4, <1>7, AskHolds

\* A request that ends, or fails, with nothing but the disk changed.
LEMMA RestHolds ==
  ASSUME NamesInv, FilesHold, DeskHolds, NEW r \in Clients, Step(r, Resting), Stored(r, disk'),
         UNCHANGED <<prop, file, used, lead, torn, overlap, nextFile>>
  PROVE  FilesHold' /\ DeskHolds'
<1>1. OwnersFit /\ CodeTypes
  BY DEF FilesHold, NamesInv
<1>2. PICK o : o = -1
  OBVIOUS
<1>3. o \notin {SellerDesk} \cup DOMAIN prop
  BY <1>1, <1>2 DEF CodeTypes, SellerDesk
<1>4. \A q \in Clients \ {r} : client[q] # Resting => client[q].owner # o
  BY <1>1, <1>3 DEF OwnersFit
<1>5. Resting.at = "idle" /\ Held(Resting) = {} /\ client' = [client EXCEPT ![r] = Resting]
  BY DEF Resting, Held, Step
<1>6. ClientFits(Resting)'
  BY <1>5 DEF ClientFits
<1>7. overlap \subseteq overlap' /\ overlap' \subseteq {SellerDesk} \cup DOMAIN prop
  BY <1>1 DEF OwnersFit
<1>8. /\ Resting.at \notin {"insert", "unlink"} /\ (Resting.at = "quota" => Resting.sizes \in Seq(Nat))
      /\ Held(Resting) \subseteq file /\ (\A f \in Held(Resting) : f.owner = Resting.owner)
      /\ (Resting.at = "drop" => Resting.unlink \subseteq {Resting.row.id})
  BY <1>5
<1> QED BY <1>4, <1>5, <1>6, <1>7, <1>8, QuietTurn

\* Who is alone on its property, or has met.
LEMMA Alone ==
  ASSUME DeskHolds, NEW r \in Clients, client[r] # Resting
  PROVE  \A q \in Clients \ {r} : client[q] # Resting /\ client[q].owner = client[r].owner => client[r].owner \in overlap
BY DEF DeskHolds, OneAtOwner

\* What the disk keeps while nothing is unlinked.
LEMMA DiskKept ==
  ASSUME FilesHold, NEW r \in Clients
  PROVE  Stored(r, disk)
BY DEF FilesHold, BytesAccounted, FilesKnown, Stored

\* Nothing to list for a request that ends or waits for a code.
LEMMA HandsEmpty ==
  ASSUME NEW x, x.at \notin {"drop", "purge", "unlink"}
  PROVE  Held(x) = {} /\ Freed(x) = {}
BY DEF Held, Freed

\* A property is created.
LEMMA CreateHolds ==
  ASSUME NamesInv, FilesHold, DeskHolds, NEW r \in Clients, NEW kind, StartCreate(r, kind)
  PROVE  FilesHold' /\ DeskHolds'
<1>1. CodeTypes /\ OwnersFit /\ FilesKnown /\ BytesAccounted /\ LeadsFit
  BY DEF NamesInv, FilesHold, DeskHolds
<1>2. PICK o : o = Len(prop) + 1
  OBVIOUS
<1>3. PICK x : x = [at |-> "assign", owner |-> o, attempt |-> 0]
  OBVIOUS
<1>4. x.at = "assign" /\ x.owner = o
  BY <1>3
<1>5. PICK e : e = [kind |-> kind, code |-> NoCode, state |-> "live"]
  OBVIOUS
<1>6. /\ client' = [client EXCEPT ![r] = x] /\ prop' = Append(prop, e)
      /\ UNCHANGED <<file, disk, used, lead, torn, overlap, nextFile>>
  BY <1>2, <1>3, <1>5 DEF StartCreate, Ask
<1>7. /\ DOMAIN prop = 1..Len(prop) /\ Len(prop) \in Nat /\ DOMAIN prop' = 1..o /\ o \notin {SellerDesk} \cup DOMAIN prop
      /\ o \in DOMAIN prop' /\ prop'[o] = e /\ \A j \in DOMAIN prop : prop'[j] = prop[j]
  BY <1>1, <1>2, <1>6 DEF CodeTypes, SellerDesk
<1>8. DOMAIN prop \subseteq DOMAIN prop' /\ \A j \in DOMAIN prop' : j \in DOMAIN prop \/ j = o
  BY <1>2, <1>7
<1>9. Held(x) = {}
  BY <1>4, HandsEmpty
<1>10. Stored(r, disk')
  BY <1>6, DiskKept
<1>11. overlap' \subseteq {SellerDesk} \cup DOMAIN prop'
  BY <1>1, <1>6, <1>8 DEF OwnersFit
<1>12. FilesHold'
  <2>1. file' = file /\ used' = used /\ torn' = torn /\ nextFile' = nextFile
    BY <1>6
  <2>2. x.owner \in {SellerDesk} \cup DOMAIN prop'
    BY <1>4, <1>7
  <2> QED BY <1>1, <1>4, <1>6, <1>8, <1>9, <1>10, <1>11, <2>1, <2>2, FilesLeft DEF Stored
<1>13. client'[r] = x
  BY <1>1, <1>6, ClientTurn
<1>14. prop'[o].state = "live"
  BY <1>5, <1>7
<1>15. ClientFits(client[r])'
  BY <1>4, <1>13, <1>14 DEF ClientFits
<1>16. Tidy(o)'
  <2>1. Owned(o)' = {}
    BY <1>1, <1>6, <1>7 DEF Owned, OwnersFit
  <2>2. \A k : Counted(o, k)' = 0 /\ 0 <= Cap
    BY <2>1, FS_EmptySet, UploadAssumption DEF Counted
  <2> QED BY <1>14, <2>1, <2>2 DEF Tidy
<1>17. \A q \in Clients \ {r} : client[q] # Resting => client[q].owner # o
  BY <1>1, <1>7 DEF OwnersFit
<1>18. LeadsKept(o)
  BY <1>6, AllKept
<1>19. RowsKept(o)
  BY <1>7, <1>8 DEF RowsKept
<1>20. overlap \subseteq overlap' /\ \A f \in file' : f.owner # o => f \in file
  BY <1>6
<1>21. /\ client' = [client EXCEPT ![r] = x] /\ (x # Resting => x.owner = o)
       /\ \A q \in Clients \ {r} : client[q] # Resting /\ client[q].owner = o => o \in overlap'
  BY <1>4, <1>6, <1>17
<1>22. DeskHolds'
  BY <1>15, <1>16, <1>18, <1>19, <1>20, <1>21, HoldTurn
<1> QED BY <1>12, <1>22

\* A candidate is tried.
LEMMA TryHolds ==
  ASSUME NamesInv, FilesHold, DeskHolds, NEW r \in Clients, NEW c \in Codes, NEW fails, TryCode(r, c, fails)
  PROVE  FilesHold' /\ DeskHolds'
<1>1. CodeTypes /\ OwnersFit /\ ClientFits(client[r])
  BY DEF NamesInv, FilesHold, DeskHolds
<1>2. PICK o : o = client[r].owner
  OBVIOUS
<1>3. client[r].at = "assign" /\ client[r] # Resting /\ UNCHANGED <<prop, file, disk, used, lead, torn, nextFile>>
  BY DEF TryCode, Resting
<1>4. o \in {SellerDesk} \cup DOMAIN prop
  BY <1>1, <1>2, <1>3 DEF OwnersFit
<1>5. PICK x : /\ client' = [client EXCEPT ![r] = x] /\ x.at \in {"assign", "code"} /\ x.owner = o
               /\ overlap \subseteq overlap' /\ overlap' \subseteq {SellerDesk} \cup DOMAIN prop
  <2> DEFINE racing == {client[q].owner : q \in {p \in Clients \ {r} : client[p].at = "code" /\ client[p].code = c}}
             owners == {j \in DOMAIN prop : prop[j].code = c}
  <2>1. racing \subseteq {SellerDesk} \cup DOMAIN prop
    BY <1>1 DEF OwnersFit, Resting
  <2>2. CASE codeExistsAnywhere(c) /\ ~fails
    <3>1. PICK x : x = [client[r] EXCEPT !.attempt = client[r].attempt + 1]
      OBVIOUS
    <3>2. client' = [client EXCEPT ![r] = x] /\ overlap' = overlap
      BY <2>2, <3>1 DEF TryCode, Step
    <3>3. x.at = client[r].at /\ x.owner = client[r].owner
      BY <3>1
    <3> QED BY <1>1, <1>2, <1>3, <3>2, <3>3 DEF OwnersFit
  <2>3. CASE ~(codeExistsAnywhere(c) /\ ~fails)
    <3>1. PICK x : x = [at |-> "code", owner |-> o, attempt |-> client[r].attempt, code |-> c]
      OBVIOUS
    <3>2. /\ client' = [client EXCEPT ![r] = x]
          /\ overlap' = IF racing # {} THEN overlap \cup racing \cup {o}
                        ELSE IF fails THEN overlap \cup owners \cup {o}
                        ELSE overlap
      BY <1>2, <2>3, <3>1 DEF TryCode, Step
    <3>3. x.at = "code" /\ x.owner = o
      BY <3>1
    <3>4. overlap' \subseteq overlap \cup racing \cup owners \cup {o} /\ overlap \subseteq overlap'
      BY <3>2
    <3> QED BY <1>1, <1>4, <2>1, <3>2, <3>3, <3>4 DEF OwnersFit
  <2> QED BY <2>2, <2>3
<1>6. Held(x) = {} /\ x.at \notin {"insert", "unlink", "idle", "quota", "drop"}
  BY <1>5, HandsEmpty
<1>7. Stored(r, disk')
  BY <1>3, DiskKept
<1>8. \A q \in Clients \ {r} : client[q] # Resting /\ client[q].owner = o => o \in overlap'
  BY <1>2, <1>3, <1>5, Alone
<1>9. ClientFits(x)'
  BY <1>1, <1>2, <1>3, <1>5 DEF ClientFits
<1>10. /\ UNCHANGED <<prop, file, used, lead, torn, nextFile>>
       /\ x # Resting => x.at # "idle" /\ x.owner = o /\ o \in {SellerDesk} \cup DOMAIN prop
       /\ x.at \notin {"insert", "unlink"} /\ (x.at = "quota" => x.sizes \in Seq(Nat))
       /\ Held(x) \subseteq file /\ (\A f \in Held(x) : f.owner = x.owner)
       /\ (x.at = "drop" => x.unlink \subseteq {x.row.id})
  BY <1>3, <1>4, <1>5, <1>6
<1> QED BY <1>5, <1>7, <1>8, <1>9, <1>10, QuietTurn

\* The code is given, or taken by another row of the table.
LEMMA AssignHolds ==
  ASSUME NamesInv, FilesHold, DeskHolds, NEW r \in Clients, AssignCode(r)
  PROVE  FilesHold' /\ DeskHolds'
<1>1. /\ CodeTypes /\ CodesInv /\ OwnersFit /\ ClientFits(client[r])
      /\ \A i \in DOMAIN prop \ overlap : Tidy(i)
  BY DEF NamesInv, FilesHold, DeskHolds
<1>2. PICK o, c : o = client[r].owner /\ c = client[r].code
  OBVIOUS
<1>3. /\ client[r].at = "code" /\ client[r] # Resting /\ Assigning(client[r])
      /\ UNCHANGED <<file, disk, used, lead, torn, overlap, nextFile>>
  BY DEF AssignCode, Resting, Assigning
<1>4. o \in DOMAIN prop /\ prop[o].code = NoCode /\ DOMAIN prop = 1..Len(prop)
  BY <1>1, <1>2, <1>3 DEF CodeTypes
<1>5. \A q \in Clients \ {r} : client[q] # Resting /\ client[q].owner = o => o \in overlap
  BY <1>2, <1>3, Alone
<1>6. Stored(r, disk') /\ overlap \subseteq overlap' /\ overlap' \subseteq {SellerDesk} \cup DOMAIN prop
  BY <1>1, <1>3, DiskKept DEF OwnersFit
<1>7. CASE \E j \in DOMAIN prop : prop[j].kind = prop[o].kind /\ prop[j].code = c
  <2>1. PICK x : x = [at |-> "assign", owner |-> o, attempt |-> client[r].attempt + 1]
    OBVIOUS
  <2>2. client' = [client EXCEPT ![r] = x] /\ prop' = prop /\ x.at = "assign" /\ x.owner = o
    BY <1>2, <1>7, <2>1 DEF AssignCode, Step
  <2>3. Held(x) = {}
    BY <2>2, HandsEmpty
  <2>4. ClientFits(x)'
    BY <1>1, <1>2, <1>3, <2>2 DEF ClientFits
  <2>5. /\ UNCHANGED <<prop, file, used, lead, torn, nextFile>>
        /\ x # Resting => x.at # "idle" /\ x.owner = o /\ o \in {SellerDesk} \cup DOMAIN prop
        /\ x.at \notin {"insert", "unlink"} /\ (x.at = "quota" => x.sizes \in Seq(Nat))
        /\ Held(x) \subseteq file /\ (\A f \in Held(x) : f.owner = x.owner)
        /\ (x.at = "drop" => x.unlink \subseteq {x.row.id})
    BY <1>3, <1>4, <2>2, <2>3
  <2> QED BY <1>3, <1>5, <1>6, <2>2, <2>4, <2>5, QuietTurn
<1>8. CASE ~\E j \in DOMAIN prop : prop[j].kind = prop[o].kind /\ prop[j].code = c
  <2>1. client' = [client EXCEPT ![r] = Resting] /\ prop' = [prop EXCEPT ![o].code = c]
    BY <1>2, <1>8 DEF AssignCode, Step
  <2>2. prop \in Seq(PropertyRows) /\ prop[o] \in PropertyRows
    BY <1>1, <1>4 DEF CodeTypes
  <2>3. /\ DOMAIN prop' = DOMAIN prop /\ (\A j \in DOMAIN prop : j # o => prop'[j] = prop[j])
        /\ prop'[o].kind = prop[o].kind /\ prop'[o].state = prop[o].state
    BY <1>4, <2>1, <2>2 DEF PropertyRows
  <2>4. Resting.at = "idle" /\ Held(Resting) = {}
    BY HandsEmpty DEF Resting
  <2>5. RowsKept(o) /\ LeadsKept(o)
    BY <1>3, <1>4, <2>3, AllKept DEF RowsKept
  <2>6. client'[r] = Resting
    BY <1>1, <2>1, ClientTurn
  <2>7. ClientFits(client[r])'
    BY <2>4, <2>6 DEF ClientFits
  <2>8. FilesHold'
    <3>1. /\ Resting.at \notin {"insert", "unlink"} /\ (Resting.at = "quota" => Resting.sizes \in Seq(Nat))
          /\ Held(Resting) \subseteq file /\ (\A f \in Held(Resting) : f.owner = Resting.owner)
          /\ (Resting.at = "drop" => Resting.unlink \subseteq {Resting.row.id})
      BY <2>4
    <3> QED BY <1>1, <1>3, <1>6, <2>1, <2>3, <3>1, FilesLeft DEF Stored
  <2>9. ASSUME o \in DOMAIN prop' \ overlap' PROVE Tidy(o)'
    <3>1. prop[o].state # "removed" /\ Tidy(o)
      BY <1>1, <1>2, <1>3, <1>4, <2>9 DEF ClientFits
    <3>2. prop'[o].state # "removed" /\ file' = file
      BY <1>3, <2>3, <3>1
    <3> QED BY <3>1, <3>2 DEF Tidy, Counted, Owned
  <2>10. DeskHolds'
    BY <1>3, <1>5, <1>6, <2>1, <2>5, <2>7, <2>9, HoldTurn
  <2> QED BY <2>8, <2>10
<1> QED BY <1>7, <1>8

\* An upload at work: over the quota it ends, else its files are written.
LEMMA WriteHolds ==
  ASSUME NamesInv, FilesHold, DeskHolds, NEW r \in Clients, WriteFiles(r)
  PROVE  FilesHold' /\ DeskHolds'
<1>1. CodeTypes /\ ClientFits(client[r]) /\ OwnersFit /\ \A i \in DOMAIN prop \ overlap : Tidy(i)
  BY DEF NamesInv, FilesHold, DeskHolds
<1>2. client[r].at = "quota" /\ client[r] # Resting /\ UNCHANGED <<prop, file, used, lead, torn, overlap>>
  BY DEF WriteFiles, Resting
<1>3. CASE used + Sum(client[r].sizes) > Quota
  <2>1. Step(r, Resting) /\ UNCHANGED <<disk, nextFile>>
    BY <1>3 DEF WriteFiles
  <2>2. Stored(r, disk')
    BY <2>1, DiskKept
  <2> QED BY <1>2, <2>1, <2>2, RestHolds
<1>4. CASE ~(used + Sum(client[r].sizes) > Quota)
  <2>1. used + Sum(client[r].sizes) <= Quota
    <3>1. used \in Nat /\ Quota \in Nat /\ Sum(client[r].sizes) \in Nat
      BY <1>1, <1>2, SizesSum, UploadAssumption DEF OwnersFit, FilesHold, QuotaKept
    <3> QED BY <1>4, <3>1
  <2>2. FilesHold'
    BY <1>1, <2>1, FilesWritten
  <2>3. PICK o, x : /\ o = client[r].owner
                    /\ x = [at |-> "insert", owner |-> client[r].owner, kind |-> client[r].kind,
                            sizes |-> client[r].sizes, first |-> nextFile]
    OBVIOUS
  <2>4. /\ client' = [client EXCEPT ![r] = x] /\ x.at = "insert" /\ x.owner = o
        /\ x.kind = client[r].kind /\ x.sizes = client[r].sizes
    BY <1>4, <2>3 DEF WriteFiles, Step
  <2>5. client'[r] = x
    BY <1>1, <2>4, ClientTurn
  <2>6. ClientFits(x)'
    BY <1>1, <1>2, <2>3, <2>4 DEF ClientFits, Counted, Owned
  <2>7. ClientFits(client[r])'
    BY <2>5, <2>6
  <2>8. RowsKept(o) /\ LeadsKept(o)
    BY <1>2, AllKept
  <2>9. ASSUME o \in DOMAIN prop' \ overlap' PROVE Tidy(o)'
    <3>1. Tidy(o) /\ prop' = prop /\ file' = file /\ lead' = lead
      BY <1>1, <1>2, <2>9
    <3> QED BY <3>1 DEF Tidy, Owned, Counted, Unallocated
  <2>10. \A q \in Clients \ {r} : client[q] # Resting /\ client[q].owner = o => o \in overlap'
    BY <1>2, <2>3, Alone
  <2>11. overlap \subseteq overlap' /\ (x # Resting => x.owner = o) /\ \A f \in file' : f.owner # o => f \in file
    BY <1>2, <2>4
  <2>12. DeskHolds'
    BY <2>4, <2>7, <2>8, <2>9, <2>10, <2>11, HoldTurn
  <2> QED BY <2>2, <2>12
<1> QED BY <1>3, <1>4

\* The files that come are no more than the upload has.
LEMMA CountedMore ==
  ASSUME NEW S, IsFiniteSet(S), NEW n \in Nat, NEW fresh, NEW T, \A f \in T : f \in S \/ \E i \in 1..n : f = fresh[i]
  PROVE  IsFiniteSet(T) /\ Cardinality(T) \in Nat /\ Cardinality(T) <= Cardinality(S) + n
<1> DEFINE More == {f \in T : f \notin S}
           D == 1..n
<1>1. IsFiniteSet(D) /\ Cardinality(D) = n
  BY FS_Interval
<1>2. \A f \in More : \E i \in D : f = fresh[i]
  OBVIOUS
<1>3. T \subseteq S \cup More
  OBVIOUS
<1> HIDE DEF More, D
<1>4. IsFiniteSet(More) /\ Cardinality(More) <= Cardinality(D)
  BY <1>1, <1>2, ImageIsFinite
<1>5. /\ IsFiniteSet(S \cup More) /\ IsFiniteSet(S \cap More)
      /\ Cardinality(S \cup More) = Cardinality(S) + Cardinality(More) - Cardinality(S \cap More)
  BY <1>4, FS_Union, FS_Intersection
<1>6. /\ Cardinality(S) \in Nat /\ Cardinality(More) \in Nat /\ Cardinality(S \cap More) \in Nat
      /\ Cardinality(S \cup More) \in Nat
  BY <1>4, <1>5, FS_CardinalityType
<1>7. IsFiniteSet(T) /\ Cardinality(T) \in Nat /\ Cardinality(T) <= Cardinality(S \cup More)
  BY <1>3, <1>5, FS_Subset, FS_CardinalityType
<1> QED BY <1>1, <1>4, <1>5, <1>6, <1>7

\* The rows of an upload come in, under the cap.
LEMMA InsertHolds ==
  ASSUME NamesInv, FilesHold, DeskHolds, NEW r \in Clients, InsertFiles(r)
  PROVE  FilesHold' /\ DeskHolds'
<1>1. CodeTypes /\ ClientFits(client[r]) /\ OwnersFit /\ FilesKnown /\ \A i \in DOMAIN prop \ overlap : Tidy(i)
  BY DEF NamesInv, FilesHold, DeskHolds
<1>2. FilesHold'
  BY <1>1, FilesInserted
<1>3. PICK o, x : o = client[r].owner /\ x = client[r]
  OBVIOUS
<1>4. /\ x.at = "insert" /\ x # Resting /\ client' = [client EXCEPT ![r] = Resting]
      /\ UNCHANGED <<prop, lead, overlap>>
  BY <1>3 DEF InsertFiles, Resting, Step
<1>5. PICK fresh : fresh = [n \in DOMAIN x.sizes |-> [id |-> x.first + n - 1, owner |-> x.owner, kind |-> x.kind,
                                                      size |-> x.sizes[n], place |-> LastPlace(x.owner) + n]]
  OBVIOUS
<1>6. /\ \A n \in DOMAIN x.sizes : fresh[n].owner = o /\ fresh[n].kind = x.kind
      /\ file' = file \cup {fresh[n] : n \in DOMAIN x.sizes}
  BY <1>3, <1>5 DEF InsertFiles
<1>7. x.sizes \in Seq(Nat) /\ Len(x.sizes) \in Nat /\ DOMAIN x.sizes = 1..Len(x.sizes)
  BY <1>1, <1>3, <1>4 DEF OwnersFit
<1>8. \A f \in file' : f \in file \/ (f.owner = o /\ f.kind = x.kind /\ \E n \in 1..Len(x.sizes) : f = fresh[n])
  BY <1>6, <1>7
<1>9. Resting.at = "idle"
  BY DEF Resting
<1>10. client'[r] = Resting
  BY <1>1, <1>4, ClientTurn
<1>11. ClientFits(client[r])'
  BY <1>9, <1>10 DEF ClientFits
<1>12. RowsKept(o) /\ LeadsKept(o)
  BY <1>4, AllKept
<1>13. ASSUME o \in DOMAIN prop' \ overlap' PROVE Tidy(o)'
  <2>1. /\ Tidy(o) /\ o \in DOMAIN prop \ overlap /\ prop'[o].state # "removed"
        /\ x.kind \in {"image", "document"} => Counted(o, x.kind) + Len(x.sizes) <= Cap
    BY <1>1, <1>3, <1>4, <1>13 DEF ClientFits
  <2>2. ASSUME NEW k \in {"image", "document"} PROVE Counted(o, k)' <= Cap
    <3>1. PICK S, T : S = {f \in Owned(o) : f.kind = k} /\ T = {f \in Owned(o) : f.kind = k}'
      OBVIOUS
    <3>2. IsFiniteSet(S) /\ S \subseteq file
      BY <1>1, <3>1, FS_Subset DEF FilesKnown, Known, Owned
    <3>3. \A f \in T : f \in S \/ (f.kind = x.kind /\ k = x.kind /\ \E n \in 1..Len(x.sizes) : f = fresh[n])
      BY <1>8, <3>1 DEF Owned
    <3>4. CASE k = x.kind
      <4>1. Cardinality(T) \in Nat /\ Cardinality(T) <= Cardinality(S) + Len(x.sizes)
        <5>1. PICK N : N = Len(x.sizes)
          OBVIOUS
        <5>2. N \in Nat /\ \A f \in T : f \in S \/ \E i \in 1..N : f = fresh[i]
          BY <1>7, <3>3, <5>1
        <5>3. Cardinality(T) \in Nat /\ Cardinality(T) <= Cardinality(S) + N
          BY <3>2, <5>2, CountedMore
        <5> QED BY <5>1, <5>3
      <4>2. Counted(o, k)' = Cardinality(T) /\ Counted(o, k) = Cardinality(S)
        BY <3>1 DEF Counted
      <4>3. Cardinality(S) \in Nat /\ Cap \in Nat
        BY <3>2, FS_CardinalityType, UploadAssumption
      <4> QED BY <1>7, <2>1, <3>4, <4>1, <4>2, <4>3
    <3>5. CASE k # x.kind
      <4>1. T \in SUBSET S
        BY <3>3, <3>5
      <4>2. Cardinality(T) \in Nat /\ Cardinality(S) \in Nat /\ Cardinality(T) <= Cardinality(S)
        BY <3>2, <4>1, FewerFiles
      <4>3. Counted(o, k)' = Cardinality(T) /\ Counted(o, k) = Cardinality(S)
        BY <3>1 DEF Counted
      <4>4. Counted(o, k) <= Cap /\ Cap \in Nat
        BY <2>1, UploadAssumption DEF Tidy
      <4> QED BY <4>2, <4>3, <4>4
    <3> QED BY <3>4, <3>5
  <2> QED BY <2>1, <2>2 DEF Tidy
<1>14. \A q \in Clients \ {r} : client[q] # Resting /\ client[q].owner = o => o \in overlap'
  BY <1>3, <1>4, Alone
<1>15. overlap \subseteq overlap' /\ \A f \in file' : f.owner # o => f \in file
  BY <1>4, <1>8
<1>16. DeskHolds'
  BY <1>4, <1>11, <1>12, <1>13, <1>14, <1>15, HoldTurn
<1> QED BY <1>2, <1>16

\* Files that go are fewer, and leave the property as tidy as it was.
LEMMA TidierStill ==
  ASSUME FilesHold, NEW o, Tidy(o), \A f \in file' : f.owner = o => f \in file, lead' = lead,
         prop'[o].kind = prop[o].kind, prop'[o].code = prop[o].code,
         prop'[o].state = "removed" => (prop[o].kind = "website" \/ prop[o].state = "removed" \/ Owned(o)' = {})
                                       /\ Unallocated(o)
  PROVE  Tidy(o)'
<1>1. Owned(o)' \subseteq Owned(o)
  BY DEF Owned
<1>2. ASSUME NEW k \in {"image", "document"} PROVE Counted(o, k)' <= Cap
  <2>1. PICK S, T : S = {f \in Owned(o) : f.kind = k} /\ T = {f \in Owned(o) : f.kind = k}'
    OBVIOUS
  <2>2. T \in SUBSET S
    BY <1>1, <2>1
  <2>3. IsFiniteSet(S)
    BY <2>1, FS_Subset DEF FilesHold, FilesKnown, Known, Owned
  <2>4. Cardinality(T) \in Nat /\ Cardinality(S) \in Nat /\ Cardinality(T) <= Cardinality(S)
    BY <2>2, <2>3, FewerFiles
  <2>5. Counted(o, k)' = Cardinality(T) /\ Counted(o, k) = Cardinality(S)
    BY <2>1 DEF Counted
  <2>6. Counted(o, k) <= Cap /\ Cap \in Nat
    BY UploadAssumption DEF Tidy
  <2> QED BY <2>4, <2>5, <2>6
<1>3. prop'[o].state = "removed" /\ prop'[o].kind # "website" => Owned(o)' = {}
  BY <1>1 DEF Tidy
<1>4. prop'[o].state = "removed" => Unallocated(o)'
  BY DEF Unallocated
<1> QED BY <1>2, <1>3, <1>4 DEF Tidy

\* A file is deleted.
LEMMA DropHolds ==
  ASSUME NamesInv, FilesHold, DeskHolds, NEW r \in Clients, DropFile(r)
  PROVE  FilesHold' /\ DeskHolds'
<1>1. CodeTypes /\ \A i \in DOMAIN prop \ overlap : Tidy(i)
  BY DEF NamesInv, DeskHolds
<1>2. FilesHold'
  BY <1>1, DropFileFiles
<1>3. PICK o, x : o = client[r].owner /\ x = [at |-> "unlink", owner |-> client[r].owner, unlink |-> client[r].unlink]
  OBVIOUS
<1>4. /\ client[r] # Resting /\ client' = [client EXCEPT ![r] = x] /\ file' = file \ {client[r].row}
      /\ x.at = "unlink" /\ x.owner = o /\ UNCHANGED <<prop, lead, overlap>>
  BY <1>3 DEF DropFile, Step, Resting
<1>5. client'[r] = x
  BY <1>1, <1>4, ClientTurn
<1>6. ClientFits(client[r])'
  BY <1>4, <1>5 DEF ClientFits
<1>7. RowsKept(o) /\ LeadsKept(o)
  BY <1>4, AllKept
<1>8. \A q \in Clients \ {r} : client[q] # Resting /\ client[q].owner = o => o \in overlap'
  BY <1>3, <1>4, Alone
<1>9. overlap \subseteq overlap' /\ (x # Resting => x.owner = o) /\ \A f \in file' : f.owner # o => f \in file
  BY <1>4
<1>10. ASSUME o \in DOMAIN prop' \ overlap' PROVE Tidy(o)'
  <2>1. Tidy(o)
    BY <1>1, <1>4, <1>10
  <2>2. prop[o].state = "removed" => Unallocated(o)
    BY <2>1 DEF Tidy
  <2> QED BY <1>4, <2>1, <2>2, TidierStill
<1>11. DeskHolds'
  BY <1>4, <1>6, <1>7, <1>8, <1>9, <1>10, HoldTurn
<1> QED BY <1>2, <1>11

\* Files are unlinked that have no row and that no upload wrote.
LEMMA UnlinkHolds ==
  ASSUME NamesInv, FilesHold, DeskHolds, NEW r \in Clients, UnlinkFiles(r)
  PROVE  FilesHold' /\ DeskHolds'
<1>1. FilesKnown /\ BytesAccounted
  BY DEF FilesHold
<1>2. /\ client[r].at = "unlink" /\ disk' = disk \ client[r].unlink /\ Step(r, Resting)
      /\ UNCHANGED <<prop, file, used, lead, torn, overlap, nextFile>>
  BY DEF UnlinkFiles
<1>3. Freed(client[r]) = client[r].unlink
  BY <1>2 DEF Freed
<1>8. \A q \in Clients : \A h \in Freed(client[q]) : \A f \in file : f.id # h
  BY <1>1 DEF FilesKnown
<1>4. \A h \in client[r].unlink : \A f \in file : f.id # h
  BY <1>3, <1>8
<1>5. {f.id : f \in file} \subseteq disk'
  BY <1>1, <1>2, <1>4 DEF BytesAccounted
<1>6. ASSUME NEW q \in Clients \ {r}, client[q].at = "insert"
      PROVE  client[q].first .. (nextFile - 1) \subseteq disk'
  <2>1. /\ client[q].first \in Nat /\ client[q].first .. (nextFile - 1) \subseteq disk /\ nextFile \in Nat
        /\ \A h \in client[r].unlink : h < client[q].first
    BY <1>1, <1>3, <1>6 DEF FilesKnown
  <2> SUFFICES ASSUME NEW h \in client[q].first .. (nextFile - 1) PROVE h \in disk \ client[r].unlink
    BY <1>2
  <2> QED BY <2>1
<1>7. Stored(r, disk')
  BY <1>5, <1>6 DEF Stored
<1> QED BY <1>2, <1>7, RestHolds

\* A request fails, with the files of its upload or without.
LEMMA FailHolds ==
  ASSUME NamesInv, FilesHold, DeskHolds, NEW r \in Clients, NEW stops, PropertyRequestFails(r, stops)
  PROVE  FilesHold' /\ DeskHolds'
<1>1. FilesKnown /\ BytesAccounted /\ OwnersFit
  BY DEF FilesHold
<1>2. Step(r, Resting) /\ UNCHANGED <<prop, file, used, lead, torn, overlap, nextFile>>
  BY DEF PropertyRequestFails
<1>3. CASE client[r].at = "insert" /\ ~stops
  <2>1. disk' = disk \ (client[r].first .. client[r].first + Len(client[r].sizes) - 1)
    BY <1>3 DEF PropertyRequestFails
  <2>2. /\ client[r].first \in Nat /\ (\A q \in Clients \ {r} : client[q].at # "insert")
        /\ \A f \in Known : f.id < client[r].first
    BY <1>1, <1>3 DEF FilesKnown
  <2>3. \A f \in file : f.id \in disk /\ f.id < client[r].first /\ f.id \in Nat
    BY <1>1, <2>2 DEF Known, BytesAccounted, FilesKnown, IsFile
  <2>4. {f.id : f \in file} \subseteq disk'
    <3> SUFFICES ASSUME NEW f \in file PROVE f.id \in disk'
      OBVIOUS
    <3> QED BY <2>1, <2>2, <2>3
  <2>5. Stored(r, disk')
    BY <2>2, <2>4 DEF Stored
  <2> QED BY <1>2, <2>5, RestHolds
<1>4. CASE ~(client[r].at = "insert" /\ ~stops)
  <2>1. disk' = disk
    BY <1>4 DEF PropertyRequestFails
  <2>2. Stored(r, disk')
    BY <2>1, DiskKept
  <2> QED BY <1>2, <2>2, RestHolds
<1> QED BY <1>3, <1>4

\* The lead gets the code, if it has it not.
LEMMA AllocateHolds ==
  ASSUME NamesInv, FilesHold, DeskHolds, NEW r \in Clients, Allocate(r)
  PROVE  FilesHold' /\ DeskHolds'
<1>1. CodeTypes /\ ClientFits(client[r]) /\ OwnersFit /\ LeadsFit /\ \A i \in DOMAIN prop \ overlap : Tidy(i)
  BY DEF NamesInv, FilesHold, DeskHolds
<1>2. PICK o, l, c : o = client[r].owner /\ l = client[r].lead /\ c = prop[o].code
  OBVIOUS
<1>3. /\ client[r].at = "allocate" /\ client[r] # Resting /\ client' = [client EXCEPT ![r] = Resting]
      /\ UNCHANGED <<prop, file, disk, used, torn, overlap, nextFile>>
      /\ lead' = IF Contains(lead[l], c) THEN lead ELSE [lead EXCEPT ![l] = Append(lead[l], c)]
  BY <1>2 DEF Allocate, Step, Resting
<1>4. o \in DOMAIN prop /\ l \in Leads /\ c # NoCode
  BY <1>1, <1>2, <1>3 DEF ClientFits
<1>5. Resting.at = "idle" /\ Held(Resting) = {}
  BY HandsEmpty DEF Resting
<1>6. client'[r] = Resting
  BY <1>1, <1>3, ClientTurn
<1>7. ClientFits(client[r])'
  BY <1>5, <1>6 DEF ClientFits
<1>8. overlap \subseteq overlap' /\ overlap' \subseteq {SellerDesk} \cup DOMAIN prop /\ Stored(r, disk')
  BY <1>1, <1>3, DiskKept DEF OwnersFit
<1>9. FilesHold'
  <2>1. /\ Resting.at \notin {"insert", "unlink"} /\ (Resting.at = "quota" => Resting.sizes \in Seq(Nat))
        /\ Held(Resting) \subseteq file /\ (\A f \in Held(Resting) : f.owner = Resting.owner)
        /\ (Resting.at = "drop" => Resting.unlink \subseteq {Resting.row.id})
    BY <1>5
  <2> QED BY <1>1, <1>3, <1>8, <2>1, FilesLeft DEF Stored
<1>10. LeadsKept(o)
  <2>1. CASE Contains(lead[l], c)
    BY <1>3, <2>1, AllKept
  <2>2. CASE ~Contains(lead[l], c)
    <3>1. /\ lead = [m \in Leads |-> lead[m]]
          /\ \A m \in Leads : lead[m] \in Seq(ToSet(lead[m])) /\ IsInjective(lead[m])
      BY <1>1 DEF LeadsFit
    <3>2. PICK s, t : s = lead[l] /\ t = Append(s, c)
      OBVIOUS
    <3>3. lead' = [m \in Leads |-> IF m = l THEN t ELSE lead[m]]
      BY <1>3, <2>2, <3>1, <3>2
    <3>4. s \in Seq(ToSet(s)) /\ IsInjective(s) /\ c \notin ToSet(s)
      BY <1>4, <2>2, <3>1, <3>2, ContainsIs
    <3>5. t \in Seq(ToSet(t)) /\ IsInjective(t) /\ ToSet(t) \subseteq ToSet(s) \cup {c}
      <4>1. /\ Len(s) \in Nat /\ DOMAIN s = 1..Len(s) /\ t \in Seq(ToSet(s) \cup {c})
            /\ DOMAIN t = 1..(Len(s) + 1) /\ t[Len(s) + 1] = c /\ \A i \in 1..Len(s) : t[i] = s[i]
        <5>1. s \in Seq(ToSet(s) \cup {c}) /\ c \in ToSet(s) \cup {c}
          BY <3>4
        <5> QED BY <3>2, <5>1
      <4>2. \A i \in DOMAIN t : t[i] \in ToSet(t)
        BY DEF ToSet
      <4>3. t \in Seq(ToSet(t))
        BY <4>1, <4>2
      <4>4. \A i \in 1..Len(s) : s[i] # c
        BY <3>4, <4>1 DEF ToSet
      <4>5. \A i, j \in 1..Len(s) : s[i] = s[j] => i = j
        BY <3>4, <4>1 DEF IsInjective
      <4>6. \A i, j \in DOMAIN t : t[i] = t[j] => i = j
        BY <4>1, <4>4, <4>5
      <4>7. \A i \in DOMAIN t : t[i] \in ToSet(s) \cup {c}
        BY <4>1, ElementOfSeq
      <4> QED BY <4>3, <4>6, <4>7 DEF IsInjective, ToSet
    <3>6. lead' = [m \in Leads |-> lead'[m]] /\ lead'[l] = t /\ \A m \in Leads : m # l => lead'[m] = lead[m]
      BY <1>4, <3>3
    <3>7. \A m \in Leads : lead'[m] \in Seq(ToSet(lead'[m])) /\ IsInjective(lead'[m])
      BY <3>1, <3>5, <3>6
    <3>8. \A m \in Leads : \A d \in ToSet(lead'[m]) :
            d \in ToSet(lead[m]) \/ (o \in DOMAIN prop /\ d = prop[o].code /\ d # NoCode)
      BY <1>2, <1>4, <3>2, <3>5, <3>6
    <3> QED BY <3>6, <3>7, <3>8 DEF LeadsKept
  <2> QED BY <2>1, <2>2
<1>11. RowsKept(o)
  BY <1>3, AllKept
<1>12. ASSUME o \in DOMAIN prop' \ overlap' PROVE Tidy(o)'
  <2>1. prop[o].state # "removed" /\ Tidy(o) /\ prop' = prop /\ file' = file
    BY <1>1, <1>2, <1>3, <1>12 DEF ClientFits
  <2> QED BY <2>1 DEF Tidy, Counted, Owned
<1>13. \A q \in Clients \ {r} : client[q] # Resting /\ client[q].owner = o => o \in overlap'
  BY <1>2, <1>3, Alone
<1>14. \A f \in file' : f.owner # o => f \in file
  BY <1>3
<1>15. DeskHolds'
  BY <1>3, <1>7, <1>8, <1>10, <1>11, <1>12, <1>13, <1>14, HoldTurn
<1> QED BY <1>9, <1>15

\* A removal reads the rows of the files.
LEMMA ListHolds ==
  ASSUME NamesInv, FilesHold, DeskHolds, NEW r \in Clients, ListFiles(r)
  PROVE  FilesHold' /\ DeskHolds'
<1>1. CodeTypes /\ ClientFits(client[r]) /\ OwnersFit
  BY DEF NamesInv, FilesHold, DeskHolds
<1>2. PICK o, x : o = client[r].owner /\ x = [at |-> "purge", owner |-> client[r].owner, rows |-> Owned(client[r].owner)]
  OBVIOUS
<1>3. /\ client[r].at = "remove" /\ client[r] # Resting /\ client' = [client EXCEPT ![r] = x]
      /\ x.at = "purge" /\ x.owner = o /\ x.rows = Owned(o)
      /\ UNCHANGED <<prop, file, disk, used, lead, torn, overlap, nextFile>>
  BY <1>2 DEF ListFiles, Step, Resting
<1>4. Held(x) = Owned(o)
  BY <1>3 DEF Held
<1>5. o \in DOMAIN prop /\ ClientFits(x)'
  BY <1>1, <1>2, <1>3 DEF ClientFits, Unallocated
<1>6. overlap \subseteq overlap' /\ overlap' \subseteq {SellerDesk} \cup DOMAIN prop /\ Stored(r, disk')
  BY <1>1, <1>3, DiskKept DEF OwnersFit
<1>7. \A q \in Clients \ {r} : client[q] # Resting /\ client[q].owner = o => o \in overlap'
  BY <1>2, <1>3, Alone
<1>8. /\ UNCHANGED <<prop, file, used, lead, torn, nextFile>>
      /\ x # Resting => x.at # "idle" /\ x.owner = o /\ o \in {SellerDesk} \cup DOMAIN prop
      /\ x.at \notin {"insert", "unlink"} /\ (x.at = "quota" => x.sizes \in Seq(Nat))
      /\ Held(x) \subseteq file /\ (\A f \in Held(x) : f.owner = x.owner)
      /\ (x.at = "drop" => x.unlink \subseteq {x.row.id})
  BY <1>3, <1>4, <1>5 DEF Owned
<1> QED BY <1>3, <1>5, <1>6, <1>7, <1>8, QuietTurn

\* A row is written to the state "removed", if it is live.
LEMMA RowRemoved ==
  ASSUME CodeTypes, NEW o \in DOMAIN prop,
         prop' = [prop EXCEPT ![o].state = IF prop[o].state = "live" THEN "removed" ELSE prop[o].state]
  PROVE  /\ DOMAIN prop' = DOMAIN prop /\ RowsKept(o)
         /\ prop'[o].kind = prop[o].kind /\ prop'[o].code = prop[o].code
<1>1. prop \in Seq(PropertyRows) /\ prop[o] \in PropertyRows
  BY DEF CodeTypes
<1>2. /\ DOMAIN prop' = DOMAIN prop /\ (\A j \in DOMAIN prop : j # o => prop'[j] = prop[j])
      /\ prop'[o].kind = prop[o].kind /\ prop'[o].code = prop[o].code
  BY <1>1 DEF PropertyRows
<1> QED BY <1>2 DEF RowsKept

\* The rows of the files of a property go, and the property.
LEMMA PurgeHolds ==
  ASSUME NamesInv, FilesHold, DeskHolds, NEW r \in Clients, Purge(r)
  PROVE  FilesHold' /\ DeskHolds'
<1>1. CodeTypes /\ ClientFits(client[r]) /\ \A i \in DOMAIN prop \ overlap : Tidy(i)
  BY DEF NamesInv, DeskHolds
<1>2. FilesHold'
  BY <1>1, PurgeFiles
<1>3. PICK o, x : o = client[r].owner /\ x = [at |-> "unlink", owner |-> client[r].owner, unlink |-> {f.id : f \in client[r].rows}]
  OBVIOUS
<1>4. /\ client[r].at = "purge" /\ client[r] # Resting /\ client' = [client EXCEPT ![r] = x]
      /\ file' = file \ Owned(o) /\ x.at = "unlink" /\ x.owner = o /\ UNCHANGED <<lead, overlap>>
      /\ prop' = [prop EXCEPT ![o].state = IF prop[o].state = "live" THEN "removed" ELSE prop[o].state]
  BY <1>3 DEF Purge, Step, Resting
<1>5. o \in DOMAIN prop
  BY <1>1, <1>3, <1>4 DEF ClientFits
<1>6. /\ DOMAIN prop' = DOMAIN prop /\ RowsKept(o)
      /\ prop'[o].kind = prop[o].kind /\ prop'[o].code = prop[o].code
  BY <1>1, <1>4, <1>5, RowRemoved
<1>7. LeadsKept(o)
  BY <1>4, AllKept
<1>8. client'[r] = x
  BY <1>1, <1>4, ClientTurn
<1>9. ClientFits(client[r])'
  BY <1>4, <1>8 DEF ClientFits
<1>10. \A q \in Clients \ {r} : client[q] # Resting /\ client[q].owner = o => o \in overlap'
  BY <1>3, <1>4, Alone
<1>11. overlap \subseteq overlap' /\ (x # Resting => x.owner = o) /\ \A f \in file' : f.owner # o => f \in file
  BY <1>4
<1>12. ASSUME o \in DOMAIN prop' \ overlap' PROVE Tidy(o)'
  <2>1. Tidy(o) /\ Unallocated(o)
    BY <1>1, <1>3, <1>4, <1>5, <1>12 DEF ClientFits
  <2>2. Owned(o)' = {} /\ \A f \in file' : f \in file
    BY <1>4 DEF Owned
  <2> QED BY <1>4, <1>6, <2>1, <2>2, TidierStill
<1>13. DeskHolds'
  BY <1>4, <1>6, <1>7, <1>9, <1>10, <1>11, <1>12, HoldTurn
<1> QED BY <1>2, <1>13

\* A website property is hidden, with its files.
LEMMA DelistHolds ==
  ASSUME NamesInv, FilesHold, DeskHolds, NEW r \in Clients, Delist(r)
  PROVE  FilesHold' /\ DeskHolds'
<1>1. CodeTypes /\ ClientFits(client[r]) /\ OwnersFit /\ \A i \in DOMAIN prop \ overlap : Tidy(i)
  BY DEF NamesInv, FilesHold, DeskHolds
<1>2. PICK o : o = client[r].owner
  OBVIOUS
<1>3. /\ client[r].at = "delist" /\ client[r] # Resting /\ client' = [client EXCEPT ![r] = Resting]
      /\ UNCHANGED <<file, disk, used, lead, torn, overlap, nextFile>>
      /\ prop' = [prop EXCEPT ![o].state = IF prop[o].state = "live" THEN "removed" ELSE prop[o].state]
  BY <1>2 DEF Delist, Step, Resting
<1>4. o \in DOMAIN prop /\ prop[o].kind = "website"
  BY <1>1, <1>2, <1>3 DEF ClientFits
<1>5. /\ DOMAIN prop' = DOMAIN prop /\ RowsKept(o)
      /\ prop'[o].kind = prop[o].kind /\ prop'[o].code = prop[o].code
  BY <1>1, <1>3, <1>4, RowRemoved
<1>6. LeadsKept(o)
  BY <1>3, AllKept
<1>7. Resting.at = "idle" /\ Held(Resting) = {}
  BY HandsEmpty DEF Resting
<1>8. client'[r] = Resting
  BY <1>1, <1>3, ClientTurn
<1>9. ClientFits(client[r])'
  BY <1>7, <1>8 DEF ClientFits
<1>10. overlap \subseteq overlap' /\ overlap' \subseteq {SellerDesk} \cup DOMAIN prop /\ Stored(r, disk')
  BY <1>1, <1>3, DiskKept DEF OwnersFit
<1>11. FilesHold'
  <2>1. /\ Resting.at \notin {"insert", "unlink"} /\ (Resting.at = "quota" => Resting.sizes \in Seq(Nat))
        /\ Held(Resting) \subseteq file /\ (\A f \in Held(Resting) : f.owner = Resting.owner)
        /\ (Resting.at = "drop" => Resting.unlink \subseteq {Resting.row.id})
    BY <1>7
  <2> QED BY <1>1, <1>3, <1>5, <1>10, <2>1, FilesLeft DEF Stored
<1>12. \A q \in Clients \ {r} : client[q] # Resting /\ client[q].owner = o => o \in overlap'
  BY <1>2, <1>3, Alone
<1>13. ASSUME o \in DOMAIN prop' \ overlap' PROVE Tidy(o)'
  <2>1. Tidy(o) /\ Unallocated(o)
    BY <1>1, <1>2, <1>3, <1>4, <1>13 DEF ClientFits
  <2> QED BY <1>3, <1>4, <1>5, <2>1, TidierStill
<1>14. \A f \in file' : f.owner # o => f \in file
  BY <1>3
<1>15. DeskHolds'
  BY <1>3, <1>5, <1>6, <1>9, <1>10, <1>12, <1>13, <1>14, HoldTurn
<1> QED BY <1>11, <1>15

\* A step of nobody's property: no request and no row is at it.
LEMMA NobodysStep ==
  ASSUME NamesInv, FilesHold, DeskHolds, NEW r \in Clients, client' = [client EXCEPT ![r] = Resting],
         NEW o, o = -1, DOMAIN prop' = DOMAIN prop, RowsKept(o), LeadsKept(o),
         UNCHANGED <<file, disk, used, torn, overlap, nextFile>>
  PROVE  FilesHold' /\ DeskHolds'
<1>1. CodeTypes /\ OwnersFit
  BY DEF NamesInv, FilesHold
<1>2. o \notin {SellerDesk} \cup DOMAIN prop
  BY <1>1 DEF CodeTypes, SellerDesk
<1>3. \A q \in Clients \ {r} : client[q] # Resting /\ client[q].owner = o => o \in overlap'
  BY <1>1, <1>2 DEF OwnersFit
<1>4. Resting.at = "idle" /\ Held(Resting) = {}
  BY HandsEmpty DEF Resting
<1>5. client'[r] = Resting
  BY <1>1, ClientTurn
<1>6. ClientFits(client[r])'
  BY <1>4, <1>5 DEF ClientFits
<1>7. overlap \subseteq overlap' /\ overlap' \subseteq {SellerDesk} \cup DOMAIN prop /\ Stored(r, disk')
  BY <1>1, DiskKept DEF OwnersFit
<1>8. FilesHold'
  <2>1. /\ Resting.at \notin {"insert", "unlink"} /\ (Resting.at = "quota" => Resting.sizes \in Seq(Nat))
        /\ Held(Resting) \subseteq file /\ (\A f \in Held(Resting) : f.owner = Resting.owner)
        /\ (Resting.at = "drop" => Resting.unlink \subseteq {Resting.row.id})
    BY <1>4
  <2> QED BY <1>1, <1>7, <2>1, FilesLeft DEF Stored
<1>9. o \notin DOMAIN prop'
  BY <1>2
<1>10. \A f \in file' : f.owner # o => f \in file
  OBVIOUS
<1>11. DeskHolds'
  BY <1>3, <1>6, <1>7, <1>9, <1>10, HoldTurn
<1> QED BY <1>8, <1>11

\* A seller withdraws a listing.
LEMMA WithdrawHolds ==
  ASSUME NamesInv, FilesHold, DeskHolds, NEW r \in Clients, NEW i, removeOwn(r, i)
  PROVE  FilesHold' /\ DeskHolds'
<1>1. CodeTypes
  BY DEF NamesInv
<1>2. /\ client' = [client EXCEPT ![r] = Resting] /\ prop' = [prop EXCEPT ![i].state = "withdrawn"] /\ i \in DOMAIN prop
      /\ UNCHANGED <<file, disk, used, lead, torn, overlap, nextFile>>
  BY DEF removeOwn, Ask, Live
<1>3. PICK o : o = -1
  OBVIOUS
<1>4. /\ DOMAIN prop' = DOMAIN prop
      /\ \A j \in DOMAIN prop : /\ prop'[j].kind = prop[j].kind /\ prop'[j].code = prop[j].code
                                /\ prop'[j].state = "removed" => prop[j].state = "removed"
  BY <1>1, <1>2 DEF CodeTypes, PropertyRows
<1>5. RowsKept(o) /\ LeadsKept(o)
  BY <1>2, <1>4, AllKept DEF RowsKept
<1> QED BY <1>2, <1>3, <1>4, <1>5, NobodysStep

\* A lead gives a code up.
LEMMA DeallocateHolds ==
  ASSUME NamesInv, FilesHold, DeskHolds, NEW r \in Clients, NEW l \in Leads, NEW c, Deallocate(r, l, c)
  PROVE  FilesHold' /\ DeskHolds'
<1>1. /\ lead = [m \in Leads |-> lead[m]]
      /\ \A m \in Leads : lead[m] \in Seq(ToSet(lead[m])) /\ IsInjective(lead[m])
  BY DEF DeskHolds, LeadsFit
<1>2. /\ client' = [client EXCEPT ![r] = Resting] /\ lead' = [lead EXCEPT ![l] = Without(lead[l], c)]
      /\ UNCHANGED <<prop, file, disk, used, torn, overlap, nextFile>>
  BY DEF Deallocate, Ask
<1>3. PICK o, s, t : o = -1 /\ s = lead[l] /\ t = Without(s, c)
  OBVIOUS
<1>4. s \in Seq(ToSet(s)) /\ IsInjective(s)
  BY <1>1, <1>3
<1>5. t \in Seq(ToSet(s)) /\ ToSet(t) \subseteq ToSet(s) \ {c} /\ IsInjective(t)
  BY <1>3, <1>4, WithoutIs
<1>6. t \in Seq(ToSet(t))
  <2>1. DOMAIN t = 1..Len(t) /\ Len(t) \in Nat /\ \A n \in 1..Len(t) : t[n] \in ToSet(t)
    BY <1>5 DEF ToSet
  <2> QED BY <1>5, <2>1
<1>7. lead' = [m \in Leads |-> IF m = l THEN t ELSE lead[m]]
  BY <1>1, <1>2, <1>3
<1>8. lead' = [m \in Leads |-> lead'[m]] /\ lead'[l] = t /\ \A m \in Leads : m # l => lead'[m] = lead[m]
  BY <1>7
<1>9. \A m \in Leads : lead'[m] \in Seq(ToSet(lead'[m])) /\ IsInjective(lead'[m])
  BY <1>1, <1>5, <1>6, <1>8
<1>10. \A m \in Leads : \A d \in ToSet(lead'[m]) : d \in ToSet(lead[m])
  BY <1>3, <1>5, <1>8
<1>11. RowsKept(o) /\ LeadsKept(o)
  BY <1>2, <1>8, <1>9, <1>10, AllKept DEF LeadsKept
<1>12. DOMAIN prop' = DOMAIN prop /\ UNCHANGED <<file, disk, used, torn, overlap, nextFile>>
  BY <1>2
<1> QED BY <1>2, <1>3, <1>11, <1>12, NobodysStep

\* What a request may be asked for.
LEMMA HoldCallStep ==
  ASSUME NamesInv, FilesHold, DeskHolds, NEW r \in Clients, PropertyCall(r)
  PROVE  FilesHold' /\ DeskHolds'
<1>1. CASE CreateInventory(r) \/ CreateEnquiry(r) \/ CreateWebsite(r) \/ CreateOwn(r)
  BY <1>1, CreateHolds DEF CreateInventory, CreateEnquiry, CreateWebsite, CreateOwn
<1>2. ASSUME NEW o, removeInventory(r, o) \/ removeEnquiry(r, o) \/ removeWebsite(r, o)
      PROVE  FilesHold' /\ DeskHolds'
  BY <1>2, RemovalStarts DEF removeInventory, removeEnquiry, removeWebsite
<1>3. ASSUME NEW o, NEW sizes \in Batches,
             addImages(r, o, sizes) \/ addDocuments(r, o, sizes) \/ addAmenities(r, o, sizes)
             \/ persistSellerDocuments(r, sizes)
      PROVE  FilesHold' /\ DeskHolds'
  BY <1>3, UploadStarts DEF addImages, addDocuments, addAmenities, persistSellerDocuments
<1>4. ASSUME NEW o, NEW f, deleteImage(r, o, f) \/ deletePropertyDocument(r, o, f) \/ deleteSellerDocument(r, f)
      PROVE  FilesHold' /\ DeskHolds'
  BY <1>4, DropStarts DEF deleteImage, deletePropertyDocument, deleteSellerDocument
<1> QED BY <1>1, <1>2, <1>3, <1>4, WithdrawHolds, AllocationStarts, DeallocateHolds DEF PropertyCall

\* What one at work does next.
LEMMA HoldWorkStep ==
  ASSUME NamesInv, FilesHold, DeskHolds, NEW r \in Clients, PropertyWork(r)
  PROVE  FilesHold' /\ DeskHolds'
<1>1. ASSUME GiveUpCode(r) PROVE FilesHold' /\ DeskHolds'
  <2>1. Step(r, Resting) /\ disk' = disk /\ UNCHANGED <<prop, file, used, lead, torn, overlap, nextFile>>
    BY <1>1 DEF GiveUpCode
  <2>2. Stored(r, disk')
    BY <2>1, DiskKept
  <2> QED BY <2>1, <2>2, RestHolds
<1> QED BY <1>1, TryHolds, AssignHolds, WriteHolds, InsertHolds, DropHolds, UnlinkHolds, AllocateHolds, ListHolds,
        PurgeHolds, DelistHolds, FailHolds DEF PropertyWork

\* At first nothing is held.
LEMMA HoldOpens == PropertiesInit => FilesHold /\ DeskHolds
<1> SUFFICES ASSUME PropertiesInit PROVE FilesHold /\ DeskHolds
  OBVIOUS
<1>1. /\ prop = Existing /\ file = {} /\ disk = {} /\ used = 0 /\ lead = [l \in Leads |-> <<>>]
      /\ client = [r \in Clients |-> Resting] /\ torn = FALSE /\ overlap = {} /\ nextFile = 1
  BY DEF PropertiesInit
<1>2. \A r \in Clients : client[r] = Resting /\ client[r].at = "idle"
  BY <1>1 DEF Resting
<1>3. \A r \in Clients : Held(client[r]) = {} /\ Freed(client[r]) = {}
  BY <1>2 DEF Held, Freed
<1>4. Known = {} /\ IsFiniteSet({})
  BY <1>1, <1>3, FS_EmptySet DEF Known
<1>5. \A i : Owned(i) = {}
  BY <1>1 DEF Owned
<1>6. OwnersFit
  BY <1>1, <1>2 DEF OwnersFit
<1>7. FilesKnown
  BY <1>1, <1>2, <1>3, <1>4 DEF FilesKnown
<1>8. QuotaKept
  BY <1>1, <1>2 DEF QuotaKept
<1>9. BytesAccounted
  <2>1. Bytes(file) = 0
    BY <1>1, SumEmpty DEF Bytes
  <2> QED BY <1>1, <2>1, UploadAssumption DEF BytesAccounted
<1>10. OneAtOwner
  BY <1>2 DEF OneAtOwner
<1>11. \A l \in Leads : lead[l] = <<>> /\ ToSet(lead[l]) = {} /\ \A c : ~Contains(lead[l], c)
  BY <1>1 DEF ToSet, Contains
<1>12. LeadsFit
  BY <1>1, <1>11 DEF LeadsFit, IsInjective
<1>13. \A r \in Clients : ClientFits(client[r])
  BY <1>2 DEF ClientFits
<1>14. ASSUME NEW i PROVE Tidy(i)
  <2>1. \A k : Counted(i, k) = 0 /\ 0 <= Cap
    BY <1>5, FS_EmptySet, UploadAssumption DEF Counted
  <2> QED BY <1>5, <1>11, <2>1 DEF Tidy, Unallocated
<1> QED BY <1>6, <1>7, <1>8, <1>9, <1>10, <1>12, <1>13, <1>14 DEF FilesHold, DeskHolds

\* What the other tables hold of a property stays right whatever uploads,
\* deletions, allocations, removals and failures overlap: every listed file has
\* its bytes on disk and its own place, the quota holds and counts the bytes of
\* the files, a property that is removed alone leaves neither files nor leads.
THEOREM HoldingsAreSound == PropertiesSpec => []HoldingsSound
<1>1. PropertiesInit => HoldInv
  <2> SUFFICES ASSUME PropertiesInit PROVE NamesInv
    BY HoldOpens DEF HoldInv
  <2> QED BY NamesOpen
<1>2. HoldInv /\ [PropertiesNext]_propVars => HoldInv'
  <2> SUFFICES ASSUME HoldInv, [PropertiesNext]_propVars PROVE HoldInv'
    OBVIOUS
  <2>1. NamesInv /\ FilesHold /\ DeskHolds
    BY DEF HoldInv
  <2>2. CASE UNCHANGED propVars
    <3>1. NamesInv'
      BY <2>1, <2>2, NamesStutter
    <3>2. FilesHold'
      BY <2>1, <2>2 DEF propVars, FilesHold, OwnersFit, FilesKnown, QuotaKept, BytesAccounted, Known, Held, Freed,
         IsFile, Bytes, Sum
    <3>3. DeskHolds'
      <4>1. \A i : Tidy(i)' = Tidy(i)
        BY <2>2 DEF propVars, Tidy, Counted, Owned, Unallocated
      <4>2. OneAtOwner' /\ LeadsFit'
        BY <2>1, <2>2 DEF propVars, DeskHolds, OneAtOwner, LeadsFit, Resting
      <4>3. /\ \A q \in Clients : ClientFits(client[q]) => ClientFits(client[q])'
            /\ DOMAIN prop' = DOMAIN prop /\ overlap' = overlap
        BY <2>2 DEF propVars, ClientFits, Counted, Owned, Unallocated, Resting
      <4> QED BY <2>1, <4>1, <4>2, <4>3 DEF DeskHolds
    <3> QED BY <3>1, <3>2, <3>3 DEF HoldInv
  <2>3. CASE PropertiesNext
    <3>1. PICK r \in Clients : \/ client[r] = Resting /\ PropertyCall(r)
                               \/ client[r] # Resting /\ PropertyWork(r)
      BY <2>3 DEF PropertiesNext
    <3>2. NamesInv'
      BY <2>1, <3>1, PropertyCallStep, PropertyWorkStep
    <3>3. FilesHold' /\ DeskHolds'
      BY <2>1, <3>1, HoldCallStep, HoldWorkStep
    <3> QED BY <3>2, <3>3 DEF HoldInv
  <2> QED BY <2>2, <2>3
<1>3. HoldInv => HoldingsSound
  <2> SUFFICES ASSUME HoldInv PROVE HoldingsSound
    OBVIOUS
  <2>1. /\ CodeTypes /\ OwnersFit /\ FilesKnown /\ QuotaKept /\ BytesAccounted
        /\ LeadsFit /\ \A i \in DOMAIN prop \ overlap : Tidy(i)
    BY DEF HoldInv, NamesInv, FilesHold, DeskHolds
  <2>2. PropertiesTypeOK
    BY <2>1 DEF PropertiesTypeOK, CodeTypes, OwnersFit, FilesKnown, QuotaKept, Known
  <2>3. RemovalTakesFiles
    BY <2>1 DEF RemovalTakesFiles, Tidy, Counted
  <2>4. AllocationsStand
    BY <2>1 DEF AllocationsStand, LeadsFit, Tidy, Unallocated
  <2> QED BY <2>1, <2>2, <2>3, <2>4 DEF HoldingsSound
<1> QED BY <1>1, <1>2, <1>3, PTL DEF PropertiesSpec

-----------------------------------------------------------------------------
(* The masters and who names them *)

StockRow == [status : MasterCodes, taluka : MasterCodes, builder : BOOLEAN, deleted : BOOLEAN]
UnitRow == [no : UnitNos, status : MasterCodes]

Writing(w) == w.at \in {"add", "revive", "change"}
Naming(w) == w.at \in {"save", "unit"}

\* What a request carries, by its kind.
Carries(w) ==
  \/ w = AtRest
  \/ w.at = "add" /\ w.new \in MasterRow /\ ~w.new.deleted
  \/ /\ w.at \in {"revive", "change"} /\ w.new \in MasterRow /\ ~w.new.deleted
     /\ w.id \in DOMAIN row /\ row[w.id].key = w.new.key
  \/ w.at = "delete" /\ w.id \in DOMAIN row
  \/ /\ w.at = "save" /\ w.new.status \in MasterCodes /\ w.new.taluka \in MasterCodes
     /\ w.new.builder \in BOOLEAN
     /\ w.codes = {<<"status_type", w.new.status>>, <<"taluka", w.new.taluka>>}
  \/ w.at = "unit" /\ w.unit \in UnitRow /\ w.codes = {<<"builder_status", w.unit.status>>}

MasterTypes ==
  /\ row \in Seq(MasterRow) /\ unit \subseteq UnitRow /\ desk \in 0..MaxDesk
  /\ stock = Unsaved \/ stock \in StockRow
  /\ clerk = [k \in Clerks |-> clerk[k]]
  /\ \A k \in Clerks : Carries(clerk[k])

\* A code a row in use names is a master's, and so is one a request is about to
\* write; whoever deletes a row in use found its code unnamed.  The histories
\* excuse the rest.
InUse == {<<row[i].key, row[i].code>> : i \in {j \in DOMAIN row : ~row[j].deleted}}
Excuses == met \cup renamed
UsedInv ==
  /\ Named \subseteq InUse \cup Excuses
  /\ \A k \in Clerks : Naming(clerk[k]) => clerk[k].codes \subseteq InUse \cup Excuses
  /\ \A k \in Clerks : clerk[k].at = "delete" => clerk[k].codes \cap Named \subseteq Excuses
  /\ \A k, q \in Clerks : Naming(clerk[k]) /\ clerk[q].at = "delete" =>
       clerk[k].codes \cap clerk[q].codes \subseteq met

\* Two rows of one name: of one vocabulary, and of one taluka when it is the
\* villages'.
Alike(r, s) == /\ r.key = s.key /\ r.label = s.label
               /\ r.key = "shivar" => r.parent = s.parent

\* A name a request is about to give is nobody else's, unless two gave it.
LabelInv ==
  /\ MastersDistinct
  /\ \A k \in Clerks : Writing(clerk[k]) =>
       \A i \in DOMAIN row : ~row[i].deleted /\ Alike(row[i], clerk[k].new)
                             /\ (clerk[k].at # "add" => i # clerk[k].id) =>
         <<row[i].key, row[i].label>> \in twins
  /\ \A k, q \in Clerks : k # q /\ Writing(clerk[k]) /\ Writing(clerk[q])
                          /\ clerk[k].new.key = clerk[q].new.key /\ clerk[k].new.label = clerk[q].new.label =>
       <<clerk[k].new.key, clerk[k].new.label>> \in twins

MasterInv == MasterTypes /\ UsedInv /\ LabelInv /\ UnitNoOnce

\* A request goes on.
LEMMA ClerkTurn ==
  ASSUME MasterTypes, NEW k \in Clerks, NEW x, clerk' = [clerk EXCEPT ![k] = x]
  PROVE  /\ clerk' = [q \in Clerks |-> clerk'[q]] /\ clerk'[k] = x
         /\ \A q \in Clerks : q # k => clerk'[q] = clerk[q]
<1>1. clerk = [q \in Clerks |-> clerk[q]]
  BY DEF MasterTypes
<1>2. clerk' = [q \in Clerks |-> IF q = k THEN x ELSE clerk[q]]
  BY <1>1
<1> QED BY <1>2

\* A request at rest neither names, nor deletes, nor writes.
LEMMA RestIsQuiet == ~Naming(AtRest) /\ ~Writing(AtRest) /\ AtRest.at # "delete" /\ Carries(AtRest)
BY DEF Naming, Writing, AtRest, Carries

\* While no master changes: a request goes on, and what it is about to do fits
\* with the others; rows in use may name fewer codes.
LEMMA MastersStand ==
  ASSUME MasterInv, NEW k \in Clerks, NEW x, clerk' = [clerk EXCEPT ![k] = x],
         row' = row, renamed' = renamed, met \subseteq met', twins \subseteq twins', desk' \in 0..MaxDesk,
         stock' = Unsaved \/ stock' \in StockRow, unit' \subseteq unit, Named' \subseteq Named,
         Carries(x),
         Naming(x) => /\ x.codes \subseteq InUse
                      /\ \A q \in Clerks \ {k} : clerk[q].at = "delete" => x.codes \cap clerk[q].codes \subseteq met',
         x.at = "delete" => /\ x.codes \cap Named = {}
                            /\ \A q \in Clerks \ {k} : Naming(clerk[q]) => clerk[q].codes \cap x.codes \subseteq met',
         Writing(x) =>
           /\ \A i \in DOMAIN row : ~row[i].deleted /\ Alike(row[i], x.new) /\ (x.at # "add" => i # x.id) =>
                <<row[i].key, row[i].label>> \in twins
           /\ \A q \in Clerks \ {k} : Writing(clerk[q]) /\ clerk[q].new.key = x.new.key
                                      /\ clerk[q].new.label = x.new.label =>
                <<x.new.key, x.new.label>> \in twins'
  PROVE  MasterInv'
<1>1. MasterTypes /\ UsedInv /\ LabelInv /\ UnitNoOnce
  BY DEF MasterInv
<1>2. /\ clerk' = [q \in Clerks |-> clerk'[q]] /\ clerk'[k] = x
      /\ \A q \in Clerks : q # k => clerk'[q] = clerk[q]
  BY <1>1, ClerkTurn
<1>3. MasterTypes'
  <2>1. \A w : Carries(w) => Carries(w)'
    BY DEF Carries
  <2>2. ASSUME NEW q \in Clerks
        PROVE  Carries(clerk[q])'
    <3>1. Carries(clerk'[q])
      BY <1>1, <1>2 DEF MasterTypes
    <3> QED BY <3>1 DEF Carries
  <2> QED BY <1>1, <1>2, <2>2 DEF MasterTypes
<1>4. InUse' = InUse /\ Excuses \subseteq Excuses' /\ met \subseteq met'
  BY DEF InUse, Excuses
<1>5. UsedInv'
  <2>1. Named' \subseteq InUse' \cup Excuses'
    BY <1>1, <1>4 DEF UsedInv
  <2>2. ASSUME NEW q \in Clerks, Naming(clerk'[q])
        PROVE  clerk'[q].codes \subseteq InUse' \cup Excuses'
    BY <1>1, <1>2, <1>4, <2>2 DEF UsedInv
  <2>3. ASSUME NEW q \in Clerks, clerk'[q].at = "delete"
        PROVE  clerk'[q].codes \cap Named' \subseteq Excuses'
    BY <1>1, <1>2, <1>4, <2>3 DEF UsedInv
  <2>4. ASSUME NEW p \in Clerks, NEW q \in Clerks, Naming(clerk'[p]), clerk'[q].at = "delete"
        PROVE  clerk'[p].codes \cap clerk'[q].codes \subseteq met'
    <3>1. p # q
      BY <2>4 DEF Naming
    <3>2. CASE p = k
      BY <1>2, <2>4, <3>1, <3>2
    <3>3. CASE q = k
      BY <1>2, <2>4, <3>1, <3>3
    <3>4. CASE p # k /\ q # k
      BY <1>1, <1>2, <2>4, <3>4 DEF UsedInv
    <3> QED BY <3>2, <3>3, <3>4
  <2>5. \A q \in Clerks : Naming(clerk[q])' <=> Naming(clerk'[q])
    BY DEF Naming
  <2> QED BY <2>1, <2>2, <2>3, <2>4, <2>5 DEF UsedInv
<1>6. LabelInv'
  <2>1. MastersDistinct'
    BY <1>1 DEF LabelInv, MastersDistinct, OncePerKey
  <2>2. ASSUME NEW q \in Clerks, Writing(clerk'[q]), NEW i \in DOMAIN row, ~row[i].deleted,
               Alike(row[i], clerk'[q].new), clerk'[q].at # "add" => i # clerk'[q].id
        PROVE  <<row[i].key, row[i].label>> \in twins'
    BY <1>1, <1>2, <2>2 DEF LabelInv
  <2>3. ASSUME NEW p \in Clerks, NEW q \in Clerks, p # q, Writing(clerk'[p]), Writing(clerk'[q]),
               clerk'[p].new.key = clerk'[q].new.key, clerk'[p].new.label = clerk'[q].new.label
        PROVE  <<clerk'[p].new.key, clerk'[p].new.label>> \in twins'
    <3>1. CASE p = k
      BY <1>2, <2>3, <3>1
    <3>2. CASE q = k
      BY <1>2, <2>3, <3>2
    <3>3. CASE p # k /\ q # k
      BY <1>1, <1>2, <2>3, <3>3 DEF LabelInv
    <3> QED BY <3>1, <3>2, <3>3
  <2>4. \A q \in Clerks : Writing(clerk[q])' <=> Writing(clerk'[q])
    BY DEF Writing
  <2> QED BY <2>1, <2>2, <2>3, <2>4 DEF LabelInv, Alike
<1>7. UnitNoOnce'
  BY <1>1 DEF UnitNoOnce
<1> QED BY <1>3, <1>5, <1>6, <1>7 DEF MasterInv

\* What Meeting records: the codes of any two requests at once.
LEMMA MeetingTells ==
  ASSUME NEW k \in Clerks, NEW codes, Meeting(k, codes)
  PROVE  /\ met \subseteq met'
         /\ \A q \in Clerks \ {k} : clerk[q].at # "idle" => codes \cap clerk[q].codes \subseteq met'
BY DEF Meeting, Touched, AtRest

\* A request that is free is served.
LEMMA ServeTurn ==
  ASSUME MasterTypes, NEW k \in Clerks, NEW x, Serve(k, x)
  PROVE  desk' \in 0..MaxDesk /\ clerk' = [clerk EXCEPT ![k] = x]
BY MastersAssumption DEF MasterTypes, Serve

\* The rows and their parts.
LEMMA MasterRows ==
  ASSUME MasterTypes
  PROVE  /\ DOMAIN row = 1..Len(row)
         /\ \A i \in DOMAIN row : /\ row[i] \in MasterRow /\ row[i].key \in MasterKeys
                                  /\ row[i].code \in MasterCodes
                                  /\ row[i].label \in Labels /\ row[i].parent \in MasterCodes \cup {NoParent}
                                  /\ row[i].active \in BOOLEAN /\ row[i].deleted \in BOOLEAN
<1>1. row \in Seq(MasterRow)
  BY DEF MasterTypes
<1>2. DOMAIN row = 1..Len(row) /\ \A i \in DOMAIN row : row[i] \in MasterRow
  BY <1>1
<1> QED BY <1>2 DEF MasterRow

\* A master is created, or a deleted one is to be revived under the code and
\* the name typed: nobody in use has the name.
LEMMA StartMasterStep ==
  ASSUME MasterInv, NEW k \in Clerks, NEW key \in MasterKeys, NEW c \in MasterCodes, NEW l \in Labels,
         NEW p \in Parents, StartMaster(k, key, c, l, p)
  PROVE  MasterInv'
<1> DEFINE new == [key |-> key, code |-> c, label |-> l, parent |-> Parent(key, p),
                   active |-> TRUE, deleted |-> FALSE]
<1>1. MasterTypes
  BY DEF MasterInv
<1>2. new \in MasterRow /\ ~new.deleted /\ new.key = key /\ new.label = l /\ new.parent = Parent(key, p)
  BY MastersAssumption DEF MasterRow, Parent
<1>3. /\ row' = row /\ stock' = stock /\ unit' = unit /\ renamed' = renamed
      /\ met \subseteq met' /\ twins \subseteq twins' /\ Named' = Named
  BY MeetingTells DEF StartMaster, Named
<1>4. \A i \in DOMAIN row : ~row[i].deleted => ~Alike(row[i], new)
  <2>1. findByLabel(key, l, Parent(key, p)) = {}
    BY DEF StartMaster
  <2>2. \A i \in DOMAIN row : ~row[i].deleted /\ row[i].key = key /\ row[i].label = l
                              /\ (key = "shivar" => row[i].parent = Parent(key, p)) =>
          i \in findByLabel(key, l, Parent(key, p))
    BY <1>1, MasterRows DEF findByLabel, Keyed, Scope
  <2> QED BY <1>2, <2>1, <2>2 DEF Alike
<1>5. \A q \in Clerks \ {k} : Writing(clerk[q]) /\ clerk[q].new.key = key /\ clerk[q].new.label = l =>
        <<key, l>> \in twins'
  BY DEF StartMaster, Writing
<1> HIDE DEF new
<1>6. ASSUME NEW x, Serve(k, x), x.at \in {"add", "revive"}, x.new = new, Carries(x)
      PROVE  MasterInv'
  <2>1. desk' \in 0..MaxDesk /\ clerk' = [clerk EXCEPT ![k] = x]
    BY <1>1, <1>6, ServeTurn
  <2>2. Writing(x) /\ ~Naming(x) /\ x.at # "delete"
    BY <1>6 DEF Writing, Naming
  <2>3. (stock' = Unsaved \/ stock' \in StockRow) /\ unit' \subseteq unit /\ Named' \subseteq Named
    BY <1>1, <1>3 DEF MasterTypes
  <2> QED BY <1>2, <1>3, <1>4, <1>5, <1>6, <2>1, <2>2, <2>3, MastersStand
<1>7. CASE Serve(k, [at |-> "add", new |-> new, codes |-> {<<key, c>>}])
  <2> DEFINE x == [at |-> "add", new |-> new, codes |-> {<<key, c>>}]
  <2>1. x.at = "add" /\ x.new = new /\ Carries(x)
    BY <1>2 DEF Carries
  <2> HIDE DEF x
  <2> QED BY <1>6, <1>7, <2>1 DEF x
<1>8. ASSUME NEW i \in DOMAIN row, row[i].key = key,
             Serve(k, [at |-> "revive", id |-> i, new |-> new, codes |-> {<<key, c>>, <<key, row[i].code>>}])
      PROVE  MasterInv'
  <2> DEFINE x == [at |-> "revive", id |-> i, new |-> new, codes |-> {<<key, c>>, <<key, row[i].code>>}]
  <2>1. x.at = "revive" /\ x.new = new /\ Carries(x)
    BY <1>2, <1>8 DEF Carries
  <2> HIDE DEF x
  <2> QED BY <1>6, <1>8, <2>1 DEF x
<1>9. \/ Serve(k, [at |-> "add", new |-> new, codes |-> {<<key, c>>}])
      \/ \E i \in DOMAIN row : row[i].key = key /\
           Serve(k, [at |-> "revive", id |-> i, new |-> new, codes |-> {<<key, c>>, <<key, row[i].code>>}])
  BY DEF StartMaster, findDeletedByCode, findDeletedByLabel, Keyed, new
<1> QED BY <1>7, <1>8, <1>9

\* A master is to be changed: the name is the row's own, or nobody's in use.
LEMMA StartUpdateStep ==
  ASSUME MasterInv, NEW k \in Clerks, NEW i \in DOMAIN row, NEW c \in MasterCodes, NEW l \in Labels,
         NEW active \in BOOLEAN, StartUpdate(k, i, c, l, row[i].parent, active)
  PROVE  MasterInv'
<1> DEFINE key == row[i].key
           p == Parent(key, row[i].parent)
           new == [row[i] EXCEPT !.code = c, !.label = l, !.parent = p, !.active = active]
           x == [at |-> "change", id |-> i, new |-> new, codes |-> {<<key, c>>, <<key, row[i].code>>}]
<1>1. MasterTypes /\ LabelInv /\ ~row[i].deleted
  BY DEF MasterInv, StartUpdate
<1>2. new \in MasterRow /\ ~new.deleted /\ new.key = key /\ new.label = l /\ new.parent = p
  BY <1>1, MasterRows DEF MasterRow, Parent
<1>3. /\ row' = row /\ stock' = stock /\ unit' = unit /\ renamed' = renamed
      /\ met \subseteq met' /\ twins \subseteq twins' /\ Named' = Named /\ Serve(k, x)
  BY MeetingTells DEF StartUpdate, Named
<1>4. ASSUME NEW j \in DOMAIN row, ~row[j].deleted, Alike(row[j], new), j # i
      PROVE  <<row[j].key, row[j].label>> \in twins
  <2>1. row[j].key = key /\ row[j].label = l /\ (key = "shivar" => row[j].parent = p)
    BY <1>2, <1>4 DEF Alike
  <2>2. CASE l = row[i].label /\ (key = "shivar" => new.parent = row[i].parent)
    BY <1>1, <1>2, <1>4, <2>1, <2>2 DEF LabelInv, MastersDistinct, OncePerKey
  <2>3. CASE findByLabel(key, l, new.parent) \subseteq {i}
    <3>1. j \in findByLabel(key, l, new.parent)
      BY <1>1, <1>2, <1>4, <2>1, MasterRows DEF findByLabel, Keyed, Scope
    <3> QED BY <1>4, <2>3, <3>1
  <2> QED BY <2>2, <2>3 DEF StartUpdate
<1>5. \A q \in Clerks \ {k} : Writing(clerk[q]) /\ clerk[q].new.key = key /\ clerk[q].new.label = l =>
        <<key, l>> \in twins'
  BY DEF StartUpdate, Writing
<1> HIDE DEF new
<1>6. x.at = "change" /\ x.new = new /\ x.id = i /\ Carries(x)
  BY <1>2 DEF Carries
<1>7. Writing(x) /\ ~Naming(x) /\ x.at # "delete"
  BY <1>6 DEF Writing, Naming
<1> HIDE DEF x
<1>8. desk' \in 0..MaxDesk /\ clerk' = [clerk EXCEPT ![k] = x]
  BY <1>1, <1>3, ServeTurn
<1>9. (stock' = Unsaved \/ stock' \in StockRow) /\ unit' \subseteq unit /\ Named' \subseteq Named
  BY <1>1, <1>3 DEF MasterTypes
<1>10. \A j \in DOMAIN row : ~row[j].deleted /\ Alike(row[j], x.new) /\ (x.at # "add" => j # x.id) =>
         <<row[j].key, row[j].label>> \in twins
  BY <1>4, <1>6
<1>11. \A q \in Clerks \ {k} : Writing(clerk[q]) /\ clerk[q].new.key = x.new.key /\ clerk[q].new.label = x.new.label =>
         <<x.new.key, x.new.label>> \in twins'
  BY <1>2, <1>5, <1>6
<1> QED BY <1>3, <1>6, <1>7, <1>8, <1>9, <1>10, <1>11, MastersStand

\* A master is to be deleted: no row in use names it.
LEMMA StartRemoveStep ==
  ASSUME MasterInv, NEW k \in Clerks, NEW i \in DOMAIN row, StartRemoveMaster(k, i)
  PROVE  MasterInv'
<1> DEFINE x == [at |-> "delete", id |-> i, codes |-> {<<row[i].key, row[i].code>>}]
<1>1. MasterTypes
  BY DEF MasterInv
<1>2. /\ row' = row /\ stock' = stock /\ unit' = unit /\ renamed' = renamed /\ twins' = twins
      /\ Meeting(k, {<<row[i].key, row[i].code>>}) /\ Named' = Named /\ Serve(k, x)
  BY DEF StartRemoveMaster, Named
<1>3. <<row[i].key, row[i].code>> \notin Named
  BY DEF StartRemoveMaster, UsageOf, StockNames, UnitNames, Named
<1>4. x.at = "delete" /\ x.codes = {<<row[i].key, row[i].code>>} /\ Carries(x)
  BY DEF Carries
<1>5. ~Writing(x) /\ ~Naming(x)
  BY <1>4 DEF Writing, Naming
<1> HIDE DEF x
<1>6. desk' \in 0..MaxDesk /\ clerk' = [clerk EXCEPT ![k] = x]
  BY <1>1, <1>2, ServeTurn
<1>7. /\ met \subseteq met' /\ \A q \in Clerks \ {k} : Naming(clerk[q]) => clerk[q].codes \cap x.codes \subseteq met'
  BY <1>2, <1>4, MeetingTells DEF Naming
<1>8. (stock' = Unsaved \/ stock' \in StockRow) /\ unit' \subseteq unit /\ Named' \subseteq Named
  BY <1>1, <1>2 DEF MasterTypes
<1> QED BY <1>2, <1>3, <1>4, <1>5, <1>6, <1>7, <1>8, MastersStand

\* A row that names masters is to be written: each of its codes was found.
LEMMA SaveStep ==
  ASSUME MasterInv, NEW k \in Clerks, NEW x, Serve(k, x), Naming(x), Carries(x),
         Meeting(k, x.codes), x.codes \subseteq InUse,
         row' = row, stock' = stock, unit' = unit, renamed' = renamed, twins' = twins
  PROVE  MasterInv'
<1>1. MasterTypes
  BY DEF MasterInv
<1>2. desk' \in 0..MaxDesk /\ clerk' = [clerk EXCEPT ![k] = x]
  BY <1>1, ServeTurn
<1>3. ~Writing(x) /\ x.at # "delete"
  BY DEF Writing, Naming
<1>4. met \subseteq met' /\ \A q \in Clerks \ {k} : clerk[q].at = "delete" => x.codes \cap clerk[q].codes \subseteq met'
  BY MeetingTells
<1>5. /\ stock' = Unsaved \/ stock' \in StockRow
      /\ unit' \subseteq unit /\ Named' \subseteq Named /\ twins \subseteq twins'
  BY <1>1 DEF MasterTypes, Named
<1> QED BY <1>2, <1>3, <1>4, <1>5, MastersStand

\* The property's status and taluka are checked.
LEMMA SaveStockStep ==
  ASSUME MasterInv, NEW k \in Clerks, NEW s \in MasterCodes, NEW t \in MasterCodes, NEW bld \in BOOLEAN,
         SaveStock(k, s, t, bld)
  PROVE  MasterInv'
<1> DEFINE codes == {<<"status_type", s>>, <<"taluka", t>>}
           x == [at |-> "save", codes |-> codes,
                 new |-> [key |-> "stock", status |-> s, taluka |-> t, builder |-> bld]]
<1>1. Serve(k, x) /\ Meeting(k, codes)
  BY DEF SaveStock
<1>2. x.at = "save" /\ x.codes = codes /\ Carries(x)
  BY DEF Carries
<1>3. codes \subseteq InUse
  BY DEF SaveStock, assertActiveCode, findByCode, Keyed, InUse
<1> HIDE DEF x
<1>4. Naming(x)
  BY <1>2 DEF Naming
<1> QED BY <1>1, <1>2, <1>3, <1>4, SaveStep DEF SaveStock

\* The status of a unit is checked.
LEMMA SaveUnitStep ==
  ASSUME MasterInv, NEW k \in Clerks, NEW no \in UnitNos, NEW s \in MasterCodes, NEW old, SaveUnit(k, no, s, old)
  PROVE  MasterInv'
<1> DEFINE u == [no |-> no, status |-> s]
           codes == {<<"builder_status", s>>}
           x == [at |-> "unit", unit |-> u, old |-> old, codes |-> codes]
<1>1. Serve(k, x) /\ Meeting(k, codes)
  BY DEF SaveUnit
<1>2. x.at = "unit" /\ x.codes = codes /\ Carries(x)
  BY DEF Carries, UnitRow
<1>3. codes \subseteq InUse
  BY DEF SaveUnit, assertActiveCode, findByCode, Keyed, InUse
<1> HIDE DEF x
<1>4. Naming(x)
  BY <1>2 DEF Naming
<1> QED BY <1>1, <1>2, <1>3, <1>4, SaveStep DEF SaveUnit

\* A property or a unit goes: fewer codes are named.
LEMMA RemovalStep ==
  ASSUME MasterInv, NEW k \in Clerks, RemoveStock(k) \/ \E u \in unit : removeUnit(k, u)
  PROVE  MasterInv'
<1>1. MasterTypes /\ Serve(k, AtRest)
  BY DEF MasterInv, RemoveStock, removeUnit
<1>2. desk' \in 0..MaxDesk /\ clerk' = [clerk EXCEPT ![k] = AtRest]
  BY <1>1, ServeTurn
<1>3. row' = row /\ met' = met /\ renamed' = renamed /\ twins' = twins
  BY DEF RemoveStock, removeUnit
<1>4. (stock' = Unsaved \/ stock' \in StockRow) /\ unit' \subseteq unit /\ Named' \subseteq Named
  <2>1. CASE RemoveStock(k)
    <3>1. stock \in StockRow /\ stock' = [stock EXCEPT !.deleted = TRUE] /\ unit' = unit
      BY <1>1, <2>1 DEF RemoveStock, MasterTypes
    <3>2. stock' \in StockRow /\ stock'.deleted
      BY <3>1 DEF StockRow
    <3> QED BY <3>1, <3>2 DEF Named
  <2>2. ASSUME NEW u \in unit, removeUnit(k, u)
        PROVE  (stock' = Unsaved \/ stock' \in StockRow) /\ unit' \subseteq unit /\ Named' \subseteq Named
    <3>1. stock' = stock /\ unit' \subseteq unit
      BY <2>2 DEF removeUnit
    <3> QED BY <1>1, <3>1 DEF MasterTypes, Named
  <2> QED BY <2>1, <2>2
<1> QED BY <1>2, <1>3, <1>4, RestIsQuiet, MastersStand

\* A master row is written: rows keep their keys, and the codes named, or about
\* to be, are still in use or excused.
LEMMA RowWritten ==
  ASSUME MasterInv, NEW k \in Clerks, clerk' = [clerk EXCEPT ![k] = AtRest],
         stock' = stock, unit' = unit, desk' = desk, met \subseteq met', renamed \subseteq renamed',
         row' \in Seq(MasterRow), DOMAIN row \subseteq DOMAIN row',
         \A i \in DOMAIN row : row'[i].key = row[i].key,
         Named \subseteq InUse' \cup Excuses',
         \A q \in Clerks \ {k} : Naming(clerk[q]) => clerk[q].codes \subseteq InUse' \cup Excuses',
         LabelInv'
  PROVE  MasterInv'
<1>1. MasterTypes /\ UsedInv /\ UnitNoOnce
  BY DEF MasterInv
<1>2. /\ clerk' = [q \in Clerks |-> clerk'[q]] /\ clerk'[k] = AtRest
      /\ \A q \in Clerks : q # k => clerk'[q] = clerk[q]
  BY <1>1, ClerkTurn
<1>3. MasterTypes'
  <2>1. ASSUME NEW q \in Clerks
        PROVE  Carries(clerk[q])'
    <3>1. CASE q = k
      BY <1>2, <3>1 DEF Carries
    <3>2. CASE q # k
      <4>1. clerk'[q] = clerk[q] /\ Carries(clerk[q])
        BY <1>1, <1>2, <3>2 DEF MasterTypes
      <4> QED BY <4>1 DEF Carries
    <3> QED BY <3>1, <3>2
  <2> QED BY <1>1, <1>2, <2>1 DEF MasterTypes
<1>4. Named' = Named /\ Excuses \subseteq Excuses'
  BY DEF Named, Excuses
<1>5. UsedInv'
  <2>1. \A q \in Clerks : /\ Naming(clerk[q])' <=> Naming(clerk'[q])
                          /\ Naming(clerk'[q]) \/ clerk'[q].at = "delete" => q # k /\ clerk'[q] = clerk[q]
    BY <1>2, RestIsQuiet DEF Naming
  <2>2. ASSUME NEW q \in Clerks, Naming(clerk'[q])
        PROVE  clerk'[q].codes \subseteq InUse' \cup Excuses'
    BY <2>1, <2>2
  <2>3. ASSUME NEW q \in Clerks, clerk'[q].at = "delete"
        PROVE  clerk'[q].codes \cap Named' \subseteq Excuses'
    BY <1>1, <1>4, <2>1, <2>3 DEF UsedInv
  <2>4. ASSUME NEW p \in Clerks, NEW q \in Clerks, Naming(clerk'[p]), clerk'[q].at = "delete"
        PROVE  clerk'[p].codes \cap clerk'[q].codes \subseteq met'
    BY <1>1, <2>1, <2>4 DEF UsedInv
  <2> QED BY <1>4, <2>1, <2>2, <2>3, <2>4 DEF UsedInv
<1>6. UnitNoOnce'
  BY <1>1 DEF UnitNoOnce
<1> QED BY <1>3, <1>5, <1>6 DEF MasterInv

\* The row a request wrote has its code to itself, by the index, and its name
\* as well, unless two requests gave it.
LEMMA LabelWritten ==
  ASSUME MasterInv, NEW k \in Clerks, Writing(clerk[k]), clerk' = [clerk EXCEPT ![k] = AtRest],
         twins' = twins, row' \in Seq(MasterRow), NEW i \in DOMAIN row', row'[i] = clerk[k].new,
         clerk[k].at # "add" => i = clerk[k].id,
         \A j \in DOMAIN row' \ {i} : j \in DOMAIN row /\ row'[j] = row[j],
         CodeIsFree(clerk[k].new, i)
  PROVE  LabelInv'
<1> DEFINE new == clerk[k].new
<1>1. MasterTypes /\ LabelInv
  BY DEF MasterInv
<1>2. /\ clerk' = [q \in Clerks |-> clerk'[q]] /\ clerk'[k] = AtRest
      /\ \A q \in Clerks : q # k => clerk'[q] = clerk[q]
  BY <1>1, ClerkTurn
<1>3. \A q \in Clerks : Writing(clerk[q])' => q # k /\ clerk'[q] = clerk[q] /\ Writing(clerk[q])
  BY <1>2, RestIsQuiet DEF Writing
<1>4. ~new.deleted
  BY <1>1 DEF MasterTypes, Carries, Writing, AtRest
<1>5. \A j \in DOMAIN row' \ {i} : /\ j \in DOMAIN row /\ row'[j] = row[j]
                                   /\ row[j].key = new.key => row[j].code # new.code
                                   /\ ~row[j].deleted /\ Alike(row[j], new) => <<row[j].key, row[j].label>> \in twins
  BY <1>1 DEF LabelInv, CodeIsFree
<1>6. \A r, s : Alike(r, s) => r.key = s.key /\ r.label = s.label /\ Alike(s, r)
  BY DEF Alike
<1>7. MastersDistinct'
  <2> SUFFICES ASSUME NEW m \in DOMAIN row', NEW n \in DOMAIN row', m # n, row'[m].key = row'[n].key
               PROVE  /\ row'[m].code # row'[n].code
                      /\ (/\ ~row'[m].deleted /\ ~row'[n].deleted /\ row'[m].label = row'[n].label
                          /\ row'[m].key = "shivar" => row'[m].parent = row'[n].parent)
                         => <<row'[m].key, row'[m].label>> \in twins
    BY DEF MastersDistinct, OncePerKey
  <2>1. CASE m = i
    <3>1. row'[m] = new /\ n # i /\ row'[n] = row[n] /\ row[n].key = new.key
      BY <1>5, <2>1
    <3>2. row[n].label = new.label /\ (new.key = "shivar" => new.parent = row[n].parent) => Alike(row[n], new)
      BY <3>1 DEF Alike
    <3> QED BY <1>5, <3>1, <3>2
  <2>2. CASE n = i
    BY <1>5, <1>6, <2>2 DEF Alike
  <2>3. CASE m # i /\ n # i
    BY <1>1, <1>5, <2>3 DEF LabelInv, MastersDistinct, OncePerKey
  <2> QED BY <2>1, <2>2, <2>3
<1>8. ASSUME NEW q \in Clerks, Writing(clerk[q])', NEW j \in DOMAIN row', ~row'[j].deleted,
             Alike(row'[j], clerk'[q].new), clerk'[q].at # "add" => j # clerk'[q].id
      PROVE  <<row'[j].key, row'[j].label>> \in twins
  <2>1. q # k /\ clerk'[q] = clerk[q] /\ Writing(clerk[q])
    BY <1>3, <1>8
  <2>2. CASE j = i
    BY <1>1, <1>6, <1>8, <2>1, <2>2 DEF LabelInv
  <2>3. CASE j # i
    BY <1>1, <1>5, <1>8, <2>1, <2>3 DEF LabelInv
  <2> QED BY <2>2, <2>3
<1>9. ASSUME NEW p \in Clerks, NEW q \in Clerks, p # q, Writing(clerk[p])', Writing(clerk[q])',
             clerk'[p].new.key = clerk'[q].new.key, clerk'[p].new.label = clerk'[q].new.label
      PROVE  <<clerk'[p].new.key, clerk'[p].new.label>> \in twins
  BY <1>1, <1>3, <1>9 DEF LabelInv
<1> QED BY <1>7, <1>8, <1>9 DEF LabelInv, Alike

\* The code of a row in use is replaced: it is excused.
LEMMA RenamingTells ==
  ASSUME NEW old, NEW new, Renaming(old, new)
  PROVE  /\ renamed \subseteq renamed'
         /\ ~old.deleted /\ old.code # new.code => <<old.key, old.code>> \in renamed'
BY DEF Renaming

\* What was in use before and is excused now, or in use still, keeps the promise
\* to those who name it.
LEMMA StillUsed ==
  ASSUME MasterInv, InUse \subseteq InUse' \cup Excuses', Excuses \subseteq Excuses'
  PROVE  /\ Named \subseteq InUse' \cup Excuses'
         /\ \A q \in Clerks : Naming(clerk[q]) => clerk[q].codes \subseteq InUse' \cup Excuses'
BY DEF MasterInv, UsedInv

\* A new master, unless the index refuses its code.
LEMMA AddMasterStep ==
  ASSUME MasterInv, NEW k \in Clerks, AddMaster(k)
  PROVE  MasterInv'
<1> DEFINE new == clerk[k].new
<1>1. MasterTypes /\ LabelInv
  BY DEF MasterInv
<1>2. /\ clerk[k].at = "add" /\ clerk' = [clerk EXCEPT ![k] = AtRest]
      /\ stock' = stock /\ unit' = unit /\ desk' = desk /\ met' = met /\ renamed' = renamed /\ twins' = twins
  BY DEF AddMaster, Done
<1>3. new \in MasterRow /\ Writing(clerk[k])
  BY <1>1, <1>2 DEF MasterTypes, Carries, Writing, AtRest
<1>4. CASE CodeIsFree(new, 0)
  <2> DEFINE i == Len(row) + 1
  <2> HIDE DEF new
  <2>1. row' = Append(row, new) /\ row \in Seq(MasterRow) /\ DOMAIN row = 1..Len(row)
    BY <1>1, <1>4 DEF AddMaster, MasterTypes, new
  <2>2. /\ row' \in Seq(MasterRow) /\ DOMAIN row' = 1..i /\ i \in DOMAIN row' /\ row'[i] = new
        /\ i \notin DOMAIN row /\ DOMAIN row \subseteq DOMAIN row'
        /\ \A j \in DOMAIN row' \ {i} : j \in DOMAIN row /\ row'[j] = row[j]
        /\ \A j \in DOMAIN row : row'[j] = row[j]
    BY <1>3, <2>1
  <2> HIDE DEF i
  <2>3. InUse \subseteq InUse' /\ Excuses' = Excuses
    BY <1>2, <2>2 DEF InUse, Excuses
  <2>4. CodeIsFree(new, i)
    BY <1>4, <2>1, <2>2 DEF CodeIsFree
  <2>5. LabelInv'
    BY <1>2, <1>3, <2>2, <2>4, LabelWritten DEF new
  <2> QED BY <1>2, <2>2, <2>3, <2>5, StillUsed, RowWritten
<1>5. CASE ~CodeIsFree(new, 0)
  <2>1. row' = row /\ Named' = Named
    BY <1>2, <1>5 DEF AddMaster, Named
  <2>2. stock' = Unsaved \/ stock' \in StockRow
    BY <1>1, <1>2 DEF MasterTypes
  <2> QED BY <1>1, <1>2, <2>1, <2>2, RestIsQuiet, MastersStand DEF MasterTypes
<1> QED BY <1>4, <1>5

\* A request that writes nothing ends.
LEMMA NothingWritten ==
  ASSUME MasterInv, NEW k \in Clerks, clerk' = [clerk EXCEPT ![k] = AtRest],
         row' = row, stock' = stock, unit' = unit, desk' = desk, met' = met, renamed' = renamed, twins' = twins
  PROVE  MasterInv'
<1>1. MasterTypes /\ Named' = Named
  BY DEF MasterInv, Named
<1> QED BY <1>1, RestIsQuiet, MastersStand DEF MasterTypes

\* A master is overwritten, revived or changed.
LEMMA OverwriteStep ==
  ASSUME MasterInv, NEW k \in Clerks, ReviveMaster(k) \/ ChangeMaster(k)
  PROVE  MasterInv'
<1> DEFINE i == clerk[k].id
           new == clerk[k].new
<1>1. MasterTypes /\ LabelInv
  BY DEF MasterInv
<1>2. /\ clerk[k].at \in {"revive", "change"} /\ clerk' = [clerk EXCEPT ![k] = AtRest]
      /\ stock' = stock /\ unit' = unit /\ desk' = desk /\ met' = met /\ twins' = twins
  BY DEF ReviveMaster, ChangeMaster, Done
<1>3. /\ new \in MasterRow /\ ~new.deleted /\ Writing(clerk[k]) /\ clerk[k].at # "add"
      /\ i \in DOMAIN row /\ row[i].key = new.key
  BY <1>1, <1>2 DEF MasterTypes, Carries, Writing, AtRest
<1>4. \/ CodeIsFree(new, i) /\ row' = [row EXCEPT ![i] = new] /\ Renaming(row[i], new)
      \/ row' = row /\ renamed' = renamed
  BY DEF ReviveMaster, ChangeMaster
<1>5. CASE CodeIsFree(new, i) /\ row' = [row EXCEPT ![i] = new] /\ Renaming(row[i], new)
  <2>1. row \in Seq(MasterRow) /\ DOMAIN row = 1..Len(row)
    BY <1>1 DEF MasterTypes
  <2> HIDE DEF new, i
  <2>2. /\ row' \in Seq(MasterRow) /\ DOMAIN row' = DOMAIN row /\ row'[i] = new
        /\ \A j \in DOMAIN row \ {i} : row'[j] = row[j]
    BY <1>3, <1>5, <2>1
  <2>3. /\ renamed \subseteq renamed'
        /\ ~row[i].deleted /\ row[i].code # new.code => <<row[i].key, row[i].code>> \in renamed'
    BY <1>5, RenamingTells
  <2>4. \A j \in DOMAIN row : row'[j].key = row[j].key
    BY <1>3, <2>2
  <2>5. InUse \subseteq InUse' \cup Excuses' /\ Excuses \subseteq Excuses'
    <3>1. ASSUME NEW j \in DOMAIN row, ~row[j].deleted
          PROVE  <<row[j].key, row[j].code>> \in InUse' \cup Excuses'
      <4>1. CASE j = i /\ row[i].code # new.code
        BY <2>3, <3>1, <4>1 DEF Excuses
      <4>2. CASE j = i /\ row[i].code = new.code
        BY <1>3, <2>2, <4>2 DEF InUse
      <4>3. CASE j # i
        BY <2>2, <3>1, <4>3 DEF InUse
      <4> QED BY <4>1, <4>2, <4>3
    <3> QED BY <1>2, <2>3, <3>1 DEF InUse, Excuses
  <2>6. LabelInv'
    BY <1>2, <1>3, <1>5, <2>2, LabelWritten DEF new, i
  <2>7. /\ Named \subseteq InUse' \cup Excuses'
        /\ \A q \in Clerks \ {k} : Naming(clerk[q]) => clerk[q].codes \subseteq InUse' \cup Excuses'
    BY <2>5, StillUsed
  <2> QED BY <1>2, <2>2, <2>3, <2>4, <2>6, <2>7, RowWritten
<1>6. CASE row' = row /\ renamed' = renamed
  BY <1>2, <1>6, NothingWritten
<1> QED BY <1>4, <1>5, <1>6

\* A master is deleted: nobody names the code it was counted under, and the one
\* it has now, if another, is excused.
LEMMA DeleteMasterStep ==
  ASSUME MasterInv, NEW k \in Clerks, DeleteMaster(k)
  PROVE  MasterInv'
<1> DEFINE i == clerk[k].id
           gone == <<row[i].key, row[i].code>>
           new == [row[i] EXCEPT !.deleted = TRUE, !.active = FALSE]
<1>1. MasterTypes /\ UsedInv /\ LabelInv
  BY DEF MasterInv
<1>2. /\ clerk[k].at = "delete" /\ clerk' = [clerk EXCEPT ![k] = AtRest]
      /\ stock' = stock /\ unit' = unit /\ desk' = desk /\ renamed' = renamed /\ twins' = twins
  BY DEF DeleteMaster, Done
<1>3. i \in DOMAIN row /\ row \in Seq(MasterRow) /\ DOMAIN row = 1..Len(row) /\ row[i] \in MasterRow
  BY <1>1, <1>2, MasterRows DEF MasterTypes, Carries, AtRest
<1>4. row' = [row EXCEPT ![i] = new]
  BY <1>3 DEF DeleteMaster
<1>5. met' = IF row[i].deleted THEN met ELSE met \cup ({gone} \ clerk[k].codes)
  BY DEF DeleteMaster
<1>6. new \in MasterRow /\ new.deleted /\ new.key = row[i].key /\ new.code = row[i].code
  BY <1>3 DEF MasterRow
<1> HIDE DEF i, new
<1>7. /\ row' \in Seq(MasterRow) /\ DOMAIN row' = DOMAIN row /\ row'[i] = new
      /\ \A j \in DOMAIN row \ {i} : row'[j] = row[j]
      /\ \A j \in DOMAIN row : /\ row'[j].key = row[j].key /\ row'[j].code = row[j].code
                               /\ ~row'[j].deleted => j # i /\ row'[j] = row[j]
  BY <1>3, <1>4, <1>6
<1>8. /\ Excuses \subseteq Excuses' /\ met \subseteq met'
      /\ ~row[i].deleted => gone \in clerk[k].codes \/ gone \in met'
  BY <1>2, <1>5 DEF Excuses
<1>9. InUse \subseteq InUse' \cup (IF row[i].deleted THEN {} ELSE {gone})
  <2>1. ASSUME NEW j \in DOMAIN row, ~row[j].deleted
        PROVE  <<row[j].key, row[j].code>> \in InUse' \cup (IF row[i].deleted THEN {} ELSE {gone})
    <3>1. CASE j = i
      BY <2>1, <3>1
    <3>2. CASE j # i
      BY <1>7, <2>1, <3>2 DEF InUse
    <3> QED BY <3>1, <3>2
  <2> QED BY <2>1 DEF InUse
<1>10. Named \subseteq InUse' \cup Excuses'
  BY <1>1, <1>2, <1>8, <1>9 DEF UsedInv, Excuses
<1>11. ASSUME NEW q \in Clerks \ {k}, Naming(clerk[q])
       PROVE  clerk[q].codes \subseteq InUse' \cup Excuses'
  <2>1. clerk[q].codes \subseteq InUse \cup Excuses /\ clerk[q].codes \cap clerk[k].codes \subseteq met
    BY <1>1, <1>2, <1>11 DEF UsedInv
  <2> QED BY <1>8, <1>9, <2>1 DEF Excuses
<1>12. LabelInv'
  <2>1. /\ clerk' = [q \in Clerks |-> clerk'[q]] /\ clerk'[k] = AtRest
        /\ \A q \in Clerks : q # k => clerk'[q] = clerk[q]
    BY <1>1, <1>2, ClerkTurn
  <2>2. \A q \in Clerks : Writing(clerk[q])' => q # k /\ clerk'[q] = clerk[q] /\ Writing(clerk[q])
    BY <2>1, RestIsQuiet DEF Writing
  <2>3. MastersDistinct'
    <3> SUFFICES ASSUME NEW m \in DOMAIN row, NEW n \in DOMAIN row, m # n, row'[m].key = row'[n].key
                 PROVE  /\ row'[m].code # row'[n].code
                        /\ (/\ ~row'[m].deleted /\ ~row'[n].deleted /\ row'[m].label = row'[n].label
                            /\ row'[m].key = "shivar" => row'[m].parent = row'[n].parent)
                           => <<row'[m].key, row'[m].label>> \in twins
      BY <1>2, <1>7 DEF MastersDistinct, OncePerKey
    <3>1. row[m].key = row[n].key /\ row'[m].code = row[m].code /\ row'[n].code = row[n].code
      BY <1>7
    <3>2. ~row'[m].deleted => row'[m] = row[m]
      BY <1>7
    <3>3. ~row'[n].deleted => row'[n] = row[n]
      BY <1>7
    <3> QED BY <1>1, <3>1, <3>2, <3>3 DEF LabelInv, MastersDistinct, OncePerKey
  <2>4. ASSUME NEW q \in Clerks, Writing(clerk[q])', NEW j \in DOMAIN row', ~row'[j].deleted,
               Alike(row'[j], clerk'[q].new), clerk'[q].at # "add" => j # clerk'[q].id
        PROVE  <<row'[j].key, row'[j].label>> \in twins
    <3>1. clerk'[q] = clerk[q] /\ Writing(clerk[q])
      BY <2>2, <2>4
    <3>2. j \in DOMAIN row /\ row'[j] = row[j]
      BY <1>7, <2>4
    <3> QED BY <1>1, <2>4, <3>1, <3>2 DEF LabelInv
  <2>5. ASSUME NEW p \in Clerks, NEW q \in Clerks, p # q, Writing(clerk[p])', Writing(clerk[q])',
               clerk'[p].new.key = clerk'[q].new.key, clerk'[p].new.label = clerk'[q].new.label
        PROVE  <<clerk'[p].new.key, clerk'[p].new.label>> \in twins
    BY <1>1, <2>2, <2>5 DEF LabelInv
  <2> QED BY <1>2, <2>3, <2>4, <2>5 DEF LabelInv, Alike
<1>13. row' \in Seq(MasterRow) /\ DOMAIN row \subseteq DOMAIN row' /\ \A j \in DOMAIN row : row'[j].key = row[j].key
  BY <1>7
<1>14. met \subseteq met' /\ renamed \subseteq renamed'
  BY <1>2, <1>8
<1> QED BY <1>2, <1>10, <1>11, <1>12, <1>13, <1>14, RowWritten

\* A row that names masters is written: its codes were about to be named.
LEMMA NamingWritten ==
  ASSUME MasterInv, NEW k \in Clerks, Naming(clerk[k]), clerk' = [clerk EXCEPT ![k] = AtRest],
         row' = row, desk' = desk, met' = met, renamed' = renamed, twins' = twins,
         stock' = Unsaved \/ stock' \in StockRow, unit' \subseteq UnitRow, UnitNoOnce',
         Named' \subseteq Named \cup clerk[k].codes
  PROVE  MasterInv'
<1>1. MasterTypes /\ UsedInv /\ LabelInv
  BY DEF MasterInv
<1>2. /\ clerk' = [q \in Clerks |-> clerk'[q]] /\ clerk'[k] = AtRest
      /\ \A q \in Clerks : q # k => clerk'[q] = clerk[q]
  BY <1>1, ClerkTurn
<1>3. MasterTypes'
  <2>1. ASSUME NEW q \in Clerks
        PROVE  Carries(clerk[q])'
    <3>1. Carries(clerk'[q])
      BY <1>1, <1>2, RestIsQuiet DEF MasterTypes
    <3> QED BY <3>1 DEF Carries
  <2> QED BY <1>1, <1>2, <2>1 DEF MasterTypes
<1>4. InUse' = InUse /\ Excuses' = Excuses
  BY DEF InUse, Excuses
<1>5. \A q \in Clerks : /\ Naming(clerk[q])' <=> Naming(clerk'[q])
                        /\ Writing(clerk[q])' <=> Writing(clerk'[q])
                        /\ Naming(clerk'[q]) \/ Writing(clerk'[q]) \/ clerk'[q].at = "delete" =>
                             q # k /\ clerk'[q] = clerk[q]
  BY <1>2, RestIsQuiet DEF Naming, Writing
<1>6. UsedInv'
  <2>1. Named' \subseteq InUse \cup Excuses
    BY <1>1 DEF UsedInv
  <2>2. ASSUME NEW q \in Clerks, Naming(clerk'[q])
        PROVE  clerk'[q].codes \subseteq InUse \cup Excuses
    BY <1>1, <1>5, <2>2 DEF UsedInv
  <2>3. ASSUME NEW q \in Clerks, clerk'[q].at = "delete"
        PROVE  clerk'[q].codes \cap Named' \subseteq Excuses
    <3>1. /\ clerk[q].at = "delete" /\ clerk'[q] = clerk[q]
          /\ clerk[q].codes \cap Named \subseteq Excuses /\ clerk[k].codes \cap clerk[q].codes \subseteq met
      BY <1>1, <1>5, <2>3 DEF UsedInv
    <3> QED BY <3>1 DEF Excuses
  <2>4. ASSUME NEW p \in Clerks, NEW q \in Clerks, Naming(clerk'[p]), clerk'[q].at = "delete"
        PROVE  clerk'[p].codes \cap clerk'[q].codes \subseteq met
    BY <1>1, <1>5, <2>4 DEF UsedInv
  <2> QED BY <1>4, <1>5, <2>1, <2>2, <2>3, <2>4 DEF UsedInv
<1>7. LabelInv'
  <2>1. MastersDistinct'
    BY <1>1 DEF LabelInv, MastersDistinct, OncePerKey
  <2>2. ASSUME NEW q \in Clerks, Writing(clerk'[q]), NEW j \in DOMAIN row, ~row[j].deleted,
               Alike(row[j], clerk'[q].new), clerk'[q].at # "add" => j # clerk'[q].id
        PROVE  <<row[j].key, row[j].label>> \in twins
    BY <1>1, <1>5, <2>2 DEF LabelInv
  <2>3. ASSUME NEW p \in Clerks, NEW q \in Clerks, p # q, Writing(clerk'[p]), Writing(clerk'[q]),
               clerk'[p].new.key = clerk'[q].new.key, clerk'[p].new.label = clerk'[q].new.label
        PROVE  <<clerk'[p].new.key, clerk'[p].new.label>> \in twins
    BY <1>1, <1>5, <2>3 DEF LabelInv
  <2> QED BY <1>5, <2>1, <2>2, <2>3 DEF LabelInv, Alike
<1> QED BY <1>3, <1>6, <1>7 DEF MasterInv

\* The property is written, unless it was deleted meanwhile.
LEMMA WriteStockStep ==
  ASSUME MasterInv, NEW k \in Clerks, WriteStock(k)
  PROVE  MasterInv'
<1> DEFINE new == clerk[k].new
           s == [status |-> new.status, taluka |-> new.taluka, builder |-> new.builder, deleted |-> FALSE]
<1>1. MasterTypes /\ UnitNoOnce
  BY DEF MasterInv
<1>2. /\ clerk[k].at = "save" /\ clerk' = [clerk EXCEPT ![k] = AtRest] /\ row' = row /\ unit' = unit
      /\ desk' = desk /\ met' = met /\ renamed' = renamed /\ twins' = twins
      /\ stock' = IF stock # Unsaved /\ stock.deleted THEN stock ELSE s
  BY DEF WriteStock, Done
<1>3. /\ new.status \in MasterCodes /\ new.taluka \in MasterCodes /\ new.builder \in BOOLEAN
      /\ clerk[k].codes = {<<"status_type", new.status>>, <<"taluka", new.taluka>>} /\ Naming(clerk[k])
  BY <1>1, <1>2 DEF MasterTypes, Carries, Naming, AtRest
<1>4. s \in StockRow /\ s.status = new.status /\ s.taluka = new.taluka /\ ~s.deleted
  BY <1>3 DEF StockRow
<1> HIDE DEF s
<1>5. stock' = Unsaved \/ stock' \in StockRow
  BY <1>1, <1>2, <1>4 DEF MasterTypes
<1>6. Named' \subseteq Named \cup clerk[k].codes
  <2>1. CASE stock' = stock
    BY <1>2, <2>1 DEF Named
  <2>2. CASE stock' = s
    BY <1>2, <1>3, <1>4, <2>2 DEF Named
  <2> QED BY <1>2, <2>1, <2>2
<1>7. unit' \subseteq UnitRow /\ UnitNoOnce'
  BY <1>1, <1>2 DEF MasterTypes, UnitNoOnce
<1> QED BY <1>2, <1>3, <1>5, <1>6, <1>7, NamingWritten

\* A unit is written, unless it went or its number is another's.
LEMMA WriteUnitStep ==
  ASSUME MasterInv, NEW k \in Clerks, WriteUnit(k)
  PROVE  MasterInv'
<1> DEFINE u == clerk[k].unit
<1>1. MasterTypes /\ UnitNoOnce
  BY DEF MasterInv
<1>2. /\ clerk[k].at = "unit" /\ clerk' = [clerk EXCEPT ![k] = AtRest] /\ row' = row /\ stock' = stock
      /\ desk' = desk /\ met' = met /\ renamed' = renamed /\ twins' = twins
  BY DEF WriteUnit, Done
<1>3. u \in UnitRow /\ clerk[k].codes = {<<"builder_status", u.status>>} /\ Naming(clerk[k])
  BY <1>1, <1>2 DEF MasterTypes, Carries, Naming, AtRest
<1>4. \/ unit' = unit
      \/ /\ unit' = (unit \ clerk[k].old) \cup {u}
         /\ \A v \in unit \ clerk[k].old : v.no # u.no
  BY DEF WriteUnit
<1> HIDE DEF u
<1>5. unit' \subseteq UnitRow /\ UnitNoOnce'
  BY <1>1, <1>3, <1>4 DEF MasterTypes, UnitNoOnce
<1>6. Named' \subseteq Named \cup clerk[k].codes
  BY <1>2, <1>3, <1>4 DEF Named
<1>7. stock' = Unsaved \/ stock' \in StockRow
  BY <1>1, <1>2 DEF MasterTypes
<1> QED BY <1>2, <1>3, <1>5, <1>6, <1>7, NamingWritten

\* A request comes in.
LEMMA DeskCallStep ==
  ASSUME MasterInv, NEW k \in Clerks, DeskCall(k)
  PROVE  MasterInv'
<1>1. unit \subseteq UnitRow
  BY DEF MasterInv, MasterTypes
<1>2. ASSUME NEW u \in unit, NEW s \in MasterCodes, changeStatus(k, u, s)
      PROVE  MasterInv'
  <2>1. u.no \in UnitNos
    BY <1>1 DEF UnitRow
  <2> QED BY <1>2, <2>1, SaveUnitStep DEF changeStatus
<1>3. ASSUME NEW s \in MasterCodes, NEW no \in UnitNos,
             createUnit(k, no, s) \/ \E u \in unit : updateUnit(k, u, no, s)
      PROVE  MasterInv'
  BY <1>3, SaveUnitStep DEF createUnit, updateUnit
<1> QED BY <1>2, <1>3, StartMasterStep, StartUpdateStep, StartRemoveStep, SaveStockStep, RemovalStep DEF DeskCall

\* The office opens with its seeded masters.
LEMMA MastersOpen == MastersInit => MasterInv
<1> SUFFICES ASSUME MastersInit
             PROVE  MasterInv
  OBVIOUS
<1>1. /\ row = FirstRows /\ stock = Unsaved /\ unit = {} /\ clerk = [k \in Clerks |-> AtRest]
      /\ met = {} /\ renamed = {} /\ twins = {} /\ desk = 0
  BY DEF MastersInit
<1>2. MasterTypes
  BY <1>1, RestIsQuiet, MastersAssumption DEF MasterTypes
<1>3. Named = {}
  BY <1>1 DEF Named
<1>4. \A k \in Clerks : ~Naming(clerk[k]) /\ ~Writing(clerk[k]) /\ clerk[k].at # "delete"
  BY <1>1, RestIsQuiet
<1>5. UsedInv
  BY <1>3, <1>4 DEF UsedInv
<1>6. LabelInv
  BY <1>1, <1>4, MastersAssumption DEF LabelInv, MastersDistinct
<1> QED BY <1>1, <1>2, <1>5, <1>6 DEF MasterInv, UnitNoOnce

\* The vocabularies: a code that a property or a unit in use names is a master's
\* until someone deletes or replaces it at the same time, no drop-down shows one
\* code or one name twice however creations, revivals and renames follow each
\* other, and a unit number names one unit.
THEOREM MastersAreSound == MastersSpec => []MastersSound
<1>1. MasterInv /\ [MastersNext]_masterVars => MasterInv'
  <2> SUFFICES ASSUME MasterInv, [MastersNext]_masterVars
               PROVE  MasterInv'
    OBVIOUS
  <2>1. CASE UNCHANGED masterVars
    BY <2>1 DEF masterVars, MasterInv, MasterTypes, Carries, UsedInv, Named, InUse, Excuses, Naming, LabelInv,
       MastersDistinct, OncePerKey, Writing, Alike, UnitNoOnce
  <2>2. CASE MastersNext
    <3>1. PICK k \in Clerks : DeskCall(k) \/ DeskWrite(k)
      BY <2>2 DEF MastersNext
    <3> QED BY <3>1, DeskCallStep, AddMasterStep, OverwriteStep, DeleteMasterStep, WriteStockStep, WriteUnitStep
            DEF DeskWrite
  <2> QED BY <2>1, <2>2
<1>2. MasterInv => MastersSound
  <2> SUFFICES ASSUME MasterInv
               PROVE  MastersSound
    OBVIOUS
  <2>1. MastersTypeOK
    BY DEF MasterInv, MasterTypes, MastersTypeOK, UnitRow
  <2>2. UsedMastersStay
    <3> SUFFICES ASSUME NEW key \in MasterKeys, NEW c \in MasterCodes, <<key, c>> \in Named \ (met \cup renamed)
                 PROVE  findByCode(key, c) # {}
      BY DEF UsedMastersStay
    <3>1. <<key, c>> \in InUse
      BY DEF MasterInv, UsedInv, Excuses
    <3>2. PICK i \in DOMAIN row : ~row[i].deleted /\ row[i].key = key /\ row[i].code = c
      BY <3>1 DEF InUse
    <3>3. i \in findByCode(key, c)
      BY <3>2, MasterRows DEF findByCode, Keyed, MasterInv
    <3> QED BY <3>3
  <2> QED BY <2>1, <2>2 DEF MasterInv, LabelInv, MastersSound
<1> QED BY <1>1, <1>2, MastersOpen, PTL DEF MastersSpec

-----------------------------------------------------------------------------
(* The search for a place *)

CacheEntry == [key : SearchKeys, from : {"post", "map"}, expiresAt : Nat, used : Nat, again : BOOLEAN]
SeekerState == [step : {"post", "map", "done"}, key : SearchKeys \cup {Nowhere},
                places : {"post", "map", Nowhere}, cached : BOOLEAN, since : Nat]

\* A cache at a time when n uses were counted: one answer of each text, none
\* too far ahead, in the order of their use, India Post's under pincodes.
Fits(entries, n, time) ==
  /\ entries \in Seq(CacheEntry)
  /\ \A i, j \in DOMAIN entries : entries[i].key = entries[j].key => i = j
  /\ \A i, j \in DOMAIN entries : i < j /\ ~entries[i].again => entries[i].used < entries[j].used
  /\ \A i \in DOMAIN entries : /\ entries[i].expiresAt <= time + CacheTtl
                               /\ entries[i].used < n
                               /\ entries[i].from = "post" => entries[i].key \in Pincodes

SearchTypes == seeker \in [Seekers -> SeekerState] /\ tick \in Nat /\ uses \in Nat

\* A search that asks is for a text, and India Post is asked for pincodes alone.
AsksFit ==
  \A s \in Seekers : /\ seeker[s].step # "done" => seeker[s].key \in SearchKeys
                     /\ seeker[s].step = "post" => seeker[s].key \in Pincodes

SearchInv == SearchTypes /\ Fits(cache, uses, tick) /\ Len(cache) <= CacheMax /\ AsksFit /\ HitsFit

\* The entries that stay when one is removed, in their order.
LEMMA EntryRemoved ==
  ASSUME NEW S, NEW s \in Seq(S), NEW i \in DOMAIN s
  PROVE  /\ RemoveAt(s, i) \in Seq(S) /\ DOMAIN RemoveAt(s, i) = 1..(Len(s) - 1)
         /\ Len(RemoveAt(s, i)) = Len(s) - 1
         /\ \A j \in 1..(Len(s) - 1) : RemoveAt(s, i)[j] = s[IF j < i THEN j ELSE j + 1]
<1> DEFINE front == SubSeq(s, 1, i - 1)
           back == SubSeq(s, i + 1, Len(s))
<1>1. Len(s) \in Nat /\ i \in 1..Len(s)
  OBVIOUS
<1>2. front \in Seq(S) /\ Len(front) = i - 1 /\ \A j \in 1..(i - 1) : front[j] = s[j]
  BY <1>1
<1>3. back \in Seq(S) /\ Len(back) = Len(s) - i /\ \A j \in 1..(Len(s) - i) : back[j] = s[i + j]
  BY <1>1
<1> HIDE DEF front, back
<1>4. PICK r : r = front \o back
  OBVIOUS
<1>5. RemoveAt(s, i) = r
  BY <1>4 DEF RemoveAt, front, back
<1>6. /\ r \in Seq(S) /\ Len(r) = Len(front) + Len(back)
      /\ \A j \in 1..(Len(front) + Len(back)) : r[j] = IF j <= Len(front) THEN front[j] ELSE back[j - Len(front)]
  BY <1>2, <1>3, <1>4, ConcatProperties
<1>7. Len(r) = Len(s) - 1 /\ DOMAIN r = 1..(Len(s) - 1)
  BY <1>1, <1>2, <1>3, <1>6
<1>8. ASSUME NEW j \in 1..(Len(s) - 1)
      PROVE  r[j] = s[IF j < i THEN j ELSE j + 1]
  <2> HIDE DEF front, back
  <2>1. r[j] = IF j <= i - 1 THEN front[j] ELSE back[j - (i - 1)]
    <3>1. Len(front) = i - 1 /\ Len(back) = Len(s) - i /\ j \in 1..(Len(front) + Len(back))
      BY <1>1, <1>2, <1>3
    <3> QED BY <1>6, <3>1
  <2>2. CASE j < i
    BY <1>1, <1>2, <2>1, <2>2
  <2>3. CASE ~(j < i)
    <3>1. j - (i - 1) \in 1..(Len(s) - i) /\ i + (j - (i - 1)) = j + 1
      BY <1>1, <2>3
    <3>2. back[j - (i - 1)] = s[j + 1]
      BY <1>3, <3>1
    <3> QED BY <1>1, <2>1, <2>3, <3>2
  <2> QED BY <2>2, <2>3
<1> QED BY <1>5, <1>6, <1>7, <1>8

\* A cache still fits later, and without one of its entries.
LEMMA FitsRemoved ==
  ASSUME NEW s, NEW n \in Nat, NEW t \in Nat, Fits(s, n, t), NEW i \in DOMAIN s
  PROVE  /\ Fits(RemoveAt(s, i), n, t) /\ Len(RemoveAt(s, i)) = Len(s) - 1
         /\ \A j \in DOMAIN RemoveAt(s, i) : RemoveAt(s, i)[j].key # s[i].key
<1> DEFINE r == RemoveAt(s, i)
           at(j) == IF j < i THEN j ELSE j + 1
<1>1. s \in Seq(CacheEntry) /\ DOMAIN s = 1..Len(s) /\ Len(s) \in Nat /\ i \in 1..Len(s)
  BY DEF Fits
<1>2. r \in Seq(CacheEntry) /\ DOMAIN r = 1..(Len(s) - 1) /\ Len(r) = Len(s) - 1
      /\ \A j \in 1..(Len(s) - 1) : r[j] = s[at(j)]
  <2>1. /\ r \in Seq(CacheEntry) /\ DOMAIN r = 1..(Len(s) - 1) /\ Len(r) = Len(s) - 1
        /\ \A j \in 1..(Len(s) - 1) : r[j] = s[IF j < i THEN j ELSE j + 1]
    <3>1. s \in Seq(CacheEntry) /\ i \in DOMAIN s
      BY <1>1
    <3> QED BY <3>1, EntryRemoved, Zenon
  <2> QED BY <2>1
<1> HIDE DEF r
<1>3. \A j \in DOMAIN r : at(j) \in DOMAIN s /\ at(j) # i /\ r[j] = s[at(j)]
  BY <1>1, <1>2
<1>4. \A j, k \in DOMAIN r : (j < k => at(j) < at(k)) /\ (at(j) = at(k) => j = k)
  BY <1>1, <1>2
<1> HIDE DEF at
<1>5. Fits(r, n, t)
  BY <1>2, <1>3, <1>4 DEF Fits
<1>6. \A j \in DOMAIN r : r[j].key # s[i].key
  BY <1>3 DEF Fits
<1> QED BY <1>2, <1>5, <1>6 DEF r

\* The same without its oldest entry.
LEMMA FitsTail ==
  ASSUME NEW s, NEW n \in Nat, NEW t \in Nat, Fits(s, n, t), s # << >>
  PROVE  Fits(Tail(s), n, t) /\ Len(Tail(s)) = Len(s) - 1
<1>1. s \in Seq(CacheEntry) /\ DOMAIN s = 1..Len(s) /\ Len(s) \in Nat \ {0}
  BY DEF Fits
<1>2. Tail(s) \in Seq(CacheEntry) /\ Len(Tail(s)) = Len(s) - 1 /\ DOMAIN Tail(s) = 1..(Len(s) - 1)
      /\ \A j \in 1..(Len(s) - 1) : Tail(s)[j] = s[j + 1]
  BY <1>1
<1> DEFINE r == Tail(s)
<1>3. /\ r \in Seq(CacheEntry) /\ Len(r) = Len(s) - 1
      /\ \A j \in DOMAIN r : j \in Nat /\ j + 1 \in DOMAIN s /\ r[j] = s[j + 1]
  BY <1>1, <1>2
<1> HIDE DEF r
<1>4. Fits(r, n, t)
  BY SMTT(30), <1>3 DEF Fits
<1> QED BY <1>3, <1>4 DEF r

\* An entry used now goes to the end.
LEMMA FitsAppended ==
  ASSUME NEW s, NEW n \in Nat, NEW t \in Nat, Fits(s, n, t), NEW e \in CacheEntry,
         \A j \in DOMAIN s : s[j].key # e.key, e.used = n, e.expiresAt <= t + CacheTtl,
         e.from = "post" => e.key \in Pincodes
  PROVE  Fits(Append(s, e), n + 1, t) /\ Len(Append(s, e)) = Len(s) + 1
<1> DEFINE r == Append(s, e)
           m == Len(s) + 1
<1>1. s \in Seq(CacheEntry) /\ DOMAIN s = 1..Len(s) /\ Len(s) \in Nat
  BY DEF Fits
<1>2. r \in Seq(CacheEntry) /\ DOMAIN r = 1..m /\ Len(r) = m /\ r[m] = e /\ \A j \in DOMAIN s : r[j] = s[j]
  BY <1>1
<1>3. \A j \in DOMAIN r : j = m \/ (j \in DOMAIN s /\ j < m /\ r[j] = s[j])
  BY <1>1, <1>2
<1>4. \A j \in DOMAIN s : s[j].used \in Nat
  <2>1. \A j \in DOMAIN s : s[j] \in CacheEntry
    BY <1>1
  <2> QED BY <2>1 DEF CacheEntry
<1> HIDE DEF r, m
<1>5. \A j, k \in DOMAIN r : r[j].key = r[k].key => j = k
  BY <1>2, <1>3 DEF Fits
<1>6. \A j, k \in DOMAIN r : j < k /\ ~r[j].again => r[j].used < r[k].used
  <2> SUFFICES ASSUME NEW j \in DOMAIN r, NEW k \in DOMAIN r, j < k, ~r[j].again
               PROVE  r[j].used < r[k].used
    OBVIOUS
  <2>1. j \in DOMAIN s /\ r[j] = s[j]
    BY <1>1, <1>2, <1>3
  <2>2. CASE k = m
    BY <1>2, <2>1, <2>2 DEF Fits
  <2>3. CASE k # m
    BY <1>3, <2>1, <2>3 DEF Fits
  <2> QED BY <2>2, <2>3
<1>7. \A j \in DOMAIN r : /\ r[j].expiresAt <= t + CacheTtl /\ r[j].used < n + 1
                          /\ r[j].from = "post" => r[j].key \in Pincodes
  BY <1>2, <1>3, <1>4 DEF Fits
<1> QED BY <1>2, <1>5, <1>6, <1>7 DEF Fits, r, m

\* An entry set again keeps its place: it was given twice.
LEMMA FitsReplaced ==
  ASSUME NEW s, NEW n \in Nat, NEW t \in Nat, Fits(s, n, t), NEW there \in SUBSET DOMAIN s, NEW e \in CacheEntry,
         \A j \in there : s[j].key = e.key, \A j \in DOMAIN s \ there : s[j].key # e.key,
         e.again, e.used = n, e.expiresAt <= t + CacheTtl, e.from = "post" => e.key \in Pincodes,
         NEW r \in Seq(CacheEntry), Len(r) = Len(s),
         \A i \in DOMAIN s : r[i] = IF i \in there THEN e ELSE s[i]
  PROVE  Fits(r, n + 1, t)
<1>1. s \in Seq(CacheEntry) /\ DOMAIN s = 1..Len(s) /\ Len(s) \in Nat
  BY DEF Fits
<1>2. DOMAIN r = DOMAIN s
  BY <1>1
<1>3. \A j \in DOMAIN s : r[j] = (IF j \in there THEN e ELSE s[j]) /\ r[j].key = s[j].key /\ s[j].used \in Nat
  <2>1. \A j \in DOMAIN s : s[j] \in CacheEntry
    BY <1>1
  <2> QED BY <2>1 DEF CacheEntry
<1>4. \A j, k \in DOMAIN r : r[j].key = r[k].key => j = k
  BY <1>2, <1>3 DEF Fits
<1>5. \A j, k \in DOMAIN r : j < k /\ ~r[j].again => r[j].used < r[k].used
  <2> SUFFICES ASSUME NEW j \in DOMAIN r, NEW k \in DOMAIN r, j < k, ~r[j].again
               PROVE  r[j].used < r[k].used
    OBVIOUS
  <2>1. r[j] = s[j]
    BY <1>2, <1>3
  <2>2. CASE k \in there
    BY <1>2, <1>3, <2>1, <2>2 DEF Fits
  <2>3. CASE k \notin there
    BY <1>2, <1>3, <2>1, <2>3 DEF Fits
  <2> QED BY <2>2, <2>3
<1>6. \A j \in DOMAIN r : /\ r[j].expiresAt <= t + CacheTtl /\ r[j].used < n + 1
                          /\ r[j].from = "post" => r[j].key \in Pincodes
  BY <1>2, <1>3 DEF Fits
<1> QED BY <1>2, <1>4, <1>5, <1>6 DEF Fits

\* A cache still fits later.
LEMMA FitsLater ==
  ASSUME NEW s, NEW n \in Nat, NEW t \in Nat, Fits(s, n, t)
  PROVE  Fits(s, n, t + 1)
<1>1. \A i \in DOMAIN s : s[i] \in CacheEntry
  BY DEF Fits
<1>2. \A i \in DOMAIN s : s[i].expiresAt \in Nat
  BY <1>1 DEF CacheEntry
<1> QED BY <1>2, SearchAssumption DEF Fits

\* A search goes on: it asks for a text, of India Post for a pincode alone, and
\* shows what was kept.
LEMMA SeekerTurn ==
  ASSUME SearchTypes, AsksFit, HitsFit, NEW s \in Seekers, NEW x \in SeekerState,
         seeker' = [seeker EXCEPT ![s] = x],
         x.step # "done" => x.key \in SearchKeys, x.step = "post" => x.key \in Pincodes,
         x.cached => x.places # Nowhere /\ (x.places = "post" => x.key \in Pincodes)
  PROVE  seeker' \in [Seekers -> SeekerState] /\ AsksFit' /\ HitsFit'
BY DEF SearchTypes, AsksFit, HitsFit

\* A text is looked up in the cache.
LEMMA StartSearchStep ==
  ASSUME SearchInv, NEW s \in Seekers, NEW key \in SearchKeys, StartSearch(s, key)
  PROVE  SearchInv'
<1> DEFINE next == IF key \in Pincodes THEN "post" ELSE "map"
           ask == [NotAsking EXCEPT !.step = next, !.key = key, !.since = tick]
           hit(i) == [ask EXCEPT !.step = "done", !.cached = TRUE, !.places = cache[i].from]
<1>1. /\ SearchTypes /\ Fits(cache, uses, tick) /\ AsksFit /\ HitsFit /\ Len(cache) <= CacheMax
      /\ uses \in Nat /\ tick \in Nat
  BY DEF SearchInv, SearchTypes
<1>2. cache \in Seq(CacheEntry) /\ Len(cache) \in Nat /\ CacheMax \in Nat /\ tick' = tick
  <2>1. tick' = tick
    BY Zenon DEF StartSearch
  <2> QED BY <1>1, <2>1, SearchAssumption DEF Fits
<1>3. /\ ask \in SeekerState /\ ask.step # "done" /\ ask.key \in SearchKeys /\ ~ask.cached
      /\ ask.step = "post" => ask.key \in Pincodes
  BY <1>1 DEF SeekerState, NotAsking, Nowhere
<1>4. CASE At(key) = {} /\ seeker' = [seeker EXCEPT ![s] = ask] /\ UNCHANGED <<cache, uses>>
  <2>1. seeker' \in [Seekers -> SeekerState] /\ AsksFit' /\ HitsFit'
    BY <1>1, <1>3, <1>4, SeekerTurn
  <2> QED BY <1>1, <1>2, <1>4, <2>1 DEF SearchInv, SearchTypes
<1>5. ASSUME NEW i \in At(key), cache' = RemoveAt(cache, i), seeker' = [seeker EXCEPT ![s] = ask], uses' = uses
      PROVE  SearchInv'
  <2>1. i \in DOMAIN cache
    BY <1>5 DEF At
  <2>2. Fits(cache', uses, tick) /\ Len(cache') = Len(cache) - 1
    BY <1>1, <1>5, <2>1, FitsRemoved
  <2>3. seeker' \in [Seekers -> SeekerState] /\ AsksFit' /\ HitsFit'
    BY <1>1, <1>3, <1>5, SeekerTurn
  <2> QED BY <1>1, <1>2, <1>5, <2>2, <2>3 DEF SearchInv, SearchTypes
<1>6. ASSUME NEW i \in At(key), ~(cache[i].expiresAt < tick),
             cache' = Append(RemoveAt(cache, i), [cache[i] EXCEPT !.used = uses, !.again = FALSE]),
             seeker' = [seeker EXCEPT ![s] = hit(i)], uses' = uses + 1
      PROVE  SearchInv'
  <2> DEFINE e == [cache[i] EXCEPT !.used = uses, !.again = FALSE]
             x == hit(i)
  <2>1. i \in DOMAIN cache /\ cache[i].key = key
    BY <1>6 DEF At
  <2>2. cache[i] \in CacheEntry
    BY <1>2, <2>1
  <2>3. /\ e \in CacheEntry /\ e.key = cache[i].key /\ e.used = uses /\ e.expiresAt = cache[i].expiresAt
        /\ e.from = cache[i].from /\ e.from \in {"post", "map"}
    BY <1>1, <2>2 DEF CacheEntry
  <2>4. cache[i].expiresAt <= tick + CacheTtl /\ (cache[i].from = "post" => cache[i].key \in Pincodes)
    BY <1>1, <2>1 DEF Fits
  <2>5. x \in SeekerState /\ x.step = "done" /\ x.places = cache[i].from /\ x.key = key
    BY <1>1, <1>3, <2>3 DEF SeekerState, NotAsking, Nowhere
  <2>6. cache' = Append(RemoveAt(cache, i), e) /\ seeker' = [seeker EXCEPT ![s] = x]
    BY <1>6
  <2> HIDE DEF e, x
  <2>7. /\ Fits(RemoveAt(cache, i), uses, tick) /\ Len(RemoveAt(cache, i)) = Len(cache) - 1
        /\ \A j \in DOMAIN RemoveAt(cache, i) : RemoveAt(cache, i)[j].key # cache[i].key
    BY <1>1, <2>1, FitsRemoved
  <2>8. PICK c : c = RemoveAt(cache, i)
    OBVIOUS
  <2>9. Fits(Append(c, e), uses + 1, tick) /\ Len(Append(c, e)) = Len(c) + 1
    BY <1>1, <2>3, <2>4, <2>7, <2>8, FitsAppended
  <2>10. seeker' \in [Seekers -> SeekerState] /\ AsksFit' /\ HitsFit'
    BY <1>1, <2>1, <2>3, <2>4, <2>5, <2>6, SeekerTurn DEF Nowhere
  <2> QED BY <1>1, <1>2, <1>6, <2>6, <2>7, <2>8, <2>9, <2>10 DEF SearchInv, SearchTypes
<1> QED BY <1>4, <1>5, <1>6, Zenon DEF StartSearch

\* A service answers, and what it gave is kept.
LEMMA KeepStep ==
  ASSUME SearchInv, NEW s \in Seekers, seeker[s].step # "done", NEW from \in {"post", "map", Nowhere},
         from = "post" => seeker[s].step = "post", cacheSet(seeker[s].key, from), Answer(s), tick' = tick
  PROVE  SearchInv'
<1> DEFINE key == seeker[s].key
<1>1. /\ SearchTypes /\ Fits(cache, uses, tick) /\ AsksFit /\ HitsFit /\ Len(cache) <= CacheMax
      /\ uses \in Nat /\ tick \in Nat
  BY DEF SearchInv, SearchTypes
<1>2. cache \in Seq(CacheEntry) /\ Len(cache) \in Nat /\ CacheMax \in Nat \ {0} /\ CacheTtl \in Nat
  BY <1>1, SearchAssumption DEF Fits
<1>3. key \in SearchKeys /\ (from = "post" => key \in Pincodes)
  BY <1>1 DEF AsksFit
<1>4. seeker' \in [Seekers -> SeekerState] /\ AsksFit' /\ HitsFit'
  <2>1. NotAsking \in SeekerState /\ NotAsking.step = "done" /\ ~NotAsking.cached
    BY DEF NotAsking, SeekerState, Nowhere
  <2> QED BY <1>1, <2>1, SeekerTurn DEF Answer
<1>5. CASE ~Kept(from)
  BY <1>1, <1>4, <1>5 DEF cacheSet, SearchInv, SearchTypes
<1>6. CASE Kept(from)
  <2> DEFINE there == {i \in DOMAIN Room : Room[i].key = key}
             e == [key |-> key, from |-> from, expiresAt |-> tick + CacheTtl, used |-> uses,
                   again |-> there # {}]
  <2>1. Fits(Room, uses, tick) /\ Len(Room) < CacheMax
    <3>1. CASE Len(cache) >= CacheMax
      <4>1. cache # << >> /\ Room = Tail(cache)
        BY <1>2, <3>1 DEF Room
      <4> QED BY <1>1, <1>2, <4>1, FitsTail
    <3>2. CASE ~(Len(cache) >= CacheMax)
      BY <1>1, <1>2, <3>2 DEF Room
    <3> QED BY <3>1, <3>2
  <2>2. /\ e \in CacheEntry /\ e.key = key /\ e.used = uses /\ e.expiresAt = tick + CacheTtl /\ e.from = from
        /\ e.again = (there # {})
    BY <1>1, <1>2, <1>3, <1>6 DEF CacheEntry, Kept
  <2>3. /\ cache' = IF there = {} THEN Append(Room, e)
                    ELSE [i \in DOMAIN Room |-> IF i \in there THEN e ELSE Room[i]]
        /\ uses' = uses + 1
    BY <1>6 DEF cacheSet
  <2>4. e.expiresAt <= tick + CacheTtl
    BY <1>1, <1>2, <2>2
  <2>5. /\ \A j \in there : Room[j].key = e.key
        /\ \A j \in DOMAIN Room \ there : Room[j].key # e.key /\ there \in SUBSET DOMAIN Room
    BY <2>2
  <2>6. there \in SUBSET DOMAIN Room /\ Room \in Seq(CacheEntry) /\ Len(Room) \in Nat
    BY <2>1 DEF Fits
  <2> HIDE DEF e, there
  <2>7. Fits(cache', uses + 1, tick) /\ Len(cache') <= CacheMax
    <3>1. CASE there = {}
      <4>1. cache' = Append(Room, e) /\ \A j \in DOMAIN Room : Room[j].key # e.key
        BY <2>3, <2>5, <3>1
      <4>2. Fits(Append(Room, e), uses + 1, tick) /\ Len(Append(Room, e)) = Len(Room) + 1
        BY <1>1, <1>3, <2>1, <2>2, <2>4, <4>1, FitsAppended
      <4> QED BY <1>2, <2>1, <2>6, <4>1, <4>2
    <3>2. CASE there # {}
      <4>1. cache' = [i \in DOMAIN Room |-> IF i \in there THEN e ELSE Room[i]] /\ e.again
        BY <2>2, <2>3, <3>2
      <4>2. PICK rm : rm = Room
        OBVIOUS
      <4>3. PICK c : c = [i \in DOMAIN rm |-> IF i \in there THEN e ELSE rm[i]]
        OBVIOUS
      <4>4. /\ Fits(rm, uses, tick) /\ there \in SUBSET DOMAIN rm
            /\ \A j \in there : rm[j].key = e.key
            /\ \A j \in DOMAIN rm \ there : rm[j].key # e.key
        BY <2>1, <2>5, <2>6, <4>2
      <4>5. Fits(c, uses + 1, tick) /\ Len(c) = Len(rm)
        <5>1. /\ uses \in Nat /\ tick \in Nat /\ e \in CacheEntry /\ e.again /\ e.used = uses
              /\ e.expiresAt <= tick + CacheTtl /\ (e.from = "post" => e.key \in Pincodes)
          BY <1>1, <1>3, <2>2, <2>4, <4>1
        <5>2. rm \in Seq(CacheEntry) /\ DOMAIN rm = 1..Len(rm) /\ Len(rm) \in Nat
          BY <4>4 DEF Fits
        <5>3. c \in Seq(CacheEntry) /\ Len(c) = Len(rm) /\ \A i \in DOMAIN rm : c[i] = IF i \in there THEN e ELSE rm[i]
          BY <4>3, <5>1, <5>2
        <5> QED BY <4>4, <5>1, <5>3, FitsReplaced
      <4> QED BY <1>2, <2>1, <2>6, <4>1, <4>2, <4>3, <4>5
    <3> QED BY <3>1, <3>2
  <2> QED BY <1>1, <1>4, <2>3, <2>7 DEF SearchInv, SearchTypes
<1> QED BY <1>5, <1>6

\* The search: however texts overlap, expire and are dropped, the cache keeps one
\* answer of each, CACHE_MAX at most and none too old, drops the one unused for
\* longest, and shows India Post's only under a pincode.
THEOREM SearchIsSound == SearchSpec => []SearchSound
<1>1. SearchInit => SearchInv
  <2> SUFFICES ASSUME SearchInit
               PROVE  SearchInv
    OBVIOUS
  <2>1. NotAsking \in SeekerState /\ NotAsking.step = "done" /\ ~NotAsking.cached
    BY DEF NotAsking, SeekerState, Nowhere
  <2>2. Fits(<< >>, 0, 0)
    BY DEF Fits
  <2> QED BY <2>1, <2>2, SearchAssumption DEF SearchInit, SearchInv, SearchTypes, AsksFit, HitsFit
<1>2. SearchInv /\ [SearchNext]_searchVars => SearchInv'
  <2> SUFFICES ASSUME SearchInv, [SearchNext]_searchVars
               PROVE  SearchInv'
    OBVIOUS
  <2>1. /\ SearchTypes /\ Fits(cache, uses, tick) /\ AsksFit /\ HitsFit /\ Len(cache) <= CacheMax
        /\ uses \in Nat /\ tick \in Nat
    BY DEF SearchInv, SearchTypes
  <2>2. NotAsking \in SeekerState /\ NotAsking.step = "done" /\ ~NotAsking.cached
    BY DEF NotAsking, SeekerState, Nowhere
  <2>3. ASSUME NEW s \in Seekers, NEW key \in SearchKeys, StartSearch(s, key)
        PROVE  SearchInv'
    BY <2>3, StartSearchStep
  <2>4. ASSUME NEW s \in Seekers, NEW places \in {"post", Nowhere}, AskPost(s, places)
        PROVE  SearchInv'
    BY <2>4, KeepStep DEF AskPost
  <2>5. ASSUME NEW s \in Seekers, NEW places \in {"map", Nowhere}, AskMap(s, places)
        PROVE  SearchInv'
    BY <2>5, KeepStep DEF AskMap, Nowhere
  <2>6. ASSUME NEW s \in Seekers, PostFails(s)
        PROVE  SearchInv'
    <3> DEFINE x == [seeker[s] EXCEPT !.step = "map"]
    <3>1. seeker' = [seeker EXCEPT ![s] = x] /\ cache' = cache /\ tick' = tick /\ uses' = uses
      BY <2>6 DEF PostFails
    <3>2. seeker[s] \in SeekerState /\ seeker[s].step = "post" /\ seeker[s].key \in SearchKeys
      BY <2>1, <2>6 DEF PostFails, SearchTypes, AsksFit
    <3>3. /\ x \in SeekerState /\ x.step = "map" /\ x.key = seeker[s].key
          /\ x.cached = seeker[s].cached /\ x.places = seeker[s].places
      BY <3>2 DEF SeekerState
    <3> HIDE DEF x
    <3>4. x.cached => x.places # Nowhere /\ (x.places = "post" => x.key \in Pincodes)
      BY <2>1, <3>3 DEF HitsFit
    <3>5. seeker' \in [Seekers -> SeekerState] /\ AsksFit' /\ HitsFit'
      BY <2>1, <3>1, <3>2, <3>3, <3>4, SeekerTurn
    <3> QED BY <2>1, <3>1, <3>5 DEF SearchInv, SearchTypes
  <2>7. ASSUME NEW s \in Seekers, MapFails(s)
        PROVE  SearchInv'
    <3>1. seeker' \in [Seekers -> SeekerState] /\ AsksFit' /\ HitsFit'
      BY <2>1, <2>2, <2>7, SeekerTurn DEF MapFails, Answer
    <3> QED BY <2>1, <2>7, <3>1 DEF MapFails, SearchInv, SearchTypes
  <2>8. CASE SearchTick
    <3>1. Fits(cache, uses, tick + 1)
      BY <2>1, FitsLater
    <3> QED BY <2>1, <2>8, <3>1 DEF SearchTick, SearchInv, SearchTypes, AsksFit, HitsFit
  <2>9. CASE SearchRestart
    <3>1. Fits(<< >>, uses, tick)
      BY DEF Fits
    <3> QED BY <2>1, <2>2, <2>9, <3>1, SearchAssumption
            DEF SearchRestart, SearchInv, SearchTypes, AsksFit, HitsFit
  <2>10. CASE UNCHANGED searchVars
    BY <2>1, <2>10 DEF searchVars, SearchInv, SearchTypes, AsksFit, HitsFit
  <2> QED BY <2>3, <2>4, <2>5, <2>6, <2>7, <2>8, <2>9, <2>10 DEF SearchNext
<1>3. SearchInv => SearchSound
  <2> SUFFICES ASSUME SearchInv
               PROVE  SearchSound
    OBVIOUS
  <2>1. /\ Fits(cache, uses, tick) /\ HitsFit /\ Len(cache) <= CacheMax /\ seeker \in [Seekers -> SeekerState]
        /\ \A i \in DOMAIN cache : cache[i] \in CacheEntry
    BY DEF SearchInv, SearchTypes, Fits
  <2>2. SearchTypeOK
    BY <2>1 DEF SearchTypeOK, CacheEntry, SeekerState
  <2>3. CacheBounded /\ LeastRecentFirst
    BY <2>1 DEF Fits, CacheBounded, LeastRecentFirst
  <2> QED BY <2>1, <2>2, <2>3 DEF SearchSound
<1> QED BY <1>1, <1>2, <1>3, PTL DEF SearchSpec

-----------------------------------------------------------------------------
(* Places.  While an import runs, what its statements have done so far stands *)
(* for every place no admin touched, and a place is either as it was before   *)
(* this file was first tried or as the file wants it, whatever stopped when.  *)

TierSet == {"district", "taluka", "shivar"}
Columns == {"label", "parent", "pin", "active", "deleted"}
Lines(f) == Len(f) \in Nat /\ DOMAIN f = 1 .. Len(f)

Todo == Statements(importer.file)
PlacesOf(step) == {<<step.tier, r.code>> : r \in step.rows}
Fresher(id) == Lined(importer.file, id, PinOf(origin, id))
Wanted(id) == Imported(origin, importer.file)[id]

PlaceTypes ==
  /\ \A places \in {place, origin} : \A id \in DOMAIN places :
       /\ id = <<id[1], id[2]>> /\ id[1] \in TierSet /\ id[2] # Nil
       /\ DOMAIN places[id] = Columns
       /\ places[id].active \in BOOLEAN /\ places[id].deleted \in BOOLEAN
  /\ editor = [k \in Editors |-> editor[k]]
  /\ \A k \in Editors :
       /\ editor[k].at \in {"idle", "edit", "remove"}
       /\ editor[k].at # "idle" => editor[k].id \in DOMAIN place
       /\ editor[k].at = "edit" => editor[k].active \in BOOLEAN
  /\ importer = [file |-> importer.file, at |-> importer.at]
  /\ importer.at \in -1 .. Len(Todo)
  /\ Lines(importer.file)

\* A place no admin touched is as before the first try, as its line says, or as
\* the whole import leaves it.
Settled(id, rec) ==
  \/ id \in DOMAIN origin /\ rec = origin[id]
  \/ id \in DOMAIN Imported(origin, importer.file) /\ rec = Wanted(id)
  \/ Mentions(importer.file, id) # {} /\ rec = Fresher(id)

\* What a statement that was carried out has done.
Written(step, places) ==
  \A id \in PlacesOf(step) :
    id \in DOMAIN places /\ (id \notin touched => places[id] \in {Fresher(id), Wanted(id)})
Cleared(step, places) ==
  \A id \in step.rows \cap DOMAIN places : id \notin touched => places[id] = Wanted(id)

\* What stands after the first n statements, whatever earlier tries did.
Progress(n, places) ==
  /\ DOMAIN origin \subseteq DOMAIN places
  /\ DOMAIN places \subseteq DOMAIN Imported(origin, importer.file)
  /\ \A id \in DOMAIN places \ touched : Settled(id, places[id])
  /\ \A m \in 1 .. n : IF Todo[m].do = "upsert" THEN Written(Todo[m], places)
                         ELSE Cleared(Todo[m], places)

ImportInv == /\ importer.at # 0 => Progress(importer.at - 1, place)
             /\ ImportFaithful

\* Who has a place above that is there: by the file, whose places above were
\* written by statements before, or since before.  A removal under way either
\* left nobody below or met an import or an edit.
FamilyInv ==
  /\ \A id \in DOMAIN place : id[1] # "district" /\ Standing(id) /\ ~Excused(id) =>
       Standing(ParentOf(id, place[id].parent))
  /\ \A k \in Pending("remove") : editor[k].id \notin overtaken =>
       /\ ~Importing
       /\ \A id \in DOMAIN place :
            id[1] # "district" /\ Standing(id) /\ ParentOf(id, place[id].parent) = editor[k].id
              => id \in typed
  /\ \A m \in 1 .. (importer.at - 1) : Todo[m].do = "upsert" =>
       \A id \in PlacesOf(Todo[m]) \ (Stubs \cup overtaken) : Standing(id)

PlacesInv == PlaceTypes /\ ImportInv /\ FamilyInv

\* Some number of a set of naturals is the least.
LEMMA LeastOf ==
  ASSUME NEW Ns, Ns \subseteq Nat, Ns # {}
  PROVE  \E x \in Ns : \A y \in Ns : x <= y
<1> DEFINE R == OpToRel(<, Nat)
<1>1. PICK x \in Ns : \A y \in Ns : ~(<<y, x>> \in R)
  <2>1. IsWellFoundedOn(R, Nat)
    BY NatLessThanWellFounded
  <2> HIDE DEF R
  <2> QED BY <2>1, WFMin, Zenon
<1>2. ASSUME NEW y \in Ns PROVE x <= y
  <2>1. x \in Nat /\ y \in Nat /\ ~(<<y, x>> \in R)
    BY <1>1
  <2>2. ~(y < x)
    <3>1. y < x => <<y, x>> \in R
      BY <2>1 DEF OpToRel
    <3> QED BY <2>1, <3>1
  <2> HIDE DEF R
  <2> QED BY <2>1, <2>2
<1> QED BY <1>2

LEMMA TiersAre == ToSet(Tiers) = TierSet /\ DOMAIN Tiers = 1 .. 3
BY DEF ToSet, Tiers, TierSet

\* The first line of a place is the one its row is made of.
LEMMA FirstLine ==
  ASSUME NEW f, Lines(f), NEW id, Mentions(f, id) # {}
  PROVE  \E n \in loadCsv(f, id[1]) :
           /\ f[n].code[id[1]] = id[2] /\ f[n] = LineOf(f, id)
           /\ \A m \in loadCsv(f, id[1]) : f[m].code[id[1]] = id[2] => m = n
<1> DEFINE M == Mentions(f, id)
           n == CHOOSE i \in M : \A j \in M : i <= j
<1>1. M \subseteq Nat /\ M \subseteq 1 .. Len(f)
  BY DEF Mentions, Lines
<1>2. n \in M /\ \A j \in M : n <= j
  <2>1. \E i \in M : \A j \in M : i <= j
    BY <1>1, LeastOf
  <2> QED BY <2>1
<1>3. f[n] = LineOf(f, id)
  BY DEF LineOf
<1> HIDE DEF n
<1>4. n \in DOMAIN f /\ Complete(f[n]) /\ f[n].code[id[1]] = id[2]
  BY <1>2 DEF Mentions
<1>5. n \in loadCsv(f, id[1])
  <2>1. ASSUME NEW m \in 1 .. (n - 1), Complete(f[m]), f[m].code[id[1]] = f[n].code[id[1]]
        PROVE  FALSE
    <3>1. m \in DOMAIN f /\ m < n /\ m \in Int /\ n \in Int
      BY <1>1, <1>2 DEF Lines
    <3>2. m \in M
      BY <2>1, <3>1, <1>4 DEF Mentions
    <3> QED BY <3>1, <3>2, <1>2
  <2> QED BY <2>1, <1>4 DEF loadCsv
<1>6. ASSUME NEW m \in loadCsv(f, id[1]), f[m].code[id[1]] = id[2] PROVE m = n
  <2>1. m \in DOMAIN f /\ Complete(f[m])
    BY DEF loadCsv
  <2>2. m \in M
    BY <2>1, <1>6 DEF Mentions
  <2>3. m \in Int /\ n \in Int /\ n <= m
    BY <2>2, <1>1, <1>2
  <2>4. CASE n < m
    <3>1. n \in 1 .. (m - 1)
      BY <2>3, <2>4, <1>1, <1>2
    <3> QED BY <3>1, <1>4, <1>6 DEF loadCsv
  <2> QED BY <2>3, <2>4
<1> QED BY <1>3, <1>4, <1>5, <1>6

\* A first line is a mention of its places of all tiers.
LEMMA Mentioned ==
  ASSUME NEW f, NEW t \in TierSet, NEW n \in DOMAIN f, Complete(f[n])
  PROVE  /\ Mentions(f, <<t, f[n].code[t]>>) # {} /\ f[n].code[t] # Nil
         /\ n \in Mentions(f, <<t, f[n].code[t]>>)
<1>1. f[n].code["district"] # Nil /\ f[n].code["taluka"] # Nil /\ f[n].code["shivar"] # Nil
  BY DEF Complete, Tiers
<1>2. n \in Mentions(f, <<t, f[n].code[t]>>)
  BY DEF Mentions
<1> QED BY <1>1, <1>2 DEF TierSet

\* What the whole import leaves of a place.
LEMMA WantIs ==
  ASSUME NEW before, NEW f
  PROVE  /\ DOMAIN before \subseteq DOMAIN Imported(before, f)
         /\ \A id \in DOMAIN Imported(before, f) \ DOMAIN before :
              Mentions(f, id) # {} /\ id = <<id[1], id[2]>> /\ id[1] \in TierSet
         /\ \A t \in TierSet : \A n \in DOMAIN f :
              Complete(f[n]) => <<t, f[n].code[t]>> \in DOMAIN Imported(before, f)
         /\ \A id \in DOMAIN Imported(before, f) :
              Imported(before, f)[id] =
                IF Mentions(f, id) = {} THEN Hidden(id, before[id])
                ELSE Hidden(id, Lined(f, id, PinOf(before, id)))
<1> DEFINE D == DOMAIN before \cup {<<t, f[i].code[t]>> :
                                      i \in {j \in DOMAIN f : Complete(f[j])}, t \in ToSet(Tiers)}
<1>1. DOMAIN Imported(before, f) = D
  BY DEF Imported
<1>2. ASSUME NEW id \in D \ DOMAIN before
      PROVE  Mentions(f, id) # {} /\ id = <<id[1], id[2]>> /\ id[1] \in TierSet
  <2>1. PICK i \in {j \in DOMAIN f : Complete(f[j])}, t \in TierSet : id = <<t, f[i].code[t]>>
    BY TiersAre
  <2> QED BY <2>1, Mentioned
<1>3. ASSUME NEW t \in TierSet, NEW n \in DOMAIN f, Complete(f[n]) PROVE <<t, f[n].code[t]>> \in D
  BY <1>3, TiersAre
<1>4. ASSUME NEW id \in D
      PROVE  Imported(before, f)[id] =
                IF Mentions(f, id) = {} THEN Hidden(id, before[id])
                ELSE Hidden(id, Lined(f, id, PinOf(before, id)))
  BY DEF Imported
<1> QED BY <1>1, <1>2, <1>3, <1>4

-----------------------------------------------------------------------------
(* The statements of the script.                                             *)

RowsOf(f, t) == {RowOf(f[n], t) : n \in loadCsv(f, t)}
Steps(f) == [do : {"upsert", "hide"}, tier : TierSet,
             rows : SUBSET (Stubs \cup UNION {RowsOf(f, t) : t \in TierSet})]

\* Districts before talukas, talukas before villages, and the stubs at last.
StepRank(step) == IF step.do = "hide" THEN 4
                  ELSE IF step.tier = "shivar" THEN 3
                  ELSE IF step.tier = "taluka" THEN 2 ELSE 1
InTurn(s, low, high) ==
  /\ \A n \in 1 .. Len(s) : StepRank(s[n]) \in low .. high
  /\ \A m, n \in 1 .. Len(s) : m < n => StepRank(s[m]) <= StepRank(s[n])

StepsFit(f, s) ==
  /\ s \in Seq(Steps(f))
  /\ \A n \in 1 .. Len(s) :
       \/ s[n].do = "upsert" /\ s[n].tier \in TierSet /\ s[n].rows \subseteq RowsOf(f, s[n].tier)
       \/ s[n].do = "hide" /\ s[n].rows \subseteq Stubs
WritesAll(f, t, s) == \A rec \in RowsOf(f, t) :
  \E n \in 1 .. Len(s) : s[n].do = "upsert" /\ s[n].tier = t /\ rec \in s[n].rows
HidesAll(t, s) == \A id \in Stubs :
  id[1] = t => \E n \in 1 .. Len(s) : s[n].do = "hide" /\ id \in s[n].rows
Holds(s, r) == \A m \in 1 .. Len(r) : \E n \in 1 .. Len(s) : s[n] = r[m]

LEMMA RowsDistinct ==
  ASSUME NEW f, NEW t, Lines(f), NEW m \in loadCsv(f, t), NEW n \in loadCsv(f, t),
         RowOf(f[m], t).code = RowOf(f[n], t).code
  PROVE  m = n
<1>1. f[m].code[t] = f[n].code[t]
  BY DEF RowOf
<1>2. m \in 1 .. Len(f) /\ n \in 1 .. Len(f) /\ Complete(f[m]) /\ Complete(f[n]) /\ Len(f) \in Nat
  BY DEF loadCsv, Lines
<1>3. CASE m < n
  <2>1. m \in 1 .. (n - 1)
    BY <1>2, <1>3
  <2> QED BY <2>1, <1>1, <1>2 DEF loadCsv
<1>4. CASE n < m
  <2>1. n \in 1 .. (m - 1)
    BY <1>2, <1>4
  <2> QED BY <2>1, <1>1, <1>2 DEF loadCsv
<1> QED BY <1>2, <1>3, <1>4

\* The batch of a line is one of those the script makes.
LEMMA BatchFits ==
  ASSUME NEW size \in Nat \ {0}, NEW c \in Nat, NEW n \in Nat, c < n
  PROVE  1 + c \div size \in 1 .. (n + size - 1) \div size
<1> DEFINE q == c \div size
           d == (n + size - 1) \div size
<1>1. q \in Nat /\ q * size <= c
  BY Z3
<1>2. d \in Int /\ n + size - 1 < (d + 1) * size
  BY Z3
<1> HIDE DEF q, d
<1>3. (q + 1) * size = q * size + size
  BY <1>1
<1>4. (q + 1) * size < (d + 1) * size
  BY <1>1, <1>2, <1>3
<1>5. ASSUME d < q + 1 PROVE FALSE
  <2>1. d + 1 <= q + 1
    BY <1>1, <1>2, <1>5
  <2>2. (d + 1) * size <= (q + 1) * size
    BY <2>1, <1>1, <1>2, Z3
  <2> QED BY <2>2, <1>4, <1>1, <1>2
<1> QED BY <1>1, <1>2, <1>5 DEF q, d

LEMMA SlicesAre ==
  ASSUME NEW f, Lines(f), NEW t \in TierSet
  PROVE  LET r == StepRank([do |-> "upsert", tier |-> t, rows |-> {}])
         IN StepsFit(f, Slices(f, t)) /\ InTurn(Slices(f, t), r, r + 1) /\ WritesAll(f, t, Slices(f, t))
<1> DEFINE L == loadCsv(f, t)
           N == (Cardinality(L) + BatchSize - 1) \div BatchSize
           rows(i) == {RowOf(f[n], t) : n \in {m \in L : BatchOf(f, t, m) = i}}
           s == Slices(f, t)
           r == StepRank([do |-> "upsert", tier |-> t, rows |-> {}])
<1>1. L \subseteq 1 .. Len(f) /\ IsFiniteSet(L) /\ Cardinality(L) \in Nat
  <2>1. L \subseteq 1 .. Len(f)
    BY DEF loadCsv, Lines
  <2>2. IsFiniteSet(1 .. Len(f))
    BY FS_Interval DEF Lines
  <2> QED BY <2>1, <2>2, FS_Subset, FS_CardinalityType
<1>2. N \in Nat
  <2>1. Cardinality(L) + BatchSize - 1 \in Nat /\ BatchSize \in Nat \ {0}
    BY <1>1, PlacesAssumption
  <2> HIDE DEF L
  <2> QED BY <2>1, Z3
<1>3. s = [i \in 1 .. N |-> [do |-> "upsert", tier |-> t, rows |-> rows(i)]]
  BY DEF Slices
<1>4. \A i \in 1 .. N : rows(i) \subseteq RowsOf(f, t)
  BY DEF RowsOf
<1>5. Len(s) = N /\ \A i \in 1 .. N : s[i] = [do |-> "upsert", tier |-> t, rows |-> rows(i)]
  <2> HIDE DEF N, rows
  <2> QED BY <1>2, <1>3
<1>6. s \in Seq(Steps(f))
  <2> HIDE DEF N, rows
  <2>1. \A i \in 1 .. N : [do |-> "upsert", tier |-> t, rows |-> rows(i)] \in Steps(f)
    BY <1>4 DEF Steps
  <2> QED BY <2>1, <1>2, <1>3
<1>7. InTurn(s, r, r + 1)
  <2> HIDE DEF N, rows
  <2>1. \A i \in 1 .. N : StepRank(s[i]) = r
    BY <1>5 DEF StepRank
  <2>2. r \in Nat
    BY DEF StepRank
  <2> HIDE DEF r, s
  <2> QED BY <2>1, <2>2, <1>5 DEF InTurn
<1>8. ASSUME NEW rec \in RowsOf(f, t) PROVE \E n \in 1 .. N : rec \in s[n].rows
  <2>1. PICK n \in L : rec = RowOf(f[n], t)
    BY DEF RowsOf
  <2> DEFINE E == {m \in L : m < n}
  <2>2. IsFiniteSet(E) /\ Cardinality(E) < Cardinality(L) /\ Cardinality(E) \in Nat
    <3>1. E \subseteq L /\ n \notin E /\ E # L
      BY <2>1, <1>1 DEF Lines
    <3> QED BY <3>1, <1>1, FS_Subset, FS_CardinalityType
  <2>3. BatchOf(f, t, n) = 1 + Cardinality(E) \div BatchSize
    BY DEF BatchOf
  <2>4. BatchOf(f, t, n) \in 1 .. N
    <3> HIDE DEF E, L
    <3>1. BatchSize \in Nat \ {0}
      BY PlacesAssumption
    <3>2. 1 + Cardinality(E) \div BatchSize \in 1 .. N
      BY <2>2, <3>1, <1>1, BatchFits
    <3> QED BY <2>3, <3>2
  <2>5. rec \in rows(BatchOf(f, t, n))
    BY <2>1
  <2> HIDE DEF rows, N, s
  <2> QED BY <2>4, <2>5, <1>5
<1> HIDE DEF r, rows, N, s
<1>9. StepsFit(f, s) /\ WritesAll(f, t, s)
  BY <1>4, <1>5, <1>6, <1>8 DEF StepsFit, WritesAll
<1> QED BY <1>7, <1>9 DEF r, s

LEMMA StubsAre ==
  ASSUME NEW f, NEW t \in TierSet
  PROVE  StepsFit(f, StubsOf(t)) /\ InTurn(StubsOf(t), 4, 4) /\ HidesAll(t, StubsOf(t))
<1> DEFINE I == {id \in Stubs : id[1] = t}
           step == [do |-> "hide", tier |-> t, rows |-> I]
<1>1. StubsOf(t) = IF I = {} THEN << >> ELSE <<step>>
  BY DEF StubsOf
<1>2. step \in Steps(f)
  BY DEF Steps
<1>3. StepRank(step) = 4
  BY DEF StepRank
<1>4. step.do = "hide" /\ step.rows = I
  OBVIOUS
<1> HIDE DEF step
<1>5. CASE I = {}
  <2>1. StubsOf(t) = << >>
    BY <1>1, <1>5
  <2> QED BY <2>1, <1>5 DEF InTurn, StepsFit, HidesAll
<1>6. CASE I # {}
  <2>1. StubsOf(t) = <<step>>
    BY <1>1, <1>6
  <2> QED BY <2>1, <1>2, <1>3, <1>4 DEF InTurn, StepsFit, HidesAll
<1> QED BY <1>5, <1>6

\* One after the other, sequences that are in turn and do not overtake each other
\* are in turn; what they have is what the whole has.
LEMMA Glued ==
  ASSUME NEW f, NEW left, NEW right, StepsFit(f, left), StepsFit(f, right),
         NEW low \in Nat, NEW mid \in Nat, NEW high \in Nat,
         low <= mid, mid <= high, InTurn(left, low, mid), InTurn(right, mid, high)
  PROVE  StepsFit(f, left \o right) /\ InTurn(left \o right, low, high) /\ Holds(left \o right, left) /\ Holds(left \o right, right)
<1> DEFINE c == left \o right
<1>0. left \in Seq(Steps(f)) /\ right \in Seq(Steps(f))
  BY DEF StepsFit
<1>1. /\ c \in Seq(Steps(f)) /\ Len(c) = Len(left) + Len(right)
      /\ \A i \in 1 .. Len(left) + Len(right) : c[i] = IF i <= Len(left) THEN left[i] ELSE right[i - Len(left)]
  BY <1>0, ConcatProperties
<1>2. Len(left) \in Nat /\ Len(right) \in Nat
  BY <1>0
<1> HIDE DEF c
<1>3. \A n \in 1 .. Len(c) : \/ n \in 1 .. Len(left) /\ c[n] = left[n]
                             \/ n - Len(left) \in 1 .. Len(right) /\ c[n] = right[n - Len(left)] /\ n > Len(left)
  BY <1>1, <1>2
<1>4. \A m \in 1 .. Len(left) : m \in 1 .. Len(c) /\ c[m] = left[m]
  BY <1>1, <1>2
<1>5. \A m \in 1 .. Len(right) : m + Len(left) \in 1 .. Len(c) /\ c[m + Len(left)] = right[m]
  BY <1>1, <1>2
<1>6. InTurn(c, low, high)
  <2>1. ASSUME NEW n \in 1 .. Len(c) PROVE StepRank(c[n]) \in low .. high
    BY <1>3 DEF InTurn
  <2>2. ASSUME NEW m \in 1 .. Len(c), NEW n \in 1 .. Len(c), m < n
        PROVE  StepRank(c[m]) <= StepRank(c[n])
    <3>1. CASE n \in 1 .. Len(left) /\ c[n] = left[n]
      <4>1. m \in 1 .. Len(left) /\ c[m] = left[m]
        BY <2>2, <3>1, <1>2, <1>3
      <4> QED BY <4>1, <3>1, <2>2 DEF InTurn
    <3>2. CASE n - Len(left) \in 1 .. Len(right) /\ c[n] = right[n - Len(left)] /\ n > Len(left)
      <4>1. CASE m \in 1 .. Len(left) /\ c[m] = left[m]
        <5>1. StepRank(left[m]) \in low .. mid /\ StepRank(right[n - Len(left)]) \in mid .. high
          BY <4>1, <3>2 DEF InTurn
        <5> QED BY <5>1, <4>1, <3>2
      <4>2. CASE m - Len(left) \in 1 .. Len(right) /\ c[m] = right[m - Len(left)]
        <5>1. m - Len(left) < n - Len(left)
          BY <2>2, <1>2
        <5> QED BY <5>1, <4>2, <3>2 DEF InTurn
      <4> QED BY <4>1, <4>2, <1>3
    <3> QED BY <3>1, <3>2, <1>3
  <2> QED BY <2>1, <2>2 DEF InTurn
<1>7. StepsFit(f, c)
  BY <1>1, <1>3 DEF StepsFit
<1>8. Holds(c, left) /\ Holds(c, right)
  BY <1>4, <1>5 DEF Holds
<1> QED BY <1>6, <1>7, <1>8 DEF c

LEMMA HoldsAll ==
  ASSUME NEW f, NEW t, NEW s, NEW r, Holds(s, r)
  PROVE  /\ WritesAll(f, t, r) => WritesAll(f, t, s)
         /\ HidesAll(t, r) => HidesAll(t, s)
BY DEF Holds, WritesAll, HidesAll

LEMMA StatementsAre ==
  ASSUME NEW f, Lines(f)
  PROVE  LET s == Statements(f)
         IN /\ StepsFit(f, s) /\ Len(s) \in Nat \ {0} /\ InTurn(s, 1, 4)
            /\ \A t \in TierSet : WritesAll(f, t, s) /\ HidesAll(t, s)
<1> DEFINE d == Slices(f, "district")
           t == Slices(f, "taluka")
           v == Slices(f, "shivar")
           x == StubsOf("district")
           y == StubsOf("taluka")
           z == StubsOf("shivar")
<1>0. "district" \in TierSet /\ "taluka" \in TierSet /\ "shivar" \in TierSet
  BY DEF TierSet
<1>1. /\ StepsFit(f, d) /\ InTurn(d, 1, 2) /\ WritesAll(f, "district", d)
      /\ StepsFit(f, t) /\ InTurn(t, 2, 3) /\ WritesAll(f, "taluka", t)
      /\ StepsFit(f, v) /\ InTurn(v, 3, 4) /\ WritesAll(f, "shivar", v)
  <2>1. /\ StepRank([do |-> "upsert", tier |-> "district", rows |-> {}]) = 1
        /\ StepRank([do |-> "upsert", tier |-> "taluka", rows |-> {}]) = 2
        /\ StepRank([do |-> "upsert", tier |-> "shivar", rows |-> {}]) = 3
    BY DEF StepRank
  <2>2. 1 + 1 = 2 /\ 2 + 1 = 3 /\ 3 + 1 = 4
    OBVIOUS
  <2>3. StepsFit(f, d) /\ InTurn(d, 1, 1 + 1) /\ WritesAll(f, "district", d)
    BY <1>0, <2>1, SlicesAre, Zenon
  <2>4. StepsFit(f, t) /\ InTurn(t, 2, 2 + 1) /\ WritesAll(f, "taluka", t)
    BY <1>0, <2>1, SlicesAre, Zenon
  <2>5. StepsFit(f, v) /\ InTurn(v, 3, 3 + 1) /\ WritesAll(f, "shivar", v)
    BY <1>0, <2>1, SlicesAre, Zenon
  <2> HIDE DEF d, t, v
  <2> QED BY <2>2, <2>3, <2>4, <2>5
<1>2. /\ StepsFit(f, x) /\ InTurn(x, 4, 4) /\ HidesAll("district", x)
      /\ StepsFit(f, y) /\ InTurn(y, 4, 4) /\ HidesAll("taluka", y)
      /\ StepsFit(f, z) /\ InTurn(z, 4, 4) /\ HidesAll("shivar", z)
  BY <1>0, StubsAre
<1> DEFINE dt == d \o t
           dtv == dt \o v
           h == dtv \o x
           i == h \o y
           j == i \o z
<1>3. Statements(f) = j
  BY DEF Statements
<1> HIDE DEF d, t, v, x, y, z
<1>4. StepsFit(f, dt) /\ InTurn(dt, 1, 3) /\ Holds(dt, d) /\ Holds(dt, t)
  BY <1>1, Glued, 1 \in Nat, 2 \in Nat, 3 \in Nat, 1 <= 2, 2 <= 3
<1> HIDE DEF dt
<1>5. StepsFit(f, dtv) /\ InTurn(dtv, 1, 4) /\ Holds(dtv, dt) /\ Holds(dtv, v)
  BY <1>1, <1>4, Glued, 1 \in Nat, 4 \in Nat, 3 \in Nat, 1 <= 3, 3 <= 4
<1> HIDE DEF dtv
<1>6. StepsFit(f, h) /\ InTurn(h, 1, 4) /\ Holds(h, dtv) /\ Holds(h, x)
  BY <1>2, <1>5, Glued, 1 \in Nat, 4 \in Nat, 1 <= 4, 4 <= 4
<1> HIDE DEF h
<1>7. StepsFit(f, i) /\ InTurn(i, 1, 4) /\ Holds(i, h) /\ Holds(i, y)
  BY <1>2, <1>6, Glued, 1 \in Nat, 4 \in Nat, 1 <= 4, 4 <= 4
<1> HIDE DEF i
<1>8. StepsFit(f, j) /\ InTurn(j, 1, 4) /\ Holds(j, i) /\ Holds(j, z)
  BY <1>2, <1>7, Glued, 1 \in Nat, 4 \in Nat, 1 <= 4, 4 <= 4
<1> HIDE DEF j
<1>9. /\ WritesAll(f, "district", j) /\ WritesAll(f, "taluka", j) /\ WritesAll(f, "shivar", j)
      /\ HidesAll("district", j) /\ HidesAll("taluka", j) /\ HidesAll("shivar", j)
  BY <1>1, <1>2, <1>4, <1>5, <1>6, <1>7, <1>8, HoldsAll
<1>10. Len(j) \in Nat \ {0}
  <2>1. Len(j) \in Nat
    BY <1>8 DEF StepsFit
  <2>2. PICK id \in Stubs : id[1] \in TierSet
    BY PlacesAssumption, TiersAre
  <2> QED BY <2>1, <2>2, <1>9 DEF HidesAll, TierSet
<1> QED BY <1>3, <1>8, <1>9, <1>10 DEF TierSet

-----------------------------------------------------------------------------
(* One statement.                                                            *)

\* A complete line has a row of each tier.
LEMMA RowThere ==
  ASSUME NEW f, Lines(f), NEW t \in TierSet, NEW m \in DOMAIN f, Complete(f[m])
  PROVE  \E q \in RowsOf(f, t) : q.code = f[m].code[t]
<1> DEFINE c == f[m].code[t]
           id == <<t, c>>
<1>1. Mentions(f, id) # {}
  BY Mentioned
<1>2. PICK n \in loadCsv(f, id[1]) : f[n].code[id[1]] = id[2]
  BY <1>1, FirstLine
<1>3. n \in loadCsv(f, t) /\ f[n].code[t] = c
  BY <1>2
<1>4. RowOf(f[n], t) \in RowsOf(f, t) /\ RowOf(f[n], t).code = c
  BY <1>3 DEF RowsOf, RowOf
<1> QED BY <1>4

\* A row of a batch stands for its place: it is made of the place's first line.
LEMMA RowIs ==
  ASSUME NEW f, Lines(f), NEW t \in TierSet, NEW rows, rows \subseteq RowsOf(f, t), NEW rec \in rows,
         NEW id, id = <<t, rec.code>>
  PROVE  /\ Mentions(f, id) # {} /\ id[2] # Nil
         /\ (CHOOSE q \in rows : q.code = id[2]) = RowOf(LineOf(f, id), t)
<1>1. PICK m \in loadCsv(f, t) : rec = RowOf(f[m], t)
  BY DEF RowsOf
<1>2. m \in DOMAIN f /\ Complete(f[m]) /\ f[m].code[t] = rec.code
  BY <1>1 DEF loadCsv, RowOf
<1>3. id[1] = t /\ id[2] = rec.code
  OBVIOUS
<1>4. Mentions(f, id) # {} /\ id[2] # Nil
  BY <1>2, <1>3, Mentioned
<1>5. f[m] = LineOf(f, id)
  BY <1>2, <1>3, <1>4, FirstLine
<1>6. (CHOOSE q \in rows : q.code = id[2]) = rec
  <2>1. ASSUME NEW q \in rows, q.code = id[2] PROVE q = rec
    <3>1. PICK n \in loadCsv(f, t) : q = RowOf(f[n], t)
      BY DEF RowsOf
    <3> QED BY <3>1, <2>1, <1>1, <1>3, RowsDistinct
  <2> QED BY <2>1, <1>3
<1> QED BY <1>1, <1>4, <1>5, <1>6

\* A place that a line names has a complete line to be made of.
LEMMA LineIs ==
  ASSUME NEW f, Lines(f), NEW id, Mentions(f, id) # {}
  PROVE  \E m \in DOMAIN f : Complete(f[m]) /\ f[m] = LineOf(f, id)
<1>1. PICK m \in loadCsv(f, id[1]) : f[m] = LineOf(f, id)
  BY FirstLine
<1> QED BY <1>1 DEF loadCsv

LEMMA FreshIs ==
  ASSUME NEW f, NEW id, NEW t, id[1] = t, NEW pin
  PROVE  Fresh(RowOf(LineOf(f, id), t), pin) = Lined(f, id, pin)
<1> DEFINE line == LineOf(f, id)
<1>1. /\ RowOf(line, t).label = line.label[t]
      /\ RowOf(line, t).parent = IF t = "district" THEN Nil ELSE line.code[Up(t)]
      /\ RowOf(line, t).pin = IF t = "shivar" THEN line.pin ELSE Nil
  BY DEF RowOf
<1> HIDE DEF line
<1>2. (IF RowOf(line, t).pin # Nil THEN RowOf(line, t).pin ELSE pin)
        = IF t = "shivar" /\ line.pin # Nil THEN line.pin ELSE pin
  BY <1>1
<1> QED BY <1>1, <1>2 DEF Fresh, Lined, line

LEMMA HiddenIs ==
  ASSUME NEW id, NEW rec, DOMAIN rec = Columns, rec.active \in BOOLEAN, rec.deleted \in BOOLEAN
  PROVE  LET r == Hidden(id, rec)
         IN /\ DOMAIN r = Columns /\ r.active \in BOOLEAN /\ r.deleted \in BOOLEAN
            /\ r.parent = rec.parent /\ r.pin = rec.pin
            /\ id \in Stubs => r.deleted = TRUE
            /\ id \notin Stubs => r = rec
            /\ Hidden(id, r) = r
BY DEF Hidden, Columns

LEMMA UpsertDoes ==
  ASSUME NEW f, Lines(f), NEW step, step.tier \in TierSet, step.rows \subseteq RowsOf(f, step.tier),
         upsertBatch(step.tier, step.rows)
  PROVE  /\ DOMAIN place' = DOMAIN place \cup PlacesOf(step)
         /\ \A id \in PlacesOf(step) :
              /\ id = <<id[1], id[2]>> /\ id[1] = step.tier /\ id[2] # Nil /\ Mentions(f, id) # {}
              /\ place'[id] = Lined(f, id, PinOf(place, id))
         /\ \A id \in DOMAIN place \ PlacesOf(step) : place'[id] = place[id]
<1> DEFINE t == step.tier
           ids == {<<t, r.code>> : r \in step.rows}
<1>1. place' = [id \in DOMAIN place \cup ids |->
                 IF id \notin ids THEN place[id]
                 ELSE Fresh(CHOOSE r \in step.rows : r.code = id[2], PinOf(place, id))]
  BY DEF upsertBatch
<1>2. PlacesOf(step) = ids
  BY DEF PlacesOf
<1>3. ASSUME NEW id \in ids
      PROVE  /\ id = <<id[1], id[2]>> /\ id[1] = t /\ id[2] # Nil /\ Mentions(f, id) # {}
             /\ place'[id] = Lined(f, id, PinOf(place, id))
  <2>1. PICK r \in step.rows : id = <<t, r.code>>
    BY <1>3
  <2>2. /\ Mentions(f, id) # {} /\ id[2] # Nil
        /\ (CHOOSE q \in step.rows : q.code = id[2]) = RowOf(LineOf(f, id), t)
    <3>1. t \in TierSet /\ step.rows \subseteq RowsOf(f, t)
      OBVIOUS
    <3> HIDE DEF t, ids
    <3>2. /\ Mentions(f, id) # {} /\ id[2] # Nil
          /\ (CHOOSE q \in step.rows : q.code = id[2]) = RowOf(LineOf(f, id), t)
      BY ONLY Lines(f), <2>1, <3>1, RowIs
    <3> QED BY <3>2
  <2>3. place'[id] = Fresh(CHOOSE q \in step.rows : q.code = id[2], PinOf(place, id))
    BY <1>1
  <2>4. place'[id] = Fresh(RowOf(LineOf(f, id), t), PinOf(place, id))
    BY <2>2, <2>3
  <2>5. id[1] = t /\ id[2] = r.code
    BY <2>1
  <2>6. Fresh(RowOf(LineOf(f, id), t), PinOf(place, id)) = Lined(f, id, PinOf(place, id))
    BY <2>5, FreshIs
  <2> HIDE DEF ids, t
  <2> QED BY <2>1, <2>2, <2>4, <2>5, <2>6
<1> HIDE DEF ids, t
<1>4. DOMAIN place' = DOMAIN place \cup ids
  BY <1>1
<1>5. \A id \in DOMAIN place \ ids : place'[id] = place[id]
  BY <1>1
<1> QED BY <1>2, <1>3, <1>4, <1>5 DEF t

LEMMA HideDoes ==
  ASSUME NEW ids, ids \subseteq Stubs, softDeleteLegacyStubs(ids)
  PROVE  /\ DOMAIN place' = DOMAIN place
         /\ \A id \in DOMAIN place : place'[id] = IF id \in ids THEN Hidden(id, place[id]) ELSE place[id]
BY DEF softDeleteLegacyStubs, Hidden

\* The step an import is at, and what its kind means.
LEMMA StepIs ==
  ASSUME PlaceTypes, NEW m \in 1 .. Len(Todo)
  PROVE  /\ Len(Todo) \in Nat
         /\ \/ /\ Todo[m].do = "upsert" /\ Todo[m].tier \in TierSet
               /\ Todo[m].rows \subseteq RowsOf(importer.file, Todo[m].tier)
            \/ Todo[m].do = "hide" /\ Todo[m].rows \subseteq Stubs
BY StatementsAre DEF PlaceTypes, Todo, StepsFit

-----------------------------------------------------------------------------
(* Types.                                                                    *)

PlaceRow(id, rec) ==
  /\ id = <<id[1], id[2]>> /\ id[1] \in TierSet /\ id[2] # Nil
  /\ DOMAIN rec = Columns /\ rec.active \in BOOLEAN /\ rec.deleted \in BOOLEAN
PlaceRows(places) == \A id \in DOMAIN places : PlaceRow(id, places[id])
EditorFits(e, ids) ==
  /\ e.at \in {"idle", "edit", "remove"}
  /\ e.at # "idle" => e.id \in ids
  /\ e.at = "edit" => e.active \in BOOLEAN

LEMMA TypesAre ==
  PlaceTypes <=> /\ PlaceRows(place) /\ PlaceRows(origin)
                 /\ editor = [k \in Editors |-> editor[k]]
                 /\ \A k \in Editors : EditorFits(editor[k], DOMAIN place)
                 /\ importer = [file |-> importer.file, at |-> importer.at]
                 /\ importer.at \in -1 .. Len(Todo)
                 /\ Lines(importer.file)
BY DEF PlaceTypes, PlaceRows, PlaceRow, EditorFits

LEMMA PlacesStart == PlacesInit => PlacesInv
<1> SUFFICES ASSUME PlacesInit PROVE PlacesInv
  OBVIOUS
<1> USE DEF PlacesInit
<1>1. Lines(importer.file)
  BY DEF Lines, NoFile
<1>2. Len(Todo) \in Nat \ {0}
  BY <1>1, StatementsAre DEF Todo
<1>3. PlaceRows(place) /\ PlaceRows(origin)
  BY PlacesAssumption, TiersAre DEF PlaceRows, PlaceRow, Columns
<1>4. \A k \in Editors : EditorFits(editor[k], DOMAIN place)
  BY DEF EditorFits, NoRequest
<1>5. PlaceTypes
  BY <1>1, <1>2, <1>3, <1>4, TypesAre
<1>6. ImportInv
  BY DEF ImportInv, ImportFaithful
<1>7. FamilyInv
  <2>1. ASSUME NEW id \in DOMAIN place, id[1] # "district", Standing(id), ~Excused(id)
        PROVE  Standing(ParentOf(id, place[id].parent))
    BY <2>1, PlacesAssumption DEF Standing, Excused, ParentOf
  <2>2. Pending("remove") = {}
    BY DEF Pending, NoRequest
  <2> QED BY <2>1, <2>2 DEF FamilyInv
<1> QED BY <1>5, <1>6, <1>7 DEF PlacesInv

LEMMA StartImportTypes ==
  ASSUME PlaceTypes, NEW n \in DOMAIN Files, StartImport(Files[n])
  PROVE  PlaceTypes'
<1>1. /\ importer' = [file |-> Files[n], at |-> 1] /\ UNCHANGED <<place, editor>>
      /\ origin' = origin \/ origin' = place
  BY DEF StartImport
<1>2. Lines(importer'.file)
  BY <1>1, PlacesAssumption DEF Lines
<1>3. Len(Todo') \in Nat \ {0}
  BY <1>2, StatementsAre DEF Todo
<1>4. PlaceRows(place') /\ PlaceRows(origin')
  BY <1>1, TypesAre
<1>5. \A k \in Editors : EditorFits(editor'[k], DOMAIN place')
  BY <1>1, TypesAre
<1> QED BY <1>1, <1>2, <1>3, <1>4, <1>5, TypesAre DEF PlaceTypes, PlaceRows, PlaceRow, EditorFits

LEMMA ImportStepTypes ==
  ASSUME PlaceTypes, ImportStep
  PROVE  PlaceTypes'
<1> DEFINE f == importer.file
           n == importer.at
           step == Todo[n]
<1>1. /\ n \in 1 .. Len(Todo) /\ Lines(f) /\ Len(Todo) \in Nat
      /\ importer' = [importer EXCEPT !.at = IF @ = Len(Todo) THEN 0 ELSE @ + 1]
      /\ UNCHANGED <<editor, origin>>
  BY StatementsAre DEF ImportStep, Importing, PlaceTypes, Todo
<1>2. importer' = [file |-> f, at |-> importer'.at] /\ importer'.at \in -1 .. Len(Todo)
  BY <1>1 DEF PlaceTypes
<1>3. \/ /\ step.do = "upsert" /\ upsertBatch(step.tier, step.rows)
         /\ step.tier \in TierSet /\ step.rows \subseteq RowsOf(f, step.tier)
      \/ step.do = "hide" /\ softDeleteLegacyStubs(step.rows) /\ step.rows \subseteq Stubs
  BY <1>1, StepIs DEF ImportStep, Todo
<1>4. PlaceRows(place') /\ DOMAIN place \subseteq DOMAIN place'
  <2> HIDE DEF step, f
  <2>1. CASE /\ upsertBatch(step.tier, step.rows)
             /\ step.tier \in TierSet /\ step.rows \subseteq RowsOf(f, step.tier)
    <3>1. /\ DOMAIN place' = DOMAIN place \cup PlacesOf(step)
          /\ \A id \in PlacesOf(step) :
               /\ id = <<id[1], id[2]>> /\ id[1] = step.tier /\ id[2] # Nil
               /\ place'[id] = Lined(f, id, PinOf(place, id))
          /\ \A id \in DOMAIN place \ PlacesOf(step) : place'[id] = place[id]
      BY <1>1, <2>1, UpsertDoes
    <3>2. ASSUME NEW id \in PlacesOf(step) PROVE PlaceRow(id, place'[id])
      <4> DEFINE r == Lined(f, id, PinOf(place, id))
      <4>1. place'[id] = r /\ r = Lined(f, id, PinOf(place, id))
        BY <3>1
      <4> HIDE DEF r
      <4>2. DOMAIN r = Columns /\ r.active = TRUE /\ r.deleted = FALSE
        BY <4>1 DEF Lined, Columns
      <4> QED BY <4>1, <4>2, <2>1, <3>1 DEF PlaceRow
    <3>3. \A id \in DOMAIN place \ PlacesOf(step) : PlaceRow(id, place'[id])
      BY <3>1, TypesAre DEF PlaceRows
    <3> QED BY <3>1, <3>2, <3>3 DEF PlaceRows
  <2>2. CASE softDeleteLegacyStubs(step.rows) /\ step.rows \subseteq Stubs
    <3>1. /\ DOMAIN place' = DOMAIN place
          /\ \A id \in DOMAIN place :
               place'[id] = IF id \in step.rows THEN Hidden(id, place[id]) ELSE place[id]
      BY <2>2, HideDoes
    <3>2. ASSUME NEW id \in DOMAIN place PROVE PlaceRow(id, place'[id])
      <4>1. PlaceRow(id, place[id])
        BY TypesAre DEF PlaceRows
      <4>2. PlaceRow(id, Hidden(id, place[id]))
        BY <4>1, HiddenIs DEF PlaceRow
      <4> QED BY <4>1, <4>2, <3>1
    <3> QED BY <3>1, <3>2 DEF PlaceRows
  <2> QED BY <1>3, <2>1, <2>2
<1>5. \A k \in Editors : EditorFits(editor'[k], DOMAIN place')
  BY <1>1, <1>4, TypesAre DEF EditorFits
<1>6. PlaceRows(origin') /\ editor' = [k \in Editors |-> editor'[k]]
  BY <1>1, TypesAre
<1>7. Todo' = Todo /\ Lines(importer'.file)
  BY <1>1, <1>2 DEF Todo
<1> QED BY <1>2, <1>4, <1>5, <1>6, <1>7 DEF PlaceTypes, PlaceRows, PlaceRow, EditorFits

\* An admin's request changes his own entry, and at most one row, whose columns
\* stay what they are.
LEMMA EditorTypes ==
  ASSUME PlaceTypes, UNCHANGED <<importer, origin>>, NEW k \in Editors, NEW e,
         editor' = [editor EXCEPT ![k] = e], DOMAIN place' = DOMAIN place,
         EditorFits(e, DOMAIN place), PlaceRows(place')
  PROVE  PlaceTypes'
<1>1. \A q \in Editors : EditorFits(editor'[q], DOMAIN place')
  BY TypesAre
<1>2. editor' = [q \in Editors |-> editor'[q]]
  BY TypesAre
<1>3. Todo' = Todo
  BY DEF Todo
<1> QED BY <1>1, <1>2, <1>3, TypesAre DEF PlaceTypes, PlaceRows, PlaceRow, EditorFits

LEMMA EditPlaceDoes ==
  ASSUME PlaceTypes, NEW k \in Editors, EditPlace(k)
  PROVE  /\ UNCHANGED <<importer, origin, overtaken>>
         /\ editor' = [editor EXCEPT ![k] = NoRequest]
         /\ DOMAIN place' = DOMAIN place /\ PlaceRows(place')
         /\ touched \subseteq touched' /\ typed \subseteq typed'
         /\ \A id \in DOMAIN place \ touched' : place'[id] = place[id]
         /\ \A id \in DOMAIN place : /\ place'[id].deleted = place[id].deleted
                                     /\ place'[id].parent # place[id].parent => id \in typed'
<1> DEFINE e == editor[k]
<1>1. UNCHANGED <<importer, origin, overtaken>> /\ editor' = [editor EXCEPT ![k] = NoRequest] /\ e.at = "edit"
  BY DEF EditPlace
<1>2. CASE UNCHANGED <<place, touched, typed>>
  BY <1>1, <1>2, TypesAre
<1>3. CASE /\ place' = [place EXCEPT ![e.id].label = e.label, ![e.id].parent = e.parent,
                                     ![e.id].active = e.active]
           /\ touched' = touched \cup {e.id}
           /\ typed' = IF e.moves \/ e.parent # place[e.id].parent THEN typed \cup {e.id}
                       ELSE typed
  <2>1. e.id \in DOMAIN place /\ e.active \in BOOLEAN /\ PlaceRow(e.id, place[e.id])
    BY <1>1, TypesAre DEF EditorFits, PlaceRows
  <2>2. /\ DOMAIN place' = DOMAIN place
        /\ \A id \in DOMAIN place \ {e.id} : place'[id] = place[id]
    BY <1>3
  <2>3. /\ DOMAIN place'[e.id] = Columns
        /\ place'[e.id].parent = e.parent /\ place'[e.id].active = e.active
        /\ place'[e.id].deleted = place[e.id].deleted
    BY <1>3, <2>1 DEF PlaceRow, Columns
  <2>4. PlaceRow(e.id, place'[e.id])
    BY <2>1, <2>3 DEF PlaceRow
  <2>5. PlaceRows(place')
    BY <2>2, <2>4, TypesAre DEF PlaceRows
  <2> HIDE DEF e
  <2> QED BY <1>1, <1>3, <2>2, <2>3, <2>5
<1> QED BY <1>2, <1>3 DEF EditPlace

LEMMA RemovePlaceDoes ==
  ASSUME PlaceTypes, NEW k \in Editors, RemovePlace(k)
  PROVE  /\ UNCHANGED <<importer, origin, overtaken, typed>> /\ editor[k].at = "remove"
         /\ editor' = [editor EXCEPT ![k] = NoRequest]
         /\ DOMAIN place' = DOMAIN place /\ PlaceRows(place')
         /\ touched \subseteq touched'
         /\ \A id \in DOMAIN place \ touched' : place'[id] = place[id]
         /\ \A id \in DOMAIN place : /\ place'[id].parent = place[id].parent
                                     /\ id # editor[k].id => place'[id].deleted = place[id].deleted
                                     /\ id = editor[k].id => place'[id].deleted = TRUE
<1> DEFINE d == editor[k].id
<1>1. /\ UNCHANGED <<importer, origin, overtaken, typed>> /\ editor[k].at = "remove"
      /\ editor' = [editor EXCEPT ![k] = NoRequest]
      /\ place' = [place EXCEPT ![d] = [place[d] EXCEPT !.deleted = TRUE, !.active = FALSE]]
      /\ touched' = touched \cup {d}
  BY DEF RemovePlace
<1>2. d \in DOMAIN place /\ PlaceRow(d, place[d])
  BY <1>1, TypesAre DEF EditorFits, PlaceRows
<1> HIDE DEF d
<1>3. /\ DOMAIN place' = DOMAIN place
      /\ \A id \in DOMAIN place \ {d} : place'[id] = place[id]
  BY <1>1
<1>4. /\ DOMAIN place'[d] = Columns /\ place'[d].parent = place[d].parent
      /\ place'[d].active = FALSE /\ place'[d].deleted = TRUE
  BY <1>1, <1>2 DEF PlaceRow, Columns
<1>5. PlaceRows(place')
  <2>1. PlaceRow(d, place'[d])
    BY <1>2, <1>4 DEF PlaceRow
  <2> QED BY <2>1, <1>2, <1>3, TypesAre DEF PlaceRows
<1> QED BY <1>1, <1>3, <1>4, <1>5 DEF d

\* The two requests of an admin, up to where they wait.
LEMMA AskDoes ==
  ASSUME PlaceTypes, NEW k \in Editors, NEW id \in DOMAIN place,
         \/ StartRemovePlace(k, id)
         \/ \E label, upper, active : active \in BOOLEAN /\ StartEditPlace(k, id, label, upper, active)
  PROVE  /\ UNCHANGED <<place, importer, origin, touched, typed>> /\ overtaken \subseteq overtaken'
         /\ \E e : /\ editor' = [editor EXCEPT ![k] = e] /\ EditorFits(e, DOMAIN place)
                   /\ e.at = "remove" =>
                        /\ Below(e.id) = {}
                        /\ e.id \in overtaken' \/ ~Importing
<1>1. CASE StartRemovePlace(k, id)
  <2> DEFINE e == [at |-> "remove", id |-> id]
  <2>1. /\ UNCHANGED <<place, importer, origin, touched, typed>> /\ Below(id) = {}
        /\ editor' = [editor EXCEPT ![k] = e]
        /\ overtaken \subseteq overtaken' /\ (id \in overtaken' \/ ~Importing)
    BY <1>1 DEF StartRemovePlace, AskEditor
  <2>2. EditorFits(e, DOMAIN place) /\ e.id = id
    BY DEF EditorFits
  <2> HIDE DEF e
  <2> QED BY <2>1, <2>2
<1>2. ASSUME NEW label, NEW upper, NEW active \in BOOLEAN, StartEditPlace(k, id, label, upper, active)
      PROVE  /\ UNCHANGED <<place, importer, origin, touched, typed>> /\ overtaken \subseteq overtaken'
             /\ \E e : /\ editor' = [editor EXCEPT ![k] = e] /\ EditorFits(e, DOMAIN place)
                       /\ e.at # "remove"
  <2> DEFINE e == [at |-> "edit", id |-> id, label |-> label, parent |-> upper, active |-> active,
                   moves |-> upper # place[id].parent]
  <2>1. /\ UNCHANGED <<place, importer, origin, touched, typed>>
        /\ editor' = [editor EXCEPT ![k] = e]
        /\ overtaken \subseteq overtaken'
    BY <1>2 DEF StartEditPlace, AskEditor
  <2>2. EditorFits(e, DOMAIN place) /\ e.at # "remove"
    BY DEF EditorFits
  <2> HIDE DEF e
  <2> QED BY <2>1, <2>2
<1> QED BY <1>1, <1>2

-----------------------------------------------------------------------------
(* The import is faithful.                                                   *)

WantedBefore(id) == IF Mentions(importer.file, id) = {} THEN origin[id] ELSE Fresher(id)

LEMMA WantedIs ==
  ASSUME PlaceTypes, NEW id \in DOMAIN Imported(origin, importer.file)
  PROVE  /\ Wanted(id) = Hidden(id, WantedBefore(id))
         /\ Mentions(importer.file, id) = {} => id \in DOMAIN origin
         /\ DOMAIN WantedBefore(id) = Columns
         /\ WantedBefore(id).active \in BOOLEAN /\ WantedBefore(id).deleted \in BOOLEAN
         /\ Hidden(id, Wanted(id)) = Wanted(id)
         /\ Wanted(id).pin = WantedBefore(id).pin
         /\ id \notin Stubs => Wanted(id) = WantedBefore(id)
<1> DEFINE w == WantedBefore(id)
<1>1. Wanted(id) = Hidden(id, w) /\ (Mentions(importer.file, id) = {} => id \in DOMAIN origin)
  BY WantIs DEF Wanted, Fresher, WantedBefore
<1>2. DOMAIN w = Columns /\ w.active \in BOOLEAN /\ w.deleted \in BOOLEAN
  <2>1. CASE Mentions(importer.file, id) = {}
    <3>1. w = origin[id] /\ id \in DOMAIN origin
      BY <1>1, <2>1 DEF WantedBefore
    <3> QED BY <3>1, TypesAre DEF PlaceRows, PlaceRow
  <2>2. CASE Mentions(importer.file, id) # {}
    <3> DEFINE r == Fresher(id)
    <3>1. w = r
      BY <2>2 DEF WantedBefore
    <3>2. r = Lined(importer.file, id, PinOf(origin, id))
      BY DEF Fresher
    <3> HIDE DEF r, w
    <3>3. DOMAIN r = Columns /\ r.active = TRUE /\ r.deleted = FALSE
      BY <3>2 DEF Lined, Columns
    <3> QED BY <3>1, <3>3
  <2> QED BY <2>1, <2>2
<1> HIDE DEF w
<1>3. /\ Hidden(id, w).pin = w.pin /\ (id \notin Stubs => Hidden(id, w) = w)
      /\ Hidden(id, Hidden(id, w)) = Hidden(id, w)
  BY <1>2, HiddenIs
<1> QED BY <1>1, <1>2, <1>3 DEF w

\* A line without a pincode finds the one there was before the first try.
LEMMA PinSettles ==
  ASSUME PlaceTypes, NEW id, Mentions(importer.file, id) # {},
         DOMAIN origin \subseteq DOMAIN place, id \in DOMAIN place => Settled(id, place[id])
  PROVE  Lined(importer.file, id, PinOf(place, id)) = Fresher(id)
<1> DEFINE f == importer.file
           line == LineOf(f, id)
<1>1. Fresher(id).pin = IF id[1] = "shivar" /\ line.pin # Nil THEN line.pin ELSE PinOf(origin, id)
  <2> DEFINE r == Fresher(id)
             y == PinOf(origin, id)
  <2>1. r = Lined(f, id, y) /\ line = LineOf(f, id)
    BY DEF Fresher
  <2> HIDE DEF r, y, f, line
  <2>2. r.pin = IF id[1] = "shivar" /\ line.pin # Nil THEN line.pin ELSE y
    BY <2>1 DEF Lined
  <2> QED BY <2>2 DEF r, y
<1>2. \/ PinOf(place, id) = PinOf(origin, id) \/ PinOf(place, id) = Fresher(id).pin
  <2>1. CASE id \notin DOMAIN place
    BY <2>1 DEF PinOf
  <2>2. CASE id \in DOMAIN place
    <3>1. CASE id \in DOMAIN origin /\ place[id] = origin[id]
      BY <3>1, <2>2 DEF PinOf
    <3>2. CASE id \in DOMAIN Imported(origin, f) /\ place[id] = Wanted(id)
      <4>1. Wanted(id).pin = WantedBefore(id).pin /\ WantedBefore(id) = Fresher(id)
        BY <3>2, WantedIs DEF WantedBefore
      <4> QED BY <4>1, <3>2, <2>2 DEF PinOf
    <3>3. CASE place[id] = Fresher(id)
      BY <3>3, <2>2 DEF PinOf
    <3> QED BY <2>2, <3>1, <3>2, <3>3 DEF Settled
  <2> QED BY <2>1, <2>2
<1>3. CASE PinOf(place, id) = PinOf(origin, id)
  BY <1>3 DEF Fresher
<1>4. CASE PinOf(place, id) = Fresher(id).pin
  <2> DEFINE x == PinOf(place, id)
             y == PinOf(origin, id)
  <2>1. x = IF id[1] = "shivar" /\ line.pin # Nil THEN line.pin ELSE y
    BY <1>1, <1>4
  <2> HIDE DEF x, y, line
  <2>2. (IF id[1] = "shivar" /\ line.pin # Nil THEN line.pin ELSE x)
          = IF id[1] = "shivar" /\ line.pin # Nil THEN line.pin ELSE y
    BY <2>1
  <2>3. Lined(f, id, x) = Lined(f, id, y)
    BY <2>2 DEF Lined, line
  <2> QED BY <2>3 DEF Fresher, x, y
<1> QED BY <1>2, <1>3, <1>4

\* Every place of the file has its statement.
LEMMA EachIsWritten ==
  ASSUME PlaceTypes, NEW id, id = <<id[1], id[2]>>, id[1] \in TierSet, Mentions(importer.file, id) # {}
  PROVE  \E m \in 1 .. Len(Todo) : Todo[m].do = "upsert" /\ id \in PlacesOf(Todo[m])
<1> DEFINE f == importer.file
           t == id[1]
<1>1. Lines(f)
  BY DEF PlaceTypes
<1>2. PICK n \in loadCsv(f, t) : f[n].code[t] = id[2]
  BY <1>1, FirstLine
<1>3. RowOf(f[n], t) \in RowsOf(f, t) /\ RowOf(f[n], t).code = id[2]
  BY <1>2 DEF RowsOf, RowOf
<1>4. WritesAll(f, t, Todo)
  BY <1>1, StatementsAre DEF Todo
<1>5. PICK m \in 1 .. Len(Todo) : Todo[m].do = "upsert" /\ Todo[m].tier = t /\ RowOf(f[n], t) \in Todo[m].rows
  BY <1>3, <1>4 DEF WritesAll
<1>6. <<Todo[m].tier, RowOf(f[n], t).code>> = id
  BY <1>3, <1>5
<1> QED BY <1>5, <1>6 DEF PlacesOf

\* What is before a statement in the script.
LEMMA TurnsAre ==
  ASSUME PlaceTypes, NEW m \in 1 .. Len(Todo), NEW n \in 1 .. Len(Todo), StepRank(Todo[m]) < StepRank(Todo[n])
  PROVE  m < n
<1>1. InTurn(Todo, 1, 4) /\ Len(Todo) \in Nat
  BY StatementsAre DEF PlaceTypes, Todo
<1>2. StepRank(Todo[m]) \in 1 .. 4 /\ StepRank(Todo[n]) \in 1 .. 4
  BY <1>1 DEF InTurn
<1>3. ~(n < m) /\ n # m
  BY <1>1, <1>2 DEF InTurn
<1> QED BY <1>1, <1>3

\* Writes of the admins.
LEMMA Touches ==
  ASSUME ImportInv, UNCHANGED <<importer, origin>>, DOMAIN place' = DOMAIN place, touched \subseteq touched',
         \A id \in DOMAIN place \ touched' : place'[id] = place[id]
  PROVE  ImportInv'
<1>1. Todo' = Todo /\ Imported(origin, importer.file)' = Imported(origin, importer.file)
  BY DEF Todo
<1>2. \A id : Fresher(id)' = Fresher(id) /\ Wanted(id)' = Wanted(id)
  BY <1>1 DEF Fresher, Wanted
<1>3. \A id \in DOMAIN place \ touched' : Settled(id, place[id]) => Settled(id, place[id])'
  BY <1>1, <1>2 DEF Settled
<1>4. \A m : Written(Todo[m], place) => Written(Todo[m], place)'
  BY <1>1, <1>2 DEF Written, PlacesOf
<1>5. \A m : Cleared(Todo[m], place) => Cleared(Todo[m], place)'
  BY <1>1, <1>2 DEF Cleared
<1>6. ImportFaithful'
  BY DEF ImportInv, ImportFaithful
<1>7. ASSUME NEW n, Progress(n, place) PROVE Progress(n, place)'
  BY <1>1, <1>3, <1>4, <1>5, <1>7 DEF Progress
<1> QED BY <1>6, <1>7 DEF ImportInv

LEMMA ImportStarts ==
  ASSUME PlaceTypes, ImportInv, NEW k \in DOMAIN Files, StartImport(Files[k])
  PROVE  ImportInv'
<1> DEFINE again == importer.at < 0 /\ importer.file = Files[k]
<1>1. /\ importer' = [file |-> Files[k], at |-> 1] /\ place' = place
      /\ origin' = (IF again THEN origin ELSE place)
      /\ touched' = (IF again THEN touched ELSE {})
  BY DEF StartImport
<1>2. importer'.at = 1 /\ importer'.file = Files[k]
  BY <1>1
<1>3. Progress(0, place)'
  <2>1. CASE again
    <3>1. importer.at # 0 /\ importer'.file = importer.file /\ origin' = origin /\ touched' = touched
      BY <1>1, <1>2, <2>1 DEF PlaceTypes
    <3>2. /\ DOMAIN origin \subseteq DOMAIN place
          /\ DOMAIN place \subseteq DOMAIN Imported(origin, importer.file)
          /\ \A id \in DOMAIN place \ touched : Settled(id, place[id])
      BY <3>1 DEF ImportInv, Progress
    <3>3. \A id : Settled(id, place[id]) => Settled(id, place[id])'
      BY <1>1, <3>1 DEF Settled, Wanted, Fresher
    <3> QED BY <1>1, <3>1, <3>2, <3>3 DEF Progress
  <2>2. CASE ~again
    <3>1. origin' = place /\ touched' = {} /\ place' = place
      BY <1>1, <2>2
    <3>2. DOMAIN place \subseteq DOMAIN Imported(place, importer'.file)
      BY WantIs
    <3>3. \A id \in DOMAIN place' : Settled(id, place[id])'
      BY <3>1 DEF Settled
    <3> QED BY <3>1, <3>2, <3>3 DEF Progress
  <2> QED BY <2>1, <2>2
<1>4. ImportFaithful'
  BY <1>2 DEF ImportFaithful
<1> QED BY <1>2, <1>3, <1>4 DEF ImportInv

LEMMA ImportHalts ==
  ASSUME PlaceTypes, ImportInv, ImportStops
  PROVE  ImportInv' /\ PlaceTypes'
<1>1. /\ importer.at > 0 /\ importer' = [importer EXCEPT !.at = -1]
      /\ UNCHANGED <<place, editor, origin, touched, overtaken, typed>>
  BY DEF ImportStops, Importing
<1>2. importer'.at = -1 /\ importer'.file = importer.file
      /\ importer' = [file |-> importer'.file, at |-> importer'.at]
  BY <1>1 DEF PlaceTypes
<1>3. Progress(importer.at - 1, place) /\ importer.at \in Int
  BY <1>1 DEF ImportInv, PlaceTypes
<1>4. \A id : Settled(id, place[id]) => Settled(id, place[id])'
  BY <1>1, <1>2 DEF Settled, Wanted, Fresher
<1>5. Progress(importer.at - 1, place)'
  BY <1>1, <1>2, <1>3, <1>4 DEF Progress
<1>6. ImportFaithful'
  BY <1>2 DEF ImportFaithful
<1>7. Todo' = Todo /\ Len(Todo) \in Nat
  BY <1>2, StatementsAre DEF Todo, PlaceTypes
<1>8. PlaceTypes'
  BY <1>1, <1>2, <1>7 DEF PlaceTypes
<1> QED BY <1>5, <1>6, <1>8 DEF ImportInv

\* A place the file names is one the whole import leaves.
LEMMA MentionWanted ==
  ASSUME NEW before, NEW f, NEW id, id = <<id[1], id[2]>>, id[1] \in TierSet, Mentions(f, id) # {}
  PROVE  id \in DOMAIN Imported(before, f)
<1>1. PICK n \in DOMAIN f : Complete(f[n]) /\ f[n].code[id[1]] = id[2]
  BY DEF Mentions
<1>2. <<id[1], f[n].code[id[1]]>> \in DOMAIN Imported(before, f)
  BY <1>1, WantIs
<1> QED BY <1>1, <1>2

\* A batch that is written.
LEMMA UpsertSettles ==
  ASSUME PlaceTypes, NEW n \in 1 .. Len(Todo), Progress(n - 1, place), Todo[n].do = "upsert",
         upsertBatch(Todo[n].tier, Todo[n].rows)
  PROVE  Progress(n, place')
<1> DEFINE step == Todo[n]
           f == importer.file
<1>0. Lines(f) /\ step.tier \in TierSet /\ step.rows \subseteq RowsOf(f, step.tier) /\ n \in Nat
  BY StepIs DEF PlaceTypes
<1>1. /\ DOMAIN place' = DOMAIN place \cup PlacesOf(step)
      /\ \A id \in PlacesOf(step) :
              /\ id = <<id[1], id[2]>> /\ id[1] = step.tier /\ id[2] # Nil /\ Mentions(f, id) # {}
              /\ place'[id] = Lined(f, id, PinOf(place, id))
      /\ \A id \in DOMAIN place \ PlacesOf(step) : place'[id] = place[id]
  BY <1>0, UpsertDoes
<1>2. ASSUME NEW id \in PlacesOf(step), id \notin touched PROVE place'[id] = Fresher(id)
  <2>1. id \in DOMAIN place => Settled(id, place[id])
    BY <1>2 DEF Progress
  <2>2. Lined(f, id, PinOf(place, id)) = Fresher(id)
    BY <2>1, <1>1, PinSettles DEF Progress
  <2> QED BY <2>2, <1>1
<1>3. \A id \in PlacesOf(step) : id \in DOMAIN Imported(origin, f)
  BY <1>0, <1>1, MentionWanted
<1>4. ASSUME NEW id \in DOMAIN place' \ touched PROVE Settled(id, place'[id])
  <2>1. CASE id \in PlacesOf(step)
    BY <2>1, <1>1, <1>2, <1>4 DEF Settled
  <2>2. CASE id \notin PlacesOf(step)
    BY <2>2, <1>1, <1>4 DEF Progress
  <2> QED BY <2>1, <2>2
<1>5. ASSUME NEW m \in 1 .. n
      PROVE  IF Todo[m].do = "upsert" THEN Written(Todo[m], place') ELSE Cleared(Todo[m], place')
  <2>1. CASE m = n
    BY <2>1, <1>1, <1>2 DEF Written
  <2>2. CASE m # n
    <3>1. m \in 1 .. (n - 1) /\ m \in 1 .. Len(Todo) /\ Len(Todo) \in Nat
      BY <2>2, <1>0, StepIs
    <3>2. CASE Todo[m].do = "upsert"
      <4>1. Written(Todo[m], place)
        BY <3>1, <3>2 DEF Progress
      <4>2. Written(Todo[m], place')
        <5>1. ASSUME NEW id \in PlacesOf(Todo[m])
              PROVE id \in DOMAIN place' /\ (id \notin touched => place'[id] \in {Fresher(id), Wanted(id)})
          <6>1. id \in DOMAIN place /\ (id \notin touched => place[id] \in {Fresher(id), Wanted(id)})
            BY <4>1 DEF Written
          <6> QED BY <6>1, <1>1, <1>2
        <5> QED BY <5>1 DEF Written
      <4> QED BY <4>2, <3>2
    <3>3. CASE Todo[m].do # "upsert"
      <4>1. Todo[m].do = "hide"
        BY <3>1, <3>3, StepIs
      <4>2. StepRank(Todo[n]) < StepRank(Todo[m])
        BY <4>1 DEF StepRank
      <4> QED BY <4>2, <3>1, TurnsAre
    <3> QED BY <3>2, <3>3
  <2> QED BY <2>1, <2>2
<1> QED BY <1>1, <1>3, <1>4, <1>5 DEF Progress

\* What hiding a stub makes of a place that was settled when all batches were.
LEMMA HideSettles ==
  ASSUME PlaceTypes, NEW n \in 1 .. Len(Todo), Progress(n - 1, place), Todo[n].do = "hide",
         softDeleteLegacyStubs(Todo[n].rows)
  PROVE  Progress(n, place')
<1> DEFINE step == Todo[n]
           f == importer.file
<1>0. step.rows \subseteq Stubs /\ n \in Nat /\ Len(Todo) \in Nat
  BY StepIs
<1>1. /\ DOMAIN place' = DOMAIN place
      /\ \A id \in DOMAIN place :
           place'[id] = IF id \in step.rows THEN Hidden(id, place[id]) ELSE place[id]
  BY <1>0, HideDoes
<1>2. ASSUME NEW id \in DOMAIN place, id \in step.rows, id \notin touched PROVE place'[id] = Wanted(id)
  <2>1. place'[id] = Hidden(id, place[id]) /\ id \in DOMAIN Imported(origin, f) /\ Settled(id, place[id])
    BY <1>1, <1>2 DEF Progress
  <2>2. Wanted(id) = Hidden(id, WantedBefore(id)) /\ Hidden(id, Wanted(id)) = Wanted(id)
    BY <2>1, WantedIs
  <2>3. CASE place[id] = Wanted(id)
    BY <2>1, <2>2, <2>3
  <2>4. CASE Mentions(f, id) # {} /\ place[id] = Fresher(id)
    BY <2>1, <2>2, <2>4 DEF WantedBefore
  <2>5. CASE Mentions(f, id) = {} /\ place[id] = origin[id]
    BY <2>1, <2>2, <2>5 DEF WantedBefore
  <2>6. CASE Mentions(f, id) # {}
    <3>1. id = <<id[1], id[2]>> /\ id[1] \in TierSet
      BY <1>2 DEF PlaceTypes
    <3>2. PICK m \in 1 .. Len(Todo) : Todo[m].do = "upsert" /\ id \in PlacesOf(Todo[m])
      BY <3>1, <2>6, EachIsWritten
    <3>3. StepRank(Todo[m]) < StepRank(Todo[n])
      BY <3>2 DEF StepRank
    <3>4. m \in 1 .. (n - 1)
      BY <3>3, <1>0, TurnsAre
    <3>5. place[id] \in {Fresher(id), Wanted(id)}
      BY <3>2, <3>4, <1>2 DEF Progress, Written
    <3> QED BY <3>5, <2>3, <2>4, <2>6
  <2> QED BY <2>1, <2>3, <2>5, <2>6 DEF Settled
<1>3. ASSUME NEW id \in DOMAIN place' \ touched PROVE Settled(id, place'[id])
  <2>1. id \in DOMAIN Imported(origin, f) /\ Settled(id, place[id])
    BY <1>1, <1>3 DEF Progress
  <2> QED BY <2>1, <1>1, <1>2, <1>3 DEF Settled
<1>4. ASSUME NEW m \in 1 .. n
      PROVE  IF Todo[m].do = "upsert" THEN Written(Todo[m], place') ELSE Cleared(Todo[m], place')
  <2>1. CASE m = n
    BY <2>1, <1>1, <1>2 DEF Cleared
  <2>2. CASE m # n
    <3>1. m \in 1 .. (n - 1)
      BY <2>2, <1>0
    <3>2. CASE Todo[m].do = "upsert"
      <4>1. Written(Todo[m], place)
        BY <3>1, <3>2 DEF Progress
      <4>2. Written(Todo[m], place')
        BY <4>1, <1>1, <1>2 DEF Written
      <4> QED BY <4>2, <3>2
    <3>3. CASE Todo[m].do # "upsert"
      <4>1. Cleared(Todo[m], place)
        BY <3>1, <3>3 DEF Progress
      <4>2. Cleared(Todo[m], place')
        BY <4>1, <1>1, <1>2 DEF Cleared
      <4> QED BY <4>2, <3>3
    <3> QED BY <3>2, <3>3
  <2> QED BY <2>1, <2>2
<1> QED BY <1>1, <1>3, <1>4 DEF Progress

\* When all statements are through, every place is as the import wants it.
LEMMA ImportEnds ==
  ASSUME PlaceTypes, NEW places, Progress(Len(Todo), places)
  PROVE  /\ DOMAIN places = DOMAIN Imported(origin, importer.file)
         /\ \A id \in DOMAIN places \ touched : places[id] = Wanted(id)
<1> DEFINE f == importer.file
           D == DOMAIN Imported(origin, f)
<1>1. \A id \in D : id = <<id[1], id[2]>> /\ id[1] \in TierSet
  BY WantIs DEF PlaceTypes
<1>2. ASSUME NEW id \in D, Mentions(f, id) # {}
      PROVE  id \in DOMAIN places /\ (id \notin touched => places[id] \in {Fresher(id), Wanted(id)})
  <2>1. PICK m \in 1 .. Len(Todo) : Todo[m].do = "upsert" /\ id \in PlacesOf(Todo[m])
    BY <1>1, <1>2, EachIsWritten
  <2> QED BY <2>1 DEF Progress, Written
<1>3. D \subseteq DOMAIN places
  BY <1>2, WantIs DEF Progress
<1>4. ASSUME NEW id \in DOMAIN places \ touched PROVE places[id] = Wanted(id)
  <2>1. id \in D /\ Settled(id, places[id])
    BY DEF Progress
  <2>2. CASE id \in Stubs
    <3>1. HidesAll(id[1], Todo)
      BY <1>1, <2>1, StatementsAre DEF PlaceTypes, Todo
    <3>2. PICK m \in 1 .. Len(Todo) : Todo[m].do = "hide" /\ id \in Todo[m].rows
      BY <2>2, <3>1 DEF HidesAll
    <3> QED BY <3>2 DEF Progress, Cleared
  <2>3. CASE id \notin Stubs
    <3>1. Wanted(id) = WantedBefore(id)
      BY <2>1, <2>3, WantedIs
    <3>2. CASE Mentions(f, id) = {}
      BY <2>1, <3>1, <3>2 DEF Settled, WantedBefore
    <3>3. CASE Mentions(f, id) # {}
      BY <2>1, <3>1, <3>3, <1>2 DEF WantedBefore
    <3> QED BY <3>2, <3>3
  <2> QED BY <2>2, <2>3
<1> QED BY <1>3, <1>4 DEF Progress

LEMMA ImportGoesOn ==
  ASSUME PlaceTypes, ImportInv, ImportStep
  PROVE  ImportInv'
<1> DEFINE n == importer.at
<1>1. /\ n \in 1 .. Len(Todo) /\ n > 0 /\ Len(Todo) \in Nat /\ UNCHANGED <<origin, touched>>
      /\ importer' = [importer EXCEPT !.at = IF @ = Len(Todo) THEN 0 ELSE @ + 1]
      /\ \/ Todo[n].do = "upsert" /\ upsertBatch(Todo[n].tier, Todo[n].rows)
         \/ Todo[n].do = "hide" /\ softDeleteLegacyStubs(Todo[n].rows)
  BY StatementsAre DEF ImportStep, Importing, PlaceTypes, Todo
<1>2. importer'.file = importer.file /\ importer'.at = IF n = Len(Todo) THEN 0 ELSE n + 1
  BY <1>1 DEF PlaceTypes
<1>3. Todo' = Todo /\ Imported(origin, importer.file)' = Imported(origin, importer.file)
  BY <1>1, <1>2 DEF Todo
<1>4. \A id : Fresher(id)' = Fresher(id) /\ Wanted(id)' = Wanted(id)
  BY <1>1, <1>2, <1>3 DEF Fresher, Wanted
<1>5. Progress(n - 1, place)
  BY <1>1 DEF ImportInv
<1>6. Progress(n, place')
  BY <1>1, <1>5, UpsertSettles, HideSettles
<1>7. ASSUME importer'.at # 0 PROVE Progress(importer'.at - 1, place')
  BY <1>1, <1>2, <1>6, <1>7
<1>8. ASSUME NEW m, Progress(m, place') PROVE Progress(m, place)'
  <2>1. \A id : Settled(id, place'[id]) => Settled(id, place[id])'
    BY <1>1, <1>2, <1>3, <1>4 DEF Settled
  <2>2. \A j : /\ Written(Todo[j], place') => Written(Todo[j], place)'
               /\ Cleared(Todo[j], place') => Cleared(Todo[j], place)'
    BY <1>1, <1>3, <1>4 DEF Written, Cleared, PlacesOf
  <2> QED BY <1>1, <1>3, <1>8, <2>1, <2>2 DEF Progress
<1>9. ASSUME importer'.at = 0 PROVE ImportFaithful'
  <2>1. n = Len(Todo)
    BY <1>1, <1>2, <1>9
  <2>2. /\ DOMAIN place' = DOMAIN Imported(origin, importer.file)
        /\ \A id \in DOMAIN place' \ touched : place'[id] = Wanted(id)
    BY <2>1, <1>6, ImportEnds
  <2> QED BY <2>2, <1>1, <1>3 DEF ImportFaithful, Wanted
<1>10. ImportFaithful'
  BY <1>9 DEF ImportFaithful
<1> QED BY <1>7, <1>8, <1>10 DEF ImportInv

-----------------------------------------------------------------------------
(* Who has a place above.                                                    *)

\* A step that takes nothing down, moves nobody and excuses nobody less.
LEMMA FamilyStays ==
  ASSUME FamilyInv, UNCHANGED <<place, typed>>, overtaken \subseteq overtaken'
  PROVE  \A id \in DOMAIN place' : id[1] # "district" /\ Standing(id)' /\ ~Excused(id)' =>
           Standing(ParentOf(id, place[id].parent))'
BY DEF FamilyInv, Standing, Excused, ParentOf

LEMMA FamilyStarts ==
  ASSUME PlaceTypes, FamilyInv, NEW n \in DOMAIN Files, StartImport(Files[n])
  PROVE  FamilyInv'
<1>1. /\ importer' = [file |-> Files[n], at |-> 1] /\ UNCHANGED <<place, editor, typed>>
      /\ overtaken' = overtaken \cup {editor[k].id : k \in Pending("remove")}
  BY DEF StartImport
<1>2. \A k \in Pending("remove")' : editor'[k].id \in overtaken'
  BY <1>1 DEF Pending
<1>3. 1 .. (importer'.at - 1) = {}
  BY <1>1
<1> QED BY <1>1, <1>2, <1>3, FamilyStays DEF FamilyInv

LEMMA FamilyHalts ==
  ASSUME PlaceTypes, FamilyInv, ImportStops
  PROVE  FamilyInv'
<1>1. /\ Importing /\ importer' = [importer EXCEPT !.at = -1]
      /\ UNCHANGED <<place, editor, typed, overtaken>>
  BY DEF ImportStops
<1>2. \A k \in Pending("remove")' : editor'[k].id \in overtaken'
  BY <1>1 DEF Pending, FamilyInv
<1>3. importer'.at = -1
  BY <1>1 DEF PlaceTypes
<1>4. 1 .. (importer'.at - 1) = {}
  BY <1>3
<1> QED BY <1>1, <1>2, <1>4, FamilyStays DEF FamilyInv

\* The place above one that a batch writes was written by a batch before.
LEMMA ParentBefore ==
  ASSUME PlaceTypes, NEW n \in 1 .. Len(Todo), Todo[n].do = "upsert",
         NEW id \in PlacesOf(Todo[n]), id[1] # "district",
         NEW upper, upper = LineOf(importer.file, id).code[Up(id[1])]
  PROVE  \E m \in 1 .. (n - 1) : Todo[m].do = "upsert" /\ ParentOf(id, upper) \in PlacesOf(Todo[m])
<1> DEFINE f == importer.file
           t == Todo[n].tier
           u == Up(t)
<1>1. Lines(f) /\ t \in TierSet /\ Todo[n].rows \subseteq RowsOf(f, t) /\ Len(Todo) \in Nat
  BY StepIs DEF PlaceTypes
<1>2. PICK rec \in Todo[n].rows : id = <<t, rec.code>>
  BY DEF PlacesOf
<1>3. id[1] = t /\ t # "district"
  BY <1>2
<1>4. u \in TierSet /\ ((t = "taluka" /\ u = "district") \/ (t = "shivar" /\ u = "taluka"))
  BY <1>1, <1>3 DEF Up, TierSet
<1>5. PICK q \in RowsOf(f, u) : q.code = upper
  <2>1. Mentions(f, id) # {}
    BY <1>1, <1>2, RowIs
  <2>2. PICK m \in DOMAIN f : Complete(f[m]) /\ f[m] = LineOf(f, id)
    BY <2>1, <1>1, LineIs
  <2>3. \E q \in RowsOf(f, u) : q.code = f[m].code[u]
    BY <2>2, <1>1, <1>4, RowThere
  <2> QED BY <2>2, <2>3, <1>3
<1>6. WritesAll(f, u, Todo)
  BY <1>1, <1>4, StatementsAre DEF Todo
<1>7. PICK m \in 1 .. Len(Todo) : Todo[m].do = "upsert" /\ Todo[m].tier = u /\ q \in Todo[m].rows
  BY <1>5, <1>6 DEF WritesAll
<1>8. StepRank(Todo[m]) < StepRank(Todo[n])
  BY <1>4, <1>7 DEF StepRank
<1>9. m < n
  BY <1>8, TurnsAre
<1>10. ParentOf(id, upper) \in PlacesOf(Todo[m])
  BY <1>3, <1>5, <1>7 DEF ParentOf, PlacesOf
<1> QED BY <1>1, <1>7, <1>9, <1>10

LEMMA FamilyGoesOn ==
  ASSUME PlaceTypes, FamilyInv, ImportStep
  PROVE  FamilyInv'
<1> DEFINE n == importer.at
           step == Todo[n]
           f == importer.file
<1>1. /\ n \in 1 .. Len(Todo) /\ n > 0 /\ Len(Todo) \in Nat /\ Importing /\ UNCHANGED <<editor, overtaken>>
      /\ importer' = [importer EXCEPT !.at = IF @ = Len(Todo) THEN 0 ELSE @ + 1]
      /\ \/ /\ step.do = "upsert" /\ upsertBatch(step.tier, step.rows)
            /\ typed' = typed \ PlacesOf(step)
         \/ step.do = "hide" /\ softDeleteLegacyStubs(step.rows) /\ typed' = typed
  BY StatementsAre DEF ImportStep, Importing, PlaceTypes, Todo, PlacesOf
<1>2. importer'.file = f /\ importer'.at = (IF n = Len(Todo) THEN 0 ELSE n + 1)
  BY <1>1 DEF PlaceTypes
<1>3. Todo' = Todo
  BY <1>2 DEF Todo
<1>4. \A k \in Pending("remove")' : editor'[k].id \in overtaken'
  BY <1>1 DEF Pending, FamilyInv
<1>5. \A m \in 1 .. (n - 1) : Todo[m].do = "upsert" =>
        \A id \in PlacesOf(Todo[m]) \ (Stubs \cup overtaken) : Standing(id)
  BY DEF FamilyInv
<1>6. \A m \in 1 .. (importer'.at - 1) : m \in 1 .. (n - 1) \/ m = n
  BY <1>1, <1>2
<1>7. CASE step.do = "upsert"
  <2>1. /\ upsertBatch(step.tier, step.rows) /\ typed' = typed \ PlacesOf(step)
        /\ step.tier \in TierSet /\ step.rows \subseteq RowsOf(f, step.tier) /\ Lines(f)
    BY <1>1, <1>7, StepIs DEF PlaceTypes
  <2>2. /\ DOMAIN place' = DOMAIN place \cup PlacesOf(step)
        /\ \A id \in PlacesOf(step) :
              /\ id = <<id[1], id[2]>> /\ id[1] = step.tier /\ id[2] # Nil /\ Mentions(f, id) # {}
              /\ place'[id] = Lined(f, id, PinOf(place, id))
        /\ \A id \in DOMAIN place \ PlacesOf(step) : place'[id] = place[id]
    BY <2>1, UpsertDoes
  <2>3. ASSUME NEW id \in PlacesOf(step)
        PROVE  /\ Standing(id)'
               /\ id[1] # "district" => place'[id].parent = LineOf(f, id).code[Up(id[1])]
    <3> DEFINE r == Lined(f, id, PinOf(place, id))
               line == LineOf(f, id)
    <3>1. id \in DOMAIN place' /\ place'[id] = r
      BY <2>2
    <3>2. r.deleted = FALSE /\ (id[1] # "district" => r.parent = line.code[Up(id[1])])
      <4> HIDE DEF line
      <4> QED BY DEF Lined, line
    <3> HIDE DEF r
    <3> QED BY <3>1, <3>2 DEF Standing
  <2>4. ASSUME NEW id, Standing(id) PROVE Standing(id)'
    <3>1. CASE id \in PlacesOf(step)
      BY <3>1, <2>3
    <3>2. CASE id \notin PlacesOf(step)
      BY <3>2, <2>2, <2>4 DEF Standing
    <3> QED BY <3>1, <3>2
  <2>5. ASSUME NEW id \in DOMAIN place', id[1] # "district", Standing(id)', ~Excused(id)'
        PROVE  Standing(ParentOf(id, place[id].parent))'
    <3> PICK upper : upper = place'[id].parent
      OBVIOUS
    <3> DEFINE above == ParentOf(id, upper)
    <3>0. above \notin Stubs \cup overtaken /\ id \notin typed'
      BY <1>1, <2>5 DEF Excused, ParentOf
    <3>1. CASE id \in PlacesOf(step)
      <4>1. PICK m \in 1 .. (n - 1) : Todo[m].do = "upsert" /\ above \in PlacesOf(Todo[m])
        BY <3>1, <2>3, <2>5, <1>1, <1>7, ParentBefore
      <4>2. Standing(above)
        BY <4>1, <3>0, <1>5
      <4>3. Standing(above)'
        BY <4>2, <2>4 DEF Standing
      <4> QED BY <4>3 DEF ParentOf
    <3>2. CASE id \notin PlacesOf(step)
      <4>1. place'[id] = place[id] /\ id \in DOMAIN place /\ id \notin typed
        BY <3>2, <3>0, <2>1, <2>2
      <4>2. Standing(id) /\ ~Excused(id)
        BY <4>1, <3>0, <2>5 DEF Standing, Excused
      <4>3. Standing(ParentOf(id, place[id].parent))
        BY <4>1, <4>2, <2>5 DEF FamilyInv
      <4>4. Standing(above)'
        BY <4>1, <4>3, <2>4 DEF Standing
      <4> QED BY <4>4 DEF ParentOf
    <3> QED BY <3>1, <3>2
  <2>6. \A m \in 1 .. (importer'.at - 1) : Todo[m].do = "upsert" =>
          \A id \in PlacesOf(Todo[m]) \ (Stubs \cup overtaken) : Standing(id)'
    BY <1>5, <1>6, <2>3, <2>4
  <2> QED BY <1>1, <1>3, <1>4, <2>5, <2>6 DEF FamilyInv, PlacesOf
<1>8. CASE step.do = "hide"
  <2>1. softDeleteLegacyStubs(step.rows) /\ typed' = typed /\ step.rows \subseteq Stubs
    BY <1>1, <1>8, StepIs
  <2>2. /\ DOMAIN place' = DOMAIN place
        /\ \A id \in DOMAIN place :
             place'[id] = IF id \in step.rows THEN Hidden(id, place[id]) ELSE place[id]
    BY <2>1, HideDoes
  <2>3. ASSUME NEW id \in DOMAIN place
        PROVE  /\ place'[id].parent = place[id].parent
               /\ Standing(id)' => Standing(id)
               /\ id \notin Stubs /\ Standing(id) => Standing(id)'
    <3>1. CASE id \notin step.rows
      BY <3>1, <2>1, <2>2 DEF Standing
    <3>2. CASE id \in step.rows
      <4>1. PlaceRow(id, place[id])
        BY TypesAre DEF PlaceRows
      <4>2. /\ Hidden(id, place[id]).parent = place[id].parent
            /\ Hidden(id, place[id]).deleted = TRUE
        BY <4>1, <3>2, <2>1, HiddenIs DEF PlaceRow
      <4> QED BY <4>2, <3>2, <2>1, <2>2 DEF Standing
    <3> QED BY <3>1, <3>2
  <2>4. ASSUME NEW id \in DOMAIN place', id[1] # "district", Standing(id)', ~Excused(id)'
        PROVE  Standing(ParentOf(id, place[id].parent))'
    <3> PICK upper : upper = place'[id].parent
      OBVIOUS
    <3> DEFINE above == ParentOf(id, upper)
    <3>1. id \in DOMAIN place /\ upper = place[id].parent /\ Standing(id)
      BY <2>2, <2>3, <2>4
    <3>2. ~Excused(id) /\ above \notin Stubs
      BY <1>1, <2>1, <2>4, <3>1 DEF Excused, ParentOf
    <3>3. Standing(above)
      BY <3>1, <3>2, <2>4 DEF FamilyInv
    <3>4. above \in DOMAIN place
      BY <3>3 DEF Standing
    <3>5. Standing(above)'
      BY <3>2, <3>3, <3>4, <2>3 DEF Standing
    <3> QED BY <3>1, <3>5 DEF ParentOf, Standing
  <2>5. \A m \in 1 .. (importer'.at - 1) : Todo[m].do = "upsert" =>
          \A id \in PlacesOf(Todo[m]) \ (Stubs \cup overtaken) : Standing(id)'
    <3>1. ASSUME NEW m \in 1 .. (importer'.at - 1), Todo[m].do = "upsert",
                 NEW id \in PlacesOf(Todo[m]) \ (Stubs \cup overtaken)
          PROVE  Standing(id)'
      <4>1. Standing(id)
        BY <3>1, <1>5, <1>6, <1>8
      <4>2. id \in DOMAIN place
        BY <4>1 DEF Standing
      <4> QED BY <4>1, <4>2, <2>3
    <3> QED BY <3>1
  <2> QED BY <1>1, <1>3, <1>4, <2>4, <2>5 DEF FamilyInv, PlacesOf
<1> QED BY <1>1, <1>7, <1>8

\* A row an admin edits keeps its standing, and is excused when it moves.
LEMMA FamilyEdited ==
  ASSUME PlaceTypes, FamilyInv, NEW k \in Editors, EditPlace(k)
  PROVE  FamilyInv'
<1>1. /\ UNCHANGED <<importer, origin, overtaken>>
      /\ editor' = [editor EXCEPT ![k] = NoRequest]
      /\ DOMAIN place' = DOMAIN place /\ typed \subseteq typed'
      /\ \A id \in DOMAIN place : /\ place'[id].deleted = place[id].deleted
                                  /\ place'[id].parent # place[id].parent => id \in typed'
  BY EditPlaceDoes
<1>2. Pending("remove")' \subseteq Pending("remove")
      /\ \A q \in Pending("remove")' : editor'[q] = editor[q]
  BY <1>1 DEF Pending, NoRequest, PlaceTypes
<1>3. \A id : Standing(id)' <=> Standing(id)
  BY <1>1 DEF Standing
<1>4. Todo' = Todo /\ (Importing' <=> Importing)
  BY <1>1 DEF Todo, Importing
<1>5. ASSUME NEW id \in DOMAIN place', id[1] # "district", Standing(id)', ~Excused(id)'
      PROVE  Standing(ParentOf(id, place[id].parent))'
  <2>1. id \in DOMAIN place /\ place'[id].parent = place[id].parent /\ id \notin typed
    BY <1>1, <1>5 DEF Excused
  <2>2. ~Excused(id)
    BY <2>1, <1>1, <1>5 DEF Excused, ParentOf
  <2>3. Standing(ParentOf(id, place[id].parent))
    BY <2>1, <2>2, <1>3, <1>5 DEF FamilyInv
  <2> QED BY <2>1, <2>3, <1>1 DEF Standing, ParentOf
<1>6. ASSUME NEW q \in Pending("remove")', editor'[q].id \notin overtaken'
      PROVE  /\ ~Importing'
             /\ \A id \in DOMAIN place' :
                  id[1] # "district" /\ Standing(id)' /\ ParentOf(id, place'[id].parent) = editor'[q].id
                    => id \in typed'
  <2>1. q \in Pending("remove") /\ editor'[q] = editor[q] /\ editor[q].id \notin overtaken
    BY <1>1, <1>2, <1>6
  <2> QED BY <2>1, <1>1, <1>3, <1>4 DEF FamilyInv
<1>7. \A m \in 1 .. (importer'.at - 1) : Todo[m].do = "upsert" =>
        \A id \in PlacesOf(Todo[m]) \ (Stubs \cup overtaken) : Standing(id)'
  BY <1>1, <1>3 DEF FamilyInv
<1> QED BY <1>1, <1>4, <1>5, <1>6, <1>7 DEF FamilyInv, PlacesOf, ParentOf

\* A removal that was not overtaken leaves nobody below who is not excused.
LEMMA FamilyRemoved ==
  ASSUME PlaceTypes, FamilyInv, NEW k \in Editors, RemovePlace(k)
  PROVE  FamilyInv'
<1> DEFINE d == editor[k].id
<1>1. /\ UNCHANGED <<importer, origin, overtaken, typed>> /\ editor[k].at = "remove"
      /\ editor' = [editor EXCEPT ![k] = NoRequest]
      /\ DOMAIN place' = DOMAIN place
      /\ \A id \in DOMAIN place : /\ place'[id].parent = place[id].parent
                                  /\ id # d => place'[id].deleted = place[id].deleted
                                  /\ id = d => place'[id].deleted = TRUE
  BY RemovePlaceDoes
<1>2. Pending("remove")' \subseteq Pending("remove") /\ k \in Pending("remove")
      /\ \A q \in Pending("remove")' : editor'[q] = editor[q]
  BY <1>1 DEF Pending, NoRequest, PlaceTypes
<1>3. d \in overtaken \/ (/\ ~Importing
                          /\ \A id \in DOMAIN place :
                               id[1] # "district" /\ Standing(id) /\ ParentOf(id, place[id].parent) = d
                                 => id \in typed)
  BY <1>2 DEF FamilyInv
<1>4. \A id : Standing(id)' <=> Standing(id) /\ id # d
  BY <1>1 DEF Standing
<1>5. Todo' = Todo /\ (Importing' <=> Importing)
  BY <1>1 DEF Todo, Importing
<1> HIDE DEF d
<1>6. ASSUME NEW id \in DOMAIN place', id[1] # "district", Standing(id)', ~Excused(id)'
      PROVE  Standing(ParentOf(id, place[id].parent))'
  <2> PICK upper : upper = place'[id].parent
    OBVIOUS
  <2> DEFINE above == ParentOf(id, upper)
  <2>1. id \in DOMAIN place /\ place[id].parent = upper /\ Standing(id) /\ ~Excused(id)
    BY <1>1, <1>4, <1>6 DEF Excused, ParentOf
  <2>2. Standing(above) /\ id \notin typed /\ above \notin overtaken
    BY <2>1, <1>6 DEF FamilyInv, Excused
  <2>3. above # d
    BY <2>1, <2>2, <1>3, <1>6
  <2>4. Standing(above)'
    BY <2>2, <2>3, <1>4
  <2> QED BY <2>4 DEF ParentOf
<1>7. ASSUME NEW q \in Pending("remove")', editor'[q].id \notin overtaken'
      PROVE  /\ ~Importing'
             /\ \A id \in DOMAIN place' :
                  id[1] # "district" /\ Standing(id)' /\ ParentOf(id, place'[id].parent) = editor'[q].id
                    => id \in typed'
  <2>1. q \in Pending("remove") /\ editor'[q] = editor[q] /\ editor[q].id \notin overtaken
    BY <1>1, <1>2, <1>7
  <2> QED BY <2>1, <1>1, <1>4, <1>5 DEF FamilyInv
<1>8. ASSUME NEW m \in 1 .. (importer'.at - 1), Todo[m].do = "upsert",
             NEW id \in PlacesOf(Todo[m]) \ (Stubs \cup overtaken)
      PROVE  Standing(id)'
  <2>1. Importing
    BY <1>1 DEF Importing, PlaceTypes
  <2>2. Standing(id)
    BY <1>1, <1>8 DEF FamilyInv
  <2> QED BY <2>1, <2>2, <1>3, <1>4
<1> QED BY <1>1, <1>5, <1>6, <1>7, <1>8 DEF FamilyInv, PlacesOf, ParentOf

LEMMA FamilyAsked ==
  ASSUME PlaceTypes, FamilyInv, NEW k \in Editors, NEW e,
         UNCHANGED <<place, importer, typed>>, overtaken \subseteq overtaken',
         editor' = [editor EXCEPT ![k] = e],
         e.at = "remove" => Below(e.id) = {} /\ (e.id \in overtaken' \/ ~Importing)
  PROVE  FamilyInv'
<1>1. \A q \in Pending("remove")' : \/ q = k /\ editor'[q] = e /\ e.at = "remove"
                                    \/ q \in Pending("remove") /\ editor'[q] = editor[q]
  BY DEF Pending, PlaceTypes
<1>2. Todo' = Todo /\ (Importing' <=> Importing) /\ \A id : Standing(id)' <=> Standing(id)
  BY DEF Todo, Importing, Standing
<1>3. ASSUME NEW q \in Pending("remove")', editor'[q].id \notin overtaken'
      PROVE  /\ ~Importing'
             /\ \A id \in DOMAIN place' :
                  id[1] # "district" /\ Standing(id)' /\ ParentOf(id, place'[id].parent) = editor'[q].id
                    => id \in typed'
  <2>1. CASE q = k /\ editor'[q] = e /\ e.at = "remove"
    <3>1. ~Importing /\ Below(e.id) = {}
      BY <1>3, <2>1
    <3>2. ASSUME NEW id \in DOMAIN place, Standing(id), ParentOf(id, place[id].parent) = e.id PROVE FALSE
      <4>1. e.id[2] = place[id].parent
        BY <3>2 DEF ParentOf
      <4> QED BY <4>1, <3>1, <3>2 DEF Below, Standing
    <3> QED BY <3>1, <3>2, <2>1, <1>2
  <2>2. CASE q \in Pending("remove") /\ editor'[q] = editor[q]
    BY <2>2, <1>2, <1>3 DEF FamilyInv
  <2> QED BY <2>1, <2>2, <1>1
<1>4. \A m \in 1 .. (importer'.at - 1) : Todo[m].do = "upsert" =>
        \A id \in PlacesOf(Todo[m]) \ (Stubs \cup overtaken) : Standing(id)
  BY DEF FamilyInv
<1> QED BY <1>2, <1>3, <1>4, FamilyStays DEF FamilyInv, PlacesOf, ParentOf

-----------------------------------------------------------------------------
(* All steps.                                                                *)

LEMMA PlacesStep == PlacesInv /\ [PlacesNext]_placeVars => PlacesInv'
<1> SUFFICES ASSUME PlacesInv, [PlacesNext]_placeVars PROVE PlacesInv'
  OBVIOUS
<1>0. PlaceTypes /\ ImportInv /\ FamilyInv
  BY DEF PlacesInv
<1>1. ASSUME NEW n \in DOMAIN Files, StartImport(Files[n]) PROVE PlacesInv'
  BY <1>0, <1>1, StartImportTypes, ImportStarts, FamilyStarts DEF PlacesInv
<1>2. CASE ImportStep
  BY <1>0, <1>2, ImportStepTypes, ImportGoesOn, FamilyGoesOn DEF PlacesInv
<1>3. CASE ImportStops
  BY <1>0, <1>3, ImportHalts, FamilyHalts DEF PlacesInv
<1>4. ASSUME NEW k \in Editors, NEW id \in DOMAIN place,
             \/ StartRemovePlace(k, id)
             \/ \E label, upper, active : active \in BOOLEAN /\ StartEditPlace(k, id, label, upper, active)
      PROVE  PlacesInv'
  <2>1. /\ UNCHANGED <<place, importer, origin, touched, typed>> /\ overtaken \subseteq overtaken'
        /\ \E e : /\ editor' = [editor EXCEPT ![k] = e] /\ EditorFits(e, DOMAIN place)
                  /\ e.at = "remove" =>
                       /\ Below(e.id) = {}
                       /\ e.id \in overtaken' \/ ~Importing
    BY <1>0, <1>4, AskDoes
  <2>2. PICK e : /\ editor' = [editor EXCEPT ![k] = e] /\ EditorFits(e, DOMAIN place)
                 /\ e.at = "remove" => Below(e.id) = {} /\ (e.id \in overtaken' \/ ~Importing)
    BY <2>1
  <2>3. PlaceRows(place')
    BY <2>1, <1>0, TypesAre
  <2>4. PlaceTypes'
    BY <2>1, <2>2, <2>3, <1>0, EditorTypes
  <2>5. ImportInv'
    BY <2>1, <1>0, Touches
  <2>6. FamilyInv'
    BY <2>1, <2>2, <1>0, FamilyAsked
  <2> QED BY <2>4, <2>5, <2>6 DEF PlacesInv
<1>5. EditorFits(NoRequest, DOMAIN place)
  BY DEF EditorFits, NoRequest
<1>6. ASSUME NEW k \in Editors, EditPlace(k) PROVE PlacesInv'
  <2>1. /\ UNCHANGED <<importer, origin, overtaken>>
        /\ editor' = [editor EXCEPT ![k] = NoRequest]
        /\ DOMAIN place' = DOMAIN place /\ PlaceRows(place')
        /\ touched \subseteq touched'
        /\ \A id \in DOMAIN place \ touched' : place'[id] = place[id]
    BY <1>0, <1>6, EditPlaceDoes
  <2>2. PlaceTypes'
    BY <2>1, <1>0, <1>5, EditorTypes
  <2>3. ImportInv'
    BY <2>1, <1>0, Touches
  <2> QED BY <2>2, <2>3, <1>0, <1>6, FamilyEdited DEF PlacesInv
<1>7. ASSUME NEW k \in Editors, RemovePlace(k) PROVE PlacesInv'
  <2>1. /\ UNCHANGED <<importer, origin, overtaken>>
        /\ editor' = [editor EXCEPT ![k] = NoRequest]
        /\ DOMAIN place' = DOMAIN place /\ PlaceRows(place')
        /\ touched \subseteq touched'
        /\ \A id \in DOMAIN place \ touched' : place'[id] = place[id]
    BY <1>0, <1>7, RemovePlaceDoes
  <2>2. PlaceTypes'
    BY <2>1, <1>0, <1>5, EditorTypes
  <2>3. ImportInv'
    BY <2>1, <1>0, Touches
  <2> QED BY <2>2, <2>3, <1>0, <1>7, FamilyRemoved DEF PlacesInv
<1>8. CASE UNCHANGED placeVars
  BY <1>0, <1>8 DEF placeVars, PlacesInv, PlaceTypes, Todo, ImportInv, ImportFaithful, Progress, Settled,
    Wanted, Fresher, Written, Cleared, PlacesOf, FamilyInv, Standing, Excused, ParentOf, Pending, Importing
<1>9. \A id \in DOMAIN place : place[id].active \in BOOLEAN /\ (~place[id].active) \in BOOLEAN
  BY <1>0 DEF PlaceTypes
<1>10. ASSUME PlacesNext PROVE PlacesInv'
  <2>1. CASE \/ \E n \in DOMAIN Files : StartImport(Files[n])
             \/ ImportStep \/ ImportStops
             \/ \E k \in Editors : EditPlace(k) \/ RemovePlace(k)
    BY <2>1, <1>1, <1>2, <1>3, <1>6, <1>7
  <2>2. ASSUME NEW k \in Editors, NEW id \in DOMAIN place,
               \/ \E upper \in {p[2] : p \in {x \in TypedParents : id[1] # "district" /\ x[1] = Up(id[1])}} :
                    StartEditPlace(k, id, place[id].label, upper, place[id].active)
               \/ \E label \in TypedLabels :
                    StartEditPlace(k, id, label, place[id].parent, ~place[id].active)
               \/ StartRemovePlace(k, id)
        PROVE  PlacesInv'
    <3>1. \/ StartRemovePlace(k, id)
          \/ \E label, upper, active : active \in BOOLEAN /\ StartEditPlace(k, id, label, upper, active)
      BY <2>2, <1>9
    <3> QED BY <3>1, <1>4
  <2> QED BY <2>1, <2>2, <1>10 DEF PlacesNext
<1> QED BY <1>8, <1>10

-----------------------------------------------------------------------------
(* What the forms show.                                                      *)

\* Asked upwards, a form is shown the codes above that stand.
LEMMA JoinFinds ==
  ASSUME PlaceTypes, NEW t, NEW code, Standing(<<t, code>>)
  PROVE  Join(t, code) = code /\ code # Nil
<1>1. PICK id \in DOMAIN place : id = <<t, code>>
  BY DEF Standing
<1>2. id[2] # Nil
  BY <1>1 DEF PlaceTypes
<1> QED BY <1>1, <1>2 DEF Join

LEMMA NoOrphansHolds ==
  ASSUME PlaceTypes, FamilyInv
  PROVE  NoOrphans
<1>1. ASSUME NEW id \in DOMAIN place, id[1] = "taluka", Standing(id), ~Excused(id)
      PROVE  resolveTalukaContext(id[2]).district # Nil
  <2>1. id = <<"taluka", id[2]>>
    BY <1>1 DEF PlaceTypes
  <2>2. Standing(<<"district", place[id].parent>>)
    BY <1>1 DEF FamilyInv, ParentOf, Up
  <2>3. Join("district", place[id].parent) # Nil
    BY <2>2, JoinFinds
  <2> QED BY <2>1, <2>3 DEF resolveTalukaContext
<1>2. ASSUME NEW id \in DOMAIN place, id[1] = "shivar", Standing(id), ~Excused(id)
      PROVE  /\ resolveVillageContext(id[2]).taluka = place[id].parent
             /\ place[id].parent # Nil
             /\ Standing(<<"taluka", place[id].parent>>)
             /\ resolveVillageContext(id[2]).district = resolveTalukaContext(place[id].parent).district
  <2>1. id = <<"shivar", id[2]>>
    BY <1>2 DEF PlaceTypes
  <2>2. Standing(<<"taluka", place[id].parent>>)
    BY <1>2 DEF FamilyInv, ParentOf, Up
  <2>3. Join("taluka", place[id].parent) = place[id].parent /\ place[id].parent # Nil
    BY <2>2, JoinFinds
  <2> QED BY <2>1, <2>2, <2>3 DEF resolveVillageContext
<1>3. ASSUME NEW pin, NEW found \in findVillagesByPincode(pin),
             ~Excused(<<"shivar", found.village>>), ~Excused(<<"taluka", found.context.taluka>>)
      PROVE  found.context.district # Nil
  <2>1. PICK id \in Offered("shivar") :
          found = [village |-> id[2], context |-> resolveVillageContext(id[2])]
    BY DEF findVillagesByPincode
  <2>2. id \in DOMAIN place /\ id[1] = "shivar" /\ Standing(id)
    BY DEF Offered
  <2>3. found.village = id[2] /\ found.context = resolveVillageContext(id[2]) /\ id = <<"shivar", id[2]>>
    BY <2>1, <2>2 DEF PlaceTypes
  <2> DEFINE t == <<"taluka", place[id].parent>>
  <2>4. /\ found.context.taluka = place[id].parent /\ Standing(t)
        /\ found.context.district = resolveTalukaContext(place[id].parent).district
    BY <2>2, <2>3, <1>2, <1>3
  <2>5. ~Excused(t) /\ t \in DOMAIN place /\ t[1] = "taluka" /\ t[2] = place[id].parent
    BY <2>4, <1>3 DEF Standing
  <2> QED BY <2>4, <2>5, <1>1
<1>4. \A id \in DOMAIN place : id[1] = "shivar" /\ Standing(id) /\ ~Excused(id) =>
        resolveVillageContext(id[2]).taluka # Nil
  BY <1>2
<1> QED BY <1>1, <1>3, <1>4 DEF NoOrphans

LEMMA CascadeAgreesHolds ==
  ASSUME PlaceTypes
  PROVE  CascadeAgrees
<1>1. ASSUME NEW d \in listDistricts, NEW t \in listTalukasByDistrict(d[2])
      PROVE  resolveTalukaContext(t[2]) = [district |-> d[2]]
  <2>1. /\ d = <<"district", d[2]>> /\ Standing(d)
        /\ t = <<"taluka", t[2]>> /\ place[t].parent = d[2]
    BY DEF listDistricts, listTalukasByDistrict, Offered, PlaceTypes
  <2>2. Join("district", d[2]) = d[2]
    BY <2>1, JoinFinds
  <2> QED BY <2>1, <2>2 DEF resolveTalukaContext
<1>2. ASSUME NEW d \in listDistricts, NEW t \in listTalukasByDistrict(d[2]),
             NEW v \in listVillagesByTaluka(t[2])
      PROVE  /\ resolveVillageContext(v[2]) = [taluka |-> t[2], district |-> d[2]]
             /\ Cardinality(labelsForCodes("shivar", {v[2]})) = 1
  <2>1. /\ t = <<"taluka", t[2]>> /\ Standing(t)
        /\ v = <<"shivar", v[2]>> /\ place[v].parent = t[2] /\ Standing(v)
    BY DEF listVillagesByTaluka, listTalukasByDistrict, Offered, PlaceTypes
  <2>2. Join("taluka", t[2]) = t[2] /\ t[2] # Nil
    BY <2>1, JoinFinds
  <2>3. resolveTalukaContext(t[2]).district = d[2]
    <3>1. resolveTalukaContext(t[2]) = [district |-> d[2]]
      BY <1>1
    <3> QED BY <3>1
  <2>4. resolveVillageContext(v[2]) = [taluka |-> t[2], district |-> d[2]]
    BY <2>1, <2>2, <2>3 DEF resolveVillageContext
  <2>5. labelsForCodes("shivar", {v[2]}) = {[code |-> v[2], label |-> place[v].label]}
    BY <2>1 DEF labelsForCodes
  <2> QED BY <2>4, <2>5, FS_Singleton
<1> QED BY <1>1, <1>2 DEF CascadeAgrees

\* What the places promise, of every edition of the file, in whatever order the
\* script and the admins run (import-locations.js, masters queries): an import
\* that came through, at once or after tries that stopped, has left every place
\* no admin wrote as the file says; a form that opens a saved place finds those
\* above it; and it is shown what was chosen from the lists.
THEOREM PlacesAreSound == PlacesSpec => []PlacesSound
<1>1. PlacesInv => PlacesSound
  BY NoOrphansHolds, CascadeAgreesHolds
    DEF PlacesInv, PlacesSound, PlacesTypeOK, PlaceTypes, ImportInv, Todo
<1> QED BY <1>1, PlacesStart, PlacesStep, PTL DEF PlacesSpec

=============================================================================
