---------------------------- MODULE Properties ----------------------------
(***************************************************************************)
(* The records of the three property surfaces (inventory, enquiry,         *)
(* website) and what hangs on them: the public code they are given, the    *)
(* files uploaded to them against one storage quota, the CRM leads they    *)
(* are allocated to, and their removal.                                    *)
(*                                                                         *)
(* Requests interleave at their statements. storage_usage is one row, read *)
(* FOR UPDATE by every transaction that uploads or deletes: the request    *)
(* that holds it ("insert") makes the others wait.                         *)
(***************************************************************************)
EXTENDS Naturals, Sequences, FiniteSets, FiniteSetsExt, SequencesExt

CONSTANTS
  Codes, NoCode,       \* property codes; NoCode is the TMP- placeholder
  Clients,             \* requests that may run at once
  Existing,            \* the property rows there at first
  Leads,               \* crm_enquiries, already there
  Batches,             \* uploads, as sequences of file sizes
  MaxFileBytes, Quota, \* UPLOAD_MAX_FILE_BYTES, UPLOAD_TOTAL_QUOTA_BYTES
  Cap,                 \* images, and documents, a property may have
  MaxAttempts,         \* of assignUniqueCode
  MaxAsked, MaxFailed  \* bounds: requests ever made, requests that fail

Surfaces == {"inventory", "enquiry", "website"}
PropertyRows == [kind : Surfaces, code : Codes \cup {NoCode},
                 state : {"live", "removed", "withdrawn"}]

\* The rows there at first have their codes to themselves.
ASSUME ExistingAssumption ==
  /\ Existing \in Seq(PropertyRows)
  /\ \A i, j \in DOMAIN Existing :
       i # j /\ Existing[i].code = Existing[j].code => Existing[i].code = NoCode

\* An upload is some files, each of a number of bytes.
ASSUME UploadAssumption == Batches \subseteq Seq(Nat) /\ Quota \in Nat /\ Cap \in Nat

SellerDesk == 0        \* the owner of a seller's own documents

VARIABLES
  prop,        \* the property rows: [kind, code, state]
  file, disk,  \* property_files and seller_documents; ids of files on disk
  used,        \* storage_usage.used_bytes
  lead,        \* interested_property_ids of each lead
  client,      \* the requests
  torn,        \* history: a deletion found the rows it had read changed
  overlap,     \* history: properties two requests met on (see Meet)
  nextFile, asked, failed

propVars == <<prop, file, disk, used, lead, client, torn, overlap, nextFile, asked, failed>>

Resting == [at |-> "idle"]
Bytes(files) == SumFunctionOnSet([f \in files |-> f.size], files)
Owned(o) == {f \in file : f.owner = o}
Live(i) == i \in DOMAIN prop /\ prop[i].state = "live"
Present(o) == o = SellerDesk \/ Live(o)
Larger(a, b) == IF a > b THEN a ELSE b

PropertiesInit ==
  /\ prop = Existing
  /\ file = {}
  /\ disk = {}
  /\ used = 0
  /\ lead = [l \in Leads |-> <<>>]
  /\ client = [r \in Clients |-> Resting]
  /\ torn = FALSE
  /\ overlap = {}
  /\ nextFile = 1
  /\ asked = 0
  /\ failed = 0

Ask(r, next) ==
  /\ client[r] = Resting
  /\ asked < MaxAsked
  /\ asked' = asked + 1
  /\ client' = [client EXCEPT ![r] = next]

Step(r, next) == client' = [client EXCEPT ![r] = next]

\* The owner o of what r asks for is in the hands of another request.
Meet(r, o) ==
  overlap' = IF \E q \in Clients \ {r} : client[q] # Resting /\ client[q].owner = o
             THEN overlap \cup {o} ELSE overlap

MutStorageFree(r) == TRUE   \* mutant: getUsedBytes without FOR UPDATE

\* Nobody else holds the storage_usage row.
StorageFree(r) == \A q \in Clients \ {r} : client[q].at # "insert"

---------------------------------------------------------------------------
(* Codes *)

\* createProperty, createOwn: the masters and the district are checked, the
\* row goes in under a placeholder of its own.
StartCreate(r, kind) ==
  /\ Ask(r, [at |-> "assign", owner |-> Len(prop) + 1, attempt |-> 0])
  /\ prop' = Append(prop, [kind |-> kind, code |-> NoCode, state |-> "live"])
  /\ UNCHANGED <<file, disk, used, lead, torn, overlap, nextFile, failed>>

CreateInventory(r) == StartCreate(r, "inventory")
CreateEnquiry(r) == StartCreate(r, "enquiry")
CreateWebsite(r) == StartCreate(r, "website")    \* by an admin
CreateOwn(r) == StartCreate(r, "website")        \* by a seller

MutCodeExistsAnywhere(c) == FALSE   \* mutant: the other tables are not asked

codeExistsAnywhere(c) == \E i \in DOMAIN prop : prop[i].code = c

\* A candidate: rejected when a table has it; offered to the row when none
\* has, and also when the lookup itself fails.
TryCode(r, c, lookupFails) ==
  /\ client[r].at = "assign"
  /\ client[r].attempt < MaxAttempts
  /\ LET i == client[r].owner
         racing == {client[q].owner : q \in {p \in Clients \ {r} :
                      client[p].at = "code" /\ client[p].code = c}}
         owners == {j \in DOMAIN prop : prop[j].code = c}
     IN IF codeExistsAnywhere(c) /\ ~lookupFails
        THEN /\ Step(r, [client[r] EXCEPT !.attempt = @ + 1])
             /\ UNCHANGED overlap
        ELSE /\ Step(r, [at |-> "code", owner |-> i, attempt |-> client[r].attempt, code |-> c])
             /\ overlap' = IF racing # {} THEN overlap \cup racing \cup {i}
                           ELSE IF lookupFails THEN overlap \cup owners \cup {i}
                           ELSE overlap
  /\ UNCHANGED <<prop, file, disk, used, lead, torn, nextFile, asked, failed>>

\* tryAssign: the UNIQUE index of the row's own table has the last word.
AssignCode(r) ==
  /\ client[r].at = "code"
  /\ LET i == client[r].owner
         c == client[r].code
     IN IF \E j \in DOMAIN prop : prop[j].kind = prop[i].kind /\ prop[j].code = c
        THEN /\ Step(r, [at |-> "assign", owner |-> i, attempt |-> client[r].attempt + 1])
             /\ UNCHANGED prop
        ELSE /\ Step(r, Resting)
             /\ prop' = [prop EXCEPT ![i].code = c]
  /\ UNCHANGED <<file, disk, used, lead, torn, overlap, nextFile, asked, failed>>

\* assignUniqueCode throws after its attempts: the row keeps its placeholder.
GiveUpCode(r) ==
  /\ client[r].at = "assign"
  /\ client[r].attempt = MaxAttempts
  /\ Step(r, Resting)
  /\ UNCHANGED <<prop, file, disk, used, lead, torn, overlap, nextFile, asked, failed>>

---------------------------------------------------------------------------
(* Files *)

AcceptedBatch(sizes) == \A n \in DOMAIN sizes : sizes[n] <= MaxFileBytes

\* persistImages and persistPropertyDocuments count what the property has
\* before their transaction opens; amenity thumbnails and a seller's own
\* documents are not counted.
UnderCap(o, kind, sizes) ==
  kind \in {"image", "document"} /\ o # SellerDesk =>
    Cardinality({f \in Owned(o) : f.kind = kind}) + Len(sizes) <= Cap

StartUpload(r, o, kind, sizes) ==
  /\ Present(o)
  /\ AcceptedBatch(sizes)
  /\ UnderCap(o, kind, sizes)
  /\ Ask(r, [at |-> "quota", owner |-> o, kind |-> kind, sizes |-> sizes])
  /\ Meet(r, o)
  /\ UNCHANGED <<prop, file, disk, used, lead, torn, nextFile, failed>>

addImages(r, o, sizes) == StartUpload(r, o, "image", sizes)
addDocuments(r, o, sizes) == StartUpload(r, o, "document", sizes)
addAmenities(r, o, sizes) == prop[o].kind = "website" /\ StartUpload(r, o, "amenity", sizes)
persistSellerDocuments(r, sizes) == StartUpload(r, SellerDesk, "document", sizes)

Sum(sizes) == SumFunction(sizes)

\* With storage_usage locked: over the quota the request ends, else every
\* file of the batch is written under a fresh name.
WriteFiles(r) ==
  /\ client[r].at = "quota"
  /\ StorageFree(r)
  /\ LET sizes == client[r].sizes
         ids == nextFile .. nextFile + Len(sizes) - 1
     IN IF used + Sum(sizes) > Quota
        THEN Step(r, Resting) /\ UNCHANGED <<disk, nextFile>>
        ELSE /\ Step(r, [at |-> "insert", owner |-> client[r].owner, kind |-> client[r].kind,
                         sizes |-> sizes, first |-> nextFile])
             /\ disk' = disk \cup ids
             /\ nextFile' = nextFile + Len(sizes)
  /\ UNCHANGED <<prop, file, used, lead, torn, overlap, asked, failed>>

LastPlace(o) == Max({f.place : f \in Owned(o)} \cup {0})

\* The rows, in the places after the property's last, and the counter: one commit.
InsertFiles(r) ==
  /\ client[r].at = "insert"
  /\ LET q == client[r]
         row(n) == [id |-> q.first + n - 1, owner |-> q.owner, kind |-> q.kind,
                    size |-> q.sizes[n], place |-> LastPlace(q.owner) + n]
     IN /\ file' = file \cup {row(n) : n \in DOMAIN q.sizes}
        /\ used' = used + Sum(q.sizes)
  /\ Step(r, Resting)
  /\ UNCHANGED <<prop, disk, lead, torn, overlap, nextFile, asked, failed>>

\* deleteImage, deletePropertyDocument, deleteSellerDocument: the row is read
\* first. An image route takes any file of the property, whatever its kind,
\* but looks for it in the public directory only.
FindFile(r, o, f, route) ==
  /\ Present(o)
  /\ f \in Owned(o)
  /\ Ask(r, [at |-> "drop", owner |-> o, row |-> f,
             unlink |-> IF (f.kind = "document") = (route = "document") THEN {f.id} ELSE {}])
  /\ Meet(r, o)
  /\ UNCHANGED <<prop, file, disk, used, lead, torn, nextFile, failed>>

deleteImage(r, o, f) == o # SellerDesk /\ FindFile(r, o, f, "image")
deletePropertyDocument(r, o, f) == o # SellerDesk /\ FindFile(r, o, f, "document")
deleteSellerDocument(r, f) == FindFile(r, SellerDesk, f, "document")

\* subtractBytes stops at zero.
subtractBytes(bytes) == Larger(0, used - bytes)

\* The lock, the DELETE, the counter, the commit. A row that another request
\* deleted since it was read is subtracted again.
DropFile(r) ==
  /\ client[r].at = "drop"
  /\ StorageFree(r)
  /\ LET f == client[r].row
     IN /\ file' = file \ {f}
        /\ used' = subtractBytes(f.size)
        /\ torn' = (torn \/ f \notin file)
  /\ Step(r, [at |-> "unlink", owner |-> client[r].owner, unlink |-> client[r].unlink])
  /\ UNCHANGED <<prop, disk, lead, overlap, nextFile, asked, failed>>

UnlinkFiles(r) ==
  /\ client[r].at = "unlink"
  /\ disk' = disk \ client[r].unlink
  /\ Step(r, Resting)
  /\ UNCHANGED <<prop, file, used, lead, torn, overlap, nextFile, asked, failed>>

---------------------------------------------------------------------------
(* Allocations *)

\* addToEnquiry looks the code up before its transaction: no property, or a
\* removed one, is refused.
StartAllocate(r, l, i) ==
  /\ Live(i)
  /\ prop[i].code # NoCode
  /\ Ask(r, [at |-> "allocate", owner |-> i, lead |-> l])
  /\ Meet(r, i)
  /\ UNCHANGED <<prop, file, disk, used, lead, torn, nextFile, failed>>

\* The lead FOR UPDATE, the list read and rewritten, the commit.
Allocate(r) ==
  /\ client[r].at = "allocate"
  /\ LET l == client[r].lead
         c == prop[client[r].owner].code
     IN lead' = IF Contains(lead[l], c) THEN lead ELSE [lead EXCEPT ![l] = Append(@, c)]
  /\ Step(r, Resting)
  /\ UNCHANGED <<prop, file, disk, used, torn, overlap, nextFile, asked, failed>>

\* The list without a code, from the front.
Without(codes, c) ==
  LET kept[n \in 0 .. Len(codes)] ==
        IF n = 0 THEN << >>
        ELSE IF codes[n] = c THEN kept[n - 1] ELSE Append(kept[n - 1], codes[n])
  IN kept[Len(codes)]

\* removeFromEnquiry asks nothing about the property.
Deallocate(r, l, c) ==
  /\ Contains(lead[l], c)
  /\ Ask(r, Resting)
  /\ lead' = [lead EXCEPT ![l] = Without(@, c)]
  /\ UNCHANGED <<prop, file, disk, used, torn, overlap, nextFile, failed>>

---------------------------------------------------------------------------
(* Removal *)

\* mutant: the guard is handed the row id, which no list contains
MutUnallocated(i) == TRUE

\* assertNotAllocatedToAnyLead
Unallocated(i) == \A l \in Leads : ~Contains(lead[l], prop[i].code)

StartRemove(r, i) ==
  /\ Live(i)
  /\ Unallocated(i)
  /\ Ask(r, [at |-> IF prop[i].kind = "website" THEN "delist" ELSE "remove", owner |-> i])
  /\ Meet(r, i)
  /\ UNCHANGED <<prop, file, disk, used, lead, torn, nextFile, failed>>

removeInventory(r, i) == prop[i].kind = "inventory" /\ StartRemove(r, i)
removeEnquiry(r, i) == prop[i].kind = "enquiry" /\ StartRemove(r, i)
removeWebsite(r, i) == prop[i].kind = "website" /\ StartRemove(r, i)

\* Inventory and enquiry: the transaction opens by reading the file rows.
ListFiles(r) ==
  /\ client[r].at = "remove"
  /\ Step(r, [at |-> "purge", owner |-> client[r].owner, rows |-> Owned(client[r].owner)])
  /\ UNCHANGED <<prop, file, disk, used, lead, torn, overlap, nextFile, asked, failed>>

\* It deletes whatever rows there are now, subtracts what it read, removes
\* the property and commits.
Purge(r) ==
  /\ client[r].at = "purge"
  /\ StorageFree(r)
  /\ LET i == client[r].owner
         rows == client[r].rows
     IN /\ file' = file \ Owned(i)
        /\ used' = subtractBytes(Bytes(rows))
        /\ torn' = (torn \/ rows # Owned(i))
        /\ prop' = [prop EXCEPT ![i].state = IF @ = "live" THEN "removed" ELSE @]
        /\ Step(r, [at |-> "unlink", owner |-> i, unlink |-> {f.id : f \in rows}])
  /\ UNCHANGED <<disk, lead, overlap, nextFile, asked, failed>>

\* Website, by an admin: the row is hidden and keeps its files.
Delist(r) ==
  /\ client[r].at = "delist"
  /\ prop' = [prop EXCEPT ![client[r].owner].state = IF @ = "live" THEN "removed" ELSE @]
  /\ Step(r, Resting)
  /\ UNCHANGED <<file, disk, used, lead, torn, overlap, nextFile, asked, failed>>

\* By its seller: no guard is asked.
removeOwn(r, i) ==
  /\ Live(i)
  /\ prop[i].kind = "website"
  /\ Ask(r, Resting)
  /\ prop' = [prop EXCEPT ![i].state = "withdrawn"]
  /\ UNCHANGED <<file, disk, used, lead, torn, overlap, nextFile, failed>>

\* A statement throws: the transaction is rolled back and the files written
\* for it are unlinked. The process stops: they stay, as do those that a
\* committed deletion had yet to unlink.
PropertyRequestFails(r, stops) ==
  /\ client[r] # Resting
  /\ failed < MaxFailed
  /\ failed' = failed + 1
  /\ disk' = IF client[r].at = "insert" /\ ~stops
             THEN disk \ (client[r].first .. client[r].first + Len(client[r].sizes) - 1)
             ELSE disk
  /\ Step(r, Resting)
  /\ UNCHANGED <<prop, file, used, lead, torn, overlap, nextFile, asked>>

\* What an idle request may be asked for, and what one at work does next.
PropertyCall(r) ==
  \/ CreateInventory(r) \/ CreateEnquiry(r) \/ CreateWebsite(r) \/ CreateOwn(r)
  \/ \E o \in DOMAIN prop :
       \/ removeInventory(r, o) \/ removeEnquiry(r, o) \/ removeWebsite(r, o) \/ removeOwn(r, o)
       \/ \E l \in Leads : StartAllocate(r, l, o)
       \/ \E sizes \in Batches :
            addImages(r, o, sizes) \/ addDocuments(r, o, sizes) \/ addAmenities(r, o, sizes)
       \/ \E f \in file : deleteImage(r, o, f) \/ deletePropertyDocument(r, o, f)
  \/ \E sizes \in Batches : persistSellerDocuments(r, sizes)
  \/ \E f \in file : deleteSellerDocument(r, f)
  \/ \E l \in Leads, c \in Codes : Deallocate(r, l, c)

PropertyWork(r) ==
  \/ \E c \in Codes, fails \in BOOLEAN : TryCode(r, c, fails)
  \/ AssignCode(r) \/ GiveUpCode(r)
  \/ WriteFiles(r) \/ InsertFiles(r) \/ DropFile(r) \/ UnlinkFiles(r)
  \/ Allocate(r)
  \/ ListFiles(r) \/ Purge(r) \/ Delist(r)
  \/ \E stops \in BOOLEAN : PropertyRequestFails(r, stops)

PropertiesNext ==
  \E r \in Clients :
    \/ client[r] = Resting /\ PropertyCall(r)
    \/ client[r] # Resting /\ PropertyWork(r)

PropertiesSpec == PropertiesInit /\ [][PropertiesNext]_propVars

---------------------------------------------------------------------------
PropertiesTypeOK ==
  /\ prop \in Seq(PropertyRows)
  /\ \A f \in file : f.owner \in {SellerDesk} \cup DOMAIN prop /\ f.id < nextFile
  /\ used \in Nat /\ torn \in BOOLEAN
  /\ overlap \subseteq {SellerDesk} \cup DOMAIN prop

\* An operator who reads a code gets one property: two rows of a table never
\* share one, and rows of two tables only after the window propertyCode.js
\* admits (both creates drew the code at once, or its lookup failed).
CodeNamesOneProperty ==
  \A i, j \in DOMAIN prop :
    i # j /\ prop[i].code = prop[j].code /\ prop[i].code # NoCode =>
      prop[i].kind # prop[j].kind /\ {i, j} \subseteq overlap

\* Whatever uploads, deletions and failures overlap: a file that is listed
\* has its bytes on disk, no two files of a property share a place, the
\* quota is never passed, and the counter is the bytes of the files until a
\* deletion finds that the rows it had read were deleted, or were joined by
\* others, before it took the lock.
BytesAccounted ==
  /\ {f.id : f \in file} \subseteq disk
  /\ \A f, g \in file : f # g => <<f.owner, f.place>> # <<g.owner, g.place>> \/ f.owner = SellerDesk
  /\ used <= Quota
  /\ ~torn => used = Bytes(file)

\* "No orphan file rows survive a successful delete" (inventory/management.js:299),
\* and a property never has more images or documents than the cap, unless
\* another request was on the same property.
RemovalTakesFiles ==
  \A i \in DOMAIN prop \ overlap :
    /\ prop[i].state = "removed" /\ prop[i].kind # "website" => Owned(i) = {}
    /\ \A kind \in {"image", "document"} :
         Cardinality({f \in Owned(i) : f.kind = kind}) <= Cap

\* No lead is left with a property an admin removed, unless the allocation
\* and the removal overlapped; what a lead holds was once a property's code,
\* listed once.
AllocationsStand ==
  \A l \in Leads :
    /\ ToSet(lead[l]) \subseteq {prop[i].code : i \in DOMAIN prop} \ {NoCode}
    /\ IsInjective(lead[l])
    /\ \A i \in DOMAIN prop \ overlap :
         prop[i].state = "removed" => ~Contains(lead[l], prop[i].code)

\* What the other tables hold of a property: its files, counted in the quota
\* and gone with it, and the leads it is allocated to.
HoldingsSound == PropertiesTypeOK /\ BytesAccounted /\ RemovalTakesFiles /\ AllocationsStand
==========================================================================
