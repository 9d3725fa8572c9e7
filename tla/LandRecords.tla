----------------------------- MODULE LandRecords -----------------------------
(***************************************************************************)
(* The land record books of the office: gaothan land locators, survey      *)
(* number locators and paper notices (services/admin/land_records.js,      *)
(* db/queries/land_records.js, routes/admin/land-records.js).  The three   *)
(* tables share no row; a behaviour is about one of them.  Every statement *)
(* takes a connection of its own, so each is a step.                       *)
(***************************************************************************)
EXTENDS Integers, Sequences, FiniteSets

CONSTANTS LandClerks,   \* requests that may run at once
          LandForms,    \* the forms typed: [text, said, noted, figure]
          NoFigure,     \* NULL in a numeric column
          LandPageSize, \* rows of a page
          MaxLandRows,  \* bound on the rows
          MaxLandCalls  \* bound on the requests

VARIABLES register,         \* the table at work
          records,         \* its rows, by id
          landCall,     \* what each request is at
          landCalls

landVars == <<register, records, landCall, landCalls>>

Books == {"gaothan", "survey", "notice"}

(***************************************************************************)
(* The form of each book.  "text" stands for the columns that must be      *)
(* filled and order the list, "said" for the road tick with its note in    *)
(* "noted", "figure" for the numeric columns: << >> when left blank.       *)
(***************************************************************************)
gaothanBody(f) == f.said \/ ~f.noted
surveyBody(f) == (f.said \/ ~f.noted) /\ f.figure = << >>
paperBody(f) == ~f.said /\ ~f.noted
FitsBook(f) == CASE register = "gaothan" -> gaothanBody(f)
                 [] register = "survey" -> surveyBody(f)
                 [] OTHER -> paperBody(f)

\* Texts are in an order, and each book has a form that fits it.
ASSUME LandAssumption ==
  /\ \A f \in LandForms : f.text \in Int
  /\ \E f, g, h \in LandForms : gaothanBody(f) /\ surveyBody(g) /\ paperBody(h)
  /\ LandPageSize \in Nat \ {0} /\ MaxLandRows \in Nat \ {0} /\ MaxLandCalls \in Nat

num(v) == IF v = << >> THEN NoFigure ELSE v[1]

normalizeGaothan(f) == [text |-> f.text, said |-> f.said, noted |-> f.said /\ f.noted,
                        figure |-> num(f.figure)]
normalizeSurvey(f) == [text |-> f.text, said |-> f.said, noted |-> f.said /\ f.noted]
normalizePaper(f) == [text |-> f.text, figure |-> num(f.figure)]
Normalized(f) == CASE register = "gaothan" -> normalizeGaothan(f)
                   [] register = "survey" -> normalizeSurvey(f)
                   [] OTHER -> normalizePaper(f)

\* What a request is answered with: the columns, and not the stamps of the row.
toGaothanDto(r) == <<[c \in {"text", "said", "noted", "figure"} |-> r.cells[c]]>>
toSurveyDto(r) == <<[c \in {"text", "said", "noted"} |-> r.cells[c]]>>
toPaperDto(r) == <<[c \in {"text", "figure"} |-> r.cells[c]]>>
Dto(r) == CASE register = "gaothan" -> toGaothanDto(r)
            [] register = "survey" -> toSurveyDto(r)
            [] OTHER -> toPaperDto(r)
NoRecord == << >>   \* null

Filled(cells) == [cells |-> cells, edits |-> 1, gone |-> FALSE, editsWhenGone |-> 0]
AtDesk == [at |-> "idle"]

LandInit ==
  /\ register \in Books
  /\ records = LET fits == {f \in LandForms : FitsBook(f)}
            IN <<Filled(Normalized(CHOOSE f \in fits : TRUE))>>
  /\ landCall = [k \in LandClerks |-> AtDesk]
  /\ landCalls = 0

MutOnFile(id) == id \in DOMAIN records   \* a mutant: deleted_at is not asked for
OnFile(id) == id \in DOMAIN records /\ ~records[id].gone   \* get...: deleted_at IS NULL

\* A request begins; k goes on to "next".
Opens(k, next) ==
  /\ landCall[k] = AtDesk /\ landCalls < MaxLandCalls
  /\ landCalls' = landCalls + 1
  /\ landCall' = [landCall EXCEPT ![k] = next]

\* k writes the table and goes on to "next"; lists under way have counted before.
Wrote(k, next) ==
  landCall' = [q \in LandClerks |->
    IF q = k THEN next
    ELSE IF landCall[q].at = "select" THEN [landCall[q] EXCEPT !.moved = TRUE]
    ELSE landCall[q]]

-----------------------------------------------------------------------------
(* create: insert, then read the row back *)
Insert(k, f) ==
  /\ landCall[k] = AtDesk /\ landCalls < MaxLandCalls /\ Len(records) < MaxLandRows
  /\ FitsBook(f)
  /\ landCalls' = landCalls + 1
  /\ records' = Append(records, Filled(Normalized(f)))
  /\ Wrote(k, [at |-> "reread", id |-> Len(records) + 1, version |-> 1])
  /\ UNCHANGED register

createGaothan(k, f) == register = "gaothan" /\ Insert(k, f)
createSurvey(k, f) == register = "survey" /\ Insert(k, f)
createPaperNotice(k, f) == register = "notice" /\ Insert(k, f)

(* update: the row is looked up, then written whole, then read back *)
LookUpRecord(k, id, f) ==
  /\ OnFile(id) /\ FitsBook(f)
  /\ Opens(k, [at |-> "write", id |-> id, cells |-> Normalized(f)])
  /\ UNCHANGED <<register, records>>

updateGaothan(k, id, f) == register = "gaothan" /\ LookUpRecord(k, id, f)
updateSurvey(k, id, f) == register = "survey" /\ LookUpRecord(k, id, f)
updatePaperNotice(k, id, f) == register = "notice" /\ LookUpRecord(k, id, f)

WriteRecord(k) ==
  /\ landCall[k].at = "write"
  /\ LET id == landCall[k].id
         old == records[id]
     IN /\ records' = IF OnFile(id) THEN [records EXCEPT ![id].cells = landCall[k].cells,
                                                   ![id].edits = @ + 1]
                   ELSE records
        /\ Wrote(k, [at |-> "reread", id |-> id,
                     version |-> IF OnFile(id) THEN old.edits + 1 ELSE old.edits])
  /\ UNCHANGED <<register, landCalls>>

ReadBack(k) ==
  /\ landCall[k].at = "reread"
  /\ LET id == landCall[k].id
     IN landCall' = [landCall EXCEPT ![k] =
          [at |-> "saved", id |-> id, version |-> landCall[k].version, seen |-> records[id].edits,
           body |-> IF OnFile(id) THEN Dto(records[id]) ELSE NoRecord]]
  /\ UNCHANGED <<register, records, landCalls>>

(* delete: the row is looked up, then stamped if nobody has *)
LookUpToDelete(k, id) ==
  /\ OnFile(id)
  /\ Opens(k, [at |-> "stamp", id |-> id])
  /\ UNCHANGED <<register, records>>

deleteGaothan(k, id) == register = "gaothan" /\ LookUpToDelete(k, id)
deleteSurvey(k, id) == register = "survey" /\ LookUpToDelete(k, id)
deletePaperNotice(k, id) == register = "notice" /\ LookUpToDelete(k, id)

StampDeleted(k) ==
  /\ landCall[k].at = "stamp"
  /\ LET id == landCall[k].id
     IN records' = IF OnFile(id) THEN [records EXCEPT ![id].gone = TRUE,
                                                ![id].editsWhenGone = records[id].edits]
                ELSE records
  /\ Wrote(k, AtDesk)
  /\ UNCHANGED <<register, landCalls>>

-----------------------------------------------------------------------------
(* list: count, then select a page by (text, id) *)
Found(search) == {id \in DOMAIN records : OnFile(id) /\ records[id].cells.text \in search}
Ahead(id, ids) == {j \in ids : \/ records[j].cells.text < records[id].cells.text
                               \/ records[j].cells.text = records[id].cells.text /\ j < id}
RecordsOnPage(ids, page) ==
  {id \in ids : Cardinality(Ahead(id, ids)) \in (page - 1) * LandPageSize .. page * LandPageSize - 1}

CountRecords(k, search, page) ==
  /\ Opens(k, [at |-> "select", search |-> search, page |-> page,
               total |-> Cardinality(Found(search)), moved |-> FALSE])
  /\ UNCHANGED <<register, records>>

listGaothan(k, search, page) == register = "gaothan" /\ CountRecords(k, search, page)
listSurvey(k, search, page) == register = "survey" /\ CountRecords(k, search, page)
listPaperNotice(k, search, page) == register = "notice" /\ CountRecords(k, search, page)

SelectRows(k) ==
  /\ landCall[k].at = "select"
  /\ landCall' = [landCall EXCEPT ![k] =
       [at |-> "listed", page |-> landCall[k].page, total |-> landCall[k].total,
        moved |-> landCall[k].moved,
        ids |-> RecordsOnPage(Found(landCall[k].search), landCall[k].page)]]
  /\ UNCHANGED <<register, records, landCalls>>

PageCount(total) == IF total = 0 THEN 1 ELSE (total + LandPageSize - 1) \div LandPageSize

AnswerClerk(k) ==
  /\ landCall[k].at \in {"saved", "listed"}
  /\ landCall' = [landCall EXCEPT ![k] = AtDesk]
  /\ UNCHANGED <<register, records, landCalls>>

LandTexts == {f.text : f \in LandForms}

LandRequest(k) ==
  \/ \E f \in LandForms :
       \/ createGaothan(k, f) \/ createSurvey(k, f) \/ createPaperNotice(k, f)
       \/ \E id \in DOMAIN records :
            updateGaothan(k, id, f) \/ updateSurvey(k, id, f) \/ updatePaperNotice(k, id, f)
  \/ \E id \in DOMAIN records :
       deleteGaothan(k, id) \/ deleteSurvey(k, id) \/ deletePaperNotice(k, id)
  \/ \E search \in {LandTexts} \cup {{t} : t \in LandTexts}, page \in 1..2 :
       listGaothan(k, search, page) \/ listSurvey(k, search, page) \/ listPaperNotice(k, search, page)

LandNext ==
  \E k \in LandClerks :
    \/ LandRequest(k) \/ WriteRecord(k) \/ ReadBack(k) \/ StampDeleted(k)
    \/ SelectRows(k) \/ AnswerClerk(k)

-----------------------------------------------------------------------------
LandTypeOK ==
  /\ register \in Books /\ Len(records) \in 1..MaxLandRows /\ landCalls \in 0..MaxLandCalls
  /\ \A id \in DOMAIN records : DOMAIN records[id] = {"cells", "edits", "gone", "editsWhenGone"}

\* A removed record is written by nobody any more, though a save that looked it
\* up before the removal comes after it.
RemovedStays == \A id \in DOMAIN records :
  records[id].gone => records[id].edits = records[id].editsWhenGone

\* The answer of a save never shows the record as it was before that save, and
\* is null only when the record was removed meanwhile.
AnswersCurrent == \A k \in LandClerks : landCall[k].at = "saved" =>
  /\ landCall[k].seen >= landCall[k].version
  /\ landCall[k].body = NoRecord => records[landCall[k].id].gone

\* A record is one whole form, normalised: figures of zero stay, blank ones are
\* null, and a note goes with its tick - whatever saves came one upon another.
WholeForm == \A id \in DOMAIN records :
  \E f \in LandForms : FitsBook(f) /\ records[id].cells = Normalized(f)

\* Unless a write came between the count and the select, a list within its
\* pages is never empty, and its pages add up to the total.
PagesAddUp == \A k \in LandClerks : landCall[k].at = "listed" /\ ~landCall[k].moved =>
  LET rest == landCall[k].total - (landCall[k].page - 1) * LandPageSize
  IN /\ Cardinality(landCall[k].ids) =
          IF rest <= 0 THEN 0 ELSE IF rest < LandPageSize THEN rest ELSE LandPageSize
     /\ landCall[k].total > 0 /\ landCall[k].page <= PageCount(landCall[k].total)
          => landCall[k].ids # {}

\* What the land record books promise.
LandSound == LandTypeOK /\ RemovedStays /\ AnswersCurrent /\ WholeForm /\ PagesAddUp
=============================================================================
