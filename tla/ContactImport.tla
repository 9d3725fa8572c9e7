---------------------------- MODULE ContactImport ----------------------------
(***************************************************************************)
(* The two address books of the office, business associates and the phone  *)
(* book (services/admin/business_associates.js and phone_book.js with      *)
(* their queries): adding, changing and removing a contact, and the import *)
(* of a spreadsheet.  Both import in the same way, each with a table and a *)
(* designation master of its own; the module models one book.              *)
(*                                                                         *)
(* A contact has one mobile number and one e-mail address here, for the    *)
(* four kinds of fields an import compares.                                *)
(***************************************************************************)
EXTENDS Integers, Sequences

CONSTANTS Clerks,      \* requests of the page
          Batches,     \* spreadsheets, sequences of [mobile, email, label]
          NoEmail,     \* the item or the contact has no e-mail address
          BadMobile,   \* not ten digits
          Labels,      \* designations as written, up to case and spaces
          NoLabel,     \* the item has none; no master has the code
          Codes,       \* codes of the designation master
          CodeOf,      \* codeFromLabel: labels to codes
          FirstMaster, \* the designation masters at first: codes to labels
          FirstBook,   \* the contacts at first
          MaxContacts, \* bound on the rows
          MaxOrders    \* bound on the requests

\* Masters have labels of their own at first, a spreadsheet has at least one item
\* (the route's schema), and no code reads like a mark of the model.
ASSUME ImportAssumption ==
  /\ CodeOf \in [Labels -> Codes] /\ FirstMaster \in [Codes -> Labels \cup {NoLabel}]
  /\ NoLabel \notin Labels /\ {"unresolved", "error"} \cap Codes = {}
  /\ \A k, l \in Codes : FirstMaster[k] = FirstMaster[l] /\ k # l => FirstMaster[k] = NoLabel
  /\ \A batch \in Batches : /\ batch \in Seq({batch[i] : i \in DOMAIN batch}) /\ batch # << >>
                            /\ \A i \in DOMAIN batch : batch[i].label \in Labels \cup {NoLabel}
  /\ FirstBook \in Seq({FirstBook[i] : i \in DOMAIN FirstBook})
  /\ \A i \in DOMAIN FirstBook : /\ DOMAIN FirstBook[i] = {"mobile", "email", "code", "live", "from"}
                                /\ FirstBook[i].from = << >>
  /\ MaxContacts \in Nat /\ Len(FirstBook) <= MaxContacts

VARIABLES book,        \* rows in order of insertion
          designation, \* code |-> label of the live master, or NoLabel
          clerk,       \* what each request is at
          orders

contactVars == <<book, designation, clerk, orders>>

NoCode == "no code"
Unresolved == "unresolved"
IdleClerk == [step |-> "idle", batch |-> << >>, skip |-> FALSE, dups |-> {}, known |-> FirstMaster,
              pending |-> {}, codes |-> << >>, answers |-> << >>, before |-> {}]

ImportInit == /\ book = FirstBook /\ designation = FirstMaster /\ orders = 0
              /\ clerk = [c \in Clerks |-> IdleClerk]

Count == orders < MaxOrders /\ orders' = orders + 1
LiveContacts == {i \in DOMAIN book : book[i].live}
Channels(x) == {<<"mobile", x.mobile>>, <<"email", x.email>>} \ {<<"email", NoEmail>>}

-----------------------------------------------------------------------------
\* One contact: the page of one contact asks about no duplicates
createContact(item) ==
  /\ Count /\ Len(book) < MaxContacts
  /\ book' = Append(book, [mobile |-> item.mobile, email |-> item.email, code |-> NoCode,
                           live |-> TRUE, from |-> << >>])
  /\ UNCHANGED <<designation, clerk>>

\* bound: a contact that an import has filed is not changed before its answer
updateContact(i, item) ==
  /\ Count /\ i \in LiveContacts /\ book[i].from = << >>
  /\ book' = [book EXCEPT ![i].mobile = item.mobile, ![i].email = item.email]
  /\ UNCHANGED <<designation, clerk>>

removeContact(i) ==
  /\ Count /\ i \in LiveContacts /\ book' = [book EXCEPT ![i].live = FALSE]
  /\ UNCHANGED <<designation, clerk>>

-----------------------------------------------------------------------------
\* a mutant: only mobile numbers are compared
MutDuplicates(batch) ==
  {i \in DOMAIN batch : \E j \in LiveContacts : batch[i].mobile = book[j].mobile}

\* bulkCheckDuplicates: one query, answered per item
Duplicates(batch) ==
  {i \in DOMAIN batch : \E j \in LiveContacts : Channels(batch[i]) \cap Channels(book[j]) # {}}

\* the labels of a batch, each where it appears first
FirstMentions(batch) ==
  {i \in DOMAIN batch : batch[i].label # NoLabel
     /\ \A j \in 1..(i - 1) : batch[j].label # batch[i].label}

StartImport(c, batch, skip) ==
  /\ Count /\ clerk[c].step = "idle"
  /\ clerk' = [clerk EXCEPT ![c] = [IdleClerk EXCEPT
       !.step = "masters", !.batch = batch, !.skip = skip, !.dups = Duplicates(batch),
       !.pending = FirstMentions(batch),
       !.codes = [l \in Labels |-> Unresolved],
       !.before = UNION {Channels(book[j]) : j \in LiveContacts}]]
  /\ UNCHANGED <<book, designation>>

ReadMasters(c) ==
  /\ clerk[c].step = "masters"
  /\ clerk' = [clerk EXCEPT ![c].step = "resolve", ![c].known = designation]
  /\ UNCHANGED <<book, designation, orders>>

(***************************************************************************)
(* The code a label gets from a table of masters: itself, if it is a code, *)
(* else the master of this label, else the one with the code derived of it.*)
(***************************************************************************)
CodesFor(label, masters) ==
  LET named == {k \in Codes : k = label /\ masters[k] # NoLabel}
      own == {k \in Codes : masters[k] = label}
  IN IF named # {} THEN named
     ELSE IF own # {} THEN own ELSE {k \in {CodeOf[label]} : masters[k] # NoLabel}

\* the loop over the labels, in order of appearance
NextMention(c) == {i \in clerk[c].pending : \A j \in clerk[c].pending : i <= j}

Resolved(c, i, code, masters) ==
  LET r == clerk[c]
  IN [clerk EXCEPT ![c] = [r EXCEPT !.codes = [r.codes EXCEPT ![r.batch[i].label] = code],
                                    !.known = masters, !.pending = r.pending \ {i}, !.step = "resolve"]]

ResolveKnown(c) ==
  /\ clerk[c].step = "resolve"
  /\ \E i \in NextMention(c) :
       LET found == CodesFor(clerk[c].batch[i].label, clerk[c].known)
       IN IF found = {} THEN clerk' = [clerk EXCEPT ![c].step = "create"]
          ELSE \E k \in found : clerk' = Resolved(c, i, k, clerk[c].known)
  /\ UNCHANGED <<book, designation, orders>>

\* masters.create looks for the code and the label; a hit is a conflict, and the
\* import takes the row it finds
LookMaster(c) ==
  /\ clerk[c].step = "create"
  /\ \E i \in NextMention(c) :
       LET label == clerk[c].batch[i].label
           here == {k \in {CodeOf[label]} : designation[k] # NoLabel}
           found == IF here # {} THEN here ELSE CodesFor(label, designation)
       IN IF found = {} THEN clerk' = [clerk EXCEPT ![c].step = "insert"]
          ELSE \E k \in found : clerk' = Resolved(c, i, k, clerk[c].known)
  /\ UNCHANGED <<book, designation, orders>>

CodeTaken(code) == designation[code] # NoLabel    \* uk_master_code

\* insert, or on a duplicate code take the row another import inserted meanwhile
InsertMaster(c) ==
  /\ clerk[c].step = "insert"
  /\ \E i \in NextMention(c) :
       LET label == clerk[c].batch[i].label
           code == CodeOf[label]
       IN /\ designation' = IF CodeTaken(code) THEN designation
                            ELSE [designation EXCEPT ![code] = label]
          /\ clerk' = Resolved(c, i, code, [clerk[c].known EXCEPT ![code] = designation'[code]])
  /\ UNCHANGED <<book, orders>>

\* the insert fails otherwise: the items with this label are answered "error"
MasterFails(c) ==
  /\ clerk[c].step = "insert"
  /\ \E i \in NextMention(c) : clerk' = Resolved(c, i, "error", clerk[c].known)
  /\ UNCHANGED <<book, designation, orders>>

-----------------------------------------------------------------------------
Answer(c, answer) ==
  LET answers == Append(clerk[c].answers, answer)
  IN [clerk EXCEPT ![c].answers = answers,
                   ![c].step = IF Len(answers) = Len(clerk[c].batch) THEN "done" ELSE "resolve"]

Skipped(c, i) == i \in clerk[c].dups /\ clerk[c].skip

\* one pass of the loop of bulkCreate
ImportItem(c) ==
  /\ clerk[c].step = "resolve" /\ clerk[c].pending = {}
  /\ LET i == Len(clerk[c].answers) + 1
         item == clerk[c].batch[i]
         code == IF item.label = NoLabel THEN NoCode ELSE clerk[c].codes[item.label]
         row == [mobile |-> item.mobile, email |-> item.email, code |-> code,
                 live |-> TRUE, from |-> <<c, i>>]
     IN IF item.mobile = BadMobile THEN clerk' = Answer(c, "invalid") /\ UNCHANGED book
        ELSE IF Skipped(c, i) THEN clerk' = Answer(c, "duplicate") /\ UNCHANGED book
        ELSE IF code = "error" THEN clerk' = Answer(c, "error") /\ UNCHANGED book
        ELSE \/ Len(book) < MaxContacts /\ book' = Append(book, row) /\ clerk' = Answer(c, "created")
             \* the insert fails, or the row cannot be read back; on to the next item
             \/ clerk' = Answer(c, "error")
                /\ \/ UNCHANGED book
                   \/ Len(book) < MaxContacts /\ book' = Append(book, row)
  /\ UNCHANGED <<designation, orders>>

EndImport(c) ==
  /\ clerk[c].step = "done" /\ clerk' = [clerk EXCEPT ![c] = IdleClerk]
  /\ book' = [i \in DOMAIN book |-> IF book[i].from # << >> /\ book[i].from[1] = c
                                    THEN [book[i] EXCEPT !.from = <<"earlier">>] ELSE book[i]]
  /\ UNCHANGED <<designation, orders>>

OneByHand == {[mobile |-> FirstBook[i].mobile, email |-> NoEmail] : i \in DOMAIN FirstBook}

ImportNext ==
  \/ \E item \in OneByHand : createContact(item) \/ \E i \in LiveContacts : updateContact(i, item)
  \/ \E i \in LiveContacts : removeContact(i)
  \/ \E c \in Clerks :
       \/ \E batch \in Batches, skip \in BOOLEAN : StartImport(c, batch, skip)
       \/ ReadMasters(c) \/ ResolveKnown(c) \/ LookMaster(c) \/ InsertMaster(c) \/ MasterFails(c)
       \/ ImportItem(c) \/ EndImport(c)

-----------------------------------------------------------------------------
ImportTypeOK ==
  /\ Len(book) <= MaxContacts /\ designation \in [Codes -> Labels \cup {NoLabel}]
  /\ \A c \in Clerks : Len(clerk[c].answers) <= Len(clerk[c].batch)

(***************************************************************************)
(* An item answered "created" was filed once, with its own data; nothing   *)
(* was filed for one answered "duplicate" or "invalid".  An "error" may    *)
(* hide a row: create inserts it and then reads it back.                   *)
(***************************************************************************)
AnswersTellRows ==
  \A c \in Clerks : \A i \in DOMAIN clerk[c].answers :
    LET filed == {j \in DOMAIN book : book[j].from = <<c, i>>}
    IN IF clerk[c].answers[i] = "created"
       THEN \E j \in filed : filed = {j} /\ Channels(book[j]) = Channels(clerk[c].batch[i])
       ELSE clerk[c].answers[i] = "error" \/ filed = {}

(***************************************************************************)
(* With skipDuplicates, nobody is filed whom the book knew when the import *)
(* began.  (Two equal items of one sheet are both filed, and so are two    *)
(* imports of one person at once: the book is asked only at the start.)    *)
(***************************************************************************)
SkipKept ==
  \A c \in Clerks : clerk[c].skip => \A i \in DOMAIN clerk[c].answers :
    clerk[c].answers[i] = "created" => Channels(clerk[c].batch[i]) \cap clerk[c].before = {}

(***************************************************************************)
(* However imports race, no label gets a second master, every imported     *)
(* designation has one, and it is the label's own or its namesake's.       *)
(***************************************************************************)
DesignationsOnce ==
  /\ \A k, l \in Codes : designation[k] = designation[l] /\ k # l => designation[k] = NoLabel
  /\ \A c \in Clerks : \A l \in Labels :
       clerk[c].step # "idle" /\ clerk[c].codes[l] \in Codes =>
         LET k == clerk[c].codes[l]
         IN designation[k] = l \/ (k \in {CodeOf[l], l} /\ designation[k] # NoLabel)
  /\ \A k \in Codes : FirstMaster[k] # NoLabel => designation[k] = FirstMaster[k]

\* What an import of contacts promises, in its three parts.
ContactsSound == ImportTypeOK /\ AnswersTellRows /\ SkipKept /\ DesignationsOnce
=============================================================================
