----------------------------- MODULE StoredFiles -----------------------------
(***************************************************************************)
(* Files the back office keeps beside their rows: the document library     *)
(* (services/admin/documents.js, db/queries/documents.js), and the banners *)
(* and sidebar ads of the website (services/admin/cms.js, db/queries/cms.js*)
(* and files/cmsBannerUpload.js), whose bytes count against the quota in   *)
(* storage_usage.  All files have one size here.                           *)
(***************************************************************************)
EXTENDS Integers, Sequences, FiniteSets

CONSTANTS Editors,    \* requests of the back office
          MaxUploads, \* bound on the uploads
          Quota,      \* TOTAL_QUOTA_BYTES, in files
          NoFile      \* an ad without a picture

ASSUME StoreAssumption == MaxUploads \in Nat /\ Quota \in Nat /\ NoFile \notin 1..MaxUploads

VARIABLES entry,    \* rows of documents, cms_banners, cms_sidebar_ads
          disk,     \* files on disk, numbered by upload
          used,     \* storage_usage.used_bytes
          editor,   \* what each request is at
          uploads,
          upset     \* a failure, a stop, or two removals of one row happened

storeVars == <<entry, disk, used, editor, uploads, upset>>

Kinds == {"document", "banner", "ad"}
IdleEditor == [step |-> "idle", kind |-> "document", file |-> NoFile, row |-> 0]

StoreInit == /\ entry = << >> /\ disk = {} /\ used = 0 /\ uploads = 0
             /\ editor = [e \in Editors |-> IdleEditor] /\ upset = FALSE

Metered(kind) == kind # "document"    \* only CMS pictures are counted
Shown(id) == id \in DOMAIN entry /\ entry[id].live
AtStep(e, step) == editor[e].step = step
Goto(e, step) == editor' = [editor EXCEPT ![e].step = step]
Done(e) == editor' = [editor EXCEPT ![e] = IdleEditor]

-----------------------------------------------------------------------------
(***************************************************************************)
(* Uploads.  The file comes first.  A banner's file and its bytes go in    *)
(* one transaction that holds the counter's row; on its failure both are   *)
(* undone.  An ad may come without a file.                                 *)
(***************************************************************************)
StartUploadFile(e, kind) ==
  /\ AtStep(e, "idle") /\ uploads < MaxUploads
  /\ Metered(kind) => used + 1 <= Quota
  /\ uploads' = uploads + 1
  /\ disk' = disk \cup {uploads + 1}
  /\ used' = IF Metered(kind) THEN used + 1 ELSE used
  /\ editor' = [editor EXCEPT ![e] =
       [step |-> "insert", kind |-> kind, file |-> uploads + 1, row |-> 0]]
  /\ UNCHANGED <<entry, upset>>

CreateTextAd(e) ==
  /\ AtStep(e, "idle") /\ uploads < MaxUploads /\ uploads' = uploads + 1
  /\ entry' = Append(entry, [kind |-> "ad", file |-> NoFile, live |-> TRUE])
  /\ UNCHANGED <<disk, used, editor, upset>>

InsertEntry(e) ==
  /\ AtStep(e, "insert")
  /\ entry' = Append(entry, [kind |-> editor[e].kind, file |-> editor[e].file, live |-> TRUE])
  /\ Done(e) /\ UNCHANGED <<disk, used, uploads, upset>>

\* a mutant: a file whose row was not inserted stays
MutUndo(e) == "idle"

\* the catch: a document's file is unlinked, a banner's goes the way of deleteBanner
Undo(e) == IF Metered(editor[e].kind) THEN "measure" ELSE "unlink"

InsertFails(e) == AtStep(e, "insert") /\ Goto(e, Undo(e))
                  /\ UNCHANGED <<entry, disk, used, uploads, upset>>

\* documents.create inserts, then cannot read the row back: the file goes, the row stays
RereadFails(e) ==
  /\ AtStep(e, "insert") /\ editor[e].kind = "document"
  /\ entry' = Append(entry, [kind |-> "document", file |-> editor[e].file, live |-> TRUE])
  /\ Goto(e, "unlink") /\ upset' = TRUE /\ UNCHANGED <<disk, used, uploads>>

-----------------------------------------------------------------------------
(***************************************************************************)
(* Removals.  The row goes first: a document is marked deleted, a banner   *)
(* or an ad is deleted, whether or not another removal was faster.         *)
(***************************************************************************)
StartRemoveEntry(e, id) ==
  /\ AtStep(e, "idle") /\ Shown(id)
  /\ editor' = [editor EXCEPT ![e] =
       [step |-> "delete", kind |-> entry[id].kind, file |-> entry[id].file, row |-> id]]
  /\ upset' = (upset \/ \E f \in Editors : editor[f].row = id)
  /\ UNCHANGED <<entry, disk, used, uploads>>

DeleteEntry(e) ==
  /\ AtStep(e, "delete")
  /\ entry' = [entry EXCEPT ![editor[e].row].live = FALSE]
  /\ IF editor[e].file = NoFile THEN Done(e)
     ELSE Goto(e, IF Metered(editor[e].kind) THEN "measure" ELSE "unlink")
  /\ UNCHANGED <<disk, used, uploads, upset>>

\* deleteBannerImage: stat the file; nothing is subtracted for a missing one
MeasureFile(e) ==
  /\ AtStep(e, "measure")
  /\ Goto(e, IF editor[e].file \in disk THEN "subtract" ELSE "unlink")
  /\ UNCHANGED <<entry, disk, used, uploads, upset>>

GivenBack(n) == IF n > 0 THEN n - 1 ELSE 0    \* GREATEST(0, used_bytes - size)

Subtract(e) ==
  /\ AtStep(e, "subtract") /\ used' = GivenBack(used) /\ Goto(e, "unlink")
  /\ UNCHANGED <<entry, disk, uploads, upset>>

\* the transaction fails: a warning, and on to the unlink
SubtractFails(e) ==
  /\ AtStep(e, "subtract") /\ Goto(e, "unlink") /\ upset' = TRUE
  /\ UNCHANGED <<entry, disk, used, uploads>>

Unlink(e) ==
  /\ AtStep(e, "unlink") /\ disk' = disk \ {editor[e].file} /\ Done(e)
  /\ UNCHANGED <<entry, used, uploads, upset>>

\* The process stops: requests under way are forgotten, rows and files stay
StoreStops ==
  /\ \E e \in Editors : ~AtStep(e, "idle")
  /\ editor' = [e \in Editors |-> IdleEditor] /\ upset' = TRUE
  /\ UNCHANGED <<entry, disk, used, uploads>>

StoreNext ==
  \/ \E e \in Editors :
       \/ \E kind \in Kinds : StartUploadFile(e, kind)
       \/ CreateTextAd(e) \/ InsertEntry(e) \/ InsertFails(e) \/ RereadFails(e)
       \/ \E id \in DOMAIN entry : StartRemoveEntry(e, id)
       \/ DeleteEntry(e) \/ MeasureFile(e) \/ Subtract(e) \/ SubtractFails(e) \/ Unlink(e)
  \/ StoreStops

-----------------------------------------------------------------------------
StoreTypeOK ==
  /\ disk \subseteq 1..MaxUploads /\ used \in 0..Quota /\ uploads \in 0..MaxUploads
  /\ \A id \in DOMAIN entry : entry[id] \in
       [kind : Kinds, file : disk \cup 1..MaxUploads \cup {NoFile}, live : BOOLEAN]

Files(ids) == {entry[id].file : id \in ids} \ {NoFile}

\* What the website shows has its picture, however requests overlap or stop.
PicturesServed ==
  Files({id \in DOMAIN entry : Shown(id) /\ Metered(entry[id].kind)}) \subseteq disk

\* So does a document, after requests that ran without a failure.
DocumentsServed == upset \/ Files({id \in DOMAIN entry : Shown(id)}) \subseteq disk

(***************************************************************************)
(* When no request is under way, no file is left behind and the counter    *)
(* tells the pictures on disk - after failed uploads too, but not after a  *)
(* stop, a failed subtraction or two removals of one row at once.          *)
(***************************************************************************)
NothingLeft ==
  (\A e \in Editors : AtStep(e, "idle")) /\ ~upset =>
    LET shown == {id \in DOMAIN entry : Shown(id)}
    IN /\ disk = Files(shown)
       /\ used = Cardinality(Files({id \in shown : Metered(entry[id].kind)}))

\* Rows, files and the quota's counter stay together (documents.js, cms.js,
\* cmsBannerUpload.js), in three parts.
StoreSound == StoreTypeOK /\ PicturesServed /\ DocumentsServed /\ NothingLeft
=============================================================================
