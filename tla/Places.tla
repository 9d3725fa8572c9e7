------------------------------- MODULE Places -------------------------------
(***************************************************************************)
(* The districts, talukas and villages of the forms: rows of three keys of *)
(* master_lookups, read downwards by the cascade of drop-downs and upwards *)
(* by the edit forms.  A script imports them from a file, some statements  *)
(* after each other, and may stop in between and be run again; admins edit *)
(* and remove single places meanwhile.  Other operations on masters and    *)
(* what names them are in Masters.                                         *)
(***************************************************************************)
EXTENDS Integers, Sequences, FiniteSets, SequencesExt

CONSTANTS
  Files,          \* the editions of the file: sequences of lines
  FirstPlaces,    \* the rows there at first
  Stubs,          \* LEGACY_STUB_CODES
  BatchSize,      \* BATCH_SIZE
  Nil,            \* NULL
  Editors,        \* admins' requests that may run at once
  TypedLabels, TypedParents,   \* names and parents they type
  MaxImports, MaxEdits   \* bounds: runs of the script, requests of admins

Tiers == <<"district", "taluka", "shivar">>

VARIABLES
  place,      \* <<tier, code>> -> [label, parent, pin, active, deleted]
  importer,   \* the script: [file, at]
  editor,     \* the admins' requests
  origin,     \* history: the places before this file was first tried
  touched,    \* history: places an admin wrote since then
  overtaken,      \* history: places removed while a child was being given to them
  typed,      \* history: places whose parent an admin wrote
  runs, edits

placeVars == <<place, importer, editor, origin, touched, overtaken, typed, runs, edits>>

Up(tier) == IF tier = "shivar" THEN "taluka" ELSE "district"

\* The files are lines, the stubs are places, and at first a place that is there
\* has one above it that is there, or a stub.
ASSUME PlacesAssumption ==
  /\ BatchSize \in Nat \ {0} /\ MaxImports \in Nat /\ MaxEdits \in Nat
  /\ \A n \in DOMAIN Files : Len(Files[n]) \in Nat /\ DOMAIN Files[n] = 1 .. Len(Files[n])
  /\ Stubs # {} /\ \A id \in Stubs : id[1] \in ToSet(Tiers)
  /\ \A id \in DOMAIN FirstPlaces :
       /\ id = <<id[1], id[2]>> /\ id[1] \in ToSet(Tiers) /\ id[2] # Nil
       /\ DOMAIN FirstPlaces[id] = {"label", "parent", "pin", "active", "deleted"}
       /\ FirstPlaces[id].active \in BOOLEAN /\ FirstPlaces[id].deleted \in BOOLEAN
       /\ id[1] # "district" /\ ~FirstPlaces[id].deleted =>
            LET above == <<Up(id[1]), FirstPlaces[id].parent>>
            IN above \in Stubs \/ (above \in DOMAIN FirstPlaces /\ ~FirstPlaces[above].deleted)

NoRequest == [at |-> "idle"]
NoFile == << >>

PlacesInit ==
  /\ place = FirstPlaces /\ origin = FirstPlaces
  /\ importer = [file |-> NoFile, at |-> 0]
  /\ editor = [k \in Editors |-> NoRequest]
  /\ touched = {} /\ overtaken = {} /\ typed = {}
  /\ runs = 0 /\ edits = 0

Standing(id) == id \in DOMAIN place /\ ~place[id].deleted
ParentOf(id, parent) == <<Up(id[1]), parent>>

-----------------------------------------------------------------------------
(* The file.  A line names a place of each tier: [code, label] by tier and  *)
(* a pincode, Nil when it has not six digits.                               *)

Complete(line) == \A i \in DOMAIN Tiers : /\ line.code[Tiers[i]] # Nil
                                          /\ line.label[Tiers[i]] # Nil

\* loadCsv: of each tier, the lines that are the first to name their code
loadCsv(file, tier) ==
  {n \in DOMAIN file : /\ Complete(file[n])
                       /\ \A m \in 1 .. (n - 1) :
                            Complete(file[m]) => file[m].code[tier] # file[n].code[tier]}

RowOf(line, tier) ==
  [code |-> line.code[tier], label |-> line.label[tier],
   parent |-> IF tier = "district" THEN Nil ELSE line.code[Up(tier)],
   pin |-> IF tier = "shivar" THEN line.pin ELSE Nil]

\* What the script does, statement by statement: the rows of a tier in batches
\* of BatchSize, in the order of the file, and then the stubs.
BatchOf(file, tier, n) ==
  1 + Cardinality({m \in loadCsv(file, tier) : m < n}) \div BatchSize
Slices(file, tier) ==
  [i \in 1 .. (Cardinality(loadCsv(file, tier)) + BatchSize - 1) \div BatchSize |->
     [do |-> "upsert", tier |-> tier,
      rows |-> {RowOf(file[n], tier) : n \in {m \in loadCsv(file, tier) : BatchOf(file, tier, m) = i}}]]
StubsOf(tier) ==
  LET ids == {id \in Stubs : id[1] = tier}
  IN IF ids = {} THEN << >> ELSE <<[do |-> "hide", tier |-> tier, rows |-> ids]>>

Statements(file) ==
  Slices(file, "district") \o Slices(file, "taluka") \o Slices(file, "shivar")
  \o StubsOf("district") \o StubsOf("taluka") \o StubsOf("shivar")

MutFresh(row, oldPin) ==   \* mutant: a line without a pincode clears the one there
  [label |-> row.label, parent |-> row.parent, pin |-> row.pin,
   active |-> TRUE, deleted |-> FALSE]

Fresh(row, oldPin) == [label |-> row.label, parent |-> row.parent,
                       pin |-> IF row.pin # Nil THEN row.pin ELSE oldPin,
                       active |-> TRUE, deleted |-> FALSE]

PinOf(places, id) == IF id \in DOMAIN places THEN places[id].pin ELSE Nil

\* INSERT ... ON DUPLICATE KEY UPDATE: what is switched off or deleted comes back
upsertBatch(tier, rows) ==
  LET ids == {<<tier, r.code>> : r \in rows}
  IN place' = [id \in DOMAIN place \cup ids |->
                 IF id \notin ids THEN place[id]
                 ELSE Fresh(CHOOSE r \in rows : r.code = id[2], PinOf(place, id))]

softDeleteLegacyStubs(ids) ==
  place' = [id \in DOMAIN place |->
              IF id \in ids /\ ~place[id].deleted
              THEN [place[id] EXCEPT !.deleted = TRUE, !.active = FALSE] ELSE place[id]]

Importing == importer.at > 0
Pending(what) == {k \in Editors : editor[k].at = what}

\* The script is run, for the first time with this file or after it stopped.
StartImport(file) ==
  /\ ~Importing /\ runs < MaxImports /\ runs' = runs + 1
  /\ importer' = [file |-> file, at |-> 1]
  /\ LET again == importer.at < 0 /\ importer.file = file
     IN /\ origin' = IF again THEN origin ELSE place
        /\ touched' = IF again THEN touched ELSE {}
  /\ overtaken' = overtaken \cup {editor[k].id : k \in Pending("remove")}
  /\ UNCHANGED <<place, editor, typed, edits>>

ImportStep ==
  /\ Importing
  /\ LET todo == Statements(importer.file)
         now == todo[importer.at]
     IN /\ \/ now.do = "upsert" /\ upsertBatch(now.tier, now.rows)
              /\ typed' = typed \ {<<now.tier, r.code>> : r \in now.rows}
           \/ now.do = "hide" /\ softDeleteLegacyStubs(now.rows) /\ UNCHANGED typed
        /\ importer' = [importer EXCEPT !.at = IF @ = Len(todo) THEN 0 ELSE @ + 1]
  /\ UNCHANGED <<editor, origin, touched, overtaken, runs, edits>>

\* an error or a kill between two statements: what is written stays
ImportStops ==
  /\ Importing /\ importer' = [importer EXCEPT !.at = -1]
  /\ UNCHANGED <<place, editor, origin, touched, overtaken, typed, runs, edits>>

-----------------------------------------------------------------------------
(* The admins *)

labelTaken(id, label, parent) ==
  \E x \in DOMAIN place \ {id} :
    /\ x[1] = id[1] /\ ~place[x].deleted /\ place[x].label = label
    /\ id[1] = "shivar" /\ parent # Nil => place[x].parent = parent

AskEditor(k, next) ==
  /\ editor[k] = NoRequest /\ edits < MaxEdits /\ edits' = edits + 1
  /\ editor' = [editor EXCEPT ![k] = next]

\* update: label, parent and switch, as typed or as read; nobody asks whether
\* the parent is there.
StartEditPlace(k, id, label, parent, active) ==
  /\ Standing(id)
  /\ \/ label = place[id].label /\ (id[1] = "shivar" => parent = place[id].parent)
     \/ ~labelTaken(id, label, parent)
  /\ AskEditor(k, [at |-> "edit", id |-> id, label |-> label, parent |-> parent, active |-> active,
             moves |-> parent # place[id].parent])
  /\ overtaken' = overtaken \cup ({ParentOf(id, parent)} \cap {editor[q].id : q \in Pending("remove")})
  /\ UNCHANGED <<place, importer, origin, touched, typed, runs>>

EditPlace(k) ==
  /\ editor[k].at = "edit"
  /\ LET e == editor[k]
     IN IF ~Standing(e.id) THEN UNCHANGED <<place, touched, typed>>
        ELSE /\ place' = [place EXCEPT ![e.id].label = e.label, ![e.id].parent = e.parent,
                                       ![e.id].active = e.active]
             /\ touched' = touched \cup {e.id}
             /\ typed' = IF e.moves \/ e.parent # place[e.id].parent THEN typed \cup {e.id}
                         ELSE typed
  /\ editor' = [editor EXCEPT ![k] = NoRequest]
  /\ UNCHANGED <<importer, origin, overtaken, runs, edits>>

\* remove: refused while a place names the code as its parent's, of whatever tier
Below(id) == {x \in DOMAIN place : ~place[x].deleted /\ place[x].parent = id[2]}

StartRemovePlace(k, id) ==
  /\ Standing(id) /\ Below(id) = {}
  /\ AskEditor(k, [at |-> "remove", id |-> id])
  /\ overtaken' = IF Importing
                 \/ \E q \in Pending("edit") : ParentOf(editor[q].id, editor[q].parent) = id
              THEN overtaken \cup {id} ELSE overtaken
  /\ UNCHANGED <<place, importer, origin, touched, typed, runs>>

RemovePlace(k) ==
  /\ editor[k].at = "remove"
  /\ place' = [place EXCEPT ![editor[k].id] = [@ EXCEPT !.deleted = TRUE, !.active = FALSE]]
  /\ touched' = touched \cup {editor[k].id}
  /\ editor' = [editor EXCEPT ![k] = NoRequest]
  /\ UNCHANGED <<importer, origin, overtaken, typed, runs, edits>>

PlacesNext ==
  \/ \E n \in DOMAIN Files : StartImport(Files[n])
  \/ ImportStep \/ ImportStops
  \/ \E k \in Editors :
       \/ \E id \in DOMAIN place :
            \/ \E parent \in {p[2] : p \in {x \in TypedParents : id[1] # "district" /\ x[1] = Up(id[1])}} :
                 StartEditPlace(k, id, place[id].label, parent, place[id].active)
            \/ \E label \in TypedLabels :
                 StartEditPlace(k, id, label, place[id].parent, ~place[id].active)
            \/ StartRemovePlace(k, id)
       \/ EditPlace(k) \/ RemovePlace(k)

PlacesSpec == PlacesInit /\ [][PlacesNext]_placeVars

-----------------------------------------------------------------------------
(* The cascade: downwards it offers what is switched on, upwards it joins   *)
(* whatever is not deleted.                                                 *)

Offered(tier) == {id \in DOMAIN place : id[1] = tier /\ Standing(id) /\ place[id].active}
listDistricts == Offered("district")
listTalukasByDistrict(d) == {id \in Offered("taluka") : place[id].parent = d}
listVillagesByTaluka(t) == {id \in Offered("shivar") : place[id].parent = t}

Join(tier, code) == IF code # Nil /\ Standing(<<tier, code>>) THEN code ELSE Nil
resolveTalukaContext(t) == [district |-> Join("district", place[<<"taluka", t>>].parent)]
resolveVillageContext(v) ==
  LET t == Join("taluka", place[<<"shivar", v>>].parent)
  IN [taluka |-> t,
      district |-> IF t = Nil THEN Nil ELSE resolveTalukaContext(t).district]
findVillagesByPincode(pin) ==
  {[village |-> id[2], context |-> resolveVillageContext(id[2])] :
     id \in {x \in Offered("shivar") : place[x].pin = pin}}
labelsForCodes(tier, codes) ==
  {[code |-> c, label |-> place[<<tier, c>>].label] : c \in {x \in codes : Standing(<<tier, x>>)}}

-----------------------------------------------------------------------------
PlacesTypeOK ==
  /\ \A id \in DOMAIN place : place[id].active \in BOOLEAN /\ place[id].deleted \in BOOLEAN
  /\ importer.at \in -1 .. Len(Statements(importer.file))

\* The reference: a place of the file is as its first complete line says, with
\* the pincode it had when that line has none; the stubs are gone; the rest stays.
Mentions(file, id) ==
  {i \in DOMAIN file : Complete(file[i]) /\ file[i].code[id[1]] = id[2]}
LineOf(file, id) ==
  file[CHOOSE i \in Mentions(file, id) : \A j \in Mentions(file, id) : i <= j]
Lined(file, id, oldPin) ==
  LET line == LineOf(file, id)
  IN [label |-> line.label[id[1]],
      parent |-> IF id[1] = "district" THEN Nil ELSE line.code[Up(id[1])],
      pin |-> IF id[1] = "shivar" /\ line.pin # Nil THEN line.pin ELSE oldPin,
      active |-> TRUE, deleted |-> FALSE]
Hidden(id, row) == IF id \in Stubs /\ ~row.deleted
                   THEN [row EXCEPT !.deleted = TRUE, !.active = FALSE] ELSE row
Imported(before, file) ==
  [id \in DOMAIN before \cup {<<t, file[i].code[t]>> :
              i \in {j \in DOMAIN file : Complete(file[j])}, t \in ToSet(Tiers)} |->
     Hidden(id, IF Mentions(file, id) = {} THEN before[id] ELSE Lined(file, id, PinOf(before, id)))]

\* "running the script twice is safe" (import-locations.js:15-16): when an import is
\* through, at once or after runs that stopped half way, every place no admin
\* wrote meanwhile is as one undisturbed run would have left it.
ImportFaithful ==
  importer.at = 0 /\ importer.file # NoFile =>
    LET want == Imported(origin, importer.file)
    IN /\ DOMAIN place = DOMAIN want
       /\ \A id \in DOMAIN want \ touched : place[id] = want[id]

\* "a taluka insert before its district would leave the child orphaned"
\* (import-locations.js:287-291): also in the middle of an import, or of one that
\* stopped, a form that opens a saved village finds its taluka and district, and
\* so does the search by pincode - unless an admin wrote the parent, the parent
\* is a stub, or it was removed while an import or an edit gave it children.
Excused(id) ==
  \/ id \in typed
  \/ ParentOf(id, place[id].parent) \in Stubs \cup overtaken
NoOrphans ==
  /\ \A id \in DOMAIN place : id[1] = "taluka" /\ Standing(id) /\ ~Excused(id) =>
       resolveTalukaContext(id[2]).district # Nil
  /\ \A id \in DOMAIN place : id[1] = "shivar" /\ Standing(id) /\ ~Excused(id) =>
       resolveVillageContext(id[2]).taluka # Nil
  /\ \A pin \in {place[id].pin : id \in DOMAIN place} \ {Nil} :
       \A found \in findVillagesByPincode(pin) :
         LET v == <<"shivar", found.village>>
             t == <<"taluka", found.context.taluka>>
         IN ~Excused(v) /\ ~Excused(t) => found.context.district # Nil

\* What was chosen from the lists downwards is what the forms show when they ask
\* upwards, with a label for each code.
CascadeAgrees ==
  \A d \in listDistricts : \A t \in listTalukasByDistrict(d[2]) :
    /\ resolveTalukaContext(t[2]) = [district |-> d[2]]
    /\ \A v \in listVillagesByTaluka(t[2]) :
         /\ resolveVillageContext(v[2]) = [taluka |-> t[2], district |-> d[2]]
         /\ Cardinality(labelsForCodes("shivar", {v[2]})) = 1

\* What the places promise, in its parts.
PlacesSound == PlacesTypeOK /\ ImportFaithful /\ NoOrphans /\ CascadeAgrees
=============================================================================
