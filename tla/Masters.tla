------------------------------ MODULE Masters ------------------------------
(***************************************************************************)
(* The masters (the vocabularies of the forms) and the rows that name      *)
(* their codes: inventory properties, the units of a builder property, and *)
(* masters whose parent is another master. A deleted master keeps its row  *)
(* and may be revived. A code is checked when a row that names it is       *)
(* saved, and counted when the master is deleted; the check and the write  *)
(* are separate statements.                                                *)
(***************************************************************************)
EXTENDS Naturals, Sequences, FiniteSets

CONSTANTS
  MasterCodes, Labels, \* what an admin may type
  NoParent, Parents,   \* parent codes typed, NoParent among them
  FirstRows,           \* the master rows there at first
  UnitNos,             \* flat numbers
  Clerks,              \* requests that may run at once
  MaxRows, MaxDesk     \* bounds: master rows, requests ever made

\* Kept in the tables of their own, or under a key of master_lookups; who
\* names them.
OwnTable == {"status_type"}
LookupKeys == {"builder_status", "taluka", "shivar"}
MasterKeys == OwnTable \cup LookupKeys

\* Rows of the tables of masters.
MasterRow == [key : MasterKeys, code : MasterCodes, label : Labels,
              parent : MasterCodes \cup {NoParent}, active : BOOLEAN, deleted : BOOLEAN]

\* UNIQUE (master_key, code), and no two rows in use under one name (of villages:
\* of one taluka), those of two requests at once excepted.
OncePerKey(rows, twice) ==
  \A i, j \in DOMAIN rows : i # j /\ rows[i].key = rows[j].key =>
    /\ rows[i].code # rows[j].code
    /\ (/\ ~rows[i].deleted /\ ~rows[j].deleted
        /\ rows[i].label = rows[j].label
        /\ rows[i].key = "shivar" => rows[i].parent = rows[j].parent)
       => <<rows[i].key, rows[i].label>> \in twice

\* The seeded masters are told apart.
ASSUME MastersAssumption ==
  /\ Parents \subseteq MasterCodes \cup {NoParent}
  /\ FirstRows \in Seq(MasterRow) /\ OncePerKey(FirstRows, {})
  /\ MaxDesk \in Nat

VARIABLES
  row,     \* the masters, a sequence of MasterRow
  stock,   \* the inventory property: [status, taluka, builder, deleted], or Unsaved
  unit,    \* inventory_property_units of it: [no, status]
  clerk,   \* the requests
  met,     \* history: codes saved, deleted or renamed by two requests at once
  renamed, \* history: codes of a row in use that an update or a revival replaced
  twins,   \* history: labels given by two requests at once
  desk

masterVars == <<row, stock, unit, clerk, met, renamed, twins, desk>>

Unsaved == [status |-> "none"]
AtRest == [at |-> "idle"]

MastersInit ==
  /\ row = FirstRows
  /\ stock = Unsaved
  /\ unit = {}
  /\ clerk = [k \in Clerks |-> AtRest]
  /\ met = {}
  /\ renamed = {}
  /\ twins = {}
  /\ desk = 0

Serve(k, next) ==
  /\ clerk[k] = AtRest
  /\ desk < MaxDesk
  /\ desk' = desk + 1
  /\ clerk' = [clerk EXCEPT ![k] = next]

Done(k) == clerk' = [clerk EXCEPT ![k] = AtRest]

\* What a request is about to write names these codes, and gives this label.
Touched(k) == IF clerk[k] = AtRest THEN {} ELSE clerk[k].codes
Meeting(k, codes) ==
  met' = met \cup UNION {codes \cup Touched(q) : q \in {p \in Clerks \ {k} : codes \cap Touched(p) # {}}}

Keyed(key, deleted) == {i \in DOMAIN row : row[i].key = key /\ row[i].deleted = deleted}
findByCode(key, c) == {i \in Keyed(key, FALSE) : row[i].code = c}
findDeletedByCode(key, c) == {i \in Keyed(key, TRUE) : row[i].code = c}

\* A village's name is taken within its taluka only.
Scope(key, parent) == {i \in DOMAIN row : key = "shivar" /\ parent # NoParent => row[i].parent = parent}
findByLabel(key, l, parent) == {i \in Keyed(key, FALSE) \cap Scope(key, parent) : row[i].label = l}
findDeletedByLabel(key, l, parent) == {i \in Keyed(key, TRUE) \cap Scope(key, parent) : row[i].label = l}

Parent(key, parent) == IF key \in LookupKeys THEN parent ELSE NoParent

assertActiveCode(key, c) == \E i \in findByCode(key, c) : row[i].active

---------------------------------------------------------------------------
(* create: free code, free label, then a deleted twin to revive or a new row *)

StartMaster(k, key, c, l, parent) ==
  /\ findByCode(key, c) = {}
  /\ findByLabel(key, l, Parent(key, parent)) = {}
  /\ LET byCode == findDeletedByCode(key, c)
         byLabel == findDeletedByLabel(key, l, Parent(key, parent))
         dead == IF byCode # {} THEN byCode ELSE byLabel
         new == [key |-> key, code |-> c, label |-> l, parent |-> Parent(key, parent),
                 active |-> TRUE, deleted |-> FALSE]
     IN IF dead = {}
        THEN Serve(k, [at |-> "add", new |-> new, codes |-> {<<key, c>>}])
        ELSE \E i \in dead : Serve(k, [at |-> "revive", id |-> i, new |-> new,
                                       codes |-> {<<key, c>>, <<key, row[i].code>>}])
  /\ Meeting(k, {<<key, c>>})
  /\ twins' = twins \cup {<<key, l>> : q \in {p \in Clerks \ {k} :
                clerk[p].at \in {"add", "revive", "change"}
                  /\ clerk[p].new.key = key /\ clerk[p].new.label = l}}
  /\ UNCHANGED <<row, stock, unit, renamed>>

\* UNIQUE (master_key, code) counts the deleted rows too.
CodeIsFree(new, id) == ~ \E i \in DOMAIN row \ {id} : row[i].key = new.key /\ row[i].code = new.code

AddMaster(k) ==
  /\ clerk[k].at = "add"
  /\ Len(row) < MaxRows
  /\ row' = IF CodeIsFree(clerk[k].new, 0) THEN Append(row, clerk[k].new) ELSE row
  /\ Done(k)
  /\ UNCHANGED <<stock, unit, met, renamed, twins, desk>>

\* A write replaces the code of a row in use.
Renaming(old, new) ==
  renamed' = IF ~old.deleted /\ old.code # new.code
             THEN renamed \cup {<<old.key, old.code>>} ELSE renamed

\* revive writes the row by its id, whatever has become of it: another request
\* may have revived it meanwhile, under another code.
ReviveMaster(k) ==
  /\ clerk[k].at = "revive"
  /\ LET i == clerk[k].id
         new == clerk[k].new
     IN IF CodeIsFree(new, i)
        THEN row' = [row EXCEPT ![i] = new] /\ Renaming(row[i], new)
        ELSE UNCHANGED <<row, renamed>>
  /\ Done(k)
  /\ UNCHANGED <<stock, unit, met, twins, desk>>

---------------------------------------------------------------------------
(* update: any field may change, the code too; nobody who names it is asked *)

StartUpdate(k, i, c, l, parent, active) ==
  /\ ~row[i].deleted
  /\ LET key == row[i].key
         new == [row[i] EXCEPT !.code = c, !.label = l, !.parent = Parent(key, parent),
                               !.active = active]
     IN /\ c # row[i].code => findByCode(key, c) = {}
        /\ \/ l = row[i].label /\ (key = "shivar" => new.parent = row[i].parent)
           \/ findByLabel(key, l, new.parent) \subseteq {i}
        /\ Serve(k, [at |-> "change", id |-> i, new |-> new,
                     codes |-> {<<key, c>>, <<key, row[i].code>>}])
        /\ Meeting(k, {<<key, c>>, <<key, row[i].code>>})
        /\ twins' = twins \cup {<<key, l>> : q \in {p \in Clerks \ {k} :
                      clerk[p].at \in {"add", "revive", "change"}
                        /\ clerk[p].new.key = key /\ clerk[p].new.label = l}}
  /\ UNCHANGED <<row, stock, unit, renamed>>

ChangeMaster(k) ==
  /\ clerk[k].at = "change"
  /\ LET i == clerk[k].id
         new == clerk[k].new
         old == row[i]
     IN IF ~old.deleted /\ CodeIsFree(new, i)
        THEN row' = [row EXCEPT ![i] = new] /\ Renaming(old, new)
        ELSE UNCHANGED <<row, renamed>>
  /\ Done(k)
  /\ UNCHANGED <<stock, unit, met, twins, desk>>

---------------------------------------------------------------------------
(* remove *)

\* USAGE_REFS: what names the row's code. Soft-deleted properties do not
\* count; units have no soft delete.
StockNames(i) == /\ stock # Unsaved /\ ~stock.deleted
                 /\ \/ row[i].key = "status_type" /\ stock.status = row[i].code
                    \/ row[i].key = "taluka" /\ stock.taluka = row[i].code
UnitNames(i) == row[i].key = "builder_status" /\ \E u \in unit : u.status = row[i].code

MutUsageOf(i) == StockNames(i)   \* mutant: units are counted by a deleted_at they lack

UsageOf(i) == StockNames(i) \/ UnitNames(i)

\* Rows of master_lookups under this code, of whatever key.
ChildrenOf(i) == {j \in DOMAIN row : /\ row[i].key \in LookupKeys
                                     /\ row[j].parent = row[i].code /\ ~row[j].deleted}

StartRemoveMaster(k, i) ==
  /\ ~row[i].deleted
  /\ ~UsageOf(i)
  /\ ChildrenOf(i) = {}
  /\ Serve(k, [at |-> "delete", id |-> i, codes |-> {<<row[i].key, row[i].code>>}])
  /\ Meeting(k, {<<row[i].key, row[i].code>>})
  /\ UNCHANGED <<row, stock, unit, renamed, twins>>

\* By id too: a row whose code was replaced since it was counted goes with the
\* new one.
DeleteMaster(k) ==
  /\ clerk[k].at = "delete"
  /\ LET i == clerk[k].id
     IN /\ row' = [row EXCEPT ![i].deleted = TRUE, ![i].active = FALSE]
        /\ met' = IF row[i].deleted THEN met
                  ELSE met \cup ({<<row[i].key, row[i].code>>} \ clerk[k].codes)
  /\ Done(k)
  /\ UNCHANGED <<stock, unit, renamed, twins, desk>>

---------------------------------------------------------------------------
(* The rows that name the masters *)

\* createProperty, updateProperty: every code is checked, then the row is
\* written. isBuilderMaster may be set and cleared.
SaveStock(k, status, taluka, builder) ==
  /\ stock # Unsaved => ~stock.deleted
  /\ assertActiveCode("status_type", status)
  /\ assertActiveCode("taluka", taluka)
  /\ Serve(k, [at |-> "save", codes |-> {<<"status_type", status>>, <<"taluka", taluka>>},
               new |-> [key |-> "stock", status |-> status, taluka |-> taluka,
                        builder |-> builder]])
  /\ Meeting(k, {<<"status_type", status>>, <<"taluka", taluka>>})
  /\ UNCHANGED <<row, stock, unit, renamed, twins>>

WriteStock(k) ==
  /\ clerk[k].at = "save"
  /\ LET new == clerk[k].new
     IN stock' = IF stock # Unsaved /\ stock.deleted THEN stock
                 ELSE [status |-> new.status, taluka |-> new.taluka, builder |-> new.builder,
                       deleted |-> FALSE]
  /\ Done(k)
  /\ UNCHANGED <<row, unit, met, renamed, twins, desk>>

RemoveStock(k) ==
  /\ stock # Unsaved /\ ~stock.deleted
  /\ Serve(k, AtRest)
  /\ stock' = [stock EXCEPT !.deleted = TRUE]
  /\ UNCHANGED <<row, unit, met, renamed, twins>>

assertMasterIsBuilder == stock # Unsaved /\ ~stock.deleted /\ stock.builder

\* create, update and changeStatus of a unit: the status and the master are
\* checked, the row written; its number is unique under the master.
SaveUnit(k, no, status, old) ==
  /\ assertActiveCode("builder_status", status)
  /\ assertMasterIsBuilder
  /\ Serve(k, [at |-> "unit", unit |-> [no |-> no, status |-> status], old |-> old,
               codes |-> {<<"builder_status", status>>}])
  /\ Meeting(k, {<<"builder_status", status>>})
  /\ UNCHANGED <<row, stock, unit, renamed, twins>>

createUnit(k, no, status) == SaveUnit(k, no, status, {})
updateUnit(k, u, no, status) == SaveUnit(k, no, status, {u})
changeStatus(k, u, status) == SaveUnit(k, u.no, status, {u})

WriteUnit(k) ==
  /\ clerk[k].at = "unit"
  /\ LET gone == clerk[k].old # {} /\ ~ clerk[k].old \subseteq unit
         taken == \E u \in unit \ clerk[k].old : u.no = clerk[k].unit.no
     IN unit' = IF gone \/ taken THEN unit
                ELSE (unit \ clerk[k].old) \cup {clerk[k].unit}
  /\ Done(k)
  /\ UNCHANGED <<row, stock, met, renamed, twins, desk>>

removeUnit(k, u) ==
  /\ assertMasterIsBuilder
  /\ Serve(k, AtRest)
  /\ unit' = unit \ {u}
  /\ UNCHANGED <<row, stock, met, renamed, twins>>

\* What a request that is free may be asked for, and what one at work does next.
DeskCall(k) ==
  \/ \E key \in MasterKeys, c \in MasterCodes, l \in Labels, p \in Parents :
       StartMaster(k, key, c, l, p)
  \/ \E i \in DOMAIN row :
       \/ \E c \in MasterCodes, l \in Labels, active \in BOOLEAN :
            StartUpdate(k, i, c, l, row[i].parent, active)
       \/ StartRemoveMaster(k, i)
  \/ \E s, t \in MasterCodes, b \in BOOLEAN : SaveStock(k, s, t, b)
  \/ RemoveStock(k)
  \/ \E s \in MasterCodes, no \in UnitNos :
       \/ createUnit(k, no, s)
       \/ \E u \in unit : updateUnit(k, u, no, s)
  \/ \E u \in unit : \/ \E s \in MasterCodes : changeStatus(k, u, s)
                     \/ removeUnit(k, u)

DeskWrite(k) ==
  \/ AddMaster(k) \/ ReviveMaster(k) \/ ChangeMaster(k) \/ DeleteMaster(k)
  \/ WriteStock(k) \/ WriteUnit(k)

MastersNext ==
  \E k \in Clerks :
    \/ clerk[k] = AtRest /\ DeskCall(k)
    \/ clerk[k] # AtRest /\ DeskWrite(k)

MastersSpec == MastersInit /\ [][MastersNext]_masterVars

---------------------------------------------------------------------------
MastersTypeOK ==
  /\ row \in Seq(MasterRow)
  /\ unit \subseteq [no : UnitNos, status : MasterCodes]
  /\ desk \in 0 .. MaxDesk

\* The codes rows in use name: of the property while it is not deleted, of
\* every unit.
Named == (IF stock = Unsaved \/ stock.deleted THEN {}
          ELSE {<<"status_type", stock.status>>, <<"taluka", stock.taluka>>})
         \cup {<<"builder_status", u.status>> : u \in unit}

\* The delete guard: a code that a row in use names still names a master,
\* unless the save met a deletion or a rename, the code was replaced, or the
\* row was counted under another code than it was deleted with.
UsedMastersStay ==
  \A key \in MasterKeys, c \in MasterCodes :
    <<key, c>> \in Named \ (met \cup renamed) => findByCode(key, c) # {}

\* A drop-down never shows one code twice, nor one name twice (a village's
\* within its taluka), however creations, revivals and renames follow each
\* other, unless two requests gave the name at once.
MastersDistinct == OncePerKey(row, twins)

\* A unit number names one unit of its building.
UnitNoOnce == \A u, v \in unit : u.no = v.no => u = v

\* What the masters and those who name them promise, in its three parts.
MastersSound == MastersTypeOK /\ UsedMastersStay /\ MastersDistinct /\ UnitNoOnce
==========================================================================
