------------------------------ MODULE ShareSheet ------------------------------
(***************************************************************************)
(* Sharing a property by e-mail (services/properties/shareProperty.js):    *)
(* the sections asked for, those of a builder's units, a completion with   *)
(* everything else that may be shown, and the property's files.  What the  *)
(* form holds is a set of leaves here, each the path of keys to its value. *)
(***************************************************************************)
EXTENDS Integers, Sequences, FiniteSets

CONSTANTS FormLeaves,  \* sets of paths: the forms a property may have
          UnitForms,   \* units a builder's property may have, by their filled keys
          DeniedKeys,  \* keys with one of DENY_SUBSTRINGS (owner, contact, ...)
          PropertyFiles, \* files the property may have
          MaxShares    \* bound on the mails

\* A key has one value or others below it.
ASSUME ShareAssumption ==
  \A form \in FormLeaves : \A path \in form :
    /\ path \in Seq({path[i] : i \in DOMAIN path}) \ {<< >>}
    /\ \A other \in form : Len(path) = 1 /\ other[1] = path[1] => other = path

VARIABLES leaves,        \* the leaves of the property's row and dynamicData
          builderUnits, \* the row's units, none if it is no builder's
          attachable,  \* its files, on disk and in the tables
          letter,      \* the mail being written
          shares

shareVars == <<leaves, builderUnits, attachable, letter, shares>>

NoLetter == [step |-> "none", asked |-> << >>, shown |-> << >>, units |-> << >>,
            listed |-> {}, attached |-> {}, kept |-> {}]

ShareInit == /\ leaves \in FormLeaves /\ builderUnits \in UnitForms /\ attachable \in SUBSET PropertyFiles
             /\ letter = NoLetter /\ shares = 0

isDeniedKey(key) == key \in DeniedKeys
TopKeys == {path[1] : path \in leaves}
IsLeaf(key) == <<key>> \in leaves

\* the keys of two sections, which may overlap
Ticked == (SUBSET TopKeys) \X (SUBSET TopKeys)

\* renderSection: a key with a value of its own; an object has no text
RenderSection(keys) == {<<key>> : key \in {k \in keys : ~isDeniedKey(k) /\ IsLeaf(k)}}

\* a mutant: only the outermost key of a nested value is checked
MutRenderLeaves(key) == {path \in leaves : path[1] = key /\ ~isDeniedKey(key) /\ Len(path) <= 4}

\* renderDynamicLeaves: no denied key on the way, and not deeper than three
RenderLeaves(key) ==
  {path \in leaves : path[1] = key /\ Len(path) <= 4
                     /\ \A i \in DOMAIN path : ~isDeniedKey(path[i])}

\* buildCompletionSections
Completion(rendered) == UNION {RenderLeaves(key) : key \in TopKeys \ rendered}

\* renderBuilderUnitsSections: a section for each unit chosen, or for all
UnitSections ==
  {[u \in IF ids = {} THEN DOMAIN builderUnits ELSE ids |->
      {key \in builderUnits[u] \cap keys : ~isDeniedKey(key)}] :
     ids \in SUBSET DOMAIN builderUnits,
     keys \in SUBSET UNION {builderUnits[u] : u \in DOMAIN builderUnits}}

\* the units are not asked for, or cannot be listed: none
StartShare ==
  /\ letter.step = "none" /\ shares < MaxShares /\ shares' = shares + 1
  /\ \E asked \in Ticked, units \in UnitSections \cup {<< >>} :
       LET sections == <<RenderSection(asked[1]), RenderSection(asked[2])>>
           rendered == {path[1] : path \in sections[1] \cup sections[2]}
       IN letter' = [NoLetter EXCEPT !.step = "list", !.asked = asked, !.units = units,
                       !.kept = attachable, !.shown = Append(sections, Completion(rendered))]
  /\ UNCHANGED <<leaves, builderUnits, attachable>>

ListFilesForMail ==
  /\ letter.step = "list"
  /\ letter' = [letter EXCEPT !.step = "collect", !.listed = attachable]
  /\ UNCHANGED <<leaves, builderUnits, attachable, shares>>

\* read again from the tables, without the files missing on disk
CollectAttachments ==
  /\ letter.step = "collect"
  /\ letter' = [letter EXCEPT !.step = "send", !.attached = attachable]
  /\ UNCHANGED <<leaves, builderUnits, attachable, shares>>

\* sent, or not, when the mail server refuses or an attachment is gone by now
SendShare == /\ letter.step = "send" /\ letter' = NoLetter
             /\ UNCHANGED <<leaves, builderUnits, attachable, shares>>

\* Meanwhile files are added and removed
AddPropertyFile(f) ==
  /\ f \notin attachable /\ attachable' = attachable \cup {f}
  /\ UNCHANGED <<leaves, builderUnits, letter, shares>>
RemovePropertyFile(f) ==
  /\ f \in attachable /\ attachable' = attachable \ {f}
  /\ letter' = [letter EXCEPT !.kept = @ \ {f}]
  /\ UNCHANGED <<leaves, builderUnits, shares>>

ShareNext == \/ StartShare \/ ListFilesForMail \/ CollectAttachments \/ SendShare
             \/ \E f \in PropertyFiles : AddPropertyFile(f) \/ RemovePropertyFile(f)

-----------------------------------------------------------------------------
Section(i) == letter.shown[i]

\* No leaf with a denied key anywhere on its path is in the mail, nor one of a unit.
NothingDenied ==
  /\ \A i \in DOMAIN letter.shown : \A path \in Section(i) :
       \A k \in DOMAIN path : path[k] \notin DeniedKeys
  /\ \A u \in DOMAIN letter.units : letter.units[u] \cap DeniedKeys = {}

\* Every other leaf, down to the fourth level, is in the mail, and in two sections
\* only when its key was asked for in both.
EachLeafOnce ==
  letter.step # "none" => \A path \in leaves :
    (\A k \in DOMAIN path : path[k] \notin DeniedKeys) /\ Len(path) <= 4 =>
      /\ \E i \in DOMAIN letter.shown : path \in Section(i)
      /\ \A i, j \in DOMAIN letter.shown : i # j /\ path \in Section(i) \cap Section(j) =>
           {i, j} = {1, 2} /\ path[1] \in letter.asked[1] \cap letter.asked[2]

\* A file that was there all the time is both listed and attached.
KeptFilesAttached ==
  /\ letter.step \in {"collect", "send"} => letter.kept \subseteq letter.listed
  /\ letter.step = "send" => letter.kept \subseteq letter.attached

\* A shared mail holds all that may be shown, once, and nothing that may not
\* (shareProperty.js:70-94, 576-655, 724-803), with the files that stayed.
ShareSound == NothingDenied /\ EachLeafOnce /\ KeptFilesAttached
=============================================================================
