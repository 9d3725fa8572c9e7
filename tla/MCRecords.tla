----------------------------- MODULE MCRecords -----------------------------
(***************************************************************************)
(* The records of the back office, side by side: each behaviour follows    *)
(* one of the components, which share no state.                       *)
(***************************************************************************)
EXTENDS DuplicateResolver, Properties, Listings, Masters, Places, LocationSearch, TLC

CONSTANTS c1, c2, a, b, A, B

VARIABLE part

MCBatches == {<<1, 1>>, <<3>>}
MCExisting == <<[kind |-> "inventory", code |-> c1, state |-> "live"],
                [kind |-> "website", code |-> c2, state |-> "live"]>>
MCFirstRows ==
  LET master(key, code, under) == [key |-> key, code |-> code, label |-> A, parent |-> under,
                                    active |-> TRUE, deleted |-> FALSE]
  IN <<master("status_type", a, NoParent), master("builder_status", b, NoParent),
       master("taluka", a, NoParent), master("shivar", a, a)>>
MCParents == {NoParent, a}

\* Two editions of the file of places, the second of which moves a village; in
\* the first, a line repeats a district under another name, and one is broken.
Line(d, t, v, names, pin) ==
  [code |-> [district |-> d, taluka |-> t, shivar |-> v], pin |-> pin,
   label |-> [district |-> names[1], taluka |-> names[2], shivar |-> names[3]]]
MCFiles ==
  << <<Line("d1", "t1", "v1", <<"D", "T", "V">>, "422"), Line("d1", "t1", "v2", <<"X", "T", "W">>, Nil),
       Line("d1", "t9", "v9", <<"D", Nil, "Z">>, "422")>>,
     <<Line("d1", "t2", "v1", <<"D", "U", "V">>, Nil), Line("d2", "t2", "v2", <<"E", "U", "W">>, "423")>> >>
MCFirstPlaces ==
  LET at(l, above) == [label |-> l, parent |-> above, pin |-> Nil, active |-> TRUE, deleted |-> FALSE]
  IN (<<"district", "nashik">> :> at("N", Nil)) @@ (<<"taluka", "own">> :> at("O", "nashik"))
MCStubs == {<<"district", "nashik">>}
MCTypedParents == {<<"taluka", "t1">>}

RecordsInit ==
  /\ part \in {"ingestion", "properties", "listings", "masters", "places", "search"}
  /\ IngestInit /\ PropertiesInit /\ ListingsInit /\ MastersInit /\ PlacesInit /\ SearchInit

RecordsNext ==
  /\ UNCHANGED part
  /\ \/ part = "ingestion" /\ IngestNext /\ UNCHANGED <<propVars, listVars, masterVars, placeVars, searchVars>>
     \/ part = "properties" /\ PropertiesNext /\ UNCHANGED <<crmVars, listVars, masterVars, placeVars, searchVars>>
     \/ part = "listings" /\ ListingsNext /\ UNCHANGED <<crmVars, propVars, masterVars, placeVars, searchVars>>
     \/ part = "masters" /\ MastersNext /\ UNCHANGED <<crmVars, propVars, listVars, placeVars, searchVars>>
     \/ part = "places" /\ PlacesNext /\ UNCHANGED <<crmVars, propVars, listVars, masterVars, searchVars>>
     \/ part = "search" /\ SearchNext /\ UNCHANGED <<crmVars, propVars, listVars, masterVars, placeVars>>

RecordsSpec ==
  RecordsInit /\ [][RecordsNext]_<<part, crmVars, propVars, listVars, masterVars, placeVars, searchVars>>

\* The components' requests are the same model values.
Symmetry == Permutations(Clients)
=============================================================================
