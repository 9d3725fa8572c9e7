-------------------------------- MODULE MCDesk --------------------------------
(***************************************************************************)
(* The back office's desk, side by side: the gates of its routes, the      *)
(* connection pool under them, and what stands behind: agreements, prices, *)
(* forms, shared sheets, e-mail settings and notices, files, imported      *)
(* contacts, land records, the search for a person, and the lists and      *)
(* figures drawn from the rows.                                            *)
(* Each behaviour follows one of the components, which share no state.     *)
(***************************************************************************)
EXTENDS Agreements, PriceSheet, FormData, ShareSheet, AdminNotices,
        StoredFiles, ContactImport, Gates, ConnectionPool, Catalogue, SlotGrid, LandRecords,
        OwnerSearch

VARIABLE desk

\* a full form, and the forms that lack one of its leaves
MCLeaves == {<<"price">>, <<"ownerName">>, <<"floor", "rent">>, <<"floor", "contact">>,
             <<"a", "b", "c", "d">>, <<"a", "b", "c", "d", "e">>}
\* a unit with a rate and a contact, and an empty one
MCUnits == {<< >>, <<{"rate", "contact"}, {}>>}
MCForms == {MCLeaves} \cup {MCLeaves \ {leaf} : leaf \in MCLeaves}

Item(mobile, email, label) == [mobile |-> mobile, email |-> email, label |-> label]
MCCodeOf == [label \in Labels |-> IF label = "vendor" THEN "vendor" ELSE "r-and-d"]
MCFirstMaster == [code \in Codes |-> IF code = "old" THEN "vendor" ELSE "none"]
MCBatches == {<<Item("1", "none", "r and d"), Item("2", "e", "rnd")>>,
              <<Item("3", "e", "none"), Item("bad", "e", "vendor")>>,
              <<Item("2", "none", "vendor"), Item("2", "none", "rnd")>>}
MCFirstBook == <<[mobile |-> "1", email |-> "e", code |-> "no code", live |-> TRUE, from |-> << >>]>>

MCFirstGrants == {[k \in Keys |-> IF k = "inventory_properties" THEN "none" ELSE "write"],
                  [k \in Keys |-> IF k = "crm_management" THEN "none" ELSE "read"]}

\* Rows of the lists and the dashboard
Form(t, title, status, place, draft, deal, price) ==
  [table |-> t, title |-> title, status |-> status, place |-> place, draft |-> draft,
   approval |-> IF t = "website" THEN "pending" ELSE "", active |-> TRUE, featured |-> FALSE,
   approvedOn |-> 0, type |-> "flat", deal |-> deal, price |-> price, born |-> 0,
   wants |-> IF t = "enquiry" THEN {title} ELSE {}, deleted |-> FALSE]
Born(f, d) == [f EXCEPT !.born = d]
Site(f, d) == [f EXCEPT !.born = d, !.approvedOn = d, !.approval = "approved"]
MCArrivals == {Form("inventory", 1, "available", "road", FALSE, "sale", 100),
               Form("enquiry", 1, "available", "", TRUE, "sale", 100),
               Form("website", 1, "", "road", FALSE, "rent", 100)}

Held(rows, d) == [listed |-> Append(rows, Missing), date |-> d]
MCFirsts ==
  {Held(<<Born(Form("inventory", 1, "available", "road", FALSE, "sale", 100), 0),
          Born(Form("inventory", 1, "sold", "", TRUE, "sale", 100), 13),
          Born(Form("inventory", 0, "sold", "lane", FALSE, "sale", 100), 84)>>, 400),
   Held(<<Site(Form("website", 1, "", "road", FALSE, "sale", 100), 13),
          Site(Form("website", 1, "", "road", FALSE, "rent", 100), 84),
          Site(Form("website", 1, "", "road", FALSE, "sale", 110), 84)>>, 84),
   Held(<<Born(Form("enquiry", 1, "new_enquiry", "road", FALSE, "sale", 100), 13),
          Born(Form("enquiry", 1, "enquiry_converted", "", FALSE, "sale", 100), 84),
          Born(Form("enquiry", 0, "new_enquiry", "road", FALSE, "sale", 100), 84)>>, 90)}
MCFilters == {Unfiltered, [Unfiltered EXCEPT !.status = "sold"],
              [Unfiltered EXCEPT !.draft = "no", !.to = 13],
              [Unfiltered EXCEPT !.approval = "approved", !.from = 14]}

\* Meetings over the last slot, over midnight and at ten, in UTC
Span(from, to) == [from |-> from - IstOffset, to |-> to - IstOffset]
MCMeetings == {Span(DayLength + 5, DayLength + 40), Span(DayLength - 20, DayLength + 10),
               Span(600, 637)}

\* Land forms: with road and note, with a figure of zero, with nothing at all
MCLandForms == {[text |-> 1, said |-> TRUE, noted |-> TRUE, figure |-> << >>],
                [text |-> 2, said |-> FALSE, noted |-> FALSE, figure |-> <<0>>],
                [text |-> 1, said |-> FALSE, noted |-> FALSE, figure |-> << >>]}

\* The books searched for a person: properties with cards and key persons, and associates
InBook(source, r) == r @@ [source |-> source, id |-> 1, gone |-> FALSE]
OnProperty(owner, contact, cards, text) ==
  [NoText EXCEPT !.owner = owner, !.contact = contact, !.cards = cards, !.text = text]
OfBusiness(card, whatsapp, job) ==
  [NoText EXCEPT !.cards = <<card>>, !.whatsapp = whatsapp, !.designation = job]
MCNewRecords ==
  {InBook("enquiry", OnProperty(<<"asha">>, "n2", << >>, {"n1"})),
   InBook("business_associate",
          OfBusiness(Card(<<"asha", "rao">>, <<Empty, "n4">>, <<"n3">>, << >>), Empty, "broker"))}
MCFirstBooks ==
  {<<InBook("inventory", OnProperty(<<"asha", "rao">>, "n1",
              <<Card(<<"asha">>, << >>, <<"n2">>, <<"e1">>), Card(<< >>, <<Empty, "n3">>, << >>, <<"e1">>)>>, {})),
     InBook("enquiry", OnProperty(<< >>, "n3", <<Card(<<"asha">>, <<"n1">>, << >>, << >>)>>, {"rao"})),
     InBook("business_associate",
            OfBusiness(Card(<<"asha", "rao">>, <<"n4">>, <<"n1", "n2">>, <<"e2">>), "n5", "broker"))>>}

\* A component that is not at work starts in one of its initial states only
DeskInit ==
  /\ desk \in {"agreements", "prices", "forms", "shares", "email", "files", "contacts",
               "gates", "pool", "catalogue", "slots", "land", "owners"}
  /\ IF desk = "agreements" THEN TRUE
     ELSE lease = [p \in Agreed |-> [variant |-> "rent_out", type |-> "rent", end |-> None,
                                     deleted |-> FALSE]]
  /\ IF desk = "forms" THEN TRUE ELSE route = "inventory"
  /\ IF desk = "shares" THEN TRUE ELSE leaves = MCLeaves /\ builderUnits = << >> /\ attachable = {}
  /\ IF desk = "gates" THEN TRUE ELSE grants = (CHOOSE g \in FirstGrants : TRUE) /\ pinOn = FALSE
  /\ IF desk = "catalogue" THEN TRUE
     ELSE \E first \in {CHOOSE f \in Firsts : TRUE} : listed = first.listed /\ date = first.date
  /\ IF desk = "slots" THEN TRUE ELSE calendarUp = FALSE
  /\ IF desk = "land" THEN TRUE ELSE register = "survey"
  /\ AgreementsInit /\ PriceInit /\ FormInit /\ ShareInit /\ NoticeInit /\ StoreInit
  /\ ImportInit /\ GateInit /\ PoolInit /\ CatalogueInit /\ GridInit /\ LandInit /\ OwnerInit

DeskNext ==
  /\ UNCHANGED desk
  /\ \/ desk = "agreements" /\ AgreementsNext
        /\ UNCHANGED <<priceVars, formVars, shareVars, noticeVars, storeVars, contactVars, gateVars, poolVars,
                       catalogueVars, gridVars, landVars, ownerVars>>
     \/ desk = "prices" /\ PriceNext
        /\ UNCHANGED <<agreementVars, formVars, shareVars, noticeVars, storeVars, contactVars, gateVars, poolVars,
                       catalogueVars, gridVars, landVars, ownerVars>>
     \/ desk = "forms" /\ FormNext
        /\ UNCHANGED <<agreementVars, priceVars, shareVars, noticeVars, storeVars, contactVars, gateVars, poolVars,
                       catalogueVars, gridVars, landVars, ownerVars>>
     \/ desk = "shares" /\ ShareNext
        /\ UNCHANGED <<agreementVars, priceVars, formVars, noticeVars, storeVars, contactVars, gateVars, poolVars,
                       catalogueVars, gridVars, landVars, ownerVars>>
     \/ desk = "email" /\ NoticeNext
        /\ UNCHANGED <<agreementVars, priceVars, formVars, shareVars, storeVars, contactVars, gateVars, poolVars,
                       catalogueVars, gridVars, landVars, ownerVars>>
     \/ desk = "files" /\ StoreNext
        /\ UNCHANGED <<agreementVars, priceVars, formVars, shareVars, noticeVars, contactVars, gateVars, poolVars,
                       catalogueVars, gridVars, landVars, ownerVars>>
     \/ desk = "contacts" /\ ImportNext
        /\ UNCHANGED <<agreementVars, priceVars, formVars, shareVars, noticeVars, storeVars, gateVars, poolVars,
                       catalogueVars, gridVars, landVars, ownerVars>>
     \/ desk = "gates" /\ GateNext
        /\ UNCHANGED <<agreementVars, priceVars, formVars, shareVars, noticeVars, storeVars, contactVars, poolVars,
                       catalogueVars, gridVars, landVars, ownerVars>>
     \/ desk = "pool" /\ PoolNext
        /\ UNCHANGED <<agreementVars, priceVars, formVars, shareVars, noticeVars, storeVars, contactVars, gateVars,
                       catalogueVars, gridVars, landVars, ownerVars>>
     \/ desk = "catalogue" /\ CatalogueNext
        /\ UNCHANGED <<agreementVars, priceVars, formVars, shareVars, noticeVars, storeVars, contactVars, gateVars,
                       poolVars, gridVars, landVars, ownerVars>>
     \/ desk = "slots" /\ GridNext
        /\ UNCHANGED <<agreementVars, priceVars, formVars, shareVars, noticeVars, storeVars, contactVars, gateVars,
                       poolVars, catalogueVars, landVars, ownerVars>>
     \/ desk = "land" /\ LandNext
        /\ UNCHANGED <<agreementVars, priceVars, formVars, shareVars, noticeVars, storeVars, contactVars, gateVars,
                       poolVars, catalogueVars, gridVars, ownerVars>>
     \/ desk = "owners" /\ OwnerNext
        /\ UNCHANGED <<agreementVars, priceVars, formVars, shareVars, noticeVars, storeVars, contactVars, gateVars,
                       poolVars, catalogueVars, gridVars, landVars>>

deskVars == <<desk, agreementVars, priceVars, formVars, shareVars, noticeVars, storeVars,
              contactVars, gateVars, poolVars, catalogueVars, gridVars, landVars, ownerVars>>

\* A request that has the connections it needs goes on; nobody has to arrive.
DeskFairness == \A r \in Callers : WF_poolVars(desk = "pool" /\ Proceed(r))

DeskSpec == DeskInit /\ [][DeskNext]_deskVars /\ DeskFairness

-----------------------------------------------------------------------------
\* Every request of the back office goes through its gate, and gets and gives
\* back the connections it needs, whatever the others do.
RequestsSound ==
  /\ desk = "gates" => GatesSound
  /\ desk = "pool" => PoolTypeOK /\ PoolSound

\* What a save of the property forms computes fits what it stores, for prices
\* (landPricingCompute.js) and for the form's own fields, and a share of it shows
\* each leaf once and nothing of the owner.
FormsSound ==
  /\ desk = "prices" => PricesSound
  /\ desk = "forms" => FormSound
  /\ desk = "shares" => ShareSound

\* Mails go out by the active settings, and notices to their administrator.
MailsSound == desk = "email" => NoticesSound

\* What the back office computes of its rows fits them: the cards and the badge of
\* agreements that run out, the slots still free, the land records it is answered,
\* and the lists page by page with the cards and charts drawn from their rows.
FiguresSound ==
  /\ desk = "agreements" => AgreementsSound
  /\ desk = "slots" => GridSound
  /\ desk = "land" => LandSound
  /\ desk = "catalogue" => CatalogueSound /\ (reads = 0 => ChartsSound)

\* What it finds is what the rows say, in their order, each once: the reminders page
\* by page, and the search for a person.
ListsSound ==
  /\ desk = "agreements" => PagesMakeList
  /\ desk = "owners" => OwnersSound
=============================================================================
