-------------------------------- MODULE Gates --------------------------------
(***************************************************************************)
(* Which requests of the back office go through: the grants of a sub-admin *)
(* (sub_admin_modules), the access token that carries a copy of them, the  *)
(* gates of middleware/auth.js and middleware/keyPinHeader.js, and the     *)
(* endpoints behind each gate as routes/admin/*.js mounts them.            *)
(***************************************************************************)
EXTENDS Integers, Sequences, FiniteSets, SequencesExt

CONSTANTS Keys,      \* module keys an admin grants
          MaxNow,    \* bound on the clock
          TokenLife, \* lifetime of an access token
          MaxEdits,  \* bound on the changes of grants and PINs
          FirstGrants, \* the grants at first, one function of Keys or another
          NoAnswer

ASSUME GateAssumption ==
  /\ MaxNow \in Nat /\ TokenLife \in Nat /\ MaxEdits \in Nat
  /\ FirstGrants \subseteq [Keys -> {"none", "read", "write"}]

VARIABLES now, grants,  \* grants: key |-> "none", "read" or "write"
          ticket,       \* the token: its modules as listed, and when it ends
          pinOn,        \* the PIN the caller knows is active
          edits,
          reply,        \* the last reply
          held          \* history: when a key was last granted, by level

gateVars == <<now, grants, ticket, pinOn, edits, reply, held>>

(***************************************************************************)
(* A router: the module its gate asks for, the endpoints of GET, those of  *)
(* the other verbs, the ones of these that change nothing ("asks"), and    *)
(* the ones that give contact data in the clear on "unmasked" ("clears")   *)
(* and go through the PIN gate for it ("pinned").                          *)
(***************************************************************************)
Router(module, gets, sends, asks) ==
  [module |-> module, gets |-> gets, sends |-> sends, asks |-> asks,
   clears |-> {}, pinned |-> {}]

Crud == {"create", "update", "remove"}
Lists == {"list", "getOne"}
Exports == {"csv", "xlsx", "pdf"}
FileSends == {"addImages", "removeImage", "addDocuments", "removeDocument"}

inventoryProperties ==
  Router("inventory_properties", Lists \cup Exports \cup {"suggest", "document"},
         Crud \cup FileSends \cup {"updateStatus", "property-codes", "share"},
         {"property-codes", "share"})
inventoryUnits == Router("inventory_properties", Lists, Crud \cup {"changeStatus"}, {})
enquiryProperties ==
  Router("enquiry_properties", Lists \cup Exports \cup {"suggest", "document"},
         Crud \cup FileSends \cup {"updateStatus", "share"}, {"share"})
websiteProperties ==
  Router("website_property_management", Lists \cup Exports \cup {"suggest", "document"},
         Crud \cup FileSends \cup {"approve", "reject", "active", "featured", "share"}, {"share"})
agreementReminders ==
  Router("agreement_reminders", {"summary", "badge-count", "list"}, {}, {})
leads == Router("lead_management", Lists \cup Exports, {"status", "notes", "assign", "remove"}, {})
users == Router("user_management", {"sellers", "seller", "buyers", "document"} \cup Exports,
                {"update", "active", "remove", "addDocuments", "removeDocument"}, {})
masters == Router("master_management", {"keys", "list", "getOne"}, Crud, {})
keyPins == Router("master_management", Lists,
                  Crud \cup {"change", "reset-request", "reset-verify", "reset-complete"}, {})
emailMaster == Router("master_management", Lists, Crud \cup {"activate", "test"}, {"test"})
cms == Router("cms_management", {"banners", "banner", "settings", "ads", "ad"},
              {"createBanner", "updateBanner", "deleteBanner", "writeSettings",
               "createAd", "updateAd", "deleteAd"}, {})
associates == Router("business_associate_management", Lists,
                     Crud \cup {"check-duplicates", "bulk"}, {"check-duplicates"})
phoneBook == Router("phone_book_management", Lists,
                    Crud \cup {"check-duplicates", "bulk"}, {"check-duplicates"})
documents == Router("document_directory", Lists \cup {"view", "download"},
                    Crud \cup {"share"}, {"share"})
landRecords == Router("land_record_management", Lists, Crud, {})
subAdmins == Router("sub_admin_management", Lists, Crud \cup {"modules"}, {})
auditLog == Router("audit_log", {"list"}, {}, {})

\* The CRM is the one router whose endpoints reply in the clear on request
crmLeads ==
  [Router("crm_management",
          {"parents", "conflicts", "parent", "enquiries", "enquiry", "history", "calendar"},
          {"resolve-conflict", "status-change", "add", "remove"}, {})
   EXCEPT !.clears = {"parents", "parent", "enquiries", "enquiry", "status-change"},
          !.pinned = {"parents", "parent", "enquiries", "enquiry", "status-change"}]
crmAllocations ==
  [Router("crm_management", {"by-property", "statuses", "stages", "status", "rating"},
          {"resolve-codes", "retry-sync"}, {"resolve-codes"})
   EXCEPT !.clears = {"by-property"}, !.pinned = {"by-property"}]
crmAppointments ==
  [Router("crm_management", {"slots", "appointment-history"},
          {"create", "update", "cancel"}, {})
   EXCEPT !.clears = {"create", "update"}, !.pinned = {"create", "update"}]

Routers == {inventoryProperties, inventoryUnits, enquiryProperties, websiteProperties,
            agreementReminders, leads, users, masters, keyPins, emailMaster, cms, associates,
            phoneBook, documents, landRecords, subAdmins, auditLog,
            crmLeads, crmAllocations, crmAppointments}

-----------------------------------------------------------------------------
(***************************************************************************)
(* Tokens.  A sign-in or a refresh reads the grants and lists them in the  *)
(* order of the rows, which follows the page that saved them.              *)
(***************************************************************************)
NoTicket == [modules |-> << >>, ends |-> 0]
Granted == {k \in Keys : grants[k] # "none"}

listForSubAdmin == {[i \in DOMAIN order |-> [module_key |-> order[i], access_level |-> grants[order[i]]]]
           : order \in SetToAllKPermutations(Granted) \cap [1..Cardinality(Granted) -> Granted]}

GateInit ==
  /\ now = 0 /\ grants \in FirstGrants
  /\ ticket = NoTicket /\ pinOn \in BOOLEAN /\ edits = 0 /\ reply = NoAnswer
  /\ held = [k \in Keys |-> [read |-> IF grants[k] # "none" THEN 0 ELSE -1,
                             write |-> IF grants[k] = "write" THEN 0 ELSE -1]]

\* login and refresh; a refresh goes on from a token, an expired one too
Issue ==
  /\ \E modules \in listForSubAdmin : ticket' = [modules |-> modules, ends |-> now + TokenLife]
  /\ UNCHANGED <<now, grants, pinOn, edits, reply, held>>

\* replaceForSubAdmin: all rows at once
ReplaceGrants(k, level) ==
  /\ edits < MaxEdits /\ edits' = edits + 1 /\ grants' = [grants EXCEPT ![k] = level]
  /\ held' = [held EXCEPT ![k].read = IF level # "none" \/ grants[k] # "none" THEN now ELSE @,
                          ![k].write = IF level = "write" \/ grants[k] = "write" THEN now ELSE @]
  /\ UNCHANGED <<now, ticket, pinOn, reply>>

TogglePin == /\ edits < MaxEdits /\ edits' = edits + 1 /\ pinOn' = ~pinOn
             /\ UNCHANGED <<now, grants, ticket, reply, held>>

\* A second goes by; what is granted now was held until now
ClockTick ==
  /\ now < MaxNow /\ now' = now + 1
  /\ held' = [k \in Keys |->
       [read |-> IF grants[k] # "none" THEN now + 1 ELSE held[k].read,
        write |-> IF grants[k] = "write" THEN now + 1 ELSE held[k].write]]
  /\ UNCHANGED <<grants, ticket, pinOn, edits, reply>>

-----------------------------------------------------------------------------
\* inventory_management once stood for five modules
entryImpliesKey(entry, key) ==
  \/ entry = key
  \/ /\ entry = "inventory_management"
     /\ key \in {"inventory_dashboard", "inventory_properties", "enquiry_dashboard",
                 "enquiry_properties", "agreement_reminders"}

\* a mutant: any grant is enough
MutHasGrant(modules, key, level) ==
  \E i \in DOMAIN modules : entryImpliesKey(modules[i].module_key, key)

\* the first entry that implies the key decides
hasGrant(modules, key, level) ==
  LET implying == {i \in DOMAIN modules : entryImpliesKey(modules[i].module_key, key)}
  IN \E i \in implying :
       /\ \A j \in implying : i <= j
       /\ level = "write" => modules[i].access_level = "write"

Authenticated == ticket # NoTicket /\ now < ticket.ends     \* requireAuth

\* requireModule, then requireModuleWriteOnMutation
Passes(router, endpoint) ==
  /\ hasGrant(ticket.modules, router.module, "read")
  /\ endpoint \in router.sends => hasGrant(ticket.modules, router.module, "write")

\* requireKeyPinHeaderWhen(unmasked)
PinPasses(router, endpoint, unmasked) ==
  unmasked /\ endpoint \in router.pinned => pinOn

Request(router, endpoint, unmasked) ==
  /\ reply' =
       IF ~(Authenticated /\ Passes(router, endpoint) /\ PinPasses(router, endpoint, unmasked))
       THEN [module |-> "any", effect |-> "refused", clear |-> FALSE, pin |-> pinOn]
       ELSE [module |-> router.module,
             effect |-> IF endpoint \in router.sends \ router.asks THEN "write" ELSE "read",
             clear |-> unmasked /\ endpoint \in router.clears, pin |-> pinOn]
  /\ UNCHANGED <<now, grants, ticket, pinOn, edits, held>>

EndRequest == reply # NoAnswer /\ reply' = NoAnswer
              /\ UNCHANGED <<now, grants, ticket, pinOn, edits, held>>

GateNext ==
  \/ EndRequest
  \/ reply = NoAnswer /\ (Issue \/ TogglePin \/ ClockTick)
  \/ \E k \in Keys, level \in {"none", "read", "write"} :
       reply = NoAnswer /\ ReplaceGrants(k, level)
  \/ \E router \in Routers, unmasked \in BOOLEAN :
       \E endpoint \in router.gets \cup router.sends :
         reply = NoAnswer /\ Request(router, endpoint, unmasked)

-----------------------------------------------------------------------------
GateTypeOK ==
  /\ now \in 0..MaxNow /\ edits \in 0..MaxEdits /\ pinOn \in BOOLEAN
  /\ grants \in [Keys -> {"none", "read", "write"}]
  /\ held \in [Keys -> [read : -1..MaxNow, write : -1..MaxNow]]

HeldLately(module, level) ==
  \E k \in Keys : entryImpliesKey(k, module) /\ held[k][level] >= 0
                    /\ held[k][level] >= now - TokenLife

(***************************************************************************)
(* A sub-admin changes something only in a module that was granted to them *)
(* for writing within the life of an access token, and reads only in one   *)
(* that was granted: a grant taken back works on until the token ends.     *)
(***************************************************************************)
EffectsGranted ==
  reply # NoAnswer => /\ reply.effect = "write" => HeldLately(reply.module, "write")
                      /\ reply.effect = "read" => HeldLately(reply.module, "read")

\* Contact data is given in the clear only to a request whose PIN was active.
ClearByPin == reply # NoAnswer /\ reply.clear => reply.pin

\* What the gates promise, in its two parts.
GatesSound == GateTypeOK /\ EffectsGranted /\ ClearByPin
=============================================================================
