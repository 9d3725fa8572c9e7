# Verification of be-nashik-property-deals

TLA+ models of the parts of this backend where several actors touch the same
rows, TLC runs that check them on small instances, and TLAPS proofs that hold
for every number of requests, enquiries, bookings and slots.

The backend is an Express server over MySQL (`src/app.js`, `src/server`). It is
one process with one event loop, so code between two `await`s is atomic; what
interleaves are the requests in flight, two background workers on `setInterval`,
the cron endpoints, and the transactions they hold open across `await`s.

## 1. Inventory

Paths are relative to `src/server` unless they begin with `src/`.

| component | state | operations | what is hard | what makes it correct |
|---|---|---|---|---|
| **Booking engine** `services/crm/appointmentSlots.js`, `db/queries/appointments.js` | `crm_calendar_activities` (slot, generated `active_slot_key` under UNIQUE, status, event id, sync status), `crm_appointment_history`, row locks on `crm_enquiries` | create, edit, cancel | transactions held open across Google calls, two connections, pushes and mails after the commit | an active slot has one owner; the timeline replays the row; cancelled is final; no lock outlives its transaction |
| **Google Calendar client** `services/crm/googleCalendar.js` | events at Google, the token row | create, update, delete event, free/busy | calls fail, answers are lost, the link goes away | a row points at an event of its own |
| **Sync worker and Retry** `services/crm/googleCalendarSyncWorker.js`, `routes/admin/crm.js` | sync columns, the batch a tick read | `runOnce`, `retryOne` | writes rows that handlers write, from a batch read earlier | every booking reaches the calendar |
| **Lead status** `services/crm/enquiries.js` | columns of `crm_enquiries`, `crm_status_history` | `changeStatus` | three transactions in one request | the timeline explains the columns; closing releases the slot |
| **Reminder dispatcher** `services/crm/appointmentReminders.js` | two stamps per booking | `dispatchDueReminders`, from an interval and from cron | overlapping dispatches, moves between scan and claim, IST against UTC | each mail once; no call forgotten |
| **Email outbox** `services/email/outbox.js`, `db/queries/email_outbox.js` | `email_outbox` with leases and attempts | enqueue, `processBatch`, requeue, delete | concurrent batches, crashes after the send | delivered once, status earned, everything settled |
| **Ingestion and duplicates** `services/crm/duplicateResolver.js`, `db/queries/crm.js` | `crm_parents`, `crm_enquiries`, `crm_duplicate_conflicts`, the code sequence | ingest, resolve | two ingestions of one person; a conflict resolved twice | one parent per mobile and per e-mail; a conflict is filed once; codes without gaps |
| **Properties on three surfaces** `services/inventory`, `enquiry`, `website_property`, `properties/propertyCode.js`, `files/*Upload.js`, `crm/allocations.js`, `crm/allocationGuard.js` | property rows, `property_files`, `seller_documents`, `storage_usage`, files on disk, allocated codes of a lead | create, upload, delete a file, allocate, remove | checks outside the transactions, files outside the database, one quota for all | a code names one property; bytes are accounted for; no lead keeps a removed property |
| **Website listings and leads** `services/admin/leads.js`, `seller/properties.js`, `website_property/management.js`, `public/leads.js` | `website_properties`, `leads` | submit, edit, approve, reject, hide, feature, leave a lead, move it, assign it | statuses read in one statement and written in another; a sale in three statements | what is public was reviewed; a closed lead stays closed; a sale settles its listing |
| **Masters and units** `services/masters/management.js`, `inventory/units.js` | masters (own tables and `master_lookups`), rows that name their codes | create, revive, rename, switch off, remove, save a row | usage counted before the deletion, codes checked before the save | a code in use names a master; no name twice |
| **Places and their search** `src/scripts/import-locations.js`, `db/queries/locations.js`, `routes/public/locations.js` | three keys of `master_lookups`; the cache of the process | import, edit, remove, read downwards and upwards; search | an import is many statements and may stop; admins edit meanwhile; a cache read before an `await` and written after it | a rerun is harmless; no village without its taluka; one fresh answer per text |
| **Codes and accounts** `services/auth/otp.js`, `seller/auth.js`, `admin/users.js`, `auth/password_reset.js` | `otp_codes`, `sellers`, staff passwords | issue, verify; register, sign in, edit, remove; reset | every query a statement of its own | a code lets one in; a verified address was proven |
| **Sessions and sub-admins** `services/auth/refresh.js`, `login.js`, `sub_admin/management.js` | `refresh_tokens`, `sub_admins`, `sub_admin_modules` | sign in, rotate, revoke; create, restore, edit, switch off, remove | rotation in three statements; accounts that come back | one good token per line; ended lines stay ended |
| **Gates** `middleware/auth.js`, `keyPinHeader.js`, `routes/admin/*` | grants, access tokens, active PINs | every request of the back office | grants copied into tokens | effects only where granted lately; contact data only with a PIN |
| **Key PINs** `services/security/*` | `key_pins`, `key_pin_reset_requests` | create, update, toggle, remove, inline change, reset | counts and comparisons before the write | at most two active PINs; a reset is used once |
| **Idempotency** `middleware/idempotency.js` | `idempotency_keys` | claim, run, answer, poll, replay | retries while the first still runs, expiry | one effect per key, its own answer replayed |
| **Calendar link** `services/crm/googleCalendarOAuth.js`, `googleCalendar.js` | nonces, token rows, grants at Google | connect, callback, disconnect, refresh | a table without the uniqueness it assumes | a nonce opens one exchange; calls use the linked grant |
| **Connection pool** `db/pool.js` | connections lent, the queue | acquire, release | bookings that hold one and wait for another | everyone who waits is served |
| **E-mail settings and notices** `services/email/email_settings.js`, `transporter.js`, `adminNotifications.js` | `email_settings`, the cached transport | create, update, activate, remove; send; notify | the cache and two look-ups of one notice | one active configuration; mails and notices go by it; times are told right |
| **Files of the back office** `services/admin/documents.js`, `cms.js`, `files/cmsBannerUpload.js` | rows, files, the quota | upload, remove | one of row, file and counter fails | pictures shown exist; nothing is left behind |
| **Address books** `services/admin/business_associates.js`, `phone_book.js` | contacts, designation masters | create, update, remove, import | imports that race | answers tell what was filed; designations once |
| **Land records** `services/admin/land_records.js` | three tables | create, update, delete, list | look-up, write and re-read in three statements | removed stays removed; answers are current |
| **Owner search** `services/admin/owner_search.js`, `db/queries/owner_search.js` | none of its own | one search over three books | three queries side by side, people de-duplicated by name, caps | whoever fits is found once, with contacts that are his |
| **Lists and dashboard** `db/queries/*_properties.js`, `crm.js`, `dashboard.js` | the rows | pages, exports, cards, charts, similar listings | two statements per list, other writers, ties | pages make the list; cards count it |
| **Computations** `inventory/land*Compute.js`, `dynamicDataValidation.js`, `agreement/agreementCompute.js`, `properties/shareProperty.js`, `crm/appointmentSlots.js` (grid) | forms, agreements | save, list, share, offer slots | rounding, days, boundaries, stale derived fields | figures fit what they are drawn from |

How they interact. `changeStatus` calls `createAppointment` and
`cancelAppointment`. Those push to Google and mail after their commits; a push
that fails or does not happen leaves the row `PENDING` or `FAILED`, which the
sync worker lists. The reminder dispatcher reads and stamps the same rows.
All mails go through `email/transporter.js`, which queues what it cannot send in
the outbox. Every hazard of this code we know of is in `PROJECT.json`
(`hazards`), at its line, with the properties that watch it.

## 2. Modules

    SlotBook            what booking promises: a diary of slots
      ^ implemented by
    Appointments        engine + Google client + sync worker    <- AppointmentsProofs
      ^ extended by
    EnquiryStatus       changeStatus over the engine            <- EnquiryStatusProofs
    Reminders           reminder dispatch                       <- RemindersProofs
    EmailOutbox         retry queue of mails                    <- EmailOutboxProofs
    DuplicateResolver  Properties  Listings  Masters
    Places  LocationSearch                                      MCRecords <- RecordsProofs
    OneTimeCodes <- Accounts, Sessions, KeyPins, Idempotency,
    CalendarLink                                                MCAccess  <- AccessProofs
    Gates  ConnectionPool  Agreements  PriceSheet  FormData
    ShareSheet  EmailSettings <- AdminNotices  StoredFiles
    ContactImport  Catalogue  SlotGrid  LandRecords
    OwnerSearch                                                 MCDesk    <- DeskProofs

    SumLemmas           sums over finite sets, for RecordsProofs and DeskProofs
    MC*                 the symmetry sets and sequences TLC needs

The components in the last three groups share no table whose interleavings matter
to their properties. Each `MC` module puts its group side by side: a variable
(`part`, `door`, `desk`) chosen in the initial state says which component a
behaviour is about, the others stay as they were. TLC explores each component's
own state space once and the run reports on all of them. Their invariants are
conjunctions of named parts, which the comments in the modules explain.

`PROJECT.json` (`map`) names the source lines of every definition.

### Appointments

State: `appt` is `crm_calendar_activities` (`key` is the generated column
`active_slot_key`: `src/migrations/108_crm_appointment_slots.sql`), `hist` the
timeline of each row, `lock` the row locks on `crm_enquiries` (a transaction of
the engine starts with `SELECT ... FOR UPDATE` on its enquiry), `req` the program
point and local variables of each request, `worker` the running tick, `gcal` the
events, `connected` the token row, `mail` the notifications handed over. `now`
counts 15-minute buckets of IST time.

An action is the code between two points where another actor can get in:

| handler | actions |
|---|---|
| `createAppointment` | `StartCreate` (validation) `CreateFreebusy` `CreateBegin` `CreateCheck` `CreateInsert` (row, timeline, commit) then `PushEvent`/`PushNotConnected` and `SaveSync` |
| `updateAppointment` | `StartEdit` `EditRead` `EditFreebusy` (inside the transaction) `EditCheck` `EditWrite`, then push and save as above |
| `cancelAppointment` | `StartCancel` `CancelWrite` `CancelDrop` |
| `retryOne` | `StartRetry`, then push and save |
| `runOnce` | `WorkerTick` `WorkerPush` `WorkerBreak` `WorkerSave` |
| throws, restarts | `RequestFails` `WorkerFails` (a failed save is swallowed: the tick goes on) `LockWaitFails` |

Abstractions, and why they lose nothing the properties look at:

- A slot is a number; a booking lasts 30 minutes, so two events overlap when
  they start less than two buckets apart. Calendar slots are only validated on
  creation and edit (`Bookable`), never later.
- `INSERT`, timeline entry and commit are one step. Other statements on those
  rows wait for the commit, and a failure in between rolls all of it back
  (`RequestFails` just before it).
- The free/busy query fails open (`SeesFree`), as in the code; that failure and
  any other is counted by `MaxFaults`. A call that fails may have reached Google.
- Token refresh that throws is `RequestFails` or `WorkerFails`.
- Mails go out on `setImmediate` with values the handler holds; the model hands
  them over with the step that schedules them. Recipients and wording are left out.
- A deadlock between gap locks of two inserts ends in a rollback of one, which is
  `RequestFails` or `LockWaitFails`.
- The link columns between an appointment and a status history row are left out.

### EnquiryStatus

Extends `Appointments` with `lead` (columns), `timeline` (`crm_status_history`)
and `target` (the `to_*` fields of a request). `StartStatus` starts a create with
`then = "status"` when the request carries `scheduled_at`; `StatusWrite` is the
status transaction, `Sweep` the cancellation of the closed lead's booking.

### Reminders

`row` holds the scheduled time, status and stamps of each booking, `run` the
dispatch each dispatcher is in (with the rows as they were scanned), `sent` the
mails handed over. `epoch`, `since` and `seen` are read by properties and by the
guard of `Tick` only. The two `NOW()` corrections between IST and UTC cancel
out; the model uses one clock.

### EmailOutbox

`box` is the table, `job` the batches with the attempts they read. Instants are
kept as the time left until them. `Send` is the SMTP call with either outcome;
`MarkSentFails` is `markSent` throwing inside the `try` that also guards the
send (`outbox.js:37-47`). `Tick` does not wait for batches: `lapses` counts the times a
lease ran out in a batch's hands, since 25 sends in a row may take longer than it.

### How the other modules read

A request is a record in a function from requests to where they are (`ing`,
`handler`, `clerk`, `visit`, `knock`, `task`, `ask`, `tab` ...); each `await` of the
handler is a boundary between two actions, and what the handler holds in local
variables across it is in the record. History variables (named as such where they
are declared) record what overlapped, was cut short or raced; invariants use them
to say exactly which interleavings the code does not protect from, each of which
is a finding below.

| module | state (table or variable of the code) | actions |
|---|---|---|
| `DuplicateResolver` | `parent` `enquiry` `conflict` `nextSeq` | `StartIngest` `LookUp`/`LookAnonymous` `InsertParent` `FileEnquiry` or `Stage`, `StartResolve`; transactions hold parents, the conflict and the sequence row until they commit or `IngestRollback` |
| `Properties` | `prop` `file` `disk` `used` (`storage_usage`) `lead` (allocated codes) | creation of the four surfaces up to `TryCode` `AssignCode` `GiveUpCode`; uploads `StartUpload` `WriteFiles` `InsertFiles`; deletions `FindFile` `DropFile` `UnlinkFiles`; `StartAllocate` `Allocate` `Deallocate`; `StartRemove` `ListFiles` `Purge`/`Delist`, `removeOwn` |
| `Listings` | `listing` `buyer` (`leads`) `told` | `updateOwn` `WriteOwn`, the admin's decisions, `VerifyBuyer` or `VerifyEnquiry`, then `CreateLead`; `SubmitEnquiry`; `StartMove` `WriteMove` `CloseSiblings` `HideSold`, `updateAssignment`, `removeLead` |
| `Masters` | `row` `stock` `unit` | `StartMaster` `AddMaster`/`ReviveMaster`, `StartUpdate` `ChangeMaster`, `StartRemoveMaster` `DeleteMaster`, `SaveStock` `WriteStock`, `SaveUnit` `WriteUnit` |
| `Places` | `place` (three keys of `master_lookups`) `importer` | `StartImport` `ImportStep` (one batch or one update of stubs) `ImportStops`, `StartEditPlace` `EditPlace`, `StartRemovePlace` `RemovePlace`; the cascade's reads are operators |
| `LocationSearch` | `cache` (the `Map` with its order) `seeker` | `StartSearch` (`cacheGet`) `AskPost`/`PostFails` `AskMap`/`MapFails` (each with `cacheSet`), `SearchTick` `SearchRestart` |
| `OneTimeCodes`, `Accounts` | `code`; `seller` `password` | `CheckRates` `IssueCode` `LookUpCode` `WrongCode`/`RightCode` `PassTime`; the flows that start and end with them |
| `Sessions` | `account` `token` | `login` `issue`, `rotateAndReissue` `CreateToken` `Retire`, `revoke`, `createSubAdmin` `replaceForSubAdmin` `updateModules` `setSubAdminActive` or `removeSubAdmin`, then `WriteState` |
| `KeyPins` | `pin` `reset` | `create` `update` `WritePin` `changeInline`, `requestPinReset` `invalidatePendingForPin` `createResetRequest` `verifyReset` `markVerified` `completePinReset` `markUsed` |
| `Idempotency` | `row` | `DeleteExpired` `Insert` `Handler` `Persist`, `Replay` `GiveUpWaiting`, `RowAges` |
| `CalendarLink` | `link` (token rows) `nonces` `issued` `revoked` | `buildConnectUrl` `StartCallback` `Exchange` `SaveLink`, `StartDisconnect` `Revoke` `DeleteLink`, `StartPush` `Refresh` `CacheToken` `Call`, `Reap` |
| `Gates` | `grants` `ticket` (access token) `pinOn` | `Request`: any endpoint of `Router` through `Authenticated`, `Passes` and `PinPasses`; `Issue` `ReplaceGrants` `TogglePin` `ClockTick` |
| `ConnectionPool` | `idle` `opened` `line` `lent` `at` | `GetConnection` `ReleaseConnection` along the `Script` of a request; `TurnAway` `SkipSave` |
| `EmailSettings`, `AdminNotices` | `config` `transport` (`cachedTransport`) | a save is a list of statements (`RunStatement`, `SaveFails`); a mail does `RecheckRow` `TakeCached`/`DropCached` `ReadActive` `BuildTransport` `EndMail`; a notice does so twice; `Restart` empties the cache and runs `migrateFromEnv` |
| `StoredFiles` | `entry` `disk` `used` | `StartUploadFile` `InsertEntry` `Undo`/`RereadFails`, `DeleteEntry` `MeasureFile` `Subtract` `Unlink` |
| `ContactImport` | `book` `designation` | `StartImport` `ReadMasters` `LookMaster` `InsertMaster` `ImportItem` `EndImport`, single edits |
| `LandRecords` | `records` | `LookUpRecord` `WriteRecord` `ReadBack`, `LookUpToDelete` `StampDeleted`, `CountRecords` `SelectRows`, with the body each of the three forms normalises |
| `Catalogue` | `listed` `shown` `report` | `CountRows` `FetchRows` per page, `FetchEnquiries` `ReadFound` `CountOrphans`, `BeginCounters` `CountStatuses`, `BeginSimilar` `FillSimilar`; charts, areas and suggestions are operators of the rows |
| `OwnerSearch` | `people` (rows of three books) `lookup` `found` | `StartOwnerSearch` `AskBook` (one of three queries, in any order) `AnswerOwnerSearch`, with `SaveRecord` and `DropRecord` in between |
| `Agreements` `PriceSheet` `FormData` `ShareSheet` `SlotGrid` | one stored form or a few rows | a save, a removal, midnight, a share with files that come and go, a booking; the computation is an operator, compared with what it must fit |

Abstractions that deserve a word. `Idempotency` follows one key; two keys share no
row. Only four masters stand for the vocabulary (a table of its own, a plain lookup,
and a pair of parent and child), and one property with its units for the rows that
name them. In `Catalogue` a month has 30 days, so that buckets of
days, weeks and months can be compared by arithmetic; the real ones come from
`Date` and `DATE_FORMAT`. Prices are in paise, so that rounding is integer
arithmetic. `ShareSheet` keeps the paths of values and not their formats; the sections asked for may overlap, and a leaf ticked in two is shown in both. In `OwnerSearch` a name is a
sequence of words, a number or an address one word, and "contains" is having it.
`Places` keeps labels, parents, pincodes and the two flags; that a place named by a
property is not removed is in `Masters`. `LocationSearch` tells answers apart by the
service that gave them. `Gates`
lists the endpoints as `routes/admin/*.js` mount them; a body that fails its Joi
schema gets no further and changes nothing.

## 3. Runs

| run | instance | question |
|---|---|---|
| `Booking` | 2 requests, 2 enquiries, 2 rows, 3 slots, 4 requests issued | do creates, edits and cancels in any interleaving keep slots exclusive, the timeline true, locks inside transactions, mails truthful, and implement `SlotBook`? |
| `Sync` | 2 requests, 1 enquiry, 2 rows, 1 failure, worker, Retry, relinking, clock | do concurrent writers of the sync columns keep events with their rows, and does every booking reach the calendar? |
| `LeadRaces` | 2 status changes on one lead, 1 failure, a clearable field | is the lead's timeline unbroken? |
| `OneAdmin` | 1 request at a time, 4 of them, no failure | does Google agree with the table, and does closing release the slot? |
| `Remind` | 1 booking, 2 dispatchers, windows of 4 and 3 units, 1 move, 1 failure | once each, never both kinds at once, none forgotten? |
| `Outbox` | 2 messages, 2 batches of up to 2 at any speed, 2 attempts, 1 lapse per message, 1 failure, 1 admin action | is a second delivery always paid for, a status earned, and every mail settled? |
| `Records` | 2 requests at a time; 5 ingestions of one mobile and one e-mail from 2 sources, 1 rollback; 2 property rows and up to 3 more requests, 3 codes, a quota of 3 bytes, 1 failure; 1 listing, 2 leads, 5 calls, 1 request cut short; 4 masters, 1 property, 1 unit number, 3 requests; 2 editions of the file of places, 2 imports, 2 edits; 4 searches for 3 texts, a cache of 2 | do the records keep together while requests overlap? |
| `Access` | 2 requests at a time; 3 codes, 2 sellers, 2 mobiles, 2 addresses, 4 visits; 4 tokens, 5 requests; 3 PIN rows, 2 resets, 4 tasks; 4 requests with one key; 2 consents, 2 calls | is what is good once used once? |
| `Desk` | 4 requests on 3 connections, 2 of them bookings; 3 module keys, a clock of 2; 2 properties with agreements, 3 days; forms and prices from small sets; 2 e-mail configurations, 2 mails; 2 uploads, quota 2; 3 spreadsheets, 4 contacts; 4 rows, pages of 2; 3 kinds of meetings around the last slots; 2 land records; 1 search for a person over 3 books, 2 rows that come or go | does the back office show, compute and grant what it should, and is everyone served? |

The last three runs compose components that share no variable, so each of their
properties is about one part or a few: in `Records` ingestion, codes, holdings (files,
quota and allocations of a property), listings and sales, masters, places and the
search; in `Desk` `RequestsSound` (gates, pool), `FormsSound` (prices, forms, shares),
`MailsSound`, `StoreSound`, `ContactsSound`, `FiguresSound` (the cards and badge of the
agreements, free slots, land records, paged lists with their cards and charts) and
`ListsSound` (the pages of the agreements, the search for a person).

Why the bounds are enough to be interesting. Slot conflicts need two requests on
different enquiries (the same enquiry is serialised by its lock): `Booking` has
both. A move into a bucket another row just left needs three buckets. Four
requests allow create, create, edit, cancel with any two of them at once. A sync
race needs one row, two writers and one failure; `MaxEvents` exceeds what the
requests and faults of a run can create. An outbox row needs `MaxAttempts` sends
and one lease running out to go through all of its life.

In the last three runs two requests at a time suffice because each hazard is a
pair: a check of one between whose statements the other writes. A third request,
issued later, meets what they left. The numbers of requests are the shortest that
let a row be made, used by two, removed and made again (ingest twice, stage,
resolve twice; create, allocate, remove; create, delete, revive). One mobile and one
e-mail give all five cases of the parent look-up (neither, one, the other, both of
one, of two). Two active PINs and a third row reach `MAX_ACTIVE_PINS`. The pool has
one connection more than there are bookings, with two other requests in the queue.
Pages of 2 over 4 rows have a full page, a part and an empty one. Agreements end
1, 16 and 31 days off, which over three days crosses each of the limits 0, 15 and 30.

Three runs expect a violation, each of something a comment of the code says
(`findings`):

- `CreateMeetsWorker`: "Idempotent: safe to run concurrently"
  (`googleCalendarSyncWorker.js:14-15`). A tick between the commit of a create
  and the create's own push inserts a second event for the booking.
- `OrphanBooking`: "no orphaned calendar rows, no half-applied status changes"
  (`enquiries.js:14-16`). The booking is a transaction of its own and survives a
  failure of the status change, as a later comment (266-274) admits.
- `StaleReminder`: "the new time gets its own 1-day / 1-hour pair"
  (`db/queries/appointments.js:307-311`). A move between scan and claim is
  stamped for a mail with the old time.

Further behaviours TLC showed while the models were written, which no run keeps:

- An edit whose push failed leaves the row `FAILED`; worker and Retry then create
  a new event instead of updating the old one (`appointmentSlots.js:18` says the
  event id is stable).
- A cancel that overtakes the push of a create leaves the event at Google
  (`appointmentSlots.js:19`).
- The mail is sent when Google failed or is not connected
  (against `appointmentSlots.js:20-21`).
- Retry of a cancelled or already synced row creates an event
  (`routes/admin/crm.js:356`).
- An enquiry can have more than one active booking
  (`db/queries/appointments.js:220-223` takes the latest), and closing a lead
  cancels only that one (`enquiries.js:458-461`).
- A booking moved while its mail fails to build gets a reminder twice:
  the claim given back is the one of the new time (`appointmentReminders.js:156`).
  `ReminderAtMostOnce` of `Reminders` excludes it.
- A batch whose sends outlast its 5-minute lease meets the next one, and a mail goes
  out twice (`outbox.js:28-30`); `DeliveredOnce` counts it as a lapse.
- A row requeued under a running batch can fail at once, because the batch counts
  from the attempts it read (`email_outbox.js:140-143`); `StatusIsEarned`
  excludes it.

The other disagreements between the code and what its comments say, and the flaws
met on the way, are in `PROJECT.json` (`findings`), each with its line. The
properties of `Records`, `Access` and `Desk` are stated for all behaviours in which
these do not happen, through the history variables named above (`overlap`, `torn`,
`crossed`, `raced`, `cut`, `met`, `renamed`, `twins`, `shared`, `rushed`, `doubled`,
`rewritten`, `forked`, `ended`, `mixed`, `crowded`, `loose`, `twice`, `excused`,
`upset`, `again`, `overtaken`, `touched`, `typed`). A guard of that kind names the very interleaving and nothing wider: for
example `raced` holds the leads two requests handled at once, and every other lead
must keep the promise. The findings that matter most:

- Ten bookings at once can stop the server: each holds a connection and waits for
  another (`appointmentSlots.js:723`). `LimitAssumption` of `ConnectionPool` says
  that there are fewer.
- The singleton token row of the calendar is not one (`queries/googleCalendar.js:43`).
- A refresh token used twice at the same time gives two sessions
  (`refresh.js:93`).
- A status check of a lead, a listing, a PIN or a code and the write it guards are
  separate statements throughout; only ingestion, bookings, allocations and file
  uploads run in transactions.

### Fairness

`FairSpec` of `Appointments` assumes weak fairness of each request's steps (the
event loop runs a handler on until it has answered, and lock waits end) and of
the worker's steps (its interval keeps firing). The latter is what `app.js`
arranges, but `src/README.md:41` warns that the host recycles the process and
says never to use `setInterval`; `EventuallySynced` holds as far as the process
is kept alive. It is conditional on the calendar being connected, and failures
are finite. `LeadFairSpec` is the same for status requests. `EmailOutbox` assumes
that time passes and that batches are started and run on (cron calls again).
`DeskFairness` (in `MCDesk`, for `EveryoneServed`) assumes of each request that it
goes on when it has what it waits for: handlers run to their end and queries come
back. No fairness is assumed for clients or admins, nor that anybody arrives. In `Remind`, `Timely = TRUE` says
that every unit of time sees a whole dispatch; it is stated in the guard of
`Tick`, because `NoCallUnreminded` is a safety property that depends on it.

### Mutants

Each property has a mutant (`mutants`): a definition of the module changed as a
plausible bug would change it (no UNIQUE index, `SELECT` without `FOR UPDATE`, no
`ROLLBACK`, a lease that is not looked at ...), under which the property fails in
its own run. They stand in the modules just before the definition they change.

## 4. Proofs

Every theorem holds for all values of the constants that satisfy the assumptions
of its modules: requests, rows, bookings, mails, tokens, PINs and bounds as large
as one likes. All proofs follow one pattern: an invariant that implies the
property, the initial states in it, and a lemma per action that the action keeps
it. Before a proof was begun TLC checked its invariant on a small instance.

| module | theorem | statement |
|---|---|---|
| `AppointmentsProofs` | `TypeCorrect` | `Spec => []TypeOK` |
| | `LockDiscipline` | `Spec => []LocksMatchTx` |
| | `EditReadsStayTrue` | `Spec => []ReadUnderLock` |
| | `SlotExclusivity` | `Spec => []SlotExclusive` |
| | `IndexFollowsRow` | `Spec => []KeyIffActive` |
| | `CancelIsFinal` | `Spec => CancelledIsFinal` |
| | `TimelineIsTrue` | `Spec => []HistoryReplaysRow` |
| | `MailsAreTrue` | `Spec => []MailTellsHistory` |
| | `RowsKeepTheirEvents` | `Spec => []EventBelongsToRow` |
| | `EngineImplementsDiary` | `Spec => ImplementsDiary`, the refinement of `SlotBook` |
| `EnquiryStatusProofs` | `LeadsAreExplained` | `LeadSpec => []TimelineExplainsLead` |
| | `LeadsKeepSlotsExclusive` | `LeadSpec => []SlotExclusive` |
| | `CalendarIsRight` | if `OneAdmin`, `LeadSpec => []CalendarAgrees` |
| `RemindersProofs` | `KindsKeepApart` | `Spec => []OneKindPerInstant` |
| | `RemindersGoOutOnce` | `Spec => []ReminderAtMostOnce` |
| | `CallsAreReminded` | if `Punctual`, `Spec => []NoCallUnreminded` |
| `EmailOutboxProofs` | `StatusesAreEarned` | `Spec => []StatusIsEarned` |
| | `BatchesDeliverOnce` | `Spec => []DeliveredOnce` |
| `AccessProofs` | `KeysProtect` | `IdempotencySpec => []OneEffectPerKey` |
| | `PinsAreSound` | `KeyPinsSpec => []PinsSound` |
| | `SessionsAreSound` | `SessionsSpec => []SessionsSound` |
| | `LinksAreSound` | `LinkSpec => []LinkSound` |
| | `GrantsAreSound` | `AccessSpec => []GrantsSound` |
| | `AccountsAreSound` | `AccountsSpec => []AccountsSound` |
| `RecordsProofs` | `IngestionIsSound` | `IngestSpec => []IngestionSound` |
| | `ListingsAreReviewed` | `ListingsSpec => []PublicIsReviewed` |
| | `SalesAreSettled` | `ListingsSpec => []SaleSettled` |
| | `LeadsStayClosed` | `ListingsSpec => ClosedStays` |
| | `CodesAreUnique` | `PropertiesSpec => []CodeNamesOneProperty` |
| | `MastersAreSound` | `MastersSpec => []MastersSound` |
| | `PlacesAreSound` | `PlacesSpec => []PlacesSound` |
| | `SearchIsSound` | `SearchSpec => []SearchSound` |
| | `HoldingsAreSound` | `PropertiesSpec => []HoldingsSound` |
| `DeskProofs` | `RequestsAreSound` | `DeskSpec => []RequestsSound` (gates and pool) |
| | `MailsAreRight` | `DeskSpec => []MailsSound` |
| | `FilesAreSound` | `DeskSpec => []StoreSound` |
| | `ContactsAreSound` | `DeskSpec => []ContactsSound` |
| | `FormsAreSound` | `DeskSpec => []FormsSound` (prices, forms, shares) |
| | `FiguresAreSound` | `DeskSpec => []FiguresSound` (agreements, free slots, land records, paged lists, cards and charts) |

### Assumptions

- `RequestAssumption`, `EnquiryAssumption` (`Appointments`): "nobody" is not a
  request and "no enquiry" not an enquiry. `BoundAssumption`: bounds are naturals.
- `MessageAssumption` (`EmailOutbox`), `BookingAssumption` (`Reminders`): there are
  finitely many mails and bookings, as in a table; a scan or a claim sorts them.
- `AsksAssumption`, `PinsAssumption`, `SessionsAssumption`, `LinkAssumption`: the
  bounds are naturals and "no PIN" is not a PIN. `FirstPinsAssumption`: the PINs a
  behaviour starts with are at most `MAX_ACTIVE_PINS` and differ, as the service
  leaves them when requests come one after the other.
- `CodesAssumption` (`OneTimeCodes`): finitely many requests run at once, and the
  limits and windows are naturals.
- `ExistingAssumption` (`Properties`): the rows there at first have their codes to
  themselves. `MastersAssumption`: so have the seeded masters, and no two have one
  name. `SearchAssumption`: the cache has room for an entry. `PlacesAssumption`: a
  file is a sequence of lines, there are stubs and each is of a tier, and the rows there
  at first are rows of the table, each with a row above it or a stub.
- `UploadAssumption` (`Properties`) and `StoreAssumption` (`StoredFiles`): an upload
  is a sequence of sizes, and the quota and the caps are naturals.
- `GateAssumption` (`Gates`): the clock and the life of a token are naturals, and the
  grants at first are of the known modules. `LimitAssumption` (`ConnectionPool`):
  finitely many requests, of which fewer than there are connections hold one while
  they wait for another. The finding about ten bookings is what happens without it.
- `EmailAssumption`, `NoticeAssumption`: finitely many saves run at once, bounds are
  naturals and instants whole numbers.
- `ImportAssumption` (`ContactImport`): a sheet has items, their labels are known, the
  designations at first differ in their labels, the marks the code keeps for "no code"
  are no codes, and nothing in the first book is of an import.
- `PriceAssumption`: a sheet has finitely many manual lines, and a blank is not a number.
  `FormAssumption`: neither is what is absent, and a code is neither a list nor a pair.
  `ShareAssumption`: a key of a form has one value or others below it, not both, as in
  any object.
- `AgreementAssumption`: finitely many properties, days are whole numbers and a blank is
  not a day. `GridAssumption`: instants are whole numbers, from some day on.
  `LandAssumption`: each of the three books has a form that fits it, texts are numbered in
  the order of the sort, and a page has rows.
- `CatalogueAssumption`: ids are naturals and finitely many, a page has rows, titles and
  days are numbers, and each row held at first has a status of its table's master (or one
  that was switched off) and was not created on a day to come.
- `Punctual`
  (a whole dispatch in every unit of time, every due row fits in a scan, and the
  window of the 1-hour mail is longer than the failures take) and `OneAdmin` (one
  request at a time, no failure, the calendar linked, neither worker nor retry) are
  hypotheses of one theorem each. `Remind.cfg` and `OneAdmin.cfg` satisfy
  them, so TLC checks the same statements under the same hypotheses. Without
  `OneAdmin` `CalendarAgrees` does not hold: with the worker beside a request it is what
  `CreateMeetsWorker` finds, and two edits of one booking may push in either order.

### Arguments

**Locks and slots** (`AppointmentsProofs`). `LockInv == TypeOK /\ LocksMatchTx /\
ReadUnderLock /\ OwnEnquiry`. Locks match transactions because a transaction
begins by taking a free lock and every way out gives it back. `ReadUnderLock` (an
edit's booking is still active, in the slot it read) needs the locks: whoever would
cancel or move the row needs the lock the edit holds. `OwnEnquiry` (a booking
belongs to an enquiry, and so does a create) makes "the lock of the row's enquiry"
meaningful. `SlotInv == LockInv /\ KeyIffActive /\ SlotExclusive`: exclusivity is
not inductive alone, because an insert is refused by the index, so the index must
hold the slot of every active row; that an edit writes an active row is
`ReadUnderLock`. The check inside the transaction (`Colliding`) plays no part: the
index alone keeps slots apart, the check only chooses a better error message.

**What a booking leaves behind** (`AppointmentsProofs`). `HistInv` adds the
timeline to `SlotInv`: an edit writes the slot it read as the one moved from, and
`ReadUnderLock` says the row still has it. `MailInv` follows what a request holds
after its commit: what it will tell is already in the timeline, and timelines only
grow. `EventInv` says of every request and of the worker's tick which event it is
about to write to which row, and that an event was created for one row. `DiaryInv`
is what the refinement needs of a state; each step books, moves or releases in the
diary, or stutters.

**Leads** (`EnquiryStatusProofs`). `LeadInv` repeats the engine's invariant (the
actions of `Appointments` are steps of `LeadSpec`) and adds that the timeline of a
field ends at its column; the status transaction reads and writes both under the
enquiry's lock.

**The calendar** (`EnquiryStatusProofs`). Rows and events differ while a request is
between its commit and its answer, so `CalInv` says what that request owes: one that is
to push a new booking has an active row without an event, one that moved a row still
holds the event it read under the lock (`ReadUnderLock`), one that cancelled holds the
event to delete, one that is to note an outcome holds the event that is right. Every
other booking is settled: an active row names its only live event, at its slot, and any
other row has none. `StaysCalm` is where the hypothesis counts; an event touched by a
request is of its own booking, so the others stay settled (`EventSeenByOwner`).

**Reminders** (`RemindersProofs`). One time given to a booking is an `epoch`.
`OnceInv`: a mail in a dispatch's hands or sent is of an epoch that was given, and
while bookings do not move or mails do not fail, whatever is in hand or sent of the
present epoch is stamped and is in one place only; a claim takes an unstamped row,
so it brings in something new. `SlackInv` measures time for `NoCallUnreminded`: a
booking that waits unclaimed has room for one more unit, or a dispatch of this unit
is still to reach it, or is still to come; each failure costs two units of the room.

**Outbox** (`EmailOutboxProofs`). `PaidInv` counts what a mail may still lead to: a
send in each batch that holds its row and has not handed it over, and one more when
the row is due or free to come due. With the deliveries made this never exceeds one and
what lapses, failures and the admin added: a claim turns the last into the first, a
send that works turns the first into a delivery, and a due time reached in a batch's hands
is the lapse that pays. `EarnedInv` relates the attempts a batch read to those made.

**Idempotency keys** (`KeyInv`). As long as no request outlives its row, whoever is in
the handler owns the row and its answer is the owner's; with no excuse on record
(failed claim, handler that failed after its change, outlived row) only the owner
has changed anything.

**PINs** (`PinInv`). `BoundInv`: unless crowded, one request at most is between its
count and its write, and then there is room. `DistinctInv`: a PIN not on record as
loose has one writer past its comparison, and no active row but the writer's own has
it. `SingleInv` follows a reset from its verification to its one completion,
`PendInv` the one code of a PIN that waits.

**Codes and accounts** (`AccountsInv`). `OnceInv`: a code that no two verifications
held at once is unconsumed and has a try left while one compares it; `TriesInv`
counts those that compare against the tries a shared code may take beyond the limit.
`RatesInv`: until a key is rushed, one request at most is past the count, and then
there is room. `AddressInv` is stronger than the property: no two live sellers have
one address, verified or not, and who is about to write one writes it over itself.
`ProvenInv`: the proofs that run for a seller are of the address in the row.
`PaidInv` counts the resets that are about to be made along with those that were.

**Sessions** (`SessInv`). A line of refresh tokens is at rest, or one request is at
work on it (`RotatorsFit`): at rest it has one good token at most; at work, what is
good is the token the request read and, once it is written, its successor. The
lines where a second request came in between are the ones on record as forked.
`EndInv` keeps ended lines empty: to write into a line one must have read a good
token of it. `NextInv` includes the successor a request is about to write, which is
nobody's yet. `ModulesInv` says that until an edit of the modules overlaps a
restoration, whatever is about to be written belongs to the account's present life.

**Calendar link** (`LinkInv`). `NonceInv`: the nonce a tab holds is out of the table
and no other tab's, because reading it and deleting it are one step. `GrantInv`:
until two links cross, the row, its access token and the calls under way are of one
grant, a tab that disconnects revoked that grant before it deletes the row, and
every grant not revoked is linked, about to be saved, or lost.

**Ingestion** (`IngestInv`). A request that files under a new parent holds its keys: no
row has them and no other such request does, so that two parents never share one; the
sequence row is held by one request, so the next code is the number of enquiries plus
one; a conflict that is being resolved is held by one request, and unresolved until
its enquiry is in.

**Listings and sales** (`DeskInv`). `ReviewInv`: an approved listing was read as it
is and no edit of it is under way, or it is on record as crossed. `MeetInv`: two
requests about one lead, or about one listing that is being sold, met. `SaleInv` says
what a sale has done at each of its statements; a lead that is moved, added or
removed meanwhile, and a listing put back, is on record as raced or cut. That a closed
lead stays closed follows from `MeetInv`: who writes one read it closed, or met.

**Property codes** (`NamesInv`). A request that holds a code found it free: of any
other request or row that has it by now, the two are on record as overlapping. Within
a table the index has the last word.

**Masters** (`MasterInv`). `UsedInv`: the codes a saving request is about to name are in
use, and those a deletion counted are unnamed, or a meeting, a renaming or a late
deletion excuses them. `LabelInv`: the name a request is about to give is no other
row's and no other request's, unless two gave it. The proof found what two requests
on one deleted row can do, which the bounds of `Records` do not reach: both are told
to revive it, under two codes; the second write replaces the code of a row in use,
which somebody may have named in between, and a deletion that counted the one code
removes the row with the other. `renamed` and `met` record both.

**Places** (`PlacesInv`). `ImportInv`: whatever tries stopped before, a place no admin wrote
is as it was before the first of them, as its first line says, or as the whole import
leaves it (`Settled`), and what the statements of this try wrote is one of the last two
(`Progress`); a line without a pincode finds the same one in all three (`PinSettles`). A
stub that the file names too is hidden after it was written, because the batches come
before the stubs (`TurnsAre`), and at the end each place has had its statement
(`EachIsWritten`). `FamilyInv`: the place above one that a batch writes is in a batch
before (`ParentBefore`) and stands unless a removal overtook it; a removal that has found
nobody below finds nobody when it writes, or met an import or an edit. Cut
into batches, the lines of a tier that are the first to name their code give all of its
places (`SlicesAre`, `BatchFits`).

**Search** (`SearchInv`). The counter of uses is ahead of every entry, so an entry that
goes to the end is the latest; a key is set again only in its place.

**Holdings** (`HoldInv`). The counter and the quota are sums over the rows of files, so
an upload is followed from statement to statement: the one that has written its files
(there is one at a time, because it holds the row of `storage_usage`) has the latest
ids, which no row and no other request has, and what is being unlinked has no row
(`FilesKnown`); its bytes fit in what is left of the quota (`QuotaKept`). With that a
step adds or takes whole rows, and `BytesAccounted` needs only the laws of sums. Where no
two requests met at a property (`OneAtOwner` puts them in `overlap`), who adds to it has
it standing with room for what is added, who removes it has it allocated to nobody
(`ClientFits`), and what is left of a removed one is nothing (`Tidy`).

**Sums** (`SumLemmas`). A sum over a finite set is that over a part and the rest; one
element more adds its value; a sum of naturals is one, and grows with its set. The
induction is over the set of subsets for which the law holds, with the strict-subset
ordering, so that no theorem with an operator parameter is needed.

**Gates and pool** (`RequestsAreSound`). `GateInv`: `held` knows until when each grant
stood (`HeldTillNow`), and what a token lists was held at the instant it was issued
(`TicketHonest`), which is one life before its end; so what a request does was granted
no longer ago. Contacts in the clear need that every endpoint that shows them goes
through the PIN gate (`ClearsArePinned`). `PoolInv`: the connections a request holds are a
function of its place in its script, and who stands in the line is at a step that
asks; the accounting is then a sum of which a step changes one term. Were everybody
in the line, each connection would be with a booking that holds one and asks for
another, and there are fewer of those than connections.

**Mails** (`MailInv`). A save is a list of statements that ends with emptying the cache.
`SettingsFit`: one active row at most, whatever statements interleave. `CacheFits`: a
cached transport has the columns of its row, or a save that will empty the cache is
under way. `MailersFit`: what a mail has in hand was built of a row that was active
while it ran, or will be compared again; `NoticesFit` says more of a notice during which
nothing was written: its address and its transport are of the one active row.

**Stored files** (`StoreInv`). A file has one row (`OneRowEach`), and two requests are at
one file only after two removals of one row (`ErrandsApart`), which is on record. `Ledger`:
until a failure the disk holds the files of live rows and of requests, and the counter
is the number of those that are paid for. `PicturesThere` holds after failures too,
because the row of a picture goes before its file.

**Contacts** (`ImportInv`). A row an import filed stands for one of its answers, and an
answer tells its row (`AnswersFit`); the duplicates of a sheet are those the book knew when
the import began (`SkipsFit`); masters are only added, and what an import remembers of
them stays so (`MastersFit`, `AllKnow`), so two imports that miss one label end with one
master, whose code both use.

**Forms** (`FormsAreSound`). `PriceInv`: a sheet that was not saved as a draft is what
`computeLandPricing` makes of some sheet; because the computation does not read the figures
it derives, computing once more changes nothing, and its figures fit the rates and amounts
they came from. `FormInv`: each pass of the middleware settles the fields it is about and
leaves those that another has settled, so all are settled at the end and a second pass
finds nothing to do; that the multi-select loses its repetitions and nothing else is
`UniqueIs`, by induction on the length of the list. `ShareInv`: the leaves of a property
stay while a mail is written, so what it shows is what its sections render; a leaf is in
a section that asked for its key, or in the completion and in none. A file that was there all along is listed
and attached.

**Figures** (`FiguresAreSound`). `LeasesFit` only says what the columns hold; the rest is
about the operators: the days left of a tracked row are a number, the six statuses cut the
numbers into intervals (`StatusIs`), and fewer days never rank lower (`RanksGrow`), so a
card, the badge and the list count the same rows by different tests, and a status does not
come back at midnight. `GridInv` is about types too: that a free slot is what a booking
accepts is arithmetic of minutes, quarters and the offset of India (`PastIsPast`,
`BusyIsBusy`), and the slot a refusal names is the least of those left (`NextFits`).
`LandInv`: rows are never fewer and a removed one stays removed, a request knows a row that
is in the table, an answer is what its request wrote unless another wrote since, and a list
that counted has the rows the filter finds until a write moves it; the places of the rows in
the order of the list are a bijection (`PlacesAreOnce`), so a page
holds as many rows as the count leaves it.

`CatalogueInv` is about the lists read page by page. The rank of a row (`RanksAre`) is the
number of rows that come before it in every order its statement admits; page `p` shows the
ranks from `(p - 1) * size` on. While no row enters the list no rank grows, so what was
shown lies `Behind` the next page, and a page shows nothing twice (`NextPageIsNew`). While
none leaves either and no two are tied, the order is one (`OrderIsOne`), so the pages joined
are a beginning of it (`PageJoins`), and after the last page all of it (`LastPage`,
`ShowsAll`). The rest follows a report from statement to statement: a total is right unless
something changed or another connection answered; each query of the similar listings finds
only new ones, and if it leaves room all of them. `HeldFits` says that rows have a status of
their master and no day to come. With that cards and charts are sums of counts over disjoint
parts (`SumOfCounts`), and that each row of the window of a chart is in one bar (`BarsFit`)
is arithmetic of days, weeks and months.

**Side by side** (`GrantsAreSound`). A step of `AccessSpec` is a step of one
component and leaves the others' variables, so the components' invariants hold
together.

### What is only model-checked

- One invariant: `ListsSound`. The pages of the reminders of agreements are sorted by
  `SortSeq`, an operator of TLC that the prover cannot expand, and the search for a person
  folds and flattens sequences.
- Out of reach of the prover: liveness under fairness (`EventuallySynced`,
  `ClosingReleasesSlot`, `EventuallySettled`, `EveryoneServed`) and `ENABLED`.
- Induction over data cannot cite the library's induction theorems, which take an
  operator. Where a proof needed one (`SumLemmas`, `WithoutIs` of `RecordsProofs`,
  `UniqueIs` of `DeskProofs`) it is done over a set of naturals or of subsets with a
  well-founded ordering; what `OwnerSearch` computes for every input is not proved.

## 5. Not modelled

- Formatting and rendering: mail templates, PDF, CSV and Excel, DTOs, the text of
  calendar events. What a text must tell (times, phrases, sums) is modelled.
- Request schemas beyond the fields whose presence depends on others: a Joi schema
  checks one field at a time and keeps no state.
- Site statistics (one read-only query each) and the audit log (written, never read
  by the program).
- Changes that touch one row and nothing else: titles, dates and order of banners
  and documents, most columns of a property, site settings.
- Migrations, seeds, backfills and smoke tests, but for the import of places. Constraints of the schema that the
  models rely on are mapped where they are used.
- In `Masters`: the label rules per vocabulary and the classification of
  sub-classifications; in the lists: full-text search.

`PROJECT.json` (`components`) has the full list with reasons.

## 6. Plan

What is left, in this order:

1. Proofs: the parts of `ListsSound` that do not depend on the order of a list, such as
   that nobody is suggested who does not fit the question.
2. Abstract specifications worth stating: a ledger that `Properties` implements
   (bytes come and go with rows), and "good once" for codes, refresh tokens and
   nonces alike.
3. Leftovers of modelled components: label rules of the masters, gallery order.
