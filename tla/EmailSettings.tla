---------------------------- MODULE EmailSettings ----------------------------
(***************************************************************************)
(* The SMTP configurations of the office (services/email/email_settings.js,*)
(* db/queries/email_settings.js) and the transport that mails go out by    *)
(* (services/email/transporter.js).  Each await of the service is a step:  *)
(* a save leaves a list of statements still to run, a mail reads a row     *)
(* first and goes on with it later, when others have run.                  *)
(***************************************************************************)
EXTENDS Integers, Sequences, FiniteSets

CONSTANTS Savers,     \* requests of the Email master's pages
          Mailers,    \* mails being sent
          MaxConfigs, \* bound on the rows
          MaxEmailSaves, \* bound on the saves
          MaxMails    \* bound on the mails

ASSUME EmailAssumption ==
  IsFiniteSet(Savers) /\ MaxConfigs \in Nat /\ MaxEmailSaves \in Nat /\ MaxMails \in Nat

NoConfig == 0

VARIABLES config,     \* the table email_settings, in order of insertion
          saver,      \* what is left of each save: row and statements
          transport,  \* cachedTransport and cachedForId; id NoConfig: none
          mailer,     \* what each mail is at
          puts, mails

emailVars == <<config, saver, transport, mailer, puts, mails>>

(***************************************************************************)
(* "edits" stands for the columns a transport is built of.  A transport is *)
(* "stale" when its row was saved between the read and the build.          *)
(***************************************************************************)
NoTransport == [id |-> NoConfig, edits |-> 0, stale |-> FALSE]
IdleSaver == [id |-> NoConfig, todo |-> << >>]
IdleMailer == [step |-> "idle", row |-> NoTransport, sent |-> NoTransport, since |-> {}]

EmailInit ==
  /\ config = << >> /\ saver = [s \in Savers |-> IdleSaver]
  /\ transport = NoTransport /\ mailer = [m \in Mailers |-> IdleMailer]
  /\ puts = 0 /\ mails = 0

Stored(id) == id \in DOMAIN config /\ ~config[id].gone    \* getById
ActiveIds == {id \in DOMAIN config : Stored(id) /\ config[id].on}

\* Every mail under way notes which rows were active while it ran
Noting(rows) ==
  mailer' = [m \in Mailers |-> [mailer[m] EXCEPT !.since =
               @ \cup {id \in DOMAIN rows : rows[id].on /\ ~rows[id].gone}]]

-----------------------------------------------------------------------------
(***************************************************************************)
(* Saves.  create inserts an inactive row; the flag is set by a statement  *)
(* of its own.  update deactivates a row only if it was active when read.  *)
(***************************************************************************)
Free(s) == saver[s].todo = << >> /\ puts < MaxEmailSaves
Begin(s, id, todo) ==
  /\ saver' = [saver EXCEPT ![s] = [id |-> id, todo |-> todo]] /\ puts' = puts + 1

create(s, active) ==
  /\ Free(s) /\ Len(config) < MaxConfigs
  /\ config' = Append(config, [on |-> FALSE, gone |-> FALSE, edits |-> 0])
  /\ Begin(s, Len(config) + 1, IF active THEN <<"activate", "forget">> ELSE << >>)
  /\ UNCHANGED <<transport, mailer, mails>>

StartUpdate(s, id, wish) ==
  /\ Free(s) /\ Stored(id)
  /\ Begin(s, id, CASE wish = "on" -> <<"edit", "activate", "forget">>
                     [] wish = "off" /\ config[id].on -> <<"edit", "deactivate", "forget">>
                     [] OTHER -> <<"edit", "forget">>)
  /\ UNCHANGED <<config, transport, mailer, mails>>

StartRemove(s, id) ==
  /\ Free(s) /\ Stored(id) /\ Begin(s, id, <<"delete", "forget">>)
  /\ UNCHANGED <<config, transport, mailer, mails>>

StartActivate(s, id) ==
  /\ Free(s) /\ Stored(id) /\ Begin(s, id, <<"activate", "forget">>)
  /\ UNCHANGED <<config, transport, mailer, mails>>

\* a mutant: the row is switched on without switching the others off
MutActivated(id) == [i \in DOMAIN config |->
  [config[i] EXCEPT !.on = @ \/ (i = id /\ ~config[id].gone)]]

\* activateExclusive, one transaction: the others off, then this one on
Activated(id) == [i \in DOMAIN config |->
  [config[i] EXCEPT !.on = IF i = id THEN @ \/ ~config[id].gone
                           ELSE IF config[i].gone THEN @ ELSE FALSE]]

Deleted(id) == [config EXCEPT ![id].gone = TRUE,
                              ![id].on = IF config[id].gone THEN @ ELSE FALSE]

Written(id, statement) ==
  CASE statement = "activate" -> Activated(id)
    [] statement = "delete" -> Deleted(id)
    [] OTHER -> IF config[id].gone THEN config
                ELSE IF statement = "edit" THEN [config EXCEPT ![id].edits = @ + 1]
                ELSE [config EXCEPT ![id].on = FALSE]

\* the next statement of a save; WHERE deleted_at IS NULL is in Written
RunStatement(s) ==
  /\ saver[s].todo # << >> /\ Head(saver[s].todo) # "forget"
  /\ config' = Written(saver[s].id, Head(saver[s].todo))
  /\ Noting(config')
  /\ saver' = [saver EXCEPT ![s].todo = Tail(@)]
  /\ UNCHANGED <<transport, puts, mails>>

invalidateActiveCache(s) ==
  /\ saver[s].todo # << >> /\ Head(saver[s].todo) = "forget"
  /\ transport' = NoTransport
  /\ saver' = [saver EXCEPT ![s].todo = Tail(@)]
  /\ UNCHANGED <<config, mailer, puts, mails>>

\* A statement fails, or the look at the row after it (before "forget": after the
\* last write): what ran stays, and so does the cache.
SaveFails(s) ==
  /\ saver[s].todo # << >> /\ saver' = [saver EXCEPT ![s] = IdleSaver]
  /\ transport' = [transport EXCEPT !.stale = @ \/
       (transport.id # NoConfig /\ config[transport.id].edits # transport.edits)]
  /\ UNCHANGED <<config, mailer, puts, mails>>

\* hasAnyRow, then one active row from SMTP_*, before the server listens
migrateFromEnv(envSet) ==
  IF envSet /\ \A id \in DOMAIN config : ~Stored(id)
  THEN Append(config, [on |-> TRUE, gone |-> FALSE, edits |-> 0]) ELSE config

\* The process is started again: what was under way is lost, between the
\* statements of a save too, and the environment is looked at before anything else.
Restart(envSet) ==
  /\ puts < MaxEmailSaves /\ puts' = puts + 1
  /\ config' = migrateFromEnv(envSet) /\ Len(config') <= MaxConfigs
  /\ saver' = [s \in Savers |-> IdleSaver] /\ mailer' = [m \in Mailers |-> IdleMailer]
  /\ transport' = NoTransport
  /\ UNCHANGED mails

-----------------------------------------------------------------------------
\* buildActiveTransport: recheck the cached row, or read the active one
ResolveTransport(m) ==
  mailer' = [mailer EXCEPT ![m] =
    [IdleMailer EXCEPT !.step = IF transport.id = NoConfig THEN "read" ELSE "recheck",
                       !.row = [NoTransport EXCEPT !.id = transport.id],
                       !.since = ActiveIds]]

StartMail(m) ==
  /\ mailer[m].step = "idle" /\ mails < MaxMails /\ mails' = mails + 1
  /\ ResolveTransport(m)
  /\ UNCHANGED <<config, saver, transport, puts>>

Still(id) == id \in ActiveIds

RecheckRow(m) ==
  /\ mailer[m].step = "recheck"
  /\ mailer' = [mailer EXCEPT ![m].step = IF Still(mailer[m].row.id) THEN "take" ELSE "drop"]
  /\ UNCHANGED <<config, saver, transport, puts, mails>>

\* what the variable holds now, which others may have cleared or replaced
TakeCached(m) ==
  /\ mailer[m].step = "take"
  /\ mailer' = [mailer EXCEPT ![m].step = "sent", ![m].sent = transport]
  /\ UNCHANGED <<config, saver, transport, puts, mails>>

DropCached(m) ==
  /\ mailer[m].step = "drop" /\ transport' = NoTransport
  /\ mailer' = [mailer EXCEPT ![m].step = "read"]
  /\ UNCHANGED <<config, saver, puts, mails>>

ReadActive(m) ==
  /\ mailer[m].step = "read"
  /\ IF ActiveIds = {}
     THEN mailer' = [mailer EXCEPT ![m].step = "sent"]
     ELSE \E id \in ActiveIds :
            mailer' = [mailer EXCEPT ![m].step = "build",
                         ![m].row = [id |-> id, edits |-> config[id].edits, stale |-> FALSE]]
  /\ UNCHANGED <<config, saver, transport, puts, mails>>

BuildTransport(m) ==
  /\ mailer[m].step = "build"
  /\ LET row == mailer[m].row
         built == [row EXCEPT !.stale = config[row.id].edits # row.edits \/ row.id \notin ActiveIds]
     IN /\ transport' = built
        /\ mailer' = [mailer EXCEPT ![m].step = "sent", ![m].sent = built]
  /\ UNCHANGED <<config, saver, puts, mails>>

\* sendMail hands the mail over, or throws EMAIL_NOT_CONFIGURED
EndMail(m) ==
  /\ mailer[m].step = "sent" /\ mailer' = [mailer EXCEPT ![m] = IdleMailer]
  /\ UNCHANGED <<config, saver, transport, puts, mails>>

SaveStep ==
  \E s \in Savers :
    \/ \E active \in BOOLEAN : create(s, active)
    \/ \E id \in DOMAIN config :
         \/ \E wish \in {"on", "off", "as is"} : StartUpdate(s, id, wish)
         \/ StartRemove(s, id) \/ StartActivate(s, id)
    \/ RunStatement(s) \/ invalidateActiveCache(s) \/ SaveFails(s)

TransportStep(m) ==
  \/ RecheckRow(m) \/ TakeCached(m) \/ DropCached(m) \/ ReadActive(m) \/ BuildTransport(m)

-----------------------------------------------------------------------------
EmailTypeOK ==
  /\ Len(config) <= MaxConfigs /\ puts <= MaxEmailSaves /\ mails <= MaxMails
  /\ \A id \in DOMAIN config : config[id] \in
       [on : BOOLEAN, gone : BOOLEAN, edits : 0..MaxEmailSaves]
  /\ transport.id \in 0..Len(config)
  /\ \A m \in Mailers : mailer[m].since \subseteq DOMAIN config

\* At most one configuration is active, and none that was removed.
OneActive == /\ Cardinality(ActiveIds) <= 1
             /\ \A id \in DOMAIN config : config[id].gone => ~config[id].on

(***************************************************************************)
(* When no save is under way, the cached transport has the columns of its  *)
(* row as last saved - unless a save failed after its write, or ran between*)
(* the read and the build (the cache is then wrong until the next save).   *)
(***************************************************************************)
CacheFresh ==
  transport.id # NoConfig /\ ~transport.stale /\ (\A s \in Savers : saver[s].todo = << >>)
    => transport.edits = config[transport.id].edits

\* A mail goes out by a configuration that was active while it was handled.
MailByActive ==
  \A m \in Mailers : mailer[m].step = "sent" /\ mailer[m].sent.id # NoConfig
                       /\ ~mailer[m].sent.stale => mailer[m].sent.id \in mailer[m].since

\* What the settings and their cached transport promise.
EmailSound == EmailTypeOK /\ OneActive /\ CacheFresh /\ MailByActive
=============================================================================
