---------------------------- MODULE AdminNotices ----------------------------
(***************************************************************************)
(* The notices to the administrator (services/email/adminNotifications.js, *)
(* services/crm/appointmentEmail.js).  A notice resolves the transport     *)
(* twice: once for the admin address of the active configuration, once     *)
(* more to go out; settings may be saved in between.  What it tells are    *)
(* times of the wall clock in India.                                       *)
(***************************************************************************)
EXTENDS EmailSettings

CONSTANTS Notifiers,     \* the mails that are notices
          NoticeTimes,   \* minutes of a few days, at which bookings stand
          LeadTimes      \* offsets of the reminders, in minutes

ASSUME NoticeAssumption == NoticeTimes \subseteq Int /\ LeadTimes \subseteq Nat \ {0}

VARIABLE notice          \* what each mail that is a notice is at

noticeVars == <<emailVars, notice>>

\* The columns of a row, admin_email among them, are those of one "edits".
NoAddress == [id |-> NoConfig, edits |-> 0]
NoNotice == [step |-> "none", to |-> NoAddress, calm |-> FALSE]

NoticeInit ==
  EmailInit /\ notice = [m \in Mailers |-> NoNotice]

-----------------------------------------------------------------------------
(* What the notices show: instants as a Date's UTC getters read them *)

TYPES == {"NEW_WEBSITE_ENQUIRY", "SELLER_REGISTRATION", "CRM_BOOKING_CREATED",
          "CRM_BOOKING_CANCELLED", "CRM_BOOKING_RESCHEDULED", "CRM_BOOKING_REMINDER"}

renderIstFromUtcParts(t) ==
  LET hour == (t % 1440) \div 60
  IN [day |-> t \div 1440, minute |-> t % 60,
      hour |-> IF hour % 12 = 0 THEN 12 ELSE hour % 12,
      period |-> IF hour >= 12 THEN "PM" ELSE "AM"]

formatIstDateTime(t) == renderIstFromUtcParts(t)   \* a Date, from a column or shifted

nowIstDate(now) == now + 330

\* the phrase of a reminder: how many of which unit
reminderLeadLabel(m) ==
  IF m <= 0 THEN << >>
  ELSE IF m % 1440 = 0 THEN <<m \div 1440, "day">>
  ELSE IF m % 60 = 0 THEN <<m \div 60, "hour">> ELSE <<m, "minute">>

renderNewWebsiteEnquiry(c) == [created |-> formatIstDateTime(c.createdAt)]
renderSellerRegistration(c) == [registered |-> formatIstDateTime(c.registeredAt)]
renderCrmBookingCreated(c) == [scheduled |-> formatIstDateTime(c.scheduledAt)]
renderCrmBookingReminder(c) == [scheduled |-> formatIstDateTime(c.scheduledAt),
                                due |-> reminderLeadLabel(c.leadMinutes)]
renderCrmBookingCancelled(c) == [previous |-> formatIstDateTime(c.previouslyScheduledAt),
                                 cancelled |-> formatIstDateTime(c.cancelledAt)]
renderCrmBookingRescheduled(c) == [previous |-> formatIstDateTime(c.previousScheduledAt),
                                   new |-> formatIstDateTime(c.newScheduledAt),
                                   updated |-> formatIstDateTime(c.updatedAt)]

\* sendAppointmentEmail: the mode picks the template and the type
sendAppointmentEmail(mode, c) ==
  CASE mode = "created" -> [type |-> "CRM_BOOKING_CREATED", shows |-> renderCrmBookingCreated(c)]
    [] mode = "edited" -> [type |-> "CRM_BOOKING_RESCHEDULED", shows |-> renderCrmBookingRescheduled(
         [previousScheduledAt |-> c.previousScheduledAt, newScheduledAt |-> c.scheduledAt,
          updatedAt |-> nowIstDate(c.now)])]
    [] mode = "cancelled" -> [type |-> "CRM_BOOKING_CANCELLED", shows |-> renderCrmBookingCancelled(
         [previouslyScheduledAt |-> c.scheduledAt, cancelledAt |-> nowIstDate(c.now)])]
    [] mode = "reminder" -> [type |-> "CRM_BOOKING_REMINDER", shows |-> renderCrmBookingReminder(c)]

-----------------------------------------------------------------------------
(* sendAdminNotification *)

\* getAdminEmail begins.  It is "calm" while no save is under way.
sendAdminNotification(m) ==
  /\ StartMail(m)
  /\ notice' = [notice EXCEPT ![m] = [NoNotice EXCEPT !.step = "address",
                                      !.calm = \A s \in Savers : saver[s].todo = << >>]]

\* The address is there, or NO_ADMIN_EMAIL; trySendMail resolves once more
HaveAdminEmail(m) ==
  /\ mailer[m].step = "sent" /\ notice[m].step = "address"
  /\ IF mailer[m].sent.id = NoConfig
     THEN /\ mailer' = [mailer EXCEPT ![m] = IdleMailer]
          /\ notice' = [notice EXCEPT ![m] = NoNotice]
     ELSE /\ ResolveTransport(m)
          /\ notice' = [notice EXCEPT ![m].step = "post", ![m].calm = @ /\ ~mailer[m].sent.stale,
                          ![m].to = [id |-> mailer[m].sent.id, edits |-> mailer[m].sent.edits]]
  /\ UNCHANGED <<config, saver, transport, puts, mails>>

\* sent, or kept in email_outbox (EmailOutbox) under the address read before
TrySendNotice(m) ==
  /\ mailer[m].step = "sent" /\ notice[m].step = "post"
  /\ notice' = [notice EXCEPT ![m] = NoNotice]
  /\ mailer' = [mailer EXCEPT ![m] = IdleMailer]
  /\ UNCHANGED <<config, saver, transport, puts, mails>>

\* a statement of a save ends the calm of every notice under way
Disturbs == notice' = [m \in Mailers |-> [notice[m] EXCEPT !.calm = FALSE]]

NoticeNext ==
  \/ SaveStep /\ IF config' = config THEN UNCHANGED notice ELSE Disturbs
  \/ \E envSet \in BOOLEAN : Restart(envSet) /\ notice' = [m \in Mailers |-> NoNotice]
  \/ \E m \in Mailers :
       \/ m \notin Notifiers /\ StartMail(m) /\ UNCHANGED notice
       \/ TransportStep(m) /\ UNCHANGED notice
       \/ notice[m] = NoNotice /\ EndMail(m) /\ UNCHANGED notice
       \/ m \in Notifiers /\ sendAdminNotification(m)
       \/ HaveAdminEmail(m) \/ TrySendNotice(m)

-----------------------------------------------------------------------------
\* When no setting is written while a notice is handled, it goes out by the
\* configuration whose administrator it goes to: the two look-ups agree,
\* whoever fills or empties the cached transport between them.
NoticeToItsAdmin ==
  \A m \in Mailers :
    LET sent == mailer[m].sent
    IN notice[m].step = "post" /\ mailer[m].step = "sent" /\ notice[m].calm
         /\ ~sent.stale /\ sent.id # NoConfig
       => notice[m].to = [id |-> sent.id, edits |-> sent.edits]

Clock(shown) == shown.day * 1440 + (shown.hour % 12) * 60 + shown.minute
                  + (IF shown.period = "PM" THEN 720 ELSE 0)

\* Every notice about a call tells the times the calendar shows, the time it was
\* written included, and a reminder's phrase is the time left.  (Bookings keep
\* the wall clock in their columns; "now" is the server's.)
NoticesTellTheTime ==
  \A at, before, now \in NoticeTimes, lead \in LeadTimes :
    LET c == [scheduledAt |-> at, previousScheduledAt |-> before, now |-> now,
              leadMinutes |-> lead]
        shows(mode) == sendAppointmentEmail(mode, c).shows
        due == shows("reminder").due
    IN /\ Clock(shows("created").scheduled) = at /\ Clock(shows("reminder").scheduled) = at
       /\ Clock(shows("edited").previous) = before /\ Clock(shows("edited").new) = at
       /\ Clock(shows("edited").updated) = now + 330
       /\ Clock(shows("cancelled").previous) = at /\ Clock(shows("cancelled").cancelled) = now + 330
       /\ Clock(renderNewWebsiteEnquiry([createdAt |-> nowIstDate(now)]).created) = now + 330
       /\ Clock(renderSellerRegistration([registeredAt |-> nowIstDate(now)]).registered) = now + 330
       /\ due[1] * (CASE due[2] = "day" -> 1440 [] due[2] = "hour" -> 60 [] OTHER -> 1) = lead
       /\ {sendAppointmentEmail(mode, c).type : mode \in {"created", "edited", "cancelled", "reminder"}}
            \subseteq TYPES

\* What the settings, the mails and the notices among them promise.
NoticesSound ==
  /\ EmailSound /\ NoticeToItsAdmin
  /\ mails = 0 /\ puts = 0 => NoticesTellTheTime
=============================================================================
