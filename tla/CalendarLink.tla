----------------------------- MODULE CalendarLink -----------------------------
(***************************************************************************)
(* The link to Google Calendar: the consent flow and its nonces            *)
(* (googleCalendarOAuth.js), the token row (db/queries/googleCalendar.js)  *)
(* and the client that draws an access token from it (googleCalendar.js).  *)
(* A grant of Google stands for its refresh token and for the access       *)
(* tokens drawn from it.  The row is meant to be a singleton, but its      *)
(* unique key holds a NULL, which is never equal to another: every consent *)
(* inserts a row.                                                          *)
(***************************************************************************)
EXTENDS Integers, FiniteSets

CONSTANTS Tabs,       \* callbacks and disconnects under way
          Pushers,    \* calls of the calendar client under way
          StateTtl,   \* STATE_TTL_MS
          AccessLife, \* of an access token
          Buffer,     \* ACCESS_TOKEN_REFRESH_BUFFER_MS
          MaxConnects, MaxGrants, MaxPushes, MaxHour   \* bounds

ASSUME LinkAssumption == {StateTtl, AccessLife, Buffer, MaxGrants} \subseteq Nat

VARIABLES link,     \* google_calendar_tokens
          nonces,   \* google_calendar_oauth_states
          connects, \* nonces handed out
          issued,   \* grants Google issued, numbered
          revoked,  \* those revoked since
          tab, pusher,
          hour,
          pushes,
          crossed,  \* history: a link was saved while another was in use
          lost      \* history: a step of Google or of the database failed

linkVars == <<link, nonces, connects, issued, revoked, tab, pusher, hour, pushes, crossed, lost>>

IdleTab == [at |-> "idle"]
NoPush == [at |-> "idle"]

LinkInit ==
  /\ link = {} /\ nonces = {} /\ connects = 0 /\ issued = 0 /\ revoked = {}
  /\ tab = [t \in Tabs |-> IdleTab]
  /\ pusher = [p \in Pushers |-> NoPush]
  /\ hour = 0 /\ pushes = 0 /\ crossed = FALSE /\ lost = FALSE

buildConnectUrl ==
  /\ connects < MaxConnects
  /\ connects' = connects + 1
  /\ nonces' = nonces \cup {[id |-> connects + 1, until |-> hour + StateTtl]}
  /\ UNCHANGED <<link, issued, revoked, tab, pusher, hour, pushes, crossed, lost>>

ToTab(t, next) == tab' = [tab EXCEPT ![t] = next]

\* popOAuthState: read FOR UPDATE and deleted, expired or not
Pop(n) == nonces \ {n}

\* handleCallback, to the exchange: an answer with an error, or without a code,
\* uses the nonce up; an unknown nonce changes nothing
StartCallback(t) ==
  \E n \in nonces, answer \in {"error", "no code", "code"} :
    /\ tab[t] = IdleTab
    /\ nonces' = Pop(n)
    /\ ToTab(t, IF answer = "code" /\ n.until >= hour
                THEN [at |-> "exchange", nonce |-> n.id] ELSE IdleTab)
    /\ UNCHANGED <<link, connects, issued, revoked, pusher, hour, pushes, crossed, lost>>

\* getToken: it fails, or gives no refresh token, or a grant
Exchange(t) ==
  /\ tab[t].at = "exchange"
  /\ \/ ToTab(t, IdleTab) /\ UNCHANGED issued
     \/ /\ issued < MaxGrants
        /\ issued' = issued + 1
        /\ ToTab(t, [at |-> "save", nonce |-> tab[t].nonce, grant |-> issued + 1,
                     until |-> hour + AccessLife])
  /\ UNCHANGED <<link, nonces, connects, revoked, pusher, hour, pushes, crossed, lost>>

Busy == \/ link # {}
        \/ \E p \in Pushers : pusher[p].at # "idle"
        \/ \E t \in Tabs : tab[t].at \in {"revoke", "delete"}

\* upsertSingletonToken, which may fail
SaveLink(t) ==
  /\ tab[t].at = "save"
  /\ ToTab(t, IdleTab)
  /\ \/ /\ link' = link \cup {[grant |-> tab[t].grant, access |-> tab[t].grant,
                              until |-> tab[t].until]}
        /\ crossed' = (crossed \/ Busy)
        /\ UNCHANGED lost
     \/ lost' = TRUE /\ UNCHANGED <<link, crossed>>
  /\ UNCHANGED <<nonces, connects, issued, revoked, pusher, hour, pushes>>

\* disconnect: one of the rows is read, its token revoked, all rows deleted
StartDisconnect(t) ==
  \E row \in link :
    /\ tab[t] = IdleTab
    /\ ToTab(t, [at |-> "revoke", grant |-> row.grant])
    /\ UNCHANGED <<link, nonces, connects, issued, revoked, pusher, hour, pushes, crossed, lost>>

Revoke(t) ==
  /\ tab[t].at = "revoke"
  /\ ToTab(t, [at |-> "delete"])
  /\ \/ revoked' = revoked \cup {tab[t].grant} /\ UNCHANGED lost
     \/ lost' = TRUE /\ UNCHANGED revoked
  /\ UNCHANGED <<link, nonces, connects, issued, pusher, hour, pushes, crossed>>

DeleteLink(t) ==
  /\ tab[t].at = "delete"
  /\ link' = {}
  /\ ToTab(t, IdleTab)
  /\ UNCHANGED <<nonces, connects, issued, revoked, pusher, hour, pushes, crossed, lost>>

(* The client: getAuthorisedClient and the call it is for *)

ToPush(p, next) == pusher' = [pusher EXCEPT ![p] = next]

cachedStillFresh(row) == row.until - Buffer > hour

StartPush(p) ==
  \E row \in link :
    /\ pusher[p] = NoPush
    /\ pushes < MaxPushes
    /\ pushes' = pushes + 1
    /\ ToPush(p, [at |-> IF cachedStillFresh(row) THEN "call" ELSE "refresh", grant |-> row.grant,
                  token |-> row.access, until |-> row.until])
    /\ UNCHANGED <<link, nonces, connects, issued, revoked, tab, hour, crossed, lost>>

\* getAccessToken refreshes; it may throw, and does if the grant was revoked
Refresh(p) ==
  /\ pusher[p].at = "refresh"
  /\ \/ ToPush(p, NoPush)
     \/ /\ pusher[p].grant \notin revoked
        /\ ToPush(p, [pusher[p] EXCEPT !.at = "cache", !.token = pusher[p].grant,
                                       !.until = hour + AccessLife])
  /\ UNCHANGED <<link, nonces, connects, issued, revoked, tab, hour, pushes, crossed, lost>>

\* updateAccessTokenCache names no token: it writes to every row there is
CacheToken(p) ==
  /\ pusher[p].at = "cache"
  /\ link' = {[r EXCEPT !.access = pusher[p].token, !.until = pusher[p].until] : r \in link}
  /\ ToPush(p, [pusher[p] EXCEPT !.at = "call"])
  /\ UNCHANGED <<nonces, connects, issued, revoked, tab, hour, pushes, crossed, lost>>

Call(p) ==
  /\ pusher[p].at = "call"
  /\ ToPush(p, NoPush)
  /\ UNCHANGED <<link, nonces, connects, issued, revoked, tab, hour, pushes, crossed, lost>>

\* reapExpiredOAuthStates, at each tick of the sync worker
Reap ==
  /\ nonces' = {n \in nonces : n.until >= hour}
  /\ UNCHANGED <<link, connects, issued, revoked, tab, pusher, hour, pushes, crossed, lost>>

NextHour ==
  /\ hour < MaxHour
  /\ hour' = hour + 1
  /\ UNCHANGED <<link, nonces, connects, issued, revoked, tab, pusher, pushes, crossed, lost>>

LinkNext ==
  \/ buildConnectUrl \/ Reap \/ NextHour
  \/ \E t \in Tabs : \/ StartCallback(t) \/ Exchange(t) \/ SaveLink(t)
                     \/ StartDisconnect(t) \/ Revoke(t) \/ DeleteLink(t)
  \/ \E p \in Pushers : StartPush(p) \/ Refresh(p) \/ CacheToken(p) \/ Call(p)

LinkSpec == LinkInit /\ [][LinkNext]_linkVars

-----------------------------------------------------------------------------
\* A nonce opens one exchange only, however often Google's answer comes back
\* (popOAuthState).  While links are made one after the other, no call running
\* across the change: every call is made with a token of the linked grant, and
\* no grant is left alive but unused (disconnect, getAuthorisedClient); and the
\* row the comments call a singleton is one.
LinkSound ==
  /\ \A s, t \in Tabs : (s # t /\ tab[s].at = "exchange" /\ tab[t].at \in {"exchange", "save"})
                           => tab[s].nonce # tab[t].nonce
  /\ \A t \in Tabs, n \in nonces : tab[t].at \in {"exchange", "save"} => tab[t].nonce # n.id
  /\ ~crossed =>
       /\ Cardinality(link) <= 1
       /\ \A r \in link : r.access = r.grant
       /\ \A p \in Pushers : pusher[p].at = "call" => pusher[p].token = pusher[p].grant
       /\ \A g \in (1..issued) \ revoked :
            \/ lost
            \/ \E r \in link : r.grant = g
            \/ \E t \in Tabs : tab[t].at = "save" /\ tab[t].grant = g
=============================================================================
