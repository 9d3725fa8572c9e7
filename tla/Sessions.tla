----------------------------- MODULE Sessions -----------------------------
(***************************************************************************)
(* Refresh tokens (services/auth/refresh.js), the sign-in that issues the  *)
(* first of a line (services/auth/login.js), and the sub-admin accounts    *)
(* they stand for (services/sub_admin/management.js). Every query is a     *)
(* statement of its own: nothing here runs in a transaction except the     *)
(* replacement of an account's grants.                                     *)
(*                                                                         *)
(* An admin is an account that is never edited; a seller's session differs *)
(* only in the table its account is read from.                             *)
(***************************************************************************)
EXTENDS Naturals, Sequences, FiniteSets

CONSTANTS
  Subjects,               \* accounts, by e-mail address
  Visitors,               \* requests that may run at once
  MaxTokens, MaxLives, MaxKnocks   \* bounds: tokens, lives of an account, requests

ASSUME SessionsAssumption == {MaxTokens, MaxLives, MaxKnocks} \subseteq Nat

VARIABLES
  account,   \* sub_admins: [state, life, grants]; life: history, creations and
             \* restorations; grants: the life in which the modules were chosen
  token,     \* refresh_tokens: [of, revoked, next, expired]; line: history, the sign-in
  knock,     \* the requests
  forked,    \* history: lines with two rotations at once, or one cut short
  ended,     \* history: lines signed out or revoked with no rotation under way
  mixed,     \* history: accounts whose life changed under an edit or was cut short
  knocks

sessionVars == <<account, token, knock, forked, ended, mixed, knocks>>

Gone == [at |-> "idle"]

SessionsInit ==
  /\ account = [s \in Subjects |-> [state |-> "active", life |-> 1, grants |-> 1]]
  /\ token = <<>>
  /\ knock = [r \in Visitors |-> Gone]
  /\ forked = {} /\ ended = {} /\ mixed = {}
  /\ knocks = 0

Knock(r, next) ==
  /\ knocks < MaxKnocks
  /\ knocks' = knocks + 1
  /\ knock' = [knock EXCEPT ![r] = next]

Step(r, next) == knock' = [knock EXCEPT ![r] = next] /\ UNCHANGED knocks
StepTo(r, at) == Step(r, [knock[r] EXCEPT !.at = at])
Leave(r) == Step(r, Gone)

\* A line is named by its first token.
Lines == {token[i].line : i \in DOMAIN token}
LiveIn(l) == {i \in DOMAIN token : token[i].line = l /\ ~token[i].revoked}

\* Requests that will still act on a token of line l they found good.
Rotating(l) == {r \in Visitors : /\ knock[r].at \in {"load", "create", "retire"}
                                 /\ token[knock[r].row].line = l}

---------------------------------------------------------------------------
(* Signing in *)

\* login: the account is read, and must be active (the password is right).
login(r, s) ==
  /\ account[s].state = "active"
  /\ Knock(r, [at |-> "issue", of |-> s])
  /\ UNCHANGED <<account, token, forked, ended, mixed>>

Fresh(s, line) == [of |-> s, revoked |-> FALSE, next |-> 0, expired |-> FALSE, line |-> line]

issue(r) ==
  /\ knock[r].at = "issue"
  /\ Len(token) < MaxTokens
  /\ token' = Append(token, Fresh(knock[r].of, Len(token) + 1))
  /\ Leave(r)
  /\ UNCHANGED <<account, forked, ended, mixed>>

---------------------------------------------------------------------------
(* Rotation *)

MutReused(i) == FALSE   \* mutant: a token that was rotated is not noticed

\* A token presented again after it was rotated or signed out.
Reused(i) == token[i].revoked

\* rotateAndReissue: what the row was when it was read decides.
rotateAndReissue(r, i) ==
  /\ Knock(r, IF Reused(i) THEN [at |-> "revokeAll", row |-> i]
              ELSE IF token[i].expired THEN Gone
              ELSE [at |-> "load", row |-> i])
  /\ forked' = IF ~Reused(i) /\ ~token[i].expired /\ Rotating(token[i].line) # {}
               THEN forked \cup {token[i].line} ELSE forked
  /\ UNCHANGED <<account, token, ended, mixed>>

OfSubject(i) == {j \in DOMAIN token : token[j].of = token[i].of}

revokeAllForSubject(r) ==
  /\ knock[r].at = "revokeAll"
  /\ LET mine == OfSubject(knock[r].row)
         lines == {l \in Lines : /\ token[l].of = token[knock[r].row].of
                                 /\ Rotating(l) = {}}
     IN /\ token' = [j \in DOMAIN token |-> [token[j] EXCEPT !.revoked = @ \/ j \in mine]]
        /\ ended' = ended \cup lines
  /\ Leave(r)
  /\ UNCHANGED <<account, forked, mixed>>

\* loadSubject: an account that is not active drops the token.
loadSubject(r) ==
  /\ knock[r].at = "load"
  /\ LET active == account[token[knock[r].row].of].state = "active"
     IN StepTo(r, IF active THEN "create" ELSE "drop")
  /\ UNCHANGED <<account, token, forked, ended, mixed>>

CreateToken(r) ==
  /\ knock[r].at = "create"
  /\ Len(token) < MaxTokens
  /\ LET old == token[knock[r].row]
     IN token' = Append(token, Fresh(old.of, old.line))
  /\ Step(r, [at |-> "retire", row |-> knock[r].row, new |-> Len(token) + 1])
  /\ UNCHANGED <<account, forked, ended, mixed>>

\* UPDATE ... WHERE revoked_at IS NULL: a row revoked meanwhile keeps what it says.
Revoked(i, new) ==
  IF token[i].revoked THEN token
  ELSE [token EXCEPT ![i].revoked = TRUE, ![i].next = new]

Retire(r) ==
  /\ knock[r].at = "retire"
  /\ token' = Revoked(knock[r].row, knock[r].new)
  /\ Leave(r)
  /\ UNCHANGED <<account, forked, ended, mixed>>

---------------------------------------------------------------------------
(* Signing out, and the token of an account that is not active *)

revoke(r, i) ==
  /\ ~token[i].revoked
  /\ Knock(r, [at |-> "drop", row |-> i])
  /\ UNCHANGED <<account, token, forked, ended, mixed>>

Drop(r) ==
  /\ knock[r].at = "drop"
  /\ token' = Revoked(knock[r].row, 0)
  /\ LET l == token[knock[r].row].line
     IN ended' = IF Rotating(l) = {} /\ LiveIn(l) \subseteq {knock[r].row}
                 THEN ended \cup {l} ELSE ended
  /\ Leave(r)
  /\ UNCHANGED <<account, forked, mixed>>

ExpireToken(i) ==
  /\ ~token[i].expired
  /\ token' = [token EXCEPT ![i].expired = TRUE]
  /\ UNCHANGED <<account, knock, forked, ended, mixed, knocks>>

---------------------------------------------------------------------------
(* Accounts *)

\* create: the address must not be a live account's; a deleted one is brought
\* back under the same id, then its modules are replaced.
createSubAdmin(r, s) ==
  /\ account[s].state = "deleted"
  /\ account[s].life < MaxLives
  /\ Knock(r, [at |-> "restore", of |-> s])
  /\ UNCHANGED <<account, token, forked, ended, mixed>>

restoreSoftDeleted(r) ==
  /\ knock[r].at = "restore"
  /\ LET s == knock[r].of
         overlaps == \E q \in Visitors \ {r} :
                       knock[q].at \in {"restore", "grants"} /\ knock[q].of = s
     IN /\ account' = [account EXCEPT ![s].state = "active", ![s].life = @ + 1]
        /\ mixed' = IF overlaps THEN mixed \cup {s} ELSE mixed
        /\ Step(r, [at |-> "grants", of |-> s, life |-> account[s].life + 1])
  /\ UNCHANGED <<token, forked, ended>>

\* updateModules: the account is read, then the modules are replaced.
updateModules(r, s) ==
  /\ account[s].state # "deleted"
  /\ Knock(r, [at |-> "grants", of |-> s, life |-> account[s].life])
  /\ UNCHANGED <<account, token, forked, ended, mixed>>

Chosen(s, life) == life

replaceForSubAdmin(r) ==
  /\ knock[r].at = "grants"
  /\ account' = [account EXCEPT ![knock[r].of].grants = Chosen(knock[r].of, knock[r].life)]
  /\ Leave(r)
  /\ UNCHANGED <<token, forked, ended, mixed>>

\* update and remove: the account is read, then a statement writes what is not
\* deleted by then; nothing is done to the account's sessions.
setSubAdminActive(r, s, on) ==
  /\ account[s].state # "deleted"
  /\ Knock(r, [at |-> "setState", of |-> s, state |-> IF on THEN "active" ELSE "off"])
  /\ UNCHANGED <<account, token, forked, ended, mixed>>

removeSubAdmin(r, s) ==
  /\ account[s].state # "deleted"
  /\ Knock(r, [at |-> "setState", of |-> s, state |-> "deleted"])
  /\ UNCHANGED <<account, token, forked, ended, mixed>>

WriteState(r) ==
  /\ knock[r].at = "setState"
  /\ LET s == knock[r].of
     IN account' = IF account[s].state = "deleted" THEN account
                   ELSE [account EXCEPT ![s].state = knock[r].state]
  /\ Leave(r)
  /\ UNCHANGED <<token, forked, ended, mixed>>

\* A statement throws, or the process stops: what was written stays.
KnockFails(r) ==
  /\ forked' = IF knock[r].at = "retire" THEN forked \cup {token[knock[r].row].line} ELSE forked
  /\ mixed' = IF knock[r].at = "grants" THEN mixed \cup {knock[r].of} ELSE mixed
  /\ Leave(r)
  /\ UNCHANGED <<account, token, ended>>

SessionCall(r) ==
  \/ \E s \in Subjects : \/ login(r, s) \/ createSubAdmin(r, s) \/ updateModules(r, s)
                         \/ removeSubAdmin(r, s)
                         \/ \E on \in BOOLEAN : setSubAdminActive(r, s, on)
  \/ \E i \in DOMAIN token : rotateAndReissue(r, i) \/ revoke(r, i)

SessionWork(r) ==
  \/ issue(r) \/ revokeAllForSubject(r) \/ loadSubject(r) \/ CreateToken(r) \/ Retire(r)
  \/ Drop(r) \/ restoreSoftDeleted(r) \/ replaceForSubAdmin(r) \/ WriteState(r)
  \/ KnockFails(r)

SessionsNext ==
  \/ \E r \in Visitors : \/ knock[r] = Gone /\ SessionCall(r)
                         \/ knock[r] # Gone /\ SessionWork(r)
  \/ \E i \in DOMAIN token : ExpireToken(i)

SessionsSpec == SessionsInit /\ [][SessionsNext]_sessionVars

---------------------------------------------------------------------------
SessionsTypeOK ==
  /\ account \in [Subjects -> [state : {"active", "off", "deleted"}, life : Nat, grants : Nat]]
  /\ token \in Seq([of : Subjects, revoked : BOOLEAN, next : 0 .. MaxTokens,
                    expired : BOOLEAN, line : 1 .. MaxTokens])

\* A refresh token is single-use: a line has one good token, besides the
\* moment of its rotation, unless two rotations read the same token at once
\* (refresh.js:67-100) or one stopped between the new row and the old.
OneTokenPerLine ==
  \A l \in Lines \ forked : Rotating(l) = {} => Cardinality(LiveIn(l)) <= 1

\* "Session compromised": once a line is signed out, or a used token of its
\* account came back, no token of it is ever good again, unless a rotation
\* was under way.
EndedStaysEnded == \A l \in ended \ forked : LiveIn(l) = {}

\* A successor is a later token of the same line, and nobody else's.
SuccessorsFit ==
  \A i \in DOMAIN token : token[i].next # 0 =>
    /\ token[i].revoked /\ token[i].next > i
    /\ token[token[i].next].line = token[i].line
    /\ \A j \in DOMAIN token \ {i} : token[j].next # token[i].next

\* An account that was deleted and created again has the modules of its new
\* life (the rows of the old one are never deleted), unless the creation was
\* cut short or is under way, or an edit overlapped it.
GrantsOfThisLife ==
  \A s \in Subjects \ mixed :
    \/ account[s].grants = account[s].life
    \/ \E r \in Visitors : knock[r].at = "grants" /\ knock[r].of = s

\* What sessions and the accounts they stand for promise, in its four parts.
SessionsSound ==
  SessionsTypeOK /\ OneTokenPerLine /\ EndedStaysEnded /\ SuccessorsFit /\ GrantsOfThisLife
==========================================================================
