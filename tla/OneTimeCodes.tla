--------------------------- MODULE OneTimeCodes ---------------------------
(***************************************************************************)
(* services/auth/otp.js: a code is issued for a key (purpose and address)  *)
(* within two rate limits, and verified against the latest open code of    *)
(* the key. A row is read, the code compared, and the attempt counted or   *)
(* the row consumed, in separate statements; so are the counts of the rate *)
(* limits and the insert.                                                  *)
(*                                                                         *)
(* The flows that use codes (Sellers) run on the same requests: a request  *)
(* carries in "then" what it does when the code is right.                  *)
(***************************************************************************)
EXTENDS Naturals, Sequences, FiniteSets

CONSTANTS
  Patrons,                 \* requests that may run at once
  MaxTries,                \* OTP_MAX_ATTEMPTS
  Minute, Ttl, Hour,       \* one minute, OTP_TTL_MINUTES and one hour, in ticks
  PerMinute, PerHour,      \* OTP_RATE_PER_MINUTE, OTP_RATE_PER_HOUR
  MaxCodes, MaxVisits      \* bounds: codes, requests ever made

ASSUME CodesAssumption ==
  /\ IsFiniteSet(Patrons)
  /\ {MaxTries, Minute, Ttl, Hour, PerMinute, PerHour} \subseteq Nat

VARIABLES
  code,     \* otp_codes: [key, tries, consumed, age]; taken: history, times accepted
  visit,    \* the requests
  shared,   \* history: codes that two verifications held at once
  rushed,   \* history: keys that two requests issued codes for at once
  visits

codeVars == <<code, visit, shared, rushed, visits>>

Away == [at |-> "idle"]

CodesInit ==
  /\ code = <<>>
  /\ visit = [r \in Patrons |-> Away]
  /\ shared = {}
  /\ rushed = {}
  /\ visits = 0

Visit(r, next) ==
  /\ visit[r] = Away
  /\ visits < MaxVisits
  /\ visits' = visits + 1
  /\ visit' = [visit EXCEPT ![r] = next]

Onward(r, next) == visit' = [visit EXCEPT ![r] = next]

\* Time passes; an age past the longest window does not matter.
AgeOn(n) == IF n < Hour THEN n + 1 ELSE n

Recent(key, window) == Cardinality({i \in DOMAIN code : code[i].key = key /\ code[i].age < window})

\* enforceRateLimits: the counts of the last minute and of the last hour.
WithinRates(key) == Recent(key, Minute) < PerMinute /\ Recent(key, Hour) < PerHour

CheckRates(r) ==
  /\ visit[r].at = "rates"
  /\ Onward(r, IF WithinRates(visit[r].key) THEN [visit[r] EXCEPT !.at = "issue"] ELSE Away)
  /\ rushed' = IF \E q \in Patrons \ {r} : visit[q].at = "issue" /\ visit[q].key = visit[r].key
               THEN rushed \cup {visit[r].key} ELSE rushed
  /\ UNCHANGED <<code, shared, visits>>

\* The row, then the mail; a mail that fails is queued (EmailOutbox).
IssueCode(r) ==
  /\ visit[r].at = "issue"
  /\ Len(code) < MaxCodes
  /\ code' = Append(code, [key |-> visit[r].key, tries |-> 0, consumed |-> FALSE, age |-> 0,
                           taken |-> 0])
  /\ Onward(r, Away)
  /\ UNCHANGED <<shared, rushed, visits>>

\* The latest code of the key that is neither consumed nor expired.
Open(key) == {i \in DOMAIN code : /\ code[i].key = key
                                  /\ ~code[i].consumed
                                  /\ code[i].age < Ttl}
findLatestUnconsumed(key) == {i \in Open(key) : \A j \in Open(key) : j <= i}

Locked(i) == code[i].tries >= MaxTries

\* verify: no open code, or one with its attempts used up, ends the request.
\* What was typed is the text of some code of the key.
LookUpCode(r) ==
  /\ visit[r].at = "verify"
  /\ LET found == {i \in findLatestUnconsumed(visit[r].key) : ~Locked(i)}
     IN /\ Onward(r, IF found = {} THEN Away
                     ELSE [visit[r] EXCEPT !.at = "compare", !.row = CHOOSE i \in found : TRUE])
        /\ shared' = shared \cup {i \in found : \E q \in Patrons \ {r} :
                                     visit[q].at = "compare" /\ visit[q].row = i}
  /\ UNCHANGED <<code, rushed, visits>>

WrongCode(r) ==
  /\ visit[r].at = "compare"
  /\ visit[r].typed # visit[r].row
  /\ code' = [code EXCEPT ![visit[r].row].tries = @ + 1]
  /\ Onward(r, Away)
  /\ UNCHANGED <<shared, rushed, visits>>

RightCode(r) ==
  /\ visit[r].at = "compare"
  /\ visit[r].typed = visit[r].row
  /\ code' = [code EXCEPT ![visit[r].row].consumed = TRUE, ![visit[r].row].taken = @ + 1]
  /\ Onward(r, [visit[r] EXCEPT !.at = visit[r].then])
  /\ UNCHANGED <<shared, rushed, visits>>

PassTime ==
  /\ \E i \in DOMAIN code : code[i].age < Hour
  /\ code' = [i \in DOMAIN code |-> [code[i] EXCEPT !.age = AgeOn(@)]]
  /\ UNCHANGED <<visit, shared, rushed, visits>>

CodeWork(r) == CheckRates(r) \/ IssueCode(r) \/ LookUpCode(r) \/ WrongCode(r) \/ RightCode(r)

---------------------------------------------------------------------------
CodesTypeOK ==
  /\ \A i \in DOMAIN code : /\ code[i].tries \in 0 .. MaxTries + Cardinality(Patrons)
                            /\ code[i].age \in 0 .. Hour
  /\ shared \subseteq DOMAIN code

\* A code lets one request through, and is tried at most MaxTries times,
\* unless verifications of it overlapped between the read and the write
\* (otp.js:147-164); a key gets no more codes in a minute and in an hour than
\* the limits say, unless requests for it overlapped.
CodesSound ==
  /\ \A i \in DOMAIN code \ shared :
       code[i].taken <= 1 /\ code[i].tries <= MaxTries
  /\ \A i \in DOMAIN code : code[i].key \notin rushed =>
       /\ Recent(code[i].key, Minute) <= PerMinute
       /\ Recent(code[i].key, Hour) <= PerHour
==========================================================================
