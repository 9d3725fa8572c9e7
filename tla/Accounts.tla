----------------------------- MODULE Accounts -----------------------------
(***************************************************************************)
(* The flows that one-time codes open: a seller registers and signs in     *)
(* (services/seller/auth.js), edits the profile, is edited, switched off   *)
(* and removed by an admin (services/admin/users.js), and an admin resets  *)
(* a password (services/auth/password_reset.js). The session a flow ends   *)
(* with is Sessions'.                                                      *)
(***************************************************************************)
EXTENDS OneTimeCodes

CONSTANTS
  Mobiles, NoMobile,   \* NoMobile: the _DEL_ placeholder of a removed seller
  Emails, NoEmail,     \* NoEmail: SQL NULL
  StaffMail,           \* addresses of admins and sub-admins
  MaxSellers           \* bound

VARIABLES
  seller,    \* sellers: [mobile, email, verified, active, deleted]; proven: history,
             \* the addresses a code was accepted for on behalf of the row
  password,  \* times the password of a staff account was reset
  doubled,   \* history: addresses that two drafts, or two writes, had at once
  rewritten  \* history: sellers whose address changed while they proved one, or later

accountVars == <<codeVars, seller, password, doubled, rewritten>>
accountOnly == <<seller, password, doubled, rewritten>>

AccountsInit ==
  /\ CodesInit
  /\ seller = <<>>
  /\ password = [s \in StaffMail |-> 0]
  /\ doubled = {}
  /\ rewritten = {}

LiveSellers == {i \in DOMAIN seller : ~seller[i].deleted}
findByMobile(m) == {i \in LiveSellers : seller[i].mobile = m}
findByEmail(e) == {i \in LiveSellers : seller[i].email = e}
findVerifiedByEmail(e) == {i \in findByEmail(e) : seller[i].verified}
findActiveVerifiedByEmail(e) == {i \in findVerifiedByEmail(e) : seller[i].active}

\* Codes are typed from a mail of the key, or wrong (0).
Typed(key) == {i \in DOMAIN code : code[i].key = key} \cup {0}

Proving(key, typed, then, i, was, e) ==
  [at |-> "verify", key |-> key, row |-> 0, typed |-> typed, then |-> then,
   seller |-> i, was |-> was, email |-> e]

\* Requests other than r about to write the address e.
Writing(r, e) == {q \in Patrons \ {r} : visit[q].at \in {"draft", "profile"} /\ visit[q].email = e}

---------------------------------------------------------------------------
(* Registration *)

\* EMAIL_TAKEN: the row that SELECT ... LIMIT 1 returns, one of possibly
\* several, is verified and another seller's.
EmailTaken(e, own) ==
  /\ findByEmail(e) # {}
  /\ \A i \in findByEmail(e) : seller[i].verified /\ i \notin own

registerStart(r, m, e) ==
  LET own == findByMobile(m)
  IN /\ \A i \in own : ~seller[i].verified
     /\ ~EmailTaken(e, own)
     /\ Visit(r, [at |-> "draft", mobile |-> m, email |-> e,
                  seller |-> IF own = {} THEN 0 ELSE CHOOSE i \in own : TRUE])
     /\ doubled' = IF \E i \in findByEmail(e) \ own : ~seller[i].verified
                   THEN doubled \cup {e} ELSE doubled
     /\ UNCHANGED <<code, shared, rushed, seller, password, rewritten>>

\* A draft that is still a draft is overwritten; a new one fails on a mobile
\* that was taken meanwhile. The code goes to the address just given.
WriteDraft(r) ==
  /\ visit[r].at = "draft"
  /\ LET i == visit[r].seller
         e == visit[r].email
         taken == i = 0 /\ findByMobile(visit[r].mobile) # {}
         hit == i # 0 /\ ~seller[i].deleted /\ ~seller[i].verified
     IN /\ i = 0 => taken \/ Len(seller) < MaxSellers
        /\ seller' = IF i = 0 /\ ~taken
                     THEN Append(seller, [mobile |-> visit[r].mobile, email |-> e,
                            verified |-> FALSE, active |-> TRUE, deleted |-> FALSE, proven |-> {}])
                     ELSE IF hit THEN [seller EXCEPT ![i].email = e] ELSE seller
        /\ rewritten' = IF hit /\ \E q \in Patrons \ {r} :
                             visit[q].at \in {"verify", "compare", "mark"} /\ visit[q].seller = i
                        THEN rewritten \cup {i} ELSE rewritten
        /\ doubled' = IF Writing(r, e) # {} THEN doubled \cup {e} ELSE doubled
        /\ Onward(r, IF taken THEN Away ELSE [at |-> "rates", key |-> <<"register", e>>])
  /\ UNCHANGED <<code, shared, rushed, visits, password>>

MutProofAddress(i, e) == e   \* mutant: the address in the request is checked, not the row's

\* The address whose code registerVerify asks for.
ProofAddress(i, e) == seller[i].email

\* registerVerify names the mobile; e stands for what else the client may send.
registerVerify(r, i, e, typed) ==
  /\ i \in LiveSellers
  /\ ProofAddress(i, e) # NoEmail
  /\ typed \in Typed(<<"register", ProofAddress(i, e)>>)
  /\ Visit(r, Proving(<<"register", ProofAddress(i, e)>>, typed, "mark", i,
                      seller[i].verified, ProofAddress(i, e)))
  /\ UNCHANGED <<code, shared, rushed, accountOnly>>

\* markVerified does not look at the address again.
MarkVerified(r) ==
  /\ visit[r].at = "mark"
  /\ LET i == visit[r].seller
     IN seller' = IF seller[i].deleted \/ visit[r].was THEN seller
                  ELSE [seller EXCEPT ![i].verified = TRUE,
                                      ![i].proven = @ \cup {visit[r].email}]
  /\ Onward(r, Away)
  /\ UNCHANGED <<code, shared, rushed, visits, password, doubled, rewritten>>

---------------------------------------------------------------------------
(* Signing in *)

\* One verified row is looked at, and must be active; so must one of the
\* address be. loginStart and loginVerify ask the same.
MaySignIn(e) ==
  /\ findActiveVerifiedByEmail(e) # {}
  /\ \E i \in findVerifiedByEmail(e) : seller[i].active

loginStart(r, e) ==
  /\ MaySignIn(e)
  /\ Visit(r, [at |-> "rates", key |-> <<"login", e>>])
  /\ UNCHANGED <<code, shared, rushed, accountOnly>>

loginVerify(r, e, typed) ==
  /\ MaySignIn(e)
  /\ typed \in Typed(<<"login", e>>)
  /\ \E i \in findActiveVerifiedByEmail(e) :
       Visit(r, Proving(<<"login", e>>, typed, "enter", i, TRUE, e))
  /\ UNCHANGED <<code, shared, rushed, accountOnly>>

Enter(r) ==
  /\ visit[r].at = "enter"
  /\ Onward(r, Away)
  /\ UNCHANGED <<code, shared, rushed, visits, accountOnly>>

---------------------------------------------------------------------------
(* Profiles *)

\* PUT /seller/profile and the admin's updateSeller, of a draft too: an address
\* that changes must be nobody else's; nobody proves it.
updateProfile(r, i, e) ==
  /\ i \in LiveSellers
  /\ e = NoEmail \/ e = seller[i].email \/ findByEmail(e) = {}
  /\ Visit(r, [at |-> "profile", seller |-> i, email |-> e])
  /\ UNCHANGED <<code, shared, rushed, accountOnly>>

WriteProfile(r) ==
  /\ visit[r].at = "profile"
  /\ LET i == visit[r].seller
         e == visit[r].email
     IN /\ seller' = IF seller[i].deleted THEN seller ELSE [seller EXCEPT ![i].email = e]
        /\ rewritten' = rewritten \cup {i}
        /\ doubled' = IF Writing(r, e) # {} THEN doubled \cup {e} ELSE doubled
  /\ Onward(r, Away)
  /\ UNCHANGED <<code, shared, rushed, visits, password>>

setSellerActive(r, i, on) ==
  /\ i \in LiveSellers
  /\ Visit(r, Away)
  /\ seller' = [seller EXCEPT ![i].active = on]
  /\ UNCHANGED <<code, shared, rushed, password, doubled, rewritten>>

\* removeSeller (without listings): the mobile is free again.
removeSeller(r, i) ==
  /\ i \in LiveSellers
  /\ Visit(r, Away)
  /\ seller' = [seller EXCEPT ![i].deleted = TRUE, ![i].active = FALSE, ![i].mobile = NoMobile]
  /\ UNCHANGED <<code, shared, rushed, password, doubled, rewritten>>

---------------------------------------------------------------------------
(* Password reset: whether the account is active is read first *)

requestReset(r, s) ==
  /\ Visit(r, [at |-> "rates", key |-> <<"reset", s>>])
  /\ UNCHANGED <<code, shared, rushed, accountOnly>>

completeReset(r, s, typed, known) ==
  /\ typed \in Typed(<<"reset", s>>)
  /\ Visit(r, Proving(<<"reset", s>>, typed, "password", 0, known, s))
  /\ UNCHANGED <<code, shared, rushed, accountOnly>>

SetPassword(r) ==
  /\ visit[r].at = "password"
  /\ password' = IF visit[r].was THEN [password EXCEPT ![visit[r].email] = @ + 1] ELSE password
  /\ Onward(r, Away)
  /\ UNCHANGED <<code, shared, rushed, visits, seller, doubled, rewritten>>

\* A statement throws, or the process stops: what was written stays.
VisitFails(r) ==
  /\ visit[r] # Away
  /\ Onward(r, Away)
  /\ UNCHANGED <<code, shared, rushed, visits, accountOnly>>

AccountCall(r) ==
  \/ \E m \in Mobiles, e \in Emails : registerStart(r, m, e)
  \/ \E i \in DOMAIN seller :
       \/ \E e \in Emails, typed \in 0 .. Len(code) : registerVerify(r, i, e, typed)
       \/ \E e \in Emails \cup {NoEmail} : updateProfile(r, i, e)
       \/ \E on \in BOOLEAN : setSellerActive(r, i, on)
       \/ removeSeller(r, i)
  \/ \E e \in Emails : \/ loginStart(r, e)
                       \/ \E typed \in 0 .. Len(code) : loginVerify(r, e, typed)
  \/ \E s \in StaffMail :
       \/ requestReset(r, s)
       \/ \E typed \in 0 .. Len(code), known \in BOOLEAN : completeReset(r, s, typed, known)

AccountWork(r) ==
  \/ CodeWork(r) /\ UNCHANGED accountOnly
  \/ WriteDraft(r) \/ MarkVerified(r) \/ Enter(r) \/ WriteProfile(r) \/ SetPassword(r)
  \/ VisitFails(r)

AccountsNext ==
  \/ \E r \in Patrons : \/ visit[r] = Away /\ AccountCall(r)
                        \/ visit[r] # Away /\ AccountWork(r)
  \/ PassTime /\ UNCHANGED accountOnly

AccountsSpec == AccountsInit /\ [][AccountsNext]_accountVars

---------------------------------------------------------------------------
AccountsTypeOK ==
  /\ CodesTypeOK
  /\ seller \in Seq([mobile : Mobiles \cup {NoMobile}, email : Emails \cup {NoEmail},
                     verified : BOOLEAN, active : BOOLEAN, deleted : BOOLEAN,
                     proven : SUBSET Emails])

\* Taken codes of a key.
Accepted(key) == {i \in DOMAIN code : code[i].key = key /\ code[i].taken > 0}

\* A verified seller proved the address of the row, unless the address was
\* changed while the proof ran or by a later edit of the profile.
VerifiedIsProven ==
  \A i \in DOMAIN seller \ rewritten : seller[i].verified => seller[i].email \in seller[i].proven

\* "This email is already linked to another account": two verified sellers
\* never share an address, unless two drafts had it at once (only verified
\* accounts are refused at the start, none at the end) or two requests wrote
\* it at once; and no two sellers share a mobile.
SellersDistinct ==
  \A i, j \in LiveSellers : i # j =>
    /\ seller[i].mobile # seller[j].mobile
    /\ seller[i].verified /\ seller[j].verified /\ seller[i].email = seller[j].email
       => seller[i].email \in doubled \cup {NoEmail}

\* A password is reset once per code.
ResetsArePaid ==
  \A s \in StaffMail :
    Accepted(<<"reset", s>>) \cap shared = {} => password[s] <= Cardinality(Accepted(<<"reset", s>>))

\* What the flows that codes open promise, the codes' own promises included.
AccountsSound == AccountsTypeOK /\ CodesSound /\ VerifiedIsProven /\ SellersDistinct /\ ResetsArePaid
==========================================================================
