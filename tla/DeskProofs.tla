----------------------------- MODULE DeskProofs -----------------------------
(***************************************************************************)
(* Proofs about the back office: the gates of its routes, the connection   *)
(* pool, the e-mail settings and notices, stored files, imported contacts, *)
(* property forms, agreements, free slots, land records, and lists, cards  *)
(* and charts, for every number of requests, keys, rows and files.         *)
(***************************************************************************)
EXTENDS MCDesk, SumLemmas, SequenceTheorems

----------------------------------------
(* Gates.  A token never says more than was granted when it was issued, and  *)
(* "held" remembers until when each grant stood.                             *)

Levels == {"none", "read", "write"}

\* What is granted now is held until now, and nothing is held beyond.
HeldTillNow ==
  \A k \in Keys : /\ held[k].read <= now /\ held[k].write <= now
                  /\ grants[k] # "none" => held[k].read = now
                  /\ grants[k] = "write" => held[k].write = now

\* The modules a token lists were granted when it was issued, or later.
Listing(modules, since) ==
  \A i \in DOMAIN modules :
    /\ modules[i].module_key \in Keys
    /\ held[modules[i].module_key].read >= since
    /\ modules[i].access_level = "write" => held[modules[i].module_key].write >= since

TicketHonest ==
  /\ ticket.ends \in Int
  /\ \/ ticket = NoTicket
     \/ ticket.ends - TokenLife >= 0 /\ Listing(ticket.modules, ticket.ends - TokenLife)

GateInv == GateTypeOK /\ HeldTillNow /\ TicketHonest /\ EffectsGranted /\ ClearByPin

\* Every endpoint that answers in the clear goes through the PIN gate for it.
LEMMA ClearsArePinned == \A router \in Routers : router.clears \subseteq router.pinned
<1>1. \A m, g, s, a : Router(m, g, s, a).clears = {} /\ Router(m, g, s, a).pinned = {}
  BY DEF Router
<1>2. \A router \in {crmLeads, crmAllocations, crmAppointments} : router.clears \subseteq router.pinned
  BY DEF crmLeads, crmAllocations, crmAppointments, Router
<1>3. \A router \in {inventoryProperties, inventoryUnits, enquiryProperties, websiteProperties,
                     agreementReminders, leads, users, masters, keyPins, emailMaster, cms, associates,
                     phoneBook, documents, landRecords, subAdmins, auditLog} : router.clears = {}
  BY <1>1 DEF inventoryProperties, inventoryUnits, enquiryProperties, websiteProperties,
       agreementReminders, leads, users, masters, keyPins, emailMaster, cms, associates,
       phoneBook, documents, landRecords, subAdmins, auditLog
<1> QED BY <1>2, <1>3 DEF Routers

\* The gates' invariant holds at first: nothing is issued, and what is granted is held now.
LEMMA GateStarts == GateInit => GateInv
<1> SUFFICES ASSUME GateInit PROVE GateInv
  OBVIOUS
<1> USE GateAssumption DEF GateInit
<1>1. grants \in [Keys -> Levels]
  BY DEF Levels
<1>2. GateTypeOK
  BY <1>1 DEF GateTypeOK, Levels
<1>3. HeldTillNow
  BY <1>1 DEF HeldTillNow, Levels
<1>4. TicketHonest
  BY DEF TicketHonest, NoTicket
<1> QED BY <1>2, <1>3, <1>4 DEF GateInv, EffectsGranted, ClearByPin

\* When nothing is taken from "held", an honest token stays one.
LEMMA HonestStays ==
  ASSUME TicketHonest, GateTypeOK, GateTypeOK', UNCHANGED ticket,
         \A k \in Keys : held'[k].read >= held[k].read /\ held'[k].write >= held[k].write
  PROVE  TicketHonest'
<1>1. CASE ticket = NoTicket
  BY <1>1 DEF TicketHonest, NoTicket
<1>2. CASE Listing(ticket.modules, ticket.ends - TokenLife)
  <2> DEFINE since == ticket.ends - TokenLife
             modules == ticket.modules
  <2>1. since \in Int
    BY GateAssumption DEF TicketHonest
  <2>2. \A k \in Keys : /\ held[k].read \in Int /\ held[k].write \in Int
                        /\ held'[k].read \in Int /\ held'[k].write \in Int
    BY GateAssumption DEF GateTypeOK
  <2> HIDE DEF since, modules
  <2>3. Listing(modules, since)'
    BY <1>2, <2>1, <2>2 DEF Listing, since, modules
  <2> QED BY <1>2, <2>3 DEF TicketHonest, since, modules
<1> QED BY <1>1, <1>2 DEF TicketHonest

\* A token issued now lists what is granted now.
LEMMA IssueKeeps == ASSUME GateInv, reply = NoAnswer, Issue PROVE GateInv'
<1> USE GateAssumption
<1>1. PICK modules \in listForSubAdmin : ticket' = [modules |-> modules, ends |-> now + TokenLife]
  BY DEF Issue
<1>2. PICK order \in SetToAllKPermutations(Granted) \cap [1..Cardinality(Granted) -> Granted] :
        modules = [i \in DOMAIN order |-> [module_key |-> order[i], access_level |-> grants[order[i]]]]
  BY <1>1, Zenon DEF listForSubAdmin
<1>3. \A i \in DOMAIN modules : /\ modules[i].module_key \in Granted
                                /\ modules[i].access_level = grants[modules[i].module_key]
  BY <1>2
<1>4. now \in Nat /\ UNCHANGED <<now, grants, pinOn, edits, reply, held>>
  BY DEF Issue, GateInv, GateTypeOK
<1>5. (now + TokenLife) - TokenLife = now
  BY <1>4
<1>6. Listing(modules, now)'
  BY <1>3, <1>4 DEF Listing, Granted, GateInv, HeldTillNow
<1>7. TicketHonest'
  BY <1>1, <1>4, <1>5, <1>6 DEF TicketHonest
<1>8. GateTypeOK' /\ HeldTillNow' /\ EffectsGranted' /\ ClearByPin'
  BY <1>4 DEF GateInv, GateTypeOK, HeldTillNow, EffectsGranted, HeldLately, ClearByPin
<1> QED BY <1>7, <1>8 DEF GateInv

\* A change of grants: what is taken back was held until now.
LEMMA ReplaceKeeps ==
  ASSUME GateInv, reply = NoAnswer, NEW k \in Keys, NEW level \in Levels, ReplaceGrants(k, level)
  PROVE  GateInv'
<1> USE GateAssumption DEF GateInv
<1>1. GateTypeOK'
  <2>1. now \in 0..MaxNow /\ now \in -1..MaxNow /\ held[k] \in [read : -1..MaxNow, write : -1..MaxNow]
    BY DEF GateTypeOK
  <2> DEFINE new == [read |-> IF level # "none" \/ grants[k] # "none" THEN now ELSE held[k].read,
                     write |-> IF level = "write" \/ grants[k] = "write" THEN now ELSE held[k].write]
  <2>2. new \in [read : -1..MaxNow, write : -1..MaxNow]
    BY <2>1
  <2>3. /\ held' = [held EXCEPT ![k] = [[@ EXCEPT !.read = new.read] EXCEPT !.write = new.write]]
        /\ [[held[k] EXCEPT !.read = new.read] EXCEPT !.write = new.write] = new
    <3>1. held = [m \in Keys |-> held[m]]
      BY DEF GateTypeOK
    <3>2. held' = [m \in Keys |-> IF m = k THEN [[held[k] EXCEPT !.read = new.read] EXCEPT !.write = new.write]
                                          ELSE held[m]]
      BY <2>1, <3>1 DEF ReplaceGrants
    <3> QED BY <2>1, <3>1, <3>2
  <2>4. held' \in [Keys -> [read : -1..MaxNow, write : -1..MaxNow]]
    <3>1. held' = [held EXCEPT ![k] = new]
      BY <2>3
    <3> HIDE DEF new
    <3> QED BY <2>2, <3>1 DEF GateTypeOK
  <2>5. grants' \in [Keys -> {"none", "read", "write"}]
    BY DEF GateTypeOK, ReplaceGrants, Levels
  <2>6. edits' \in 0..MaxEdits
    BY DEF GateTypeOK, ReplaceGrants
  <2> QED BY <2>4, <2>5, <2>6 DEF GateTypeOK, ReplaceGrants
<1>2. \A m \in Keys : /\ held'[m].read = IF m = k /\ (level # "none" \/ grants[k] # "none")
                                         THEN now ELSE held[m].read
                      /\ held'[m].write = IF m = k /\ (level = "write" \/ grants[k] = "write")
                                          THEN now ELSE held[m].write
  BY DEF GateTypeOK, ReplaceGrants
<1>3. \A m \in Keys : held[m].read \in Int /\ held[m].write \in Int /\ now \in Int
  BY DEF GateTypeOK
<1>4. now' = now /\ grants' = [grants EXCEPT ![k] = level] /\ grants \in [Keys -> Levels]
  BY DEF ReplaceGrants, GateTypeOK, Levels
<1>5. HeldTillNow'
  BY <1>2, <1>3, <1>4 DEF HeldTillNow
<1>6. TicketHonest'
  <2>1. \A m \in Keys : held'[m].read >= held[m].read /\ held'[m].write >= held[m].write
    BY <1>2, <1>3 DEF HeldTillNow
  <2>2. UNCHANGED ticket
    BY DEF ReplaceGrants
  <2> QED BY <1>1, <2>1, <2>2, HonestStays
<1>7. EffectsGranted' /\ ClearByPin'
  BY DEF ReplaceGrants, EffectsGranted, ClearByPin
<1> QED BY <1>1, <1>5, <1>6, <1>7

\* A second goes by, and what is granted is held on.
LEMMA ClockKeeps == ASSUME GateInv, reply = NoAnswer, ClockTick PROVE GateInv'
<1> USE GateAssumption DEF GateInv
<1>1. \A m \in Keys : held[m].read \in -1..MaxNow /\ held[m].write \in -1..MaxNow
  BY DEF GateTypeOK
<1>2. now \in Nat /\ now' = now + 1 /\ now + 1 <= MaxNow /\ UNCHANGED <<grants, ticket, pinOn, edits, reply>>
  BY DEF GateTypeOK, ClockTick
<1>3. held' = [k \in Keys |->
         [read |-> IF grants[k] # "none" THEN now + 1 ELSE held[k].read,
          write |-> IF grants[k] = "write" THEN now + 1 ELSE held[k].write]]
  BY DEF ClockTick
<1>4. GateTypeOK'
  BY <1>1, <1>2, <1>3 DEF GateTypeOK
<1>5. HeldTillNow'
  BY <1>1, <1>2, <1>3 DEF HeldTillNow
<1>6. TicketHonest'
  BY <1>1, <1>2, <1>3, <1>4, HonestStays DEF HeldTillNow
<1>7. EffectsGranted' /\ ClearByPin'
  BY <1>2 DEF EffectsGranted, ClearByPin
<1> QED BY <1>4, <1>5, <1>6, <1>7

\* What passes the gates was held within the life of the token shown.
LEMMA RequestKeeps ==
  ASSUME GateInv, reply = NoAnswer, NEW router \in Routers, NEW unmasked \in BOOLEAN,
         NEW endpoint \in router.gets \cup router.sends, Request(router, endpoint, unmasked)
  PROVE  GateInv'
<1> USE GateAssumption DEF GateInv
<1>1. UNCHANGED <<now, grants, ticket, pinOn, edits, held>>
  BY DEF Request
<1>2. GateTypeOK' /\ HeldTillNow' /\ TicketHonest'
  BY <1>1 DEF GateTypeOK, HeldTillNow, TicketHonest, Listing
<1> DEFINE passes == Authenticated /\ Passes(router, endpoint) /\ PinPasses(router, endpoint, unmasked)
<1>3. CASE ~passes
  <2>1. reply' = [module |-> "any", effect |-> "refused", clear |-> FALSE, pin |-> pinOn]
    BY <1>3 DEF Request
  <2>2. EffectsGranted' /\ ClearByPin'
    BY <2>1 DEF EffectsGranted, ClearByPin
  <2> QED BY <1>2, <2>2
<1>4. CASE passes
  <2>1. reply' = [module |-> router.module,
                  effect |-> IF endpoint \in router.sends \ router.asks THEN "write" ELSE "read",
                  clear |-> unmasked /\ endpoint \in router.clears, pin |-> pinOn]
    BY <1>4 DEF Request
  <2>2. ClearByPin'
    BY <1>4, <2>1, ClearsArePinned DEF ClearByPin, PinPasses
  <2> DEFINE since == ticket.ends - TokenLife
             modules == ticket.modules
  <2>3. since \in Nat /\ now < ticket.ends /\ Listing(modules, since) /\ ticket.ends \in Int /\ now \in Nat
    BY <1>4 DEF TicketHonest, Authenticated, GateTypeOK
  <2>4. now - TokenLife <= since
    BY <2>3
  <2>5. \A key \in Keys : held[key].read \in Int /\ held[key].write \in Int
    BY DEF GateTypeOK
  <2> HIDE DEF since
  <2>6. \A module : hasGrant(modules, module, "read") => HeldLately(module, "read")
    <3> SUFFICES ASSUME NEW module, hasGrant(modules, module, "read") PROVE HeldLately(module, "read")
      OBVIOUS
    <3>1. PICK i \in DOMAIN modules : entryImpliesKey(modules[i].module_key, module)
      BY DEF hasGrant
    <3> DEFINE key == modules[i].module_key
    <3>2. key \in Keys /\ held[key].read >= since
      BY <2>3, <3>1 DEF Listing
    <3> HIDE DEF modules
    <3> QED BY <2>3, <2>4, <2>5, <3>1, <3>2 DEF HeldLately
  <2>7. \A module : hasGrant(modules, module, "write") => HeldLately(module, "write")
    <3> SUFFICES ASSUME NEW module, hasGrant(modules, module, "write") PROVE HeldLately(module, "write")
      OBVIOUS
    <3>1. PICK i \in DOMAIN modules : /\ entryImpliesKey(modules[i].module_key, module)
                                      /\ modules[i].access_level = "write"
      BY DEF hasGrant
    <3> DEFINE key == modules[i].module_key
    <3>2. key \in Keys /\ held[key].write >= since
      BY <2>3, <3>1 DEF Listing
    <3> HIDE DEF modules
    <3> QED BY <2>3, <2>4, <2>5, <3>1, <3>2 DEF HeldLately
  <2>8. \A module, level : HeldLately(module, level)' <=> HeldLately(module, level)
    BY <1>1 DEF HeldLately
  <2>9. EffectsGranted'
    <3>1. HeldLately(router.module, "read")
      BY <1>4, <2>6 DEF Passes
    <3>2. endpoint \in router.sends => HeldLately(router.module, "write")
      BY <1>4, <2>7 DEF Passes
    <3>3. reply'.module = router.module /\ (reply'.effect = "write" => endpoint \in router.sends)
      BY <2>1
    <3>4. HeldLately(router.module, "read")' /\ (endpoint \in router.sends => HeldLately(router.module, "write")')
      BY <3>1, <3>2, <2>8
    <3> QED BY <3>3, <3>4 DEF EffectsGranted
  <2> QED BY <1>2, <2>2, <2>9
<1> QED BY <1>3, <1>4

\* Every step at the gates keeps their invariant.
LEMMA GateSteps == GateInv /\ (GateNext \/ UNCHANGED gateVars) => GateInv'
<1> SUFFICES ASSUME GateInv, GateNext \/ UNCHANGED gateVars PROVE GateInv'
  OBVIOUS
<1>1. CASE UNCHANGED gateVars
  BY <1>1 DEF gateVars, GateInv, GateTypeOK, HeldTillNow, TicketHonest, Listing, EffectsGranted,
              HeldLately, ClearByPin
<1>2. CASE EndRequest
  BY <1>2 DEF EndRequest, GateInv, GateTypeOK, HeldTillNow, TicketHonest, Listing, EffectsGranted, ClearByPin
<1>3. CASE reply = NoAnswer /\ Issue
  BY <1>3, IssueKeeps
<1>4. CASE reply = NoAnswer /\ TogglePin
  BY <1>4, GateAssumption
     DEF TogglePin, GateInv, GateTypeOK, HeldTillNow, TicketHonest, Listing, EffectsGranted, ClearByPin
<1>5. CASE reply = NoAnswer /\ ClockTick
  BY <1>5, ClockKeeps
<1>6. ASSUME NEW k \in Keys, NEW level \in Levels, reply = NoAnswer, ReplaceGrants(k, level) PROVE GateInv'
  BY <1>6, ReplaceKeeps
<1>7. ASSUME NEW router \in Routers, NEW unmasked \in BOOLEAN,
             NEW endpoint \in router.gets \cup router.sends, reply = NoAnswer,
             Request(router, endpoint, unmasked)
      PROVE  GateInv'
  BY <1>7, RequestKeeps
<1> QED BY <1>1, <1>2, <1>3, <1>4, <1>5, <1>6, <1>7 DEF GateNext, Levels

----------------------------------------
(* The connection pool.  How many connections a request holds is a matter of *)
(* how far it got, and whoever waits is at a step that asks for one.         *)

LentAt(r, place) == IF place \in {0, 1, 3} THEN 0 ELSE IF r \in Bookers /\ place = 5 THEN 2 ELSE 1
NextPlace(r, place) == IF place = Len(Script(r)) THEN 0 ELSE place + 1
Asks(r) == at[r] # 0 /\ Script(r)[at[r]] = "get"
LineAsks == \A i \in DOMAIN line : Asks(line[i])
PlacesFit == \A r \in Callers : at[r] \in 0..Len(Script(r))

PoolInv ==
  /\ PoolTypeOK /\ PoolSound /\ line \in Seq(Callers)
  /\ PlacesFit /\ LineAsks

\* A step that asks leads to a place with one connection more, one that gives
\* back to a place with one less.
LEMMA ScriptSteps ==
  ASSUME NEW r \in Callers, NEW place \in 0..Len(Script(r)), place # 0
  PROVE  /\ NextPlace(r, place) \in 0..Len(Script(r)) /\ NextPlace(r, place) \in 0..6
         /\ Len(Script(r)) <= 6 /\ LentAt(r, place) \in 0..2
         /\ Script(r)[place] = "get" =>
              LentAt(r, NextPlace(r, place)) = LentAt(r, place) + 1 /\ LentAt(r, place) <= 1
         /\ Script(r)[place] = "release" =>
              LentAt(r, NextPlace(r, place)) = LentAt(r, place) - 1 /\ LentAt(r, place) >= 1
<1>1. CASE r \in Bookers
  <2>1. /\ Len(Script(r)) = 6
        /\ Script(r)[1] = "get" /\ Script(r)[2] = "release" /\ Script(r)[3] = "get"
        /\ Script(r)[4] = "get" /\ Script(r)[5] = "release" /\ Script(r)[6] = "release"
    BY <1>1 DEF Script
  <2>2. place \in {1, 2, 3, 4, 5, 6}
    BY <2>1
  <2> QED BY <1>1, <2>1, <2>2 DEF NextPlace, LentAt
<1>2. CASE r \notin Bookers
  <2>1. Len(Script(r)) = 2 /\ Script(r)[1] = "get" /\ Script(r)[2] = "release"
    BY <1>2 DEF Script
  <2>2. place \in {1, 2}
    BY <2>1
  <2> QED BY <1>2, <2>1, <2>2 DEF NextPlace, LentAt
<1> QED BY <1>1, <1>2

\* Nothing is open, lent or waited for at first.
LEMMA PoolStarts == PoolInit => PoolInv
<1> SUFFICES ASSUME PoolInit PROVE PoolInv
  OBVIOUS
<1> USE LimitAssumption DEF PoolInit
<1>1. SumFunction(lent) = 0
  BY SumZero DEF SumFunction
<1>2. PoolTypeOK
  BY DEF PoolTypeOK, IsInjective, Range
<1>3. PoolSound
  BY <1>1 DEF PoolSound
<1>4. PlacesFit
  BY DEF PlacesFit, Script
<1> QED BY <1>2, <1>3, <1>4 DEF PoolInv, LineAsks

\* The place of one request and its connections change together; what it takes
\* comes from the pool, and what it gives back goes there.
LEMMA LedgerKeeps ==
  ASSUME PoolInv, NEW r \in Callers, NEW place \in 0..6, place \in 0..Len(Script(r)),
         at' = [at EXCEPT ![r] = place], lent' = [lent EXCEPT ![r] = LentAt(r, place)],
         opened' \in 0..Limit, idle' \in Int, idle' >= 0,
         idle' - opened' = idle - opened + lent[r] - LentAt(r, place)
  PROVE  /\ SumFunction(lent') + idle' = opened'
         /\ at' \in [Callers -> 0..6] /\ lent' \in [Callers -> 0..2] /\ idle' \in 0..Limit
         /\ \A s \in Callers : at'[s] \in 0..Len(Script(s)) /\ lent'[s] = LentAt(s, at'[s])
<1> USE LimitAssumption
<1>1. at \in [Callers -> 0..6] /\ lent \in [Callers -> 0..2] /\ opened \in 0..Limit /\ idle \in 0..Limit
  BY DEF PoolInv, PoolTypeOK
<1>2. LentAt(r, place) \in 0..2
  BY DEF LentAt
<1>3. at' \in [Callers -> 0..6] /\ lent' \in [Callers -> 0..2]
  BY <1>1, <1>2
<1>4. \A s \in Callers : at'[s] \in 0..Len(Script(s)) /\ lent'[s] = LentAt(s, at'[s])
  <2>1. \A s \in Callers : at[s] \in 0..Len(Script(s)) /\ lent[s] = LentAt(s, at[s])
    BY DEF PoolInv, PlacesFit, PoolSound, LentAt
  <2> QED BY <1>1, <2>1
<1>5. SumFunction(lent') = SumFunction(lent) + LentAt(r, place) - lent[r]
  <2>1. SumFunctionOnSet(lent', Callers) = SumFunctionOnSet(lent, Callers) + lent'[r] - lent[r]
    <3>1. /\ \A x \in Callers : lent[x] \in Int
          /\ lent'[r] \in Int /\ \A x \in Callers \ {r} : lent'[x] = lent[x]
      BY <1>1, <1>3
    <3>2. \A f, g : /\ \A x \in Callers : f[x] \in Int
                    /\ g[r] \in Int /\ \A x \in Callers \ {r} : g[x] = f[x]
             => SumFunctionOnSet(g, Callers) = SumFunctionOnSet(f, Callers) + g[r] - f[r]
      BY SumChange
    <3> QED BY <3>1, <3>2
  <2>2. DOMAIN lent = Callers /\ DOMAIN lent' = Callers /\ lent'[r] = LentAt(r, place)
    BY <1>1
  <2> QED BY <2>1, <2>2 DEF SumFunction
<1>6. SumFunction(lent) + idle = opened /\ SumFunction(lent) \in Int
  <2>1. SumFunctionOnSet(lent, Callers) \in Int /\ DOMAIN lent = Callers
    BY <1>1, SumType
  <2> QED BY <2>1 DEF PoolInv, PoolSound, SumFunction
<1>7. SumFunction(lent') + idle' = opened'
  <2>1. lent[r] \in Int /\ LentAt(r, place) \in Int /\ opened \in Int /\ idle \in Int /\ opened' \in Int
    BY <1>1, <1>2
  <2>2. SumFunction(lent') = SumFunction(lent) + LentAt(r, place) - lent[r]
    BY <1>5
  <2>3. SumFunction(lent) \in Int /\ SumFunction(lent) + idle = opened
    BY <1>6
  <2>4. idle' - opened' = idle - opened + lent[r] - LentAt(r, place) /\ idle' \in Int
    OBVIOUS
  <2> QED BY ONLY <2>1, <2>2, <2>3, <2>4
<1>8. SumFunctionOnSet(lent', Callers) \in Nat /\ DOMAIN lent' = Callers
  <2>1. \A f \in [Callers -> 0..2] : SumFunctionOnSet(f, Callers) \in Nat
    BY SumNat
  <2> QED BY <1>3, <2>1
<1>9. idle' \in 0..Limit
  BY <1>7, <1>8 DEF SumFunction
<1> QED BY <1>3, <1>4, <1>7, <1>9

\* A request that does not wait moves on, and the line stays as it is.
LEMMA LineStays ==
  ASSUME PoolInv, NEW r \in Callers, ~Waiting(r), UNCHANGED line, NEW place,
         at' = [at EXCEPT ![r] = place]
  PROVE  /\ IsInjective(line') /\ Range(line') \subseteq Callers /\ line' \in Seq(Callers)
         /\ LineAsks'
<1>1. \A i \in DOMAIN line : line[i] # r /\ line[i] \in Callers /\ Asks(line[i])
  BY DEF PoolInv, PoolTypeOK, LineAsks, Waiting, Range
<1>2. \A s \in Callers \ {r} : at'[s] = at[s]
  BY DEF PoolInv, PoolTypeOK
<1>3. \A i \in DOMAIN line : at[line[i]] # 0 /\ Script(line[i])[at[line[i]]] = "get"
  BY <1>1 DEF Asks
<1>4. \A i \in DOMAIN line' : at'[line'[i]] # 0 /\ Script(line'[i])[at'[line'[i]]] = "get"
  BY <1>1, <1>2, <1>3
<1>5. IsInjective(line') /\ Range(line') \subseteq Callers /\ line' \in Seq(Callers)
  BY DEF PoolInv, PoolTypeOK
<1> QED BY <1>4, <1>5 DEF LineAsks, Asks

\* Whoever stands at a step that gives back does not wait.
LEMMA GiversDoNotWait ==
  ASSUME PoolInv, NEW r \in Callers, ~Asks(r)
  PROVE  ~Waiting(r)
BY DEF PoolInv, LineAsks, Waiting, Range

\* A request asks for a connection: an idle one, a new one, or it waits.
LEMMA GetKeeps == ASSUME PoolInv, NEW r \in Callers, GetConnection(r) PROVE PoolInv'
<1> USE LimitAssumption
<1>1. /\ opened \in 0..Limit /\ idle \in 0..Limit /\ opened \in Int /\ idle \in Int
      /\ at \in [Callers -> 0..6] /\ lent \in [Callers -> 0..2]
  BY DEF PoolInv, PoolTypeOK
<1>2. /\ at[r] \in 0..Len(Script(r)) /\ at[r] # 0 /\ Script(r)[at[r]] = "get" /\ ~Waiting(r)
      /\ lent[r] = LentAt(r, at[r])
  BY DEF GetConnection, PoolInv, PlacesFit, PoolSound, LentAt
<1>3. CASE idle = 0 /\ opened = Limit
  <2>1. line' = Append(line, r) /\ UNCHANGED <<at, lent, opened, idle>>
    BY <1>3 DEF GetConnection
  <2>2. /\ line \in Seq(Callers) /\ DOMAIN line = 1..Len(line) /\ Len(line) \in Nat
        /\ \A i \in DOMAIN line : line[i] \in Callers /\ line[i] # r /\ Asks(line[i])
    BY <1>2 DEF PoolInv, LineAsks, Waiting, Range
  <2>3. /\ line' \in Seq(Callers) /\ DOMAIN line' = 1..(Len(line) + 1)
        /\ \A i \in DOMAIN line' : line'[i] = IF i = Len(line) + 1 THEN r ELSE line[i]
    BY <2>1, <2>2
  <2>4. IsInjective(line')
    <3>1. \A i, j \in DOMAIN line : line[i] = line[j] => i = j
      BY DEF PoolInv, PoolTypeOK, IsInjective
    <3>2. ASSUME NEW i \in DOMAIN line', NEW j \in DOMAIN line', line'[i] = line'[j] PROVE i = j
      <4>1. CASE i \in DOMAIN line /\ j \in DOMAIN line
        BY <2>2, <2>3, <3>1, <3>2, <4>1
      <4>2. CASE ~(i \in DOMAIN line /\ j \in DOMAIN line)
        BY <2>2, <2>3, <3>2, <4>2
      <4> QED BY <4>1, <4>2
    <3> QED BY <3>2 DEF IsInjective
  <2>5. Range(line') \subseteq Callers
    BY <2>2, <2>3 DEF Range
  <2>6. \A i \in DOMAIN line' : at[line'[i]] # 0 /\ Script(line'[i])[at[line'[i]]] = "get"
    BY <1>2, <2>2, <2>3 DEF Asks
  <2>7. LineAsks'
    BY <2>1, <2>6 DEF Asks, LineAsks
  <2>8. PlacesFit'
    BY <2>1 DEF PoolInv, PlacesFit
  <2>9. PoolTypeOK'
    BY <1>1, <2>1, <2>4, <2>5 DEF PoolTypeOK
  <2>10. PoolSound'
    BY <1>3, <2>1 DEF PoolInv, PoolSound
  <2> QED BY <2>3, <2>7, <2>8, <2>9, <2>10 DEF PoolInv
<1>4. CASE ~(idle = 0 /\ opened = Limit)
  <2> DEFINE place == NextPlace(r, at[r])
  <2>1. /\ place \in 0..6 /\ place \in 0..Len(Script(r))
        /\ LentAt(r, place) = lent[r] + 1
    BY <1>2, ScriptSteps
  <2>2. at' = [at EXCEPT ![r] = place] /\ lent' = [lent EXCEPT ![r] = LentAt(r, place)] /\ UNCHANGED line
    BY <1>1, <1>4, <2>1 DEF GetConnection, Next_, NextPlace
  <2>3. IF idle > 0 THEN idle' = idle - 1 /\ opened' = opened ELSE opened' = opened + 1 /\ idle' = idle
    BY <1>4 DEF GetConnection
  <2>4. /\ opened' \in 0..Limit /\ idle' \in Int /\ idle' >= 0
        /\ idle' - opened' = idle - opened - 1
    BY <1>1, <1>4, <2>3
  <2>5. idle' - opened' = idle - opened + lent[r] - LentAt(r, place)
    <3>1. lent[r] \in Int
      BY <1>1
    <3> HIDE DEF place
    <3>2. LentAt(r, place) = lent[r] + 1 /\ opened \in Int /\ idle \in Int
      BY <1>1, <2>1
    <3>3. idle' - opened' = idle - opened - 1
      BY <2>4
    <3> QED BY ONLY <3>1, <3>2, <3>3
  <2> HIDE DEF place
  <2>6. /\ SumFunction(lent') + idle' = opened'
        /\ at' \in [Callers -> 0..6] /\ lent' \in [Callers -> 0..2] /\ idle' \in 0..Limit
        /\ \A s \in Callers : at'[s] \in 0..Len(Script(s)) /\ lent'[s] = LentAt(s, at'[s])
    BY <2>1, <2>2, <2>4, <2>5, LedgerKeeps
  <2>7. /\ IsInjective(line') /\ Range(line') \subseteq Callers /\ line' \in Seq(Callers)
        /\ LineAsks'
    BY <1>2, <2>2, LineStays
  <2>8. line = << >>
    BY <1>4 DEF PoolInv, PoolSound
  <2>9. PoolTypeOK'
    BY <2>4, <2>6, <2>7 DEF PoolTypeOK
  <2>10. PoolSound'
    BY <2>2, <2>6, <2>8 DEF PoolSound, LentAt
  <2> QED BY <2>6, <2>7, <2>9, <2>10 DEF PoolInv, PlacesFit
<1> QED BY <1>3, <1>4

\* A connection is given back, and nobody waits for it.
LEMMA GiveKeeps ==
  ASSUME PoolInv, NEW r \in Callers, ReleaseConnection(r), Successor = {}
  PROVE  PoolInv'
<1> USE LimitAssumption
<1>1. /\ opened \in 0..Limit /\ idle \in 0..Limit /\ opened \in Int /\ idle \in Int
      /\ at \in [Callers -> 0..6] /\ lent \in [Callers -> 0..2]
  BY DEF PoolInv, PoolTypeOK
<1>2. /\ at[r] \in 0..Len(Script(r)) /\ at[r] # 0 /\ Script(r)[at[r]] = "release"
      /\ lent[r] = LentAt(r, at[r])
  BY DEF ReleaseConnection, PoolInv, PlacesFit, PoolSound, LentAt
<1> DEFINE place == NextPlace(r, at[r])
<1>3. /\ place \in 0..6 /\ place \in 0..Len(Script(r))
      /\ LentAt(r, place) = lent[r] - 1
  BY <1>2, ScriptSteps
<1>4. /\ at' = [at EXCEPT ![r] = place] /\ lent' = [lent EXCEPT ![r] = LentAt(r, place)]
      /\ UNCHANGED line /\ idle' = idle + 1 /\ opened' = opened
  BY <1>1, <1>3 DEF ReleaseConnection, Next_, NextPlace
<1>5. idle' - opened' = idle - opened + lent[r] - LentAt(r, place)
  <2>1. lent[r] \in Int
    BY <1>1
  <2> HIDE DEF place
  <2> QED BY <1>1, <1>3, <1>4, <2>1
<1>6. opened' \in 0..Limit /\ idle' \in Int /\ idle' >= 0
  BY <1>1, <1>4
<1> HIDE DEF place
<1>7. /\ SumFunction(lent') + idle' = opened'
      /\ at' \in [Callers -> 0..6] /\ lent' \in [Callers -> 0..2] /\ idle' \in 0..Limit
      /\ \A s \in Callers : at'[s] \in 0..Len(Script(s)) /\ lent'[s] = LentAt(s, at'[s])
  BY <1>3, <1>4, <1>5, <1>6, LedgerKeeps
<1>8. ~Waiting(r)
  BY <1>2, GiversDoNotWait DEF Asks
<1>9. /\ IsInjective(line') /\ Range(line') \subseteq Callers /\ line' \in Seq(Callers)
      /\ LineAsks'
  BY <1>4, <1>8, LineStays
<1>10. line = << >>
  <2>1. 1 \notin DOMAIN line
    BY DEF Successor
  <2> QED BY <2>1 DEF PoolInv
<1>11. PoolTypeOK'
  BY <1>6, <1>7, <1>9 DEF PoolTypeOK
<1>12. PoolSound'
  BY <1>4, <1>7, <1>10 DEF PoolSound, LentAt
<1> QED BY <1>7, <1>9, <1>11, <1>12 DEF PoolInv, PlacesFit

\* A connection is given back and goes on to the first of the line.
LEMMA PassOnKeeps ==
  ASSUME PoolInv, NEW r \in Callers, ReleaseConnection(r), Successor # {}
  PROVE  PoolInv'
<1> USE LimitAssumption
<1>1. PICK s \in Successor :
        /\ at' = [at EXCEPT ![r] = Next_(r), ![s] = Next_(s)]
        /\ lent' = [lent EXCEPT ![r] = @ - 1, ![s] = @ + 1]
        /\ line' = Tail(line)
        /\ UNCHANGED <<opened, idle>>
  BY DEF ReleaseConnection
<1>2. /\ at \in [Callers -> 0..6] /\ lent \in [Callers -> 0..2] /\ opened \in 0..Limit /\ idle \in 0..Limit
      /\ line \in Seq(Callers)
      /\ \A q \in Callers : at[q] \in 0..Len(Script(q)) /\ lent[q] = LentAt(q, at[q])
  BY DEF PoolInv, PoolTypeOK, PlacesFit, PoolSound, LentAt
<1>3. 1 \in DOMAIN line /\ s = line[1] /\ Asks(s)
  BY DEF Successor, PoolInv, LineAsks
<1>4. s \in Callers /\ s # r
  BY <1>2, <1>3 DEF Asks, ReleaseConnection
<1>5. /\ NextPlace(r, at[r]) \in 0..Len(Script(r)) /\ NextPlace(r, at[r]) \in 0..6
      /\ LentAt(r, NextPlace(r, at[r])) = lent[r] - 1 /\ lent[r] - 1 \in 0..2
  <2>1. at[r] # 0 /\ at[r] \in 0..Len(Script(r)) /\ Script(r)[at[r]] = "release" /\ lent[r] \in 0..2
    BY <1>2 DEF ReleaseConnection
  <2> QED BY <1>2, <2>1, ScriptSteps
<1>6. /\ NextPlace(s, at[s]) \in 0..Len(Script(s)) /\ NextPlace(s, at[s]) \in 0..6
      /\ LentAt(s, NextPlace(s, at[s])) = lent[s] + 1 /\ lent[s] + 1 \in 0..2
  <2>1. at[s] # 0 /\ at[s] \in 0..Len(Script(s)) /\ Script(s)[at[s]] = "get" /\ lent[s] \in 0..2
    BY <1>2, <1>3, <1>4 DEF Asks
  <2> QED BY <1>2, <1>4, <2>1, ScriptSteps
<1>7. /\ at' = [q \in Callers |-> IF q = r THEN NextPlace(r, at[r])
                                  ELSE IF q = s THEN NextPlace(s, at[s]) ELSE at[q]]
      /\ lent' = [q \in Callers |-> IF q = r THEN lent[r] - 1
                                    ELSE IF q = s THEN lent[s] + 1 ELSE lent[q]]
  <2>1. at' = [q \in Callers |-> IF q = r THEN NextPlace(r, at[r])
                                  ELSE IF q = s THEN NextPlace(s, at[s]) ELSE at[q]]
    BY <1>1, <1>2, <1>4 DEF Next_, NextPlace
  <2>2. lent' = [q \in Callers |-> IF q = r THEN lent[r] - 1
                                    ELSE IF q = s THEN lent[s] + 1 ELSE lent[q]]
    BY <1>1, <1>2, <1>4
  <2> QED BY <2>1, <2>2
<1>8. /\ at' \in [Callers -> 0..6] /\ lent' \in [Callers -> 0..2]
      /\ \A q \in Callers : at'[q] \in 0..Len(Script(q)) /\ lent'[q] = LentAt(q, at'[q])
  BY <1>2, <1>4, <1>5, <1>6, <1>7
<1>9. SumFunction(lent') = SumFunction(lent)
  <2> DEFINE between == [lent EXCEPT ![r] = lent[r] - 1]
  <2>1. \A f, g, q : /\ q \in Callers /\ \A x \in Callers : f[x] \in Int
                     /\ g[q] \in Int /\ \A x \in Callers \ {q} : g[x] = f[x]
           => SumFunctionOnSet(g, Callers) = SumFunctionOnSet(f, Callers) + g[q] - f[q]
    BY SumChange
  <2>2. /\ between \in [Callers -> Int] /\ between[r] = lent[r] - 1 /\ between[s] = lent[s]
        /\ \A x \in Callers \ {r} : between[x] = lent[x]
        /\ \A x \in Callers \ {s} : lent'[x] = between[x]
        /\ lent'[s] = lent[s] + 1 /\ lent[r] \in Int /\ lent[s] \in Int
    BY <1>2, <1>4, <1>7
  <2> HIDE DEF between
  <2>3. SumFunctionOnSet(between, Callers) = SumFunctionOnSet(lent, Callers) + between[r] - lent[r]
    <3>1. (\A x \in Callers : lent[x] \in Int) /\ between[r] \in Int
      BY <1>2, <2>2
    <3>2. \A x \in Callers \ {r} : between[x] = lent[x]
      BY <2>2
    <3> QED BY ONLY <2>1, <3>1, <3>2, r \in Callers
  <2>4. SumFunctionOnSet(lent', Callers) = SumFunctionOnSet(between, Callers) + lent'[s] - between[s]
    <3>1. (\A x \in Callers : between[x] \in Int) /\ lent'[s] \in Int
      BY <1>4, <2>2
    <3>2. \A x \in Callers \ {s} : lent'[x] = between[x]
      BY <2>2
    <3> QED BY ONLY <2>1, <3>1, <3>2, <1>4
  <2>5. SumFunctionOnSet(lent, Callers) \in Int
    BY <1>2, SumType
  <2>6. SumFunctionOnSet(lent', Callers) = SumFunctionOnSet(lent, Callers)
    BY ONLY <2>2, <2>3, <2>4, <2>5
  <2> QED BY <1>2, <1>8, <2>6 DEF SumFunction
<1>10. /\ line' \in Seq(Callers) /\ DOMAIN line' = 1..(Len(line) - 1) /\ DOMAIN line = 1..Len(line)
       /\ Len(line) \in Nat /\ \A i \in DOMAIN line' : line'[i] = line[i + 1]
  BY <1>1, <1>2, <1>3
<1>11. \A i, j \in DOMAIN line : line[i] = line[j] => i = j
  BY DEF PoolInv, PoolTypeOK, IsInjective
<1>12. IsInjective(line')
  BY <1>10, <1>11 DEF IsInjective
<1>13. Range(line') \subseteq Callers
  BY <1>2, <1>10 DEF Range
<1>14. LineAsks'
  <2>1. \A i \in DOMAIN line' : line'[i] \in Callers /\ line'[i] # s /\ line'[i] # r /\ Asks(line[i + 1])
    <3> SUFFICES ASSUME NEW i \in DOMAIN line'
                 PROVE  line'[i] \in Callers /\ line'[i] # s /\ line'[i] # r /\ Asks(line[i + 1])
      OBVIOUS
    <3>1. i + 1 \in DOMAIN line /\ line'[i] = line[i + 1] /\ i + 1 # 1
      BY <1>10
    <3>2. line[i + 1] # line[1]
      BY <1>3, <1>11, <3>1
    <3>3. Asks(line[i + 1]) /\ line[i + 1] \in Callers
      BY <1>2, <3>1 DEF PoolInv, LineAsks
    <3>4. ~Asks(r)
      BY DEF ReleaseConnection, Asks
    <3> QED BY <1>3, <3>1, <3>2, <3>3, <3>4
  <2>2. \A i \in DOMAIN line' : at'[line'[i]] = at[line'[i]] /\ line'[i] = line[i + 1]
    BY <1>7, <1>10, <2>1
  <2>3. \A i \in DOMAIN line' : at'[line'[i]] # 0 /\ Script(line'[i])[at'[line'[i]]] = "get"
    BY <2>1, <2>2 DEF Asks
  <2> QED BY <2>3 DEF LineAsks, Asks
<1>15. PoolTypeOK'
  BY <1>1, <1>2, <1>8, <1>12, <1>13 DEF PoolTypeOK
<1>16. PoolSound'
  <2>1. idle' = 0 /\ opened' = Limit
    BY <1>1, <1>3 DEF PoolInv, PoolSound
  <2> QED BY <1>1, <1>8, <1>9, <2>1 DEF PoolInv, PoolSound, LentAt
<1> QED BY <1>8, <1>10, <1>14, <1>15, <1>16 DEF PoolInv, PlacesFit

\* A request moves on without taking or giving a connection.
LEMMA MoveKeeps ==
  ASSUME PoolInv, NEW r \in Callers, ~Waiting(r), NEW place \in 0..6, place \in 0..Len(Script(r)),
         at' = [at EXCEPT ![r] = place], UNCHANGED <<lent, opened, idle, line>>,
         LentAt(r, place) = LentAt(r, at[r])
  PROVE  PoolInv'
<1> USE LimitAssumption
<1>1. at \in [Callers -> 0..6] /\ lent \in [Callers -> 0..2]
  BY DEF PoolInv, PoolTypeOK
<1>2. \A s \in Callers : at[s] \in 0..Len(Script(s)) /\ lent[s] = LentAt(s, at[s])
  BY DEF PoolInv, PlacesFit, PoolSound, LentAt
<1>3. \A s \in Callers : at'[s] \in 0..Len(Script(s)) /\ lent'[s] = LentAt(s, at'[s])
  BY <1>1, <1>2
<1>4. /\ IsInjective(line') /\ Range(line') \subseteq Callers /\ line' \in Seq(Callers)
      /\ LineAsks'
  BY LineStays
<1>5. PoolTypeOK' /\ PoolSound'
  BY <1>1, <1>3, <1>4 DEF PoolInv, PoolTypeOK, PoolSound, LentAt
<1> QED BY <1>3, <1>4, <1>5 DEF PoolInv, PlacesFit

\* Every step at the pool keeps its invariant.
LEMMA PoolSteps == PoolInv /\ (PoolNext \/ UNCHANGED poolVars) => PoolInv'
<1> SUFFICES ASSUME PoolInv, PoolNext \/ UNCHANGED poolVars PROVE PoolInv'
  OBVIOUS
<1>1. CASE UNCHANGED poolVars
  BY <1>1 DEF poolVars, PoolInv, PoolTypeOK, PoolSound, PlacesFit, LineAsks, Asks
<1>2. ASSUME NEW r \in Callers, Arrive(r) PROVE PoolInv'
  <2>1. ~Waiting(r) /\ Len(Script(r)) \in Nat /\ Len(Script(r)) >= 1
    BY <1>2, GiversDoNotWait DEF Arrive, Asks, Script
  <2>2. LentAt(r, 1) = LentAt(r, at[r])
    BY <1>2 DEF Arrive, LentAt
  <2>3. 1 \in 0..6 /\ 1 \in 0..Len(Script(r))
    BY <2>1
  <2>4. at' = [at EXCEPT ![r] = 1] /\ UNCHANGED <<lent, opened, idle, line>>
    BY <1>2 DEF Arrive
  <2> QED BY <2>1, <2>2, <2>3, <2>4, MoveKeeps
<1>3. ASSUME NEW r \in Callers, GetConnection(r) PROVE PoolInv'
  BY <1>3, GetKeeps
<1>4. ASSUME NEW r \in Callers, ReleaseConnection(r) PROVE PoolInv'
  BY <1>4, GiveKeeps, PassOnKeeps
<1>5. ASSUME NEW r \in Callers, TurnAway(r) PROVE PoolInv'
  <2>1. LentAt(r, 0) = LentAt(r, at[r]) /\ Len(Script(r)) \in Nat
    BY <1>5 DEF TurnAway, LentAt, Script
  <2>2. 0 \in 0..6 /\ 0 \in 0..Len(Script(r))
    BY <2>1
  <2>3. at' = [at EXCEPT ![r] = 0] /\ UNCHANGED <<lent, opened, idle, line>> /\ ~Waiting(r)
    BY <1>5 DEF TurnAway
  <2> QED BY <2>1, <2>2, <2>3, MoveKeeps
<1>6. ASSUME NEW r \in Callers, SkipSave(r) PROVE PoolInv'
  <2>1. LentAt(r, Finally) = LentAt(r, at[r]) /\ Finally \in 0..Len(Script(r)) /\ Finally \in 0..6
    BY <1>6 DEF SkipSave, LentAt, Script, Finally, InTransaction
  <2> QED BY <1>6, <2>1, MoveKeeps DEF SkipSave
<1> QED BY <1>1, <1>2, <1>3, <1>4, <1>5, <1>6 DEF PoolNext, Proceed

----------------------------------------
(* E-mail settings, mails and notices.  A save is a list of statements that  *)
(* ends with emptying the cache; a mail finds its transport in steps.        *)

Todos == {<< >>, <<"forget">>, <<"activate", "forget">>, <<"deactivate", "forget">>,
          <<"delete", "forget">>, <<"edit", "forget">>, <<"edit", "activate", "forget">>,
          <<"edit", "deactivate", "forget">>}
Rows == [on : BOOLEAN, gone : BOOLEAN, edits : Nat]
Transports == [id : 0..Len(config), edits : Nat, stale : BOOLEAN]
Usable(t) == t.id # NoConfig /\ ~t.stale

\* Saves under way whose next statement writes the columns of a row.
Due(save) == save.todo # << >> /\ Head(save.todo) = "edit"
EditsDue == {s \in Savers : Due(saver[s])}

SettingsFit ==
  /\ config \in Seq(Rows) /\ Len(config) <= MaxConfigs
  /\ \A i, j \in ActiveIds : i = j
  /\ \A id \in DOMAIN config : config[id].gone => ~config[id].on

SaversFit ==
  /\ saver \in [Savers -> [id : 0..Len(config), todo : Todos]]
  /\ \A s \in Savers : saver[s].todo # << >> => saver[s].id \in DOMAIN config
  /\ puts \in Nat /\ puts <= MaxEmailSaves /\ mails \in Nat /\ mails <= MaxMails
  /\ Cardinality(EditsDue) <= puts
  /\ \A id \in DOMAIN config : config[id].edits + Cardinality(EditsDue) <= puts

CacheFits ==
  /\ transport \in Transports
  /\ Usable(transport) => \/ transport.edits = config[transport.id].edits
                          \/ \E s \in Savers : saver[s].todo # << >>

\* A mail knows every row that was active while it ran, and what it has in hand
\* was built of one of them, or will be looked at again.
MailFits(mail, cached, active) ==
  /\ mail.step # "idle" => active \subseteq mail.since
  /\ mail.step # "sent" => mail.sent = NoTransport
  /\ mail.step = "recheck" /\ Usable(cached) => cached.id = mail.row.id \/ cached.id \in mail.since
  /\ mail.step = "take" /\ Usable(cached) => cached.id \in mail.since
  /\ mail.step = "sent" /\ Usable(mail.sent) => mail.sent.id \in mail.since

MailRecords == [step : {"idle", "read", "recheck", "take", "drop", "build", "sent"},
                row : Transports, sent : Transports, since : SUBSET DOMAIN config]
MailersFit == /\ mailer \in [Mailers -> MailRecords]
              /\ \A m \in Mailers : MailFits(mailer[m], transport, ActiveIds)

\* While nothing is written, what a notice has in hand is the active row as it is.
AsStored(t, active, rows) == t.id \in active /\ t.edits = rows[t.id].edits
NoticeFits(n, mail, cached, active, rows) ==
  n.step # "none" /\ n.calm =>
    /\ Usable(cached) => cached.edits = rows[cached.id].edits
    /\ mail.step = "recheck" /\ Usable(cached) => cached.id = mail.row.id \/ cached.id \in active
    /\ mail.step = "take" /\ Usable(cached) => cached.id \in active
    /\ mail.step = "sent" /\ Usable(mail.sent) => AsStored(mail.sent, active, rows)
    /\ n.step = "post" => AsStored(n.to, active, rows)
NoticeRecords == [step : {"none", "address", "post"}, to : [id : Nat, edits : Nat], calm : BOOLEAN]
NoticesFit == /\ notice \in [Mailers -> NoticeRecords]
              /\ \A m \in Mailers : NoticeFits(notice[m], mailer[m], transport, ActiveIds, config)

MailInv == SettingsFit /\ SaversFit /\ CacheFits /\ MailersFit /\ NoticesFit

\* A time shown as its parts is that time.
LEMMA ClockReads == \A t \in Int : Clock(formatIstDateTime(t)) = t
<1> SUFFICES ASSUME NEW t \in Int PROVE Clock(formatIstDateTime(t)) = t
  OBVIOUS
<1> DEFINE left == t % 1440
           hour == left \div 60
<1>1. left \in 0..1439 /\ t = (t \div 1440) * 1440 + left /\ t \div 1440 \in Int
  OBVIOUS
<1>2. t % 60 = left % 60
  OBVIOUS
<1> HIDE DEF left
<1>3. hour \in 0..23 /\ left = hour * 60 + (left % 60) /\ left % 60 \in 0..59
  <2>1. /\ left \div 60 \in 0..23 /\ left % 60 \in 0..59
        /\ left = (left \div 60) * 60 + (left % 60)
    BY <1>1
  <2> QED BY <2>1
<1> DEFINE face == formatIstDateTime(t)
<1>4. /\ face.day = t \div 1440 /\ face.minute = left % 60
      /\ face.hour = (IF hour % 12 = 0 THEN 12 ELSE hour % 12)
      /\ face.period = (IF hour >= 12 THEN "PM" ELSE "AM")
  BY <1>2 DEF formatIstDateTime, renderIstFromUtcParts, left
<1> HIDE DEF hour, face
<1>5. (face.hour % 12) * 60 + (IF face.period = "PM" THEN 720 ELSE 0) = hour * 60
  <2>1. hour % 12 = IF hour >= 12 THEN hour - 12 ELSE hour
    BY <1>3
  <2>2. face.hour % 12 = hour % 12
    BY <1>3, <1>4, <2>1
  <2>3. face.period = "PM" <=> hour >= 12
    BY <1>4
  <2> QED BY <1>3, <2>1, <2>2, <2>3
<1>6. Clock(face) = face.day * 1440 + (face.hour % 12) * 60 + face.minute
                       + (IF face.period = "PM" THEN 720 ELSE 0)
  BY DEF Clock
<1>7. face.hour % 12 \in Int
  BY <1>3, <1>4
<1>8. Clock(face) = t
  <2> DEFINE turn == (face.hour % 12) * 60
             half == IF face.period = "PM" THEN 720 ELSE 0
             days == (t \div 1440) * 1440
             full == hour * 60
             rest == left % 60
  <2>1. /\ turn \in Int /\ half \in Int /\ days \in Int /\ full \in Int /\ rest \in Int
        /\ turn + half = full /\ t = days + left /\ left = full + rest
    BY <1>1, <1>3, <1>5, <1>7
  <2>2. Clock(face) = days + turn + rest + half
    BY <1>4, <1>6
  <2> HIDE DEF turn, half, days, full, rest
  <2> QED BY ONLY <2>1, <2>2
<1> QED BY <1>8 DEF face

\* A reminder's phrase is the time left.
LEMMA LabelTells ==
  \A lead \in Nat \ {0} :
    LET due == reminderLeadLabel(lead)
    IN due[1] * (CASE due[2] = "day" -> 1440 [] due[2] = "hour" -> 60 [] OTHER -> 1) = lead
<1> SUFFICES ASSUME NEW lead \in Nat \ {0}
             PROVE  LET due == reminderLeadLabel(lead)
                    IN due[1] * (CASE due[2] = "day" -> 1440 [] due[2] = "hour" -> 60 [] OTHER -> 1) = lead
  OBVIOUS
<1>1. CASE lead % 1440 = 0
  <2>1. reminderLeadLabel(lead) = <<lead \div 1440, "day">>
    BY <1>1 DEF reminderLeadLabel
  <2>2. (lead \div 1440) * 1440 = lead
    BY <1>1
  <2> QED BY <2>1, <2>2
<1>2. CASE lead % 1440 # 0 /\ lead % 60 = 0
  <2>1. reminderLeadLabel(lead) = <<lead \div 60, "hour">>
    BY <1>2 DEF reminderLeadLabel
  <2>2. (lead \div 60) * 60 = lead
    BY <1>2
  <2> QED BY <2>1, <2>2
<1>3. CASE lead % 1440 # 0 /\ lead % 60 # 0
  <2>1. reminderLeadLabel(lead) = <<lead, "minute">>
    BY <1>3 DEF reminderLeadLabel
  <2> QED BY <2>1
<1> QED BY <1>1, <1>2, <1>3

\* Every notice tells its times, whatever they are.
LEMMA NoticesTell == NoticesTellTheTime
<1> SUFFICES ASSUME NEW then \in NoticeTimes, NEW before \in NoticeTimes, NEW clock \in NoticeTimes,
                    NEW lead \in LeadTimes
             PROVE  LET c == [scheduledAt |-> then, previousScheduledAt |-> before, now |-> clock,
                              leadMinutes |-> lead]
                        shows(mode) == sendAppointmentEmail(mode, c).shows
                        due == shows("reminder").due
                    IN /\ Clock(shows("created").scheduled) = then /\ Clock(shows("reminder").scheduled) = then
                       /\ Clock(shows("edited").previous) = before /\ Clock(shows("edited").new) = then
                       /\ Clock(shows("edited").updated) = clock + 330
                       /\ Clock(shows("cancelled").previous) = then /\ Clock(shows("cancelled").cancelled) = clock + 330
                       /\ Clock(renderNewWebsiteEnquiry([createdAt |-> nowIstDate(clock)]).created) = clock + 330
                       /\ Clock(renderSellerRegistration([registeredAt |-> nowIstDate(clock)]).registered) = clock + 330
                       /\ due[1] * (CASE due[2] = "day" -> 1440 [] due[2] = "hour" -> 60 [] OTHER -> 1) = lead
                       /\ {sendAppointmentEmail(mode, c).type : mode \in {"created", "edited", "cancelled", "reminder"}}
                            \subseteq TYPES
  BY DEF NoticesTellTheTime
<1> DEFINE c == [scheduledAt |-> then, previousScheduledAt |-> before, now |-> clock, leadMinutes |-> lead]
<1>1. /\ sendAppointmentEmail("created", c) =
            [type |-> "CRM_BOOKING_CREATED", shows |-> [scheduled |-> formatIstDateTime(then)]]
      /\ sendAppointmentEmail("edited", c) =
            [type |-> "CRM_BOOKING_RESCHEDULED",
             shows |-> [previous |-> formatIstDateTime(before), new |-> formatIstDateTime(then),
                        updated |-> formatIstDateTime(clock + 330)]]
      /\ sendAppointmentEmail("cancelled", c) =
            [type |-> "CRM_BOOKING_CANCELLED",
             shows |-> [previous |-> formatIstDateTime(then), cancelled |-> formatIstDateTime(clock + 330)]]
      /\ sendAppointmentEmail("reminder", c) =
            [type |-> "CRM_BOOKING_REMINDER",
             shows |-> [scheduled |-> formatIstDateTime(then), due |-> reminderLeadLabel(lead)]]
  BY DEF sendAppointmentEmail, renderCrmBookingCreated, renderCrmBookingRescheduled,
         renderCrmBookingCancelled, renderCrmBookingReminder, nowIstDate
<1>2. /\ renderNewWebsiteEnquiry([createdAt |-> nowIstDate(clock)]).created = formatIstDateTime(clock + 330)
      /\ renderSellerRegistration([registeredAt |-> nowIstDate(clock)]).registered = formatIstDateTime(clock + 330)
  BY DEF renderNewWebsiteEnquiry, renderSellerRegistration, nowIstDate
<1>3. then \in Int /\ before \in Int /\ clock + 330 \in Int /\ lead \in Nat \ {0}
  BY NoticeAssumption
<1>4. /\ Clock(formatIstDateTime(then)) = then /\ Clock(formatIstDateTime(before)) = before
      /\ Clock(formatIstDateTime(clock + 330)) = clock + 330
  BY <1>3, ClockReads
<1>5. LET due == reminderLeadLabel(lead)
      IN due[1] * (CASE due[2] = "day" -> 1440 [] due[2] = "hour" -> 60 [] OTHER -> 1) = lead
  BY <1>3, LabelTells
<1>6. {sendAppointmentEmail(mode, c).type : mode \in {"created", "edited", "cancelled", "reminder"}} \subseteq TYPES
  BY <1>1 DEF TYPES
<1> HIDE DEF c
<1> QED BY <1>1, <1>2, <1>4, <1>5, <1>6 DEF c

\* Nothing is stored or under way at first.
LEMMA MailStarts == NoticeInit => MailInv
<1> SUFFICES ASSUME NoticeInit PROVE MailInv
  OBVIOUS
<1> USE EmailAssumption DEF NoticeInit, EmailInit
<1>1. SettingsFit
  BY DEF SettingsFit, ActiveIds, Stored
<1>2. SaversFit
  <2>1. EditsDue = {}
    BY DEF EditsDue, Due, IdleSaver
  <2>2. Cardinality(EditsDue) = 0
    BY <2>1, FS_EmptySet
  <2> QED BY <2>2 DEF SaversFit, IdleSaver, NoConfig, Todos
<1>3. NoTransport \in Transports /\ ~Usable(NoTransport)
  BY DEF NoTransport, Transports, Usable, NoConfig
<1>4. CacheFits
  BY <1>3 DEF CacheFits
<1>5. MailersFit
  BY <1>3 DEF MailersFit, MailRecords, MailFits, IdleMailer
<1>6. NoticesFit
  BY <1>3 DEF NoticesFit, NoticeRecords, NoticeFits, NoNotice, NoAddress, NoConfig
<1> QED BY <1>1, <1>2, <1>4, <1>5, <1>6 DEF MailInv

\* The saves that are about to write columns, when one save goes on.
LEMMA DueCounts ==
  ASSUME SaversFit, NEW s \in Savers, \A r \in Savers \ {s} : saver'[r] = saver[r]
  PROVE  /\ Cardinality(EditsDue) \in Nat /\ Cardinality(EditsDue)' \in Nat
         /\ Cardinality(EditsDue)' <= Cardinality(EditsDue) + 1
         /\ ~Due(saver'[s]) => Cardinality(EditsDue)' <= Cardinality(EditsDue)
         /\ ~Due(saver'[s]) /\ Due(saver[s]) => Cardinality(EditsDue)' <= Cardinality(EditsDue) - 1
<1> USE EmailAssumption
<1> DEFINE D == EditsDue
           E == EditsDue'
<1>1. IsFiniteSet(D) /\ IsFiniteSet(E)
  BY FS_Subset DEF EditsDue
<1>2. Cardinality(D) \in Nat /\ Cardinality(E) \in Nat
  BY <1>1, FS_CardinalityType
<1>3. E \subseteq D \cup {s}
  BY DEF EditsDue
<1>4. ~Due(saver'[s]) => E \subseteq D \ {s}
  BY DEF EditsDue
<1>5. Due(saver[s]) => s \in D
  BY DEF EditsDue
<1>6. Cardinality(EditsDue)' = Cardinality(E)
  OBVIOUS
<1> HIDE DEF D, E
<1>7. Cardinality(E) <= Cardinality(D) + 1
  <2>1. IsFiniteSet(D \cup {s}) /\ Cardinality(D \cup {s}) <= Cardinality(D) + 1
    <3>1. IsFiniteSet(D \cup {s}) /\ Cardinality(D \cup {s}) = IF s \in D THEN Cardinality(D) ELSE Cardinality(D) + 1
      BY <1>1, FS_AddElement
    <3> QED BY <1>2, <3>1
  <2> QED BY <1>2, <1>3, <2>1, FS_Subset, FS_CardinalityType
<1>8. IsFiniteSet(D \ {s}) /\ Cardinality(D \ {s}) \in Nat
      /\ Cardinality(D \ {s}) = IF s \in D THEN Cardinality(D) - 1 ELSE Cardinality(D)
  BY <1>1, FS_RemoveElement, FS_CardinalityType
<1>9. ~Due(saver'[s]) => Cardinality(E) <= Cardinality(D \ {s})
  BY <1>4, <1>8, FS_Subset
<1> QED BY <1>2, <1>5, <1>6, <1>7, <1>8, <1>9 DEF D

\* What is left of a save is a save, and once a statement ran, only the cache or
\* the flag is left to write.
LEMMA TodosGoOn ==
  ASSUME NEW todo \in Todos, todo # << >>
  PROVE  /\ Tail(todo) \in Todos /\ Head(todo) \in {"forget", "activate", "deactivate", "delete", "edit"}
         /\ Head(todo) # "forget" => Tail(todo) # << >>
         /\ Head(todo) = "forget" => Tail(todo) = << >>
         /\ Tail(todo) # << >> => Head(Tail(todo)) # "edit"
<1>1. CASE todo \in {<<"forget">>, <<"activate", "forget">>, <<"deactivate", "forget">>, <<"delete", "forget">>,
                     <<"edit", "forget">>}
  <2>1. PICK statement \in {"forget", "activate", "deactivate", "delete", "edit"} :
          \/ statement = "forget" /\ todo = <<"forget">>
          \/ statement # "forget" /\ todo = <<statement, "forget">>
    BY <1>1
  <2>2. CASE todo = <<"forget">>
    BY <2>2 DEF Todos
  <2>3. CASE statement # "forget" /\ todo = <<statement, "forget">>
    <3>1. Tail(todo) = <<"forget">> /\ Head(todo) = statement
      BY <2>3
    <3> QED BY <2>3, <3>1 DEF Todos
  <2> QED BY <2>1, <2>2, <2>3
<1>2. CASE todo \in {<<"edit", "activate", "forget">>, <<"edit", "deactivate", "forget">>}
  <2>1. PICK statement \in {"activate", "deactivate"} : todo = <<"edit", statement, "forget">>
    BY <1>2
  <2>2. Tail(todo) = <<statement, "forget">> /\ Head(todo) = "edit"
    BY <2>1
  <2> QED BY <2>1, <2>2 DEF Todos
<1> QED BY <1>1, <1>2 DEF Todos

\* With a cached transport no better than before, what a mail or a notice knows
\* still holds.
LEMMA CacheLoses ==
  ASSUME NEW mail, NEW n, NEW t, NEW u, NEW active, NEW rows,
         Usable(u) => Usable(t) /\ u.id = t.id /\ u.edits = t.edits
  PROVE  /\ MailFits(mail, t, active) => MailFits(mail, u, active)
         /\ NoticeFits(n, mail, t, active, rows) => NoticeFits(n, mail, u, active, rows)
BY DEF MailFits, NoticeFits

\* Nor does a transport just built of the active row disturb them.
LEMMA CacheFills ==
  ASSUME NEW mail, NEW n, NEW t, NEW u, NEW active, NEW rows,
         Usable(u) => AsStored(u, active, rows)
  PROVE  /\ MailFits(mail, t, active) => MailFits(mail, u, active)
         /\ NoticeFits(n, mail, t, active, rows) => NoticeFits(n, mail, u, active, rows)
BY DEF MailFits, NoticeFits, AsStored

\* One mail goes on, and may fill or empty the cache.
LEMMA MailMoves ==
  ASSUME MailInv, NEW m \in Mailers, NEW mail \in MailRecords, NEW n \in NoticeRecords,
         mailer' = [mailer EXCEPT ![m] = mail], notice' = [notice EXCEPT ![m] = n],
         UNCHANGED <<config, saver, puts>>, mails' \in Nat, mails' <= MaxMails,
         transport' \in Transports,
         \/ Usable(transport') => /\ Usable(transport) /\ transport'.id = transport.id
                                  /\ transport'.edits = transport.edits
         \/ Usable(transport') => AsStored(transport', ActiveIds, config),
         MailFits(mail, transport', ActiveIds),
         NoticeFits(n, mail, transport', ActiveIds, config)
  PROVE  MailInv'
<1>1. ActiveIds' = ActiveIds /\ Transports' = Transports /\ MailRecords' = MailRecords
  BY DEF ActiveIds, Stored, Transports, MailRecords
<1>2. SettingsFit'
  BY <1>1 DEF MailInv, SettingsFit
<1>3. SaversFit'
  BY DEF MailInv, SaversFit, EditsDue
<1>4. CacheFits'
  BY <1>1 DEF MailInv, CacheFits, AsStored
<1>5. mailer' \in [Mailers -> MailRecords] /\ \A k \in Mailers : mailer'[k] = IF k = m THEN mail ELSE mailer[k]
  BY DEF MailInv, MailersFit
<1>6. notice' \in [Mailers -> NoticeRecords] /\ \A k \in Mailers : notice'[k] = IF k = m THEN n ELSE notice[k]
  BY DEF MailInv, NoticesFit
<1>7. \A k \in Mailers : /\ MailFits(mailer'[k], transport', ActiveIds)
                         /\ NoticeFits(notice'[k], mailer'[k], transport', ActiveIds, config)
  <2> SUFFICES ASSUME NEW k \in Mailers, k # m
               PROVE  /\ MailFits(mailer'[k], transport', ActiveIds)
                      /\ NoticeFits(notice'[k], mailer'[k], transport', ActiveIds, config)
    BY <1>5, <1>6
  <2>1. MailFits(mailer[k], transport, ActiveIds) /\ NoticeFits(notice[k], mailer[k], transport, ActiveIds, config)
    BY DEF MailInv, MailersFit, NoticesFit
  <2>2. mailer'[k] = mailer[k] /\ notice'[k] = notice[k]
    BY <1>5, <1>6
  <2>3. \A u : \/ Usable(u) => Usable(transport) /\ u.id = transport.id /\ u.edits = transport.edits
               \/ Usable(u) => AsStored(u, ActiveIds, config)
               => /\ MailFits(mailer[k], u, ActiveIds)
                  /\ NoticeFits(notice[k], mailer[k], u, ActiveIds, config)
    BY <2>1, CacheLoses, CacheFills
  <2> QED BY <2>2, <2>3
<1>8. MailersFit' /\ NoticesFit'
  BY <1>1, <1>5, <1>6, <1>7 DEF MailersFit, NoticesFit
<1> QED BY <1>2, <1>3, <1>4, <1>8 DEF MailInv

\* A look-up of the transport begins: what it has in hand is the cached row, to be
\* looked at again, or nothing.
LookUpBegun ==
  [step |-> IF transport.id = NoConfig THEN "read" ELSE "recheck",
   row |-> [id |-> transport.id, edits |-> 0, stale |-> FALSE],
   sent |-> NoTransport, since |-> ActiveIds]

\* Such a look-up fits, whatever the notice knows.
LEMMA LookUpFits ==
  ASSUME MailInv
  PROVE  /\ LookUpBegun \in MailRecords /\ MailFits(LookUpBegun, transport, ActiveIds)
         /\ \A n, mail : NoticeFits(n, mail, transport, ActiveIds, config)
                           => NoticeFits(n, LookUpBegun, transport, ActiveIds, config)
         /\ \A m : ResolveTransport(m) <=> mailer' = [mailer EXCEPT ![m] = LookUpBegun]
<1>1. transport \in Transports /\ transport.id \in 0..Len(config) /\ Len(config) \in Nat
  BY DEF MailInv, CacheFits, SettingsFit, Transports
<1>2. ActiveIds \subseteq DOMAIN config
  BY DEF ActiveIds
<1>3. NoTransport \in Transports
  BY <1>1 DEF NoTransport, NoConfig, Transports
<1>4. LookUpBegun \in MailRecords
  BY <1>1, <1>2, <1>3 DEF LookUpBegun, MailRecords, Transports
<1>5. MailFits(LookUpBegun, transport, ActiveIds)
  BY DEF LookUpBegun, MailFits
<1>6. \A n, mail : NoticeFits(n, mail, transport, ActiveIds, config)
                     => NoticeFits(n, LookUpBegun, transport, ActiveIds, config)
  BY DEF LookUpBegun, NoticeFits
<1>7. LookUpBegun = [IdleMailer EXCEPT !.step = IF transport.id = NoConfig THEN "read" ELSE "recheck",
                                    !.row = [NoTransport EXCEPT !.id = transport.id], !.since = ActiveIds]
  <2>1. [NoTransport EXCEPT !.id = transport.id] = [id |-> transport.id, edits |-> 0, stale |-> FALSE]
    <3>1. \A x, y, b : [[id |-> y, edits |-> 0, stale |-> b] EXCEPT !.id = x] = [id |-> x, edits |-> 0, stale |-> b]
      OBVIOUS
    <3> QED BY <3>1, Zenon DEF NoTransport
  <2> DEFINE step == IF transport.id = NoConfig THEN "read" ELSE "recheck"
             row == [NoTransport EXCEPT !.id = transport.id]
  <2>2. ASSUME NEW r, NEW i, NEW x, NEW y, NEW t, NEW none, NEW a,
               r = [[step |-> i, row |-> t, sent |-> t, since |-> none] EXCEPT !.step = x, !.row = y, !.since = a]
        PROVE  r = [step |-> x, row |-> y, sent |-> t, since |-> a]
    BY <2>2
  <2>3. [IdleMailer EXCEPT !.step = step, !.row = row, !.since = ActiveIds]
          = [step |-> step, row |-> row, sent |-> NoTransport, since |-> ActiveIds]
    <3> DEFINE e == [IdleMailer EXCEPT !.step = step, !.row = row, !.since = ActiveIds]
    <3>1. e = [[step |-> "idle", row |-> NoTransport, sent |-> NoTransport, since |-> {}]
                 EXCEPT !.step = step, !.row = row, !.since = ActiveIds]
      BY Zenon DEF IdleMailer
    <3> HIDE DEF e, step, row
    <3>2. e = [step |-> step, row |-> row, sent |-> NoTransport, since |-> ActiveIds]
      BY <2>2, <3>1
    <3> QED BY <3>2 DEF e
  <2> QED BY <2>1, <2>3 DEF LookUpBegun
<1> QED BY <1>4, <1>5, <1>6, <1>7 DEF ResolveTransport

\* What MailInv says of one mail.
LEMMA OfOneMail ==
  ASSUME MailInv, NEW m \in Mailers
  PROVE  /\ mailer[m] \in MailRecords /\ notice[m] \in NoticeRecords
         /\ MailFits(mailer[m], transport, ActiveIds)
         /\ NoticeFits(notice[m], mailer[m], transport, ActiveIds, config)
         /\ notice = [notice EXCEPT ![m] = notice[m]]
         /\ transport \in Transports /\ NoTransport \in Transports /\ ~Usable(NoTransport)
         /\ IdleMailer \in MailRecords /\ NoNotice \in NoticeRecords
         /\ mails \in Nat /\ mails <= MaxMails
<1>1. NoTransport \in Transports /\ ~Usable(NoTransport)
  BY DEF MailInv, SettingsFit, NoTransport, NoConfig, Transports, Usable
<1>2. IdleMailer \in MailRecords /\ NoNotice \in NoticeRecords
  BY <1>1 DEF IdleMailer, MailRecords, NoNotice, NoticeRecords, NoAddress, NoConfig
<1> QED BY <1>1, <1>2 DEF MailInv, MailersFit, NoticesFit, CacheFits, SaversFit

\* A mail that is no notice begins.
LEMMA StartMailKeeps ==
  ASSUME MailInv, NEW m \in Mailers, StartMail(m), UNCHANGED notice
  PROVE  MailInv'
<1> USE EmailAssumption
<1>1. mailer' = [mailer EXCEPT ![m] = LookUpBegun] /\ notice' = [notice EXCEPT ![m] = notice[m]]
  BY LookUpFits, OfOneMail DEF StartMail
<1>2. /\ LookUpBegun \in MailRecords /\ MailFits(LookUpBegun, transport', ActiveIds)
      /\ NoticeFits(notice[m], LookUpBegun, transport', ActiveIds, config)
      /\ notice[m] \in NoticeRecords /\ transport' \in Transports
  BY LookUpFits, OfOneMail DEF StartMail
<1>3. UNCHANGED <<config, saver, puts, transport>> /\ mails' \in Nat /\ mails' <= MaxMails
  BY OfOneMail DEF StartMail
<1> QED BY <1>1, <1>2, <1>3, MailMoves

\* The steps in which one mail goes on and the cache stays, or is emptied.
LEMMA LookupKeeps ==
  ASSUME MailInv, NEW m \in Mailers, UNCHANGED notice,
         RecheckRow(m) \/ TakeCached(m) \/ DropCached(m) \/ ReadActive(m)
  PROVE  MailInv'
<1> USE EmailAssumption
<1> DEFINE mail == mailer[m]
<1>1. /\ mail \in MailRecords /\ notice[m] \in NoticeRecords
      /\ MailFits(mail, transport, ActiveIds) /\ NoticeFits(notice[m], mail, transport, ActiveIds, config)
      /\ notice' = [notice EXCEPT ![m] = notice[m]]
      /\ transport \in Transports /\ NoTransport \in Transports /\ ~Usable(NoTransport)
      /\ mails' \in Nat /\ mails' <= MaxMails
  BY OfOneMail DEF RecheckRow, TakeCached, DropCached, ReadActive
<1>2. UNCHANGED <<config, saver, puts>>
  BY DEF RecheckRow, TakeCached, DropCached, ReadActive
<1>3. ActiveIds \in SUBSET DOMAIN config /\ DOMAIN mailer = Mailers /\ Len(config) \in Nat /\ DOMAIN config = 1..Len(config)
      /\ config \in Seq(Rows)
  BY DEF ActiveIds, MailInv, MailersFit, SettingsFit
<1>4. CASE RecheckRow(m)
  <2> DEFINE next == [mail EXCEPT !.step = IF Still(mail.row.id) THEN "take" ELSE "drop"]
  <2>1. mailer' = [mailer EXCEPT ![m] = next] /\ transport' = transport /\ mail.step = "recheck"
    BY <1>3, <1>4 DEF RecheckRow
  <2>2. next \in MailRecords /\ MailFits(next, transport, ActiveIds)
    BY <1>1, <2>1 DEF MailRecords, MailFits, Still
  <2>3. NoticeFits(notice[m], next, transport, ActiveIds, config)
    BY <1>1, <2>1 DEF MailRecords, NoticeFits, Still
  <2> HIDE DEF next, mail
  <2> QED BY <1>1, <1>2, <2>1, <2>2, <2>3, MailMoves
<1>5. CASE TakeCached(m)
  <2> DEFINE next == [mail EXCEPT !.step = "sent", !.sent = transport]
  <2>1. mailer' = [mailer EXCEPT ![m] = next] /\ transport' = transport /\ mail.step = "take"
    BY <1>3, <1>5 DEF TakeCached
  <2>2. next \in MailRecords /\ MailFits(next, transport, ActiveIds)
    BY <1>1, <2>1 DEF MailRecords, MailFits
  <2>3. NoticeFits(notice[m], next, transport, ActiveIds, config)
    BY <1>1, <2>1 DEF MailRecords, NoticeFits, AsStored
  <2> HIDE DEF next, mail
  <2> QED BY <1>1, <1>2, <2>1, <2>2, <2>3, MailMoves
<1>6. CASE DropCached(m)
  <2> DEFINE next == [mail EXCEPT !.step = "read"]
  <2>1. mailer' = [mailer EXCEPT ![m] = next] /\ transport' = NoTransport /\ mail.step = "drop"
    BY <1>3, <1>6 DEF DropCached
  <2>2. next \in MailRecords /\ MailFits(next, NoTransport, ActiveIds)
    BY <1>1, <2>1 DEF MailRecords, MailFits
  <2>3. NoticeFits(notice[m], next, NoTransport, ActiveIds, config)
    BY <1>1, <2>1 DEF MailRecords, NoticeFits
  <2> HIDE DEF next, mail
  <2> QED BY <1>1, <1>2, <2>1, <2>2, <2>3, MailMoves
<1>7. CASE ReadActive(m) /\ ActiveIds = {}
  <2> DEFINE next == [mail EXCEPT !.step = "sent"]
  <2>1. mailer' = [mailer EXCEPT ![m] = next] /\ transport' = transport /\ mail.step = "read"
    BY <1>3, <1>7 DEF ReadActive
  <2>2. next \in MailRecords /\ MailFits(next, transport, ActiveIds)
    BY <1>1, <2>1 DEF MailRecords, MailFits
  <2>3. NoticeFits(notice[m], next, transport, ActiveIds, config)
    BY <1>1, <2>1 DEF MailRecords, MailFits, NoticeFits
  <2> HIDE DEF next, mail
  <2> QED BY <1>1, <1>2, <2>1, <2>2, <2>3, MailMoves
<1>8. CASE ReadActive(m) /\ ActiveIds # {}
  <2>1. PICK id \in ActiveIds :
          mailer' = [mailer EXCEPT ![m].step = "build",
                       ![m].row = [id |-> id, edits |-> config[id].edits, stale |-> FALSE]]
    BY <1>8 DEF ReadActive
  <2> DEFINE row == [id |-> id, edits |-> config[id].edits, stale |-> FALSE]
             next == [mail EXCEPT !.step = "build", !.row = row]
  <2>2. row \in Transports
    <3>1. id \in 1..Len(config) /\ config[id] \in Rows
      BY <1>3
    <3> QED BY <3>1 DEF Transports, Rows
  <2>3. transport' = transport /\ mail.step = "read"
    BY <1>8 DEF ReadActive
  <2>4. mailer' = [mailer EXCEPT ![m] = next]
    BY <1>1, <1>3, <2>1 DEF MailRecords
  <2> HIDE DEF row
  <2>5. next \in MailRecords /\ MailFits(next, transport, ActiveIds)
    BY <1>1, <2>2, <2>3 DEF MailRecords, MailFits
  <2>6. NoticeFits(notice[m], next, transport, ActiveIds, config)
    BY <1>1, <2>3 DEF MailRecords, NoticeFits
  <2> HIDE DEF next, mail
  <2> QED BY <1>1, <1>2, <2>3, <2>4, <2>5, <2>6, MailMoves
<1> QED BY <1>4, <1>5, <1>6, <1>7, <1>8

\* A transport is built of the row read before, and cached; it counts as good only
\* if that row is still the active one, with the columns that were read.
LEMMA BuildKeeps ==
  ASSUME MailInv, NEW m \in Mailers, BuildTransport(m), UNCHANGED notice
  PROVE  MailInv'
<1> USE EmailAssumption
<1> DEFINE mail == mailer[m]
           built == [mail.row EXCEPT !.stale = config[mail.row.id].edits # mail.row.edits
                                               \/ mail.row.id \notin ActiveIds]
           next == [mail EXCEPT !.step = "sent", !.sent = built]
<1>1. /\ mail \in MailRecords /\ notice[m] \in NoticeRecords
      /\ MailFits(mail, transport, ActiveIds) /\ NoticeFits(notice[m], mail, transport, ActiveIds, config)
      /\ notice' = [notice EXCEPT ![m] = notice[m]]
      /\ mails' \in Nat /\ mails' <= MaxMails
  BY OfOneMail DEF BuildTransport
<1>2. UNCHANGED <<config, saver, puts>> /\ mail.step = "build" /\ transport' = built
  BY DEF BuildTransport
<1>3. mailer' = [mailer EXCEPT ![m] = next]
  <2>1. DOMAIN mailer = Mailers /\ mailer' = [mailer EXCEPT ![m].step = "sent", ![m].sent = built]
    BY DEF MailInv, MailersFit, BuildTransport
  <2> HIDE DEF built
  <2> QED BY <1>1, <2>1 DEF MailRecords
<1>4. mail.row \in Transports
  BY <1>1 DEF MailRecords
<1>5. built \in Transports
  <2>1. ASSUME NEW b \in BOOLEAN PROVE [mail.row EXCEPT !.stale = b] \in Transports
    BY <1>4 DEF Transports
  <2> QED BY <2>1
<1>6. Usable(built) => AsStored(built, ActiveIds, config)
  <2>1. ASSUME NEW b \in BOOLEAN, Usable([mail.row EXCEPT !.stale = b])
        PROVE  b = FALSE /\ [mail.row EXCEPT !.stale = b].id = mail.row.id
               /\ [mail.row EXCEPT !.stale = b].edits = mail.row.edits
    BY <1>4, <2>1 DEF Transports, Usable
  <2> DEFINE b == config[mail.row.id].edits # mail.row.edits \/ mail.row.id \notin ActiveIds
  <2>2. b \in BOOLEAN /\ built = [mail.row EXCEPT !.stale = b]
    OBVIOUS
  <2>3. b = FALSE => config[mail.row.id].edits = mail.row.edits /\ mail.row.id \in ActiveIds
    OBVIOUS
  <2> HIDE DEF b, built
  <2>4. Usable(built) => b = FALSE /\ built.id = mail.row.id /\ built.edits = mail.row.edits
    BY <2>1, <2>2
  <2> QED BY <2>3, <2>4 DEF AsStored
<1> HIDE DEF built
<1>7. next \in MailRecords
  BY <1>1, <1>5 DEF MailRecords
<1>8. next.step = "sent" /\ next.sent = built /\ next.since = mail.since
  BY <1>1 DEF MailRecords
<1>9. MailFits(next, built, ActiveIds)
  BY <1>1, <1>2, <1>6, <1>8 DEF MailFits, AsStored
<1>10. NoticeFits(notice[m], next, built, ActiveIds, config)
  BY <1>1, <1>6, <1>8 DEF NoticeFits, AsStored
<1> HIDE DEF next, mail
<1> QED BY <1>1, <1>2, <1>3, <1>5, <1>6, <1>7, <1>9, <1>10, MailMoves

\* A mail is done, one that is no notice or whose notice is done too.
LEMMA EndKeeps ==
  ASSUME MailInv, NEW m \in Mailers, notice[m] = NoNotice, EndMail(m), UNCHANGED notice
  PROVE  MailInv'
<1> USE EmailAssumption
<1>1. /\ notice' = [notice EXCEPT ![m] = notice[m]] /\ notice[m] \in NoticeRecords
      /\ IdleMailer \in MailRecords /\ mails' \in Nat /\ mails' <= MaxMails
      /\ transport' = transport /\ transport \in Transports
  BY OfOneMail DEF EndMail
<1>2. mailer' = [mailer EXCEPT ![m] = IdleMailer] /\ UNCHANGED <<config, saver, puts>>
  BY DEF EndMail
<1>3. MailFits(IdleMailer, transport, ActiveIds)
  BY DEF IdleMailer, MailFits
<1>4. NoticeFits(notice[m], IdleMailer, transport, ActiveIds, config)
  BY DEF NoNotice, NoticeFits
<1> QED BY <1>1, <1>2, <1>3, <1>4, MailMoves

\* A notice begins.  While no save is under way, the cache is as stored.
LEMMA NotifyKeeps == ASSUME MailInv, NEW m \in Mailers, sendAdminNotification(m) PROVE MailInv'
<1> USE EmailAssumption
<1> DEFINE calm == \A s \in Savers : saver[s].todo = << >>
           n == [NoNotice EXCEPT !.step = "address", !.calm = calm]
<1>1. mailer' = [mailer EXCEPT ![m] = LookUpBegun] /\ notice' = [notice EXCEPT ![m] = n]
  BY LookUpFits DEF sendAdminNotification, StartMail
<1>2. LookUpBegun \in MailRecords /\ MailFits(LookUpBegun, transport, ActiveIds) /\ transport \in Transports
  BY LookUpFits, OfOneMail
<1>3. UNCHANGED <<config, saver, puts, transport>> /\ mails' \in Nat /\ mails' <= MaxMails
  BY OfOneMail DEF sendAdminNotification, StartMail
<1>4. n \in NoticeRecords /\ n.step = "address" /\ (n.calm => calm)
  <2>1. ASSUME NEW b \in BOOLEAN
        PROVE  /\ [NoNotice EXCEPT !.step = "address", !.calm = b] \in NoticeRecords
               /\ [NoNotice EXCEPT !.step = "address", !.calm = b].step = "address"
               /\ [NoNotice EXCEPT !.step = "address", !.calm = b].calm = b
    BY DEF NoNotice, NoAddress, NoticeRecords, NoConfig
  <2>2. calm \in BOOLEAN
    OBVIOUS
  <2> HIDE DEF calm
  <2> QED BY <2>1, <2>2
<1>5. calm => (Usable(transport) => transport.edits = config[transport.id].edits)
  BY DEF MailInv, CacheFits
<1> HIDE DEF n, calm
<1>6. NoticeFits(n, LookUpBegun, transport, ActiveIds, config)
  BY <1>4, <1>5 DEF NoticeFits, LookUpBegun
<1> QED BY <1>1, <1>2, <1>3, <1>4, <1>6, MailMoves

\* The address is read, and the transport is looked up once more.
LEMMA AddressKeeps == ASSUME MailInv, NEW m \in Mailers, HaveAdminEmail(m) PROVE MailInv'
<1> USE EmailAssumption
<1> DEFINE mail == mailer[m]
           sent == mail.sent
<1>1. /\ mail \in MailRecords /\ notice[m] \in NoticeRecords
      /\ MailFits(mail, transport, ActiveIds) /\ NoticeFits(notice[m], mail, transport, ActiveIds, config)
      /\ transport \in Transports /\ IdleMailer \in MailRecords /\ NoNotice \in NoticeRecords
      /\ mails' \in Nat /\ mails' <= MaxMails
  BY OfOneMail DEF HaveAdminEmail
<1>2. UNCHANGED <<config, saver, transport, puts>> /\ mail.step = "sent" /\ notice[m].step = "address"
  BY DEF HaveAdminEmail
<1>3. CASE sent.id = NoConfig
  <2>1. mailer' = [mailer EXCEPT ![m] = IdleMailer] /\ notice' = [notice EXCEPT ![m] = NoNotice]
    BY <1>3 DEF HaveAdminEmail
  <2>2. MailFits(IdleMailer, transport, ActiveIds) /\ NoticeFits(NoNotice, IdleMailer, transport, ActiveIds, config)
    BY DEF IdleMailer, MailFits, NoNotice, NoticeFits
  <2> HIDE DEF mail, sent
  <2> QED BY <1>1, <1>2, <2>1, <2>2, MailMoves
<1>4. CASE sent.id # NoConfig
  <2> DEFINE to == [id |-> sent.id, edits |-> sent.edits]
             calm == notice[m].calm /\ ~sent.stale
             n == [notice[m] EXCEPT !.step = "post", !.calm = calm, !.to = to]
  <2>1. mailer' = [mailer EXCEPT ![m] = LookUpBegun]
    BY <1>4, LookUpFits DEF HaveAdminEmail
  <2>2. LookUpBegun \in MailRecords /\ MailFits(LookUpBegun, transport, ActiveIds)
    BY LookUpFits
  <2>3. sent \in Transports
    BY <1>1 DEF MailRecords
  <2>4. to \in [id : Nat, edits : Nat] /\ to.id = sent.id /\ to.edits = sent.edits
    <3>1. Len(config) \in Nat
      BY DEF MailInv, SettingsFit
    <3> QED BY <2>3, <3>1 DEF Transports
  <2>5. notice' = [notice EXCEPT ![m] = n]
    <3>1. DOMAIN notice = Mailers
            /\ notice' = [notice EXCEPT ![m].step = "post", ![m].calm = @ /\ ~mailer[m].sent.stale,
                            ![m].to = [id |-> mailer[m].sent.id, edits |-> mailer[m].sent.edits]]
      BY <1>4 DEF MailInv, NoticesFit, HaveAdminEmail
    <3> QED BY <1>1, <3>1 DEF NoticeRecords
  <2> HIDE DEF to, calm
  <2>6. calm \in BOOLEAN
    BY DEF calm
  <2>7. n \in NoticeRecords /\ n.calm = calm /\ n.to = to /\ n.step = "post"
    BY <1>1, <2>4, <2>6 DEF NoticeRecords
  <2> HIDE DEF n
  <2>8. calm => Usable(sent) /\ notice[m].calm
    BY <1>4 DEF calm, Usable
  <2>9. calm => AsStored(to, ActiveIds, config) /\ (Usable(transport) => transport.edits = config[transport.id].edits)
    BY <1>1, <1>2, <2>4, <2>8 DEF NoticeFits, AsStored
  <2>10. NoticeFits(n, LookUpBegun, transport, ActiveIds, config)
    BY <2>7, <2>9 DEF NoticeFits, LookUpBegun
  <2> HIDE DEF mail, sent
  <2> QED BY <1>1, <1>2, <2>1, <2>2, <2>5, <2>7, <2>10, MailMoves
<1> QED BY <1>3, <1>4

\* The notice goes out, or into the outbox.
LEMMA TrySendKeeps == ASSUME MailInv, NEW m \in Mailers, TrySendNotice(m) PROVE MailInv'
<1> USE EmailAssumption
<1>1. /\ mailer' = [mailer EXCEPT ![m] = IdleMailer] /\ notice' = [notice EXCEPT ![m] = NoNotice]
      /\ UNCHANGED <<config, saver, transport, puts>>
  BY DEF TrySendNotice
<1>2. /\ transport \in Transports /\ IdleMailer \in MailRecords /\ NoNotice \in NoticeRecords
      /\ mails' \in Nat /\ mails' <= MaxMails
  BY OfOneMail DEF TrySendNotice
<1>3. MailFits(IdleMailer, transport, ActiveIds) /\ NoticeFits(NoNotice, IdleMailer, transport, ActiveIds, config)
  BY DEF IdleMailer, MailFits, NoNotice, NoticeFits
<1> QED BY <1>1, <1>2, <1>3, MailMoves

\* A save goes on while the rows and the mails stay as they are.
LEMMA SaveOnly ==
  ASSUME MailInv, SaversFit', UNCHANGED <<config, mailer, notice>>, transport' \in Transports,
         Usable(transport') => /\ Usable(transport) /\ transport'.id = transport.id
                               /\ transport'.edits = transport.edits,
         Usable(transport') => \/ transport'.edits = config[transport'.id].edits
                               \/ \E s \in Savers : saver'[s].todo # << >>
  PROVE  MailInv'
<1>1. ActiveIds' = ActiveIds /\ Transports' = Transports /\ MailRecords' = MailRecords
  BY DEF ActiveIds, Stored, Transports, MailRecords
<1>2. SettingsFit' /\ CacheFits'
  BY <1>1 DEF MailInv, SettingsFit, CacheFits
<1>3. \A k \in Mailers : /\ MailFits(mailer[k], transport', ActiveIds)
                         /\ NoticeFits(notice[k], mailer[k], transport', ActiveIds, config)
  <2> SUFFICES ASSUME NEW k \in Mailers
               PROVE  /\ MailFits(mailer[k], transport', ActiveIds)
                      /\ NoticeFits(notice[k], mailer[k], transport', ActiveIds, config)
    OBVIOUS
  <2>1. MailFits(mailer[k], transport, ActiveIds) /\ NoticeFits(notice[k], mailer[k], transport, ActiveIds, config)
    BY OfOneMail
  <2>2. \A u : (Usable(u) => Usable(transport) /\ u.id = transport.id /\ u.edits = transport.edits)
               => /\ MailFits(mailer[k], u, ActiveIds)
                  /\ NoticeFits(notice[k], mailer[k], u, ActiveIds, config)
    BY <2>1, CacheLoses
  <2> QED BY <2>2
<1>4. MailersFit' /\ NoticesFit'
  BY <1>1, <1>3 DEF MailInv, MailersFit, NoticesFit
<1> QED BY <1>2, <1>4 DEF MailInv

\* What a saver is at changes for one save; the statements due stay in the budget.
LEMMA SaverMoves ==
  ASSUME MailInv, NEW s \in Savers, NEW id \in DOMAIN config', NEW todo \in Todos,
         saver' = [saver EXCEPT ![s] = [id |-> id, todo |-> todo]],
         config' \in Seq(Rows), Len(config') >= Len(config), UNCHANGED mails,
         puts' \in Nat, puts' <= MaxEmailSaves,
         Cardinality(EditsDue)' <= puts',
         \A i \in DOMAIN config' : config'[i].edits + Cardinality(EditsDue)' <= puts'
  PROVE  SaversFit'
<1>1. /\ saver \in [Savers -> [id : 0..Len(config), todo : Todos]]
      /\ \A r \in Savers : saver[r].todo # << >> => saver[r].id \in DOMAIN config
      /\ mails \in Nat /\ mails <= MaxMails /\ config \in Seq(Rows)
  BY DEF MailInv, SaversFit, SettingsFit
<1>2. /\ Len(config) \in Nat /\ Len(config') \in Nat /\ DOMAIN config = 1..Len(config)
      /\ DOMAIN config' = 1..Len(config')
  BY <1>1
<1>3. \A r \in Savers : saver'[r] = IF r = s THEN [id |-> id, todo |-> todo] ELSE saver[r]
  BY <1>1
<1>4. \A r \in Savers : saver'[r] \in [id : 0..Len(config'), todo : Todos]
  <2>1. [id |-> id, todo |-> todo] \in [id : 0..Len(config'), todo : Todos]
    BY <1>2
  <2>2. \A r \in Savers : saver[r] \in [id : 0..Len(config'), todo : Todos]
    BY <1>1, <1>2
  <2> QED BY <1>3, <2>1, <2>2
<1>5. saver' \in [Savers -> [id : 0..Len(config'), todo : Todos]]
  BY <1>1, <1>4
<1>6. \A r \in Savers : saver'[r].todo # << >> => saver'[r].id \in DOMAIN config'
  BY <1>1, <1>2, <1>3
<1> QED BY <1>1, <1>5, <1>6 DEF SaversFit

\* A save is accepted: it may owe one statement that writes columns.
LEMMA BeginKeeps ==
  ASSUME MailInv, NEW s \in Savers, NEW id \in DOMAIN config', NEW todo \in Todos,
         Free(s), Begin(s, id, todo), config' \in Seq(Rows), Len(config') >= Len(config), UNCHANGED mails,
         \A i \in DOMAIN config' : \/ i \in DOMAIN config /\ config'[i].edits = config[i].edits
                                   \/ config'[i].edits = 0
  PROVE  SaversFit'
<1> USE EmailAssumption
<1>1. saver' = [saver EXCEPT ![s] = [id |-> id, todo |-> todo]] /\ puts' = puts + 1 /\ puts < MaxEmailSaves
  BY DEF Free, Begin
<1>2. /\ SaversFit /\ saver \in [Savers -> [id : 0..Len(config), todo : Todos]] /\ puts \in Nat
      /\ Cardinality(EditsDue) <= puts
      /\ \A i \in DOMAIN config : config[i].edits + Cardinality(EditsDue) <= puts
      /\ config \in Seq(Rows)
  BY DEF MailInv, SaversFit, SettingsFit
<1>3. \A r \in Savers \ {s} : saver'[r] = saver[r]
  BY <1>1, <1>2
<1>4. /\ Cardinality(EditsDue) \in Nat /\ Cardinality(EditsDue)' \in Nat
      /\ Cardinality(EditsDue)' <= Cardinality(EditsDue) + 1
  BY <1>2, <1>3, DueCounts
<1>5. Cardinality(EditsDue)' <= puts'
  BY <1>1, <1>2, <1>4
<1>6. \A i \in DOMAIN config' : config'[i].edits + Cardinality(EditsDue)' <= puts'
  <2> SUFFICES ASSUME NEW i \in DOMAIN config' PROVE config'[i].edits + Cardinality(EditsDue)' <= puts'
    OBVIOUS
  <2>1. CASE i \in DOMAIN config /\ config'[i].edits = config[i].edits
    <3>1. config[i].edits + Cardinality(EditsDue) <= puts
      BY <1>2, <2>1
    <3>2. config[i] \in Rows
      BY <1>2, <2>1
    <3>3. config[i].edits \in Nat
      BY <3>2 DEF Rows
    <3> QED BY <1>1, <1>2, <1>4, <2>1, <3>1, <3>3
  <2>2. CASE config'[i].edits = 0
    BY <1>4, <1>5, <2>2
  <2> QED BY <2>1, <2>2
<1>7. puts' \in Nat /\ puts' <= MaxEmailSaves
  BY <1>1, <1>2
<1> QED BY <1>1, <1>5, <1>6, <1>7, SaverMoves

\* The rows change, and the mails note which are active now.  Notices are no
\* longer calm, unless the rows are the same after all.
LEMMA RowsMove ==
  ASSUME MailInv, SettingsFit', SaversFit', Len(config') >= Len(config), UNCHANGED transport,
         \/ \E s \in Savers : saver'[s].todo # << >>
         \/ \A i \in DOMAIN config : config'[i].edits = config[i].edits,
         \A s \in Savers : saver[s].todo # << >> => saver'[s].todo # << >>,
         NEW noted \in SUBSET DOMAIN config', ActiveIds' \subseteq ActiveIds \cup noted,
         \A m \in Mailers : mailer'[m] = [mailer[m] EXCEPT !.since = @ \cup noted],
         DOMAIN mailer' = Mailers, mailer' = [m \in DOMAIN mailer' |-> mailer'[m]],
         \/ config' = config /\ UNCHANGED notice
         \/ Disturbs
  PROVE  MailInv'
<1>1. /\ config \in Seq(Rows) /\ config' \in Seq(Rows) /\ Len(config) \in Nat /\ Len(config') \in Nat
      /\ DOMAIN config = 1..Len(config) /\ DOMAIN config' = 1..Len(config')
  <2>1. config \in Seq(Rows) /\ config' \in Seq(Rows)
    BY DEF MailInv, SettingsFit
  <2> QED BY <2>1
<1>2. Transports \subseteq Transports'
  BY <1>1 DEF Transports
<1>3. CacheFits'
  <2>1. transport' \in Transports'
    BY <1>2 DEF MailInv, CacheFits
  <2>2. Usable(transport) => transport.id \in DOMAIN config
    BY <1>1 DEF MailInv, CacheFits, Transports, Usable, NoConfig
  <2>3. Usable(transport) => \/ transport.edits = config'[transport.id].edits
                             \/ \E s \in Savers : saver'[s].todo # << >>
    BY <2>2 DEF MailInv, CacheFits
  <2> QED BY <2>1, <2>3 DEF CacheFits
<1>4. \A m \in Mailers : /\ mailer[m] \in MailRecords
                         /\ mailer'[m].step = mailer[m].step /\ mailer'[m].row = mailer[m].row
                         /\ mailer'[m].sent = mailer[m].sent /\ mailer'[m].since = mailer[m].since \cup noted
  BY OfOneMail DEF MailRecords
<1>5. mailer' \in [Mailers -> MailRecords']
  <2>1. \A m \in Mailers : mailer'[m] \in MailRecords'
    <3> SUFFICES ASSUME NEW m \in Mailers PROVE mailer'[m] \in MailRecords'
      OBVIOUS
    <3>1. mailer[m].since \cup noted \in SUBSET DOMAIN config'
      BY <1>1, <1>4 DEF MailRecords
    <3>2. mailer[m].row \in Transports' /\ mailer[m].sent \in Transports'
      BY <1>2, <1>4 DEF MailRecords
    <3>3. mailer[m].step \in {"idle", "read", "recheck", "take", "drop", "build", "sent"}
      BY <1>4 DEF MailRecords
    <3>4. mailer'[m] = [step |-> mailer[m].step, row |-> mailer[m].row, sent |-> mailer[m].sent,
                        since |-> mailer[m].since \cup noted]
      <4>1. mailer'[m] = [mailer[m] EXCEPT !.since = @ \cup noted] /\ mailer[m] \in MailRecords
        BY <1>4
      <4> QED BY <4>1 DEF MailRecords
    <3> QED BY <3>1, <3>2, <3>3, <3>4 DEF MailRecords
  <2> QED BY <2>1
<1>6. \A m \in Mailers : MailFits(mailer'[m], transport', ActiveIds')
  <2> SUFFICES ASSUME NEW m \in Mailers PROVE MailFits(mailer'[m], transport', ActiveIds')
    OBVIOUS
  <2>1. MailFits(mailer[m], transport, ActiveIds)
    BY OfOneMail
  <2> QED BY <1>4, <2>1 DEF MailFits
<1>7. \A m \in Mailers : /\ notice'[m] \in NoticeRecords
                         /\ NoticeFits(notice'[m], mailer'[m], transport', ActiveIds', config')
  <2> SUFFICES ASSUME NEW m \in Mailers
               PROVE  /\ notice'[m] \in NoticeRecords
                      /\ NoticeFits(notice'[m], mailer'[m], transport', ActiveIds', config')
    OBVIOUS
  <2>1. NoticeFits(notice[m], mailer[m], transport, ActiveIds, config) /\ notice[m] \in NoticeRecords
    BY OfOneMail
  <2>2. CASE config' = config /\ UNCHANGED notice
    <3>1. ActiveIds' = ActiveIds
      BY <2>2 DEF ActiveIds, Stored
    <3> QED BY <1>4, <2>1, <2>2, <3>1 DEF NoticeFits
  <2>3. CASE Disturbs
    <3>1. notice'[m] = [notice[m] EXCEPT !.calm = FALSE]
      BY <2>3 DEF Disturbs
    <3>2. notice'[m] \in NoticeRecords /\ ~notice'[m].calm
      BY <2>1, <3>1 DEF NoticeRecords
    <3> QED BY <3>2 DEF NoticeFits
  <2> QED BY <2>2, <2>3
<1>8. notice' \in [Mailers -> NoticeRecords]
  <2>1. notice' = [m \in Mailers |-> notice'[m]]
    BY DEF MailInv, NoticesFit, Disturbs
  <2> QED BY <1>7, <2>1
<1>9. MailersFit' /\ NoticesFit'
  BY <1>5, <1>6, <1>7, <1>8 DEF MailersFit, NoticesFit, MailRecords, NoticeRecords
<1> QED BY <1>3, <1>9 DEF MailInv

\* One statement: the rows stay rows, one of them active at most, and only "edit"
\* writes the columns of one.
LEMMA WrittenFits ==
  ASSUME SettingsFit, NEW id \in DOMAIN config,
         NEW statement \in {"activate", "deactivate", "delete", "edit"}
  PROVE  LET rows == Written(id, statement)
         IN /\ rows \in Seq(Rows) /\ Len(rows) = Len(config) /\ DOMAIN rows = DOMAIN config
            /\ \A i \in DOMAIN config : rows[i].gone => ~rows[i].on
            /\ \A i, j \in DOMAIN config : rows[i].on /\ rows[j].on => i = j
            /\ \A i \in DOMAIN config : rows[i].edits =
                 IF statement = "edit" /\ i = id /\ ~config[id].gone THEN config[i].edits + 1 ELSE config[i].edits
<1>1. /\ config \in Seq(Rows) /\ Len(config) \in Nat /\ DOMAIN config = 1..Len(config)
      /\ \A i \in DOMAIN config : config[i] \in Rows
  <2>1. config \in Seq(Rows)
    BY DEF SettingsFit
  <2> QED BY <2>1
<1>2. \A i \in DOMAIN config : config[i].gone => ~config[i].on
  BY DEF SettingsFit
<1>3. \A i, j \in DOMAIN config : config[i].on /\ config[j].on => i = j
  BY <1>2 DEF SettingsFit, ActiveIds, Stored
<1> DEFINE rows == Written(id, statement)
<1>4. ASSUME NEW r, r = [i \in 1..Len(config) |-> r[i]], \A i \in DOMAIN config : r[i] \in Rows
      PROVE  r \in Seq(Rows) /\ Len(r) = Len(config) /\ DOMAIN r = DOMAIN config
  BY <1>1, <1>4
<1>5. CASE statement = "activate"
  <2>1. rows = Activated(id)
    BY <1>5 DEF Written
  <2>2. ASSUME NEW i \in DOMAIN config
        PROVE  /\ rows[i] \in Rows /\ rows[i].gone = config[i].gone /\ rows[i].edits = config[i].edits
               /\ rows[i].on => i = id /\ ~config[i].gone
    <3> DEFINE on == IF i = id THEN config[i].on \/ ~config[id].gone
                     ELSE IF config[i].gone THEN config[i].on ELSE FALSE
    <3>1. rows[i] = [config[i] EXCEPT !.on = on]
      BY <2>1 DEF Activated
    <3>2. config[i] \in Rows /\ on \in BOOLEAN
      BY <1>1 DEF Rows
    <3>3. on => i = id /\ ~config[i].gone
      <4>1. config[i].on \in BOOLEAN /\ config[i].gone \in BOOLEAN
        BY <3>2 DEF Rows
      <4> QED BY <1>2, <4>1
    <3> HIDE DEF on
    <3> QED BY <3>1, <3>2, <3>3 DEF Rows
  <2>3. rows = [i \in 1..Len(config) |-> rows[i]]
    BY <1>1, <2>1 DEF Activated
  <2> HIDE DEF rows
  <2>4. rows \in Seq(Rows) /\ Len(rows) = Len(config) /\ DOMAIN rows = DOMAIN config
    BY <1>4, <2>2, <2>3
  <2>5. \A i, j \in DOMAIN config : rows[i].on /\ rows[j].on => i = j
    BY <2>2
  <2>6. \A i \in DOMAIN config : rows[i].gone => ~rows[i].on
    BY <1>2, <2>2
  <2> QED BY <1>5, <2>2, <2>4, <2>5, <2>6 DEF rows
<1>6. CASE statement # "activate"
  <2>1. PICK row \in Rows : /\ rows = [config EXCEPT ![id] = row]
                            /\ row.on => config[id].on
                            /\ row.gone => ~row.on
                            /\ row.edits = IF statement = "edit" /\ ~config[id].gone
                                           THEN config[id].edits + 1 ELSE config[id].edits
    <3>1. config[id] \in Rows /\ config = [config EXCEPT ![id] = config[id]] /\ (config[id].gone => ~config[id].on)
      BY <1>1, <1>2
    <3>2. CASE statement = "delete"
      <4> DEFINE on == IF config[id].gone THEN config[id].on ELSE FALSE
                 row == [[config[id] EXCEPT !.gone = TRUE] EXCEPT !.on = on]
      <4>1. rows = [config EXCEPT ![id].gone = TRUE, ![id].on = on]
        BY <3>1, <3>2 DEF Written, Deleted
      <4>2. on \in BOOLEAN /\ ~on
        BY <3>1 DEF Rows
      <4> HIDE DEF on
      <4>3. rows = [config EXCEPT ![id] = row]
        BY <3>1, <4>1
      <4>4. row \in Rows /\ row.on = on /\ row.edits = config[id].edits
        BY <3>1, <4>2 DEF Rows
      <4> QED BY <3>2, <4>2, <4>3, <4>4
    <3>3. CASE statement # "delete" /\ config[id].gone
      <4>1. rows = config
        BY <1>6, <3>3 DEF Written
      <4> QED BY <3>1, <3>3, <4>1
    <3>4. CASE statement = "edit" /\ ~config[id].gone
      <4> DEFINE row == [config[id] EXCEPT !.edits = @ + 1]
      <4>1. rows = [config EXCEPT ![id] = row]
        BY <3>1, <3>4 DEF Written
      <4>2. row \in Rows /\ row.on = config[id].on /\ row.gone = config[id].gone /\ row.edits = config[id].edits + 1
        BY <3>1 DEF Rows
      <4> QED BY <3>1, <3>4, <4>1, <4>2
    <3>5. CASE statement = "deactivate" /\ ~config[id].gone
      <4> DEFINE row == [config[id] EXCEPT !.on = FALSE]
      <4>1. rows = [config EXCEPT ![id] = row]
        BY <3>1, <3>5 DEF Written
      <4>2. row \in Rows /\ ~row.on /\ row.edits = config[id].edits
        BY <3>1 DEF Rows
      <4> QED BY <3>5, <4>1, <4>2
    <3> QED BY <1>6, <3>2, <3>3, <3>4, <3>5
  <2>2. rows = [i \in 1..Len(config) |-> rows[i]] /\ \A i \in DOMAIN config : rows[i] = IF i = id THEN row ELSE config[i]
    BY <1>1, <2>1
  <2> HIDE DEF rows
  <2>3. rows \in Seq(Rows) /\ Len(rows) = Len(config) /\ DOMAIN rows = DOMAIN config
    BY <1>1, <1>4, <2>2
  <2>4. \A i \in DOMAIN config : rows[i].gone => ~rows[i].on
    BY <1>2, <2>1, <2>2
  <2>5. \A i, j \in DOMAIN config : rows[i].on /\ rows[j].on => i = j
    BY <1>3, <2>1, <2>2
  <2>6. \A i \in DOMAIN config : rows[i].edits =
          IF statement = "edit" /\ i = id /\ ~config[id].gone THEN config[i].edits + 1 ELSE config[i].edits
    BY <2>1, <2>2
  <2> QED BY <2>3, <2>4, <2>5, <2>6 DEF rows
<1> QED BY <1>5, <1>6

\* What MailInv says of one save.
LEMMA OfOneSave ==
  ASSUME MailInv, NEW s \in Savers
  PROVE  /\ SaversFit /\ SettingsFit /\ config \in Seq(Rows) /\ Len(config) \in Nat /\ DOMAIN config = 1..Len(config)
         /\ \A i \in DOMAIN config : config[i].edits \in Nat
         /\ saver \in [Savers -> [id : 0..Len(config), todo : Todos]] /\ saver[s].todo \in Todos
         /\ saver[s].todo # << >> => saver[s].id \in DOMAIN config
         /\ puts \in Nat /\ puts <= MaxEmailSaves /\ Cardinality(EditsDue) <= puts
         /\ \A i \in DOMAIN config : config[i].edits + Cardinality(EditsDue) <= puts
         /\ transport \in Transports
<1>1. config \in Seq(Rows)
  BY DEF MailInv, SettingsFit
<1>2. \A i \in DOMAIN config : config[i] \in Rows
  BY <1>1
<1> QED BY <1>1, <1>2 DEF MailInv, SaversFit, CacheFits, Rows

\* A page adds a configuration: inactive, and only in the books after the others.
LEMMA CreateKeeps ==
  ASSUME MailInv, NEW s \in Savers, NEW active \in BOOLEAN, create(s, active),
         IF config' = config THEN UNCHANGED notice ELSE Disturbs
  PROVE  MailInv'
<1> USE EmailAssumption
<1> DEFINE row == [on |-> FALSE, gone |-> FALSE, edits |-> 0]
           todo == IF active THEN <<"activate", "forget">> ELSE << >>
<1>1. /\ config' = Append(config, row) /\ Len(config) < MaxConfigs /\ Free(s)
      /\ Begin(s, Len(config) + 1, todo) /\ UNCHANGED <<transport, mailer, mails>>
  BY DEF create
<1>2. row \in Rows /\ row.edits = 0 /\ ~row.on
  BY DEF Rows
<1>3. config \in Seq(Rows) /\ Len(config) \in Nat /\ DOMAIN config = 1..Len(config)
  BY OfOneSave
<1> HIDE DEF row, todo
<1>4. /\ config' \in Seq(Rows) /\ Len(config') = Len(config) + 1 /\ DOMAIN config' = 1..(Len(config) + 1)
      /\ \A i \in DOMAIN config' : config'[i] = IF i \in DOMAIN config THEN config[i] ELSE row
      /\ Len(config') >= Len(config) /\ Len(config') <= MaxConfigs
  <2>1. config' = Append(config, row)
    BY <1>1
  <2>2. Append(config, row) \in Seq(Rows) /\ Len(Append(config, row)) = Len(config) + 1
    BY <1>2, <1>3
  <2>3. \A i \in 1..(Len(config) + 1) : Append(config, row)[i] = IF i \in DOMAIN config THEN config[i] ELSE row
    BY <1>3
  <2>4. DOMAIN Append(config, row) = 1..(Len(config) + 1)
    BY <1>3
  <2>5. Len(config) + 1 >= Len(config) /\ Len(config) + 1 <= MaxConfigs
    <3>1. Len(config) < MaxConfigs /\ Len(config) \in Nat /\ MaxConfigs \in Nat
      BY <1>1, <1>3
    <3> QED BY ONLY <3>1
  <2> QED BY <2>1, <2>2, <2>3, <2>4, <2>5
<1>5. todo \in Todos /\ Len(config) + 1 \in DOMAIN config'
  BY <1>3, <1>4 DEF Todos, todo
<1>6. SaversFit'
  <2>1. \A i \in DOMAIN config' : \/ i \in DOMAIN config /\ config'[i].edits = config[i].edits
                                  \/ config'[i].edits = 0
    BY <1>2, <1>4
  <2>2. Len(config') >= Len(config) /\ UNCHANGED mails
    BY <1>1, <1>4
  <2> QED BY <1>1, <1>4, <1>5, <2>1, <2>2, BeginKeeps
<1>7. ActiveIds' = ActiveIds
  BY <1>2, <1>3, <1>4 DEF ActiveIds, Stored
<1>8. SettingsFit'
  <2>1. \A id \in DOMAIN config' : config'[id].gone => ~config'[id].on
    BY <1>2, <1>4 DEF MailInv, SettingsFit
  <2> QED BY <1>4, <1>7, <2>1 DEF MailInv, SettingsFit
<1>9. \A i \in DOMAIN config : config'[i].edits = config[i].edits
  BY <1>3, <1>4
<1>10. \A r \in Savers : saver[r].todo # << >> => saver'[r].todo # << >>
  BY <1>1, OfOneSave DEF Free, Begin
<1>11. /\ \A m \in Mailers : mailer'[m] = [mailer[m] EXCEPT !.since = @ \cup {}]
       /\ DOMAIN mailer' = Mailers /\ mailer' = [m \in DOMAIN mailer' |-> mailer'[m]]
  <2>1. mailer' = mailer /\ mailer \in [Mailers -> MailRecords]
    BY <1>1 DEF MailInv, MailersFit
  <2>2. \A m \in Mailers : mailer[m] = [mailer[m] EXCEPT !.since = @ \cup {}]
    <3> SUFFICES ASSUME NEW m \in Mailers PROVE mailer[m] = [mailer[m] EXCEPT !.since = @ \cup {}]
      OBVIOUS
    <3>1. mailer[m] \in MailRecords /\ mailer[m].since \cup {} = mailer[m].since
      BY <2>1
    <3> QED BY <3>1 DEF MailRecords
  <2> QED BY <2>1, <2>2
<1>12. Len(config') >= Len(config) /\ UNCHANGED transport /\ {} \in SUBSET DOMAIN config'
       /\ ActiveIds' \subseteq ActiveIds \cup {}
  BY <1>1, <1>4, <1>7
<1> QED BY <1>6, <1>8, <1>9, <1>10, <1>11, <1>12, RowsMove

\* The other pages begin, and leave statements to run.
LEMMA StartKeeps ==
  ASSUME MailInv, NEW s \in Savers, NEW id \in DOMAIN config, UNCHANGED notice,
         \/ \E wish \in {"on", "off", "as is"} : StartUpdate(s, id, wish)
         \/ StartRemove(s, id) \/ StartActivate(s, id)
  PROVE  MailInv'
<1>1. PICK todo \in Todos : Begin(s, id, todo)
  BY DEF StartUpdate, StartRemove, StartActivate, Todos
<1>2. Free(s) /\ UNCHANGED <<config, transport, mailer, mails>>
  BY DEF StartUpdate, StartRemove, StartActivate
<1>3. SaversFit'
  <2>1. config' \in Seq(Rows) /\ Len(config') >= Len(config) /\ id \in DOMAIN config' /\ UNCHANGED mails
    <3>1. config \in Seq(Rows) /\ Len(config) \in Nat
      BY OfOneSave
    <3>2. Len(config) >= Len(config)
      BY ONLY <3>1
    <3>3. config' = config /\ UNCHANGED mails
      BY <1>2
    <3> QED BY <3>1, <3>2, <3>3
  <2>2. \A i \in DOMAIN config' : i \in DOMAIN config /\ config'[i].edits = config[i].edits
    BY <1>2
  <2> QED BY <1>1, <1>2, <2>1, <2>2, BeginKeeps
<1>4. \A r \in Savers : saver[r].todo # << >> => saver'[r].todo # << >>
  BY <1>1, <1>2, OfOneSave DEF Free, Begin
<1>5. /\ transport' = transport /\ transport \in Transports
      /\ Usable(transport) => \/ transport.edits = config[transport.id].edits
                              \/ \E r \in Savers : saver'[r].todo # << >>
  BY <1>2, <1>4 DEF MailInv, CacheFits
<1> QED BY <1>2, <1>3, <1>5, SaveOnly

\* The next statement of a save.
LEMMA StatementKeeps ==
  ASSUME MailInv, NEW s \in Savers, RunStatement(s), IF config' = config THEN UNCHANGED notice ELSE Disturbs
  PROVE  MailInv'
<1> USE EmailAssumption
<1> DEFINE id == saver[s].id
           todo == saver[s].todo
           statement == Head(todo)
<1>1. /\ todo # << >> /\ statement # "forget" /\ config' = Written(id, statement) /\ Noting(config')
      /\ saver' = [saver EXCEPT ![s].todo = Tail(@)] /\ UNCHANGED <<transport, puts, mails>>
  BY DEF RunStatement
<1>2. /\ SaversFit /\ SettingsFit /\ config \in Seq(Rows) /\ Len(config) \in Nat /\ DOMAIN config = 1..Len(config)
      /\ \A i \in DOMAIN config : config[i].edits \in Nat
      /\ saver \in [Savers -> [id : 0..Len(config), todo : Todos]] /\ todo \in Todos
      /\ id \in DOMAIN config /\ puts \in Nat /\ puts <= MaxEmailSaves /\ Cardinality(EditsDue) <= puts
      /\ \A i \in DOMAIN config : config[i].edits + Cardinality(EditsDue) <= puts
  BY <1>1, OfOneSave
<1>3. /\ Tail(todo) \in Todos /\ Tail(todo) # << >> /\ Head(Tail(todo)) # "edit"
      /\ statement \in {"activate", "deactivate", "delete", "edit"}
  BY <1>1, <1>2, TodosGoOn
<1>4. saver' = [saver EXCEPT ![s] = [id |-> id, todo |-> Tail(todo)]]
  <2>1. saver[s] \in [id : 0..Len(config), todo : Todos]
    BY <1>2
  <2>2. [saver[s] EXCEPT !.todo = Tail(todo)] = [id |-> id, todo |-> Tail(todo)]
    <3>1. ASSUME NEW save \in [id : 0..Len(config), todo : Todos], NEW rest
          PROVE  [save EXCEPT !.todo = rest] = [id |-> save.id, todo |-> rest]
      OBVIOUS
    <3> QED BY <2>1, <3>1
  <2>3. saver' = [saver EXCEPT ![s] = [saver[s] EXCEPT !.todo = Tail(todo)]]
    BY <1>1
  <2> QED BY <2>2, <2>3
<1>5. /\ config' \in Seq(Rows) /\ Len(config') = Len(config) /\ DOMAIN config' = DOMAIN config
      /\ \A i \in DOMAIN config : config'[i].gone => ~config'[i].on
      /\ \A i, j \in DOMAIN config : config'[i].on /\ config'[j].on => i = j
      /\ \A i \in DOMAIN config : config'[i].edits =
           IF statement = "edit" /\ i = id /\ ~config[id].gone THEN config[i].edits + 1 ELSE config[i].edits
  <2> HIDE DEF id, statement
  <2> QED BY <1>1, <1>2, <1>3, WrittenFits
<1>6. SettingsFit'
  <2>1. \A i, j \in ActiveIds' : i = j
    BY <1>5 DEF ActiveIds, Stored
  <2>2. Len(config') <= MaxConfigs
    BY <1>2, <1>5 DEF SettingsFit
  <2> QED BY <1>5, <2>1, <2>2 DEF SettingsFit
<1>7. SaversFit'
  <2>1. \A r \in Savers \ {s} : saver'[r] = saver[r]
    BY <1>2, <1>4
  <2>2. ~Due(saver'[s])
    BY <1>2, <1>3, <1>4 DEF Due
  <2>3. Due(saver[s]) <=> statement = "edit"
    BY <1>1 DEF Due
  <2>4. /\ Cardinality(EditsDue) \in Nat /\ Cardinality(EditsDue)' \in Nat
        /\ Cardinality(EditsDue)' <= Cardinality(EditsDue)
        /\ statement = "edit" => Cardinality(EditsDue)' <= Cardinality(EditsDue) - 1
    BY <1>2, <2>1, <2>2, <2>3, DueCounts
  <2>5. \A i \in DOMAIN config' : config'[i].edits + Cardinality(EditsDue)' <= puts'
    <3> SUFFICES ASSUME NEW i \in DOMAIN config PROVE config'[i].edits + Cardinality(EditsDue)' <= puts'
      BY <1>5
    <3>1. /\ config[i].edits \in Nat /\ config[i].edits + Cardinality(EditsDue) <= puts /\ puts' = puts
          /\ \/ config'[i].edits = config[i].edits
             \/ statement = "edit" /\ config'[i].edits = config[i].edits + 1
      <4> HIDE DEF statement, id
      <4> QED BY <1>1, <1>2, <1>5
    <3> HIDE DEF statement
    <3> QED BY <1>2, <2>4, <3>1
  <2>6. Cardinality(EditsDue)' <= puts' /\ puts' \in Nat /\ puts' <= MaxEmailSaves /\ UNCHANGED mails
    BY <1>1, <1>2, <2>4
  <2>7. id \in DOMAIN config' /\ Len(config') >= Len(config) /\ config' \in Seq(Rows)
    BY <1>2, <1>5
  <2> HIDE DEF id, todo
  <2> QED BY <1>3, <1>4, <2>5, <2>6, <2>7, SaverMoves
<1>8. saver'[s].todo # << >> /\ \A r \in Savers : saver[r].todo # << >> => saver'[r].todo # << >>
  BY <1>2, <1>3, <1>4
<1>9. /\ \A m \in Mailers : mailer'[m] = [mailer[m] EXCEPT !.since = @ \cup ActiveIds']
      /\ DOMAIN mailer' = Mailers /\ mailer' = [m \in DOMAIN mailer' |-> mailer'[m]]
  <2>1. {i \in DOMAIN config' : config'[i].on /\ ~config'[i].gone} = ActiveIds'
    BY DEF ActiveIds, Stored
  <2> QED BY <1>1, <2>1 DEF Noting
<1>10. Len(config') >= Len(config) /\ UNCHANGED transport /\ ActiveIds' \in SUBSET DOMAIN config'
       /\ ActiveIds' \subseteq ActiveIds \cup ActiveIds'
  BY <1>1, <1>2, <1>5 DEF ActiveIds
<1> QED BY <1>6, <1>7, <1>8, <1>9, <1>10, RowsMove

\* A save ends, by emptying the cache or by a failure.
LEMMA SaveEnds ==
  ASSUME MailInv, NEW s \in Savers, NEW id \in 0..Len(config), UNCHANGED <<config, mailer, notice, puts, mails>>,
         saver' = [saver EXCEPT ![s] = [id |-> id, todo |-> << >>]], transport' \in Transports,
         Usable(transport') => /\ Usable(transport) /\ transport'.id = transport.id
                               /\ transport'.edits = transport.edits
                               /\ transport'.edits = config[transport'.id].edits
  PROVE  MailInv'
<1> USE EmailAssumption
<1>1. /\ SaversFit
      /\ saver \in [Savers -> [id : 0..Len(config), todo : Todos]]
      /\ puts \in Nat
      /\ Cardinality(EditsDue) <= puts
      /\ \A i \in DOMAIN config : config[i].edits \in Nat
      /\ \A i \in DOMAIN config : config[i].edits + Cardinality(EditsDue) <= puts
  BY OfOneSave
<1>2. [id |-> id, todo |-> << >>] \in [id : 0..Len(config), todo : Todos]
  BY DEF Todos
<1>3. saver' \in [Savers -> [id : 0..Len(config), todo : Todos]]
  BY <1>1, <1>2
<1>4. \A r \in Savers : saver'[r] = IF r = s THEN [id |-> id, todo |-> << >>] ELSE saver[r]
  BY <1>1
<1>5. \A r \in Savers : saver'[r].todo # << >> => saver'[r].id \in DOMAIN config
  BY <1>1, <1>4 DEF SaversFit
<1>6. /\ Cardinality(EditsDue) \in Nat /\ Cardinality(EditsDue)' \in Nat
      /\ Cardinality(EditsDue)' <= Cardinality(EditsDue)
  BY <1>1, <1>4, DueCounts DEF Due
<1>7. Cardinality(EditsDue)' <= puts /\ \A i \in DOMAIN config : config[i].edits + Cardinality(EditsDue)' <= puts
  BY <1>1, <1>6
<1>8. SaversFit'
  <2>1. mails \in Nat /\ mails <= MaxMails /\ puts <= MaxEmailSaves
    BY <1>1 DEF SaversFit
  <2>2. Cardinality(EditsDue)' = Cardinality(EditsDue') /\ config' = config /\ puts' = puts /\ mails' = mails
    OBVIOUS
  <2> QED BY <1>1, <1>3, <1>5, <1>7, <2>1, <2>2 DEF SaversFit
<1> QED BY <1>8, SaveOnly

\* The cache is emptied when a save is through.
LEMMA ForgetKeeps ==
  ASSUME MailInv, NEW s \in Savers, invalidateActiveCache(s), UNCHANGED notice
  PROVE  MailInv'
<1> DEFINE save == saver[s]
<1>1. /\ save \in [id : 0..Len(config), todo : Todos] /\ save.todo # << >> /\ Head(save.todo) = "forget"
      /\ saver \in [Savers -> [id : 0..Len(config), todo : Todos]]
  BY OfOneSave DEF invalidateActiveCache
<1>2. Tail(save.todo) = << >> /\ save.id \in 0..Len(config)
  BY <1>1, TodosGoOn
<1>3. saver' = [saver EXCEPT ![s] = [id |-> save.id, todo |-> << >>]]
  <2>1. [save EXCEPT !.todo = << >>] = [id |-> save.id, todo |-> << >>]
    <3>1. ASSUME NEW v \in [id : 0..Len(config), todo : Todos], NEW rest
          PROVE  [v EXCEPT !.todo = rest] = [id |-> v.id, todo |-> rest]
      OBVIOUS
    <3> QED BY <1>1, <3>1
  <2>2. saver' = [saver EXCEPT ![s] = [saver[s] EXCEPT !.todo = << >>]]
    BY <1>2 DEF invalidateActiveCache
  <2> QED BY <2>1, <2>2
<1>4. transport' = NoTransport /\ UNCHANGED <<config, mailer, notice, puts, mails>>
  BY DEF invalidateActiveCache
<1>5. NoTransport \in Transports /\ ~Usable(NoTransport)
  BY DEF MailInv, SettingsFit, NoTransport, NoConfig, Transports, Usable
<1> HIDE DEF save
<1> QED BY <1>2, <1>3, <1>4, <1>5, SaveEnds

\* A statement fails.  The cache stays, and is stale when its row was written.
LEMMA FailKeeps == ASSUME MailInv, NEW s \in Savers, SaveFails(s), UNCHANGED notice PROVE MailInv'
<1> DEFINE worse == transport.stale \/ (transport.id # NoConfig /\ config[transport.id].edits # transport.edits)
           next == [transport EXCEPT !.stale = worse]
<1>1. saver' = [saver EXCEPT ![s] = [id |-> NoConfig, todo |-> << >>]]
  BY DEF SaveFails, IdleSaver
<1>2. UNCHANGED <<config, mailer, notice, puts, mails>> /\ NoConfig \in 0..Len(config)
  BY OfOneSave DEF SaveFails, NoConfig
<1>3. transport \in Transports
  BY OfOneSave
<1>4. transport' = next /\ worse \in BOOLEAN
  BY <1>3 DEF SaveFails, Transports
<1>5. ~worse /\ transport.id # NoConfig => ~transport.stale /\ config[transport.id].edits = transport.edits
  OBVIOUS
<1> HIDE DEF worse
<1>6. next \in Transports /\ next.id = transport.id /\ next.edits = transport.edits /\ next.stale = worse
  BY <1>3, <1>4 DEF Transports
<1> HIDE DEF next
<1>7. Usable(next) => /\ Usable(transport) /\ next.id = transport.id /\ next.edits = transport.edits
                      /\ next.edits = config[next.id].edits
  BY <1>5, <1>6 DEF Usable
<1> QED BY <1>1, <1>2, <1>4, <1>6, <1>7, SaveEnds

\* The process starts again, on the rows stored, or on one from the environment.
LEMMA RestartKeeps ==
  ASSUME MailInv, NEW envSet \in BOOLEAN, Restart(envSet), notice' = [m \in Mailers |-> NoNotice]
  PROVE  MailInv'
<1> USE EmailAssumption
<1> DEFINE row == [on |-> TRUE, gone |-> FALSE, edits |-> 0]
<1>1. /\ puts < MaxEmailSaves /\ puts' = puts + 1 /\ Len(config') <= MaxConfigs /\ mails' = mails
      /\ saver' = [s \in Savers |-> IdleSaver] /\ mailer' = [m \in Mailers |-> IdleMailer]
      /\ transport' = NoTransport
      /\ \/ config' = config
         \/ config' = Append(config, row) /\ \A id \in DOMAIN config : ~Stored(id)
  BY DEF Restart, migrateFromEnv
<1>2. /\ config \in Seq(Rows) /\ Len(config) \in Nat /\ DOMAIN config = 1..Len(config)
      /\ \A i, j \in ActiveIds : i = j
      /\ \A id \in DOMAIN config : config[id].gone => ~config[id].on
      /\ puts \in Nat /\ mails \in Nat /\ mails <= MaxMails
      /\ Cardinality(EditsDue) <= puts
      /\ \A i \in DOMAIN config : config[i].edits + Cardinality(EditsDue) <= puts
  BY DEF MailInv, SettingsFit, SaversFit
<1>3. row \in Rows /\ row.edits = 0 /\ row.on /\ ~row.gone
  BY DEF Rows
<1> HIDE DEF row
<1>4. /\ config' \in Seq(Rows) /\ Len(config') \in Nat /\ DOMAIN config' = 1..Len(config')
      /\ \A i \in DOMAIN config' : \/ i \in DOMAIN config /\ config'[i] = config[i]
                                   \/ i \notin DOMAIN config /\ i = Len(config) + 1 /\ config'[i] = row
      /\ \A i \in DOMAIN config' : i \notin DOMAIN config => \A id \in DOMAIN config : ~Stored(id)
  <2>1. CASE config' = config
    BY <1>2, <2>1
  <2>2. CASE config' = Append(config, row) /\ \A id \in DOMAIN config : ~Stored(id)
    <3>1. Append(config, row) \in Seq(Rows) /\ Len(Append(config, row)) = Len(config) + 1
      BY <1>2, <1>3
    <3>2. \A i \in 1..(Len(config) + 1) : Append(config, row)[i] = IF i \in DOMAIN config THEN config[i] ELSE row
      BY <1>2
    <3>3. DOMAIN Append(config, row) = 1..(Len(config) + 1)
      BY <1>2
    <3> QED BY <1>2, <2>2, <3>1, <3>2, <3>3
  <2> QED BY <1>1, <2>1, <2>2
<1>5. SettingsFit'
  <2>1. \A id \in DOMAIN config' : config'[id].gone => ~config'[id].on
    BY <1>2, <1>3, <1>4
  <2>2. \A i, j \in ActiveIds' : i = j
    <3>1. \A i \in ActiveIds' : i \in DOMAIN config' /\ (i \in DOMAIN config => i \in ActiveIds)
      BY <1>4 DEF ActiveIds, Stored
    <3>2. \A i \in ActiveIds' : i \notin DOMAIN config => i = Len(config) + 1 /\ ActiveIds = {}
      BY <1>4, <3>1 DEF ActiveIds
    <3> QED BY <1>2, <3>1, <3>2
  <2> QED BY <1>1, <1>4, <2>1, <2>2 DEF SettingsFit
<1>6. Cardinality(EditsDue)' = 0 /\ Cardinality(EditsDue) \in Nat
  <2>1. EditsDue' = {}
    BY <1>1 DEF EditsDue, Due, IdleSaver
  <2>2. IsFiniteSet(EditsDue)
    BY FS_Subset DEF EditsDue
  <2> QED BY <2>1, <2>2, FS_EmptySet, FS_CardinalityType
<1>7. SaversFit'
  <2>1. saver' \in [Savers -> [id : 0..Len(config'), todo : Todos]]
    <3>1. Len(config') \in Nat /\ << >> \in Todos
      BY <1>1, <1>2, <1>4 DEF Todos
    <3>2. IdleSaver \in [id : 0..Len(config'), todo : Todos]
      BY <3>1 DEF IdleSaver, NoConfig
    <3> QED BY <1>1, <3>2
  <2>2. \A s \in Savers : saver'[s].todo = << >>
    BY <1>1 DEF IdleSaver
  <2>3. \A i \in DOMAIN config' : config'[i].edits + Cardinality(EditsDue)' <= puts'
    <3> SUFFICES ASSUME NEW i \in DOMAIN config' PROVE config'[i].edits + Cardinality(EditsDue)' <= puts'
      OBVIOUS
    <3>1. CASE i \in DOMAIN config /\ config'[i] = config[i]
      <4>1. config[i] \in Rows /\ config[i].edits + Cardinality(EditsDue) <= puts
        BY <1>2, <3>1
      <4>2. config[i].edits \in Nat
        BY <4>1 DEF Rows
      <4> QED BY <1>1, <1>2, <1>6, <3>1, <4>1, <4>2
    <3>2. CASE config'[i] = row
      BY <1>1, <1>2, <1>3, <1>6, <3>2
    <3> QED BY <1>4, <3>1, <3>2
  <2>4. puts' \in Nat /\ puts' <= MaxEmailSaves /\ Cardinality(EditsDue)' <= puts'
    BY <1>1, <1>2, <1>6
  <2>5. mails' \in Nat /\ mails' <= MaxMails
    BY <1>1, <1>2
  <2> QED BY <2>1, <2>2, <2>3, <2>4, <2>5 DEF SaversFit
<1>8. NoTransport \in Transports' /\ ~Usable(NoTransport)
  BY <1>4 DEF NoTransport, NoConfig, Transports, Usable
<1>9. CacheFits'
  BY <1>1, <1>8 DEF CacheFits
<1>10. IdleMailer \in MailRecords' /\ MailFits(IdleMailer, NoTransport, ActiveIds')
  BY <1>8 DEF IdleMailer, MailRecords, MailFits
<1>11. MailersFit'
  BY <1>1, <1>10 DEF MailersFit
<1>12. NoNotice \in NoticeRecords /\ NoticeFits(NoNotice, IdleMailer, NoTransport, ActiveIds', config')
  BY DEF NoNotice, NoticeRecords, NoAddress, NoConfig, NoticeFits
<1>13. NoticesFit'
  <2>1. \A m \in Mailers : mailer'[m] = IdleMailer /\ notice'[m] = NoNotice
    BY <1>1
  <2>2. notice' \in [Mailers -> NoticeRecords]
    BY <1>12
  <2> QED BY <1>1, <1>12, <2>1, <2>2 DEF NoticesFit
<1> QED BY <1>5, <1>7, <1>9, <1>11, <1>13 DEF MailInv

\* Every step of the settings, the mails and the notices keeps their invariant.
LEMMA MailSteps == MailInv /\ (NoticeNext \/ UNCHANGED noticeVars) => MailInv'
<1> SUFFICES ASSUME MailInv, NoticeNext \/ UNCHANGED noticeVars PROVE MailInv'
  OBVIOUS
<1>1. CASE UNCHANGED noticeVars
  <2>1. UNCHANGED <<config, saver, transport, mailer, puts, mails, notice>>
    BY <1>1 DEF noticeVars, emailVars
  <2>2. ActiveIds' = ActiveIds /\ Transports' = Transports /\ MailRecords' = MailRecords /\ EditsDue' = EditsDue
    BY <2>1 DEF ActiveIds, Stored, Transports, MailRecords, EditsDue
  <2>3. SettingsFit' /\ SaversFit' /\ CacheFits'
    BY <2>1, <2>2 DEF MailInv, SettingsFit, SaversFit, CacheFits
  <2>4. MailersFit' /\ NoticesFit'
    BY <2>1, <2>2 DEF MailInv, MailersFit, NoticesFit
  <2> QED BY <2>3, <2>4 DEF MailInv
<1>2. CASE SaveStep /\ IF config' = config THEN UNCHANGED notice ELSE Disturbs
  <2>1. ASSUME NEW s \in Savers, NEW active \in BOOLEAN, create(s, active) PROVE MailInv'
    BY <1>2, <2>1, CreateKeeps
  <2>2. ASSUME NEW s \in Savers, NEW id \in DOMAIN config,
               \/ \E wish \in {"on", "off", "as is"} : StartUpdate(s, id, wish)
               \/ StartRemove(s, id) \/ StartActivate(s, id)
        PROVE  MailInv'
    <3>1. UNCHANGED notice
      BY <1>2, <2>2 DEF StartUpdate, StartRemove, StartActivate
    <3> QED BY <2>2, <3>1, StartKeeps
  <2>3. ASSUME NEW s \in Savers, RunStatement(s) PROVE MailInv'
    BY <1>2, <2>3, StatementKeeps
  <2>4. ASSUME NEW s \in Savers, invalidateActiveCache(s) PROVE MailInv'
    <3>1. UNCHANGED notice
      BY <1>2, <2>4 DEF invalidateActiveCache
    <3> QED BY <2>4, <3>1, ForgetKeeps
  <2>5. ASSUME NEW s \in Savers, SaveFails(s) PROVE MailInv'
    <3>1. UNCHANGED notice
      BY <1>2, <2>5 DEF SaveFails
    <3> QED BY <2>5, <3>1, FailKeeps
  <2> QED BY <1>2, <2>1, <2>2, <2>3, <2>4, <2>5 DEF SaveStep
<1>3. ASSUME NEW envSet \in BOOLEAN, Restart(envSet), notice' = [m \in Mailers |-> NoNotice] PROVE MailInv'
  BY <1>3, RestartKeeps
<1>4. ASSUME NEW m \in Mailers, StartMail(m), UNCHANGED notice PROVE MailInv'
  BY <1>4, StartMailKeeps
<1>5. ASSUME NEW m \in Mailers, TransportStep(m), UNCHANGED notice PROVE MailInv'
  BY <1>5, LookupKeeps, BuildKeeps DEF TransportStep
<1>6. ASSUME NEW m \in Mailers, notice[m] = NoNotice, EndMail(m), UNCHANGED notice PROVE MailInv'
  BY <1>6, EndKeeps
<1>7. ASSUME NEW m \in Mailers, sendAdminNotification(m) PROVE MailInv'
  BY <1>7, NotifyKeeps
<1>8. ASSUME NEW m \in Mailers, HaveAdminEmail(m) \/ TrySendNotice(m) PROVE MailInv'
  BY <1>8, AddressKeeps, TrySendKeeps
<1> QED BY <1>1, <1>2, <1>3, <1>4, <1>5, <1>6, <1>7, <1>8 DEF NoticeNext

\* What the invariant says of mails, notices and the cache.
LEMMA MailsAreSound == MailInv => NoticesSound
<1> SUFFICES ASSUME MailInv PROVE NoticesSound
  OBVIOUS
<1> USE EmailAssumption
<1>1. /\ config \in Seq(Rows) /\ Len(config) \in Nat /\ DOMAIN config = 1..Len(config)
      /\ \A i \in DOMAIN config : config[i] \in Rows
  <2>1. config \in Seq(Rows)
    BY DEF MailInv, SettingsFit
  <2> QED BY <2>1
<1>2. OneActive
  <2>1. \A i, j \in ActiveIds : i = j
    BY DEF MailInv, SettingsFit
  <2>2. Cardinality(ActiveIds) <= 1
    <3>1. CASE ActiveIds = {}
      BY <3>1, FS_EmptySet
    <3>2. CASE ActiveIds # {}
      <4>1. PICK i \in ActiveIds : TRUE
        BY <3>2
      <4>2. ActiveIds = {i}
        BY <2>1, <4>1
      <4>3. Cardinality({i}) = 1
        BY FS_Singleton
      <4> QED BY <4>2, <4>3
    <3> QED BY <3>1, <3>2
  <2> QED BY <2>2 DEF OneActive, MailInv, SettingsFit
<1>3. EmailTypeOK
  <2>1. \A id \in DOMAIN config : config[id] \in [on : BOOLEAN, gone : BOOLEAN, edits : 0..MaxEmailSaves]
    <3> SUFFICES ASSUME NEW id \in DOMAIN config
                 PROVE  config[id] \in [on : BOOLEAN, gone : BOOLEAN, edits : 0..MaxEmailSaves]
      OBVIOUS
    <3>1. config[id] \in Rows /\ config[id].edits \in Nat
      BY <1>1 DEF Rows
    <3>2. IsFiniteSet(EditsDue)
      BY FS_Subset DEF EditsDue
    <3>3. config[id].edits + Cardinality(EditsDue) <= puts /\ puts <= MaxEmailSaves /\ puts \in Nat
          /\ Cardinality(EditsDue) \in Nat
      BY <3>2, FS_CardinalityType DEF MailInv, SaversFit
    <3>4. config[id].edits \in 0..MaxEmailSaves
      BY <3>1, <3>3
    <3> QED BY <3>1, <3>4 DEF Rows
  <2>2. transport.id \in 0..Len(config)
    BY DEF MailInv, CacheFits, Transports
  <2>3. \A m \in Mailers : mailer[m].since \subseteq DOMAIN config
    BY OfOneMail DEF MailRecords
  <2> QED BY <2>1, <2>2, <2>3 DEF EmailTypeOK, MailInv, SettingsFit, SaversFit
<1>4. CacheFresh
  BY DEF MailInv, CacheFits, Usable, CacheFresh
<1>5. MailByActive
  BY OfOneMail DEF MailByActive, MailFits, Usable
<1>6. NoticeToItsAdmin
  <2> SUFFICES ASSUME NEW m \in Mailers, notice[m].step = "post", mailer[m].step = "sent", notice[m].calm,
                      ~mailer[m].sent.stale, mailer[m].sent.id # NoConfig
               PROVE  notice[m].to = [id |-> mailer[m].sent.id, edits |-> mailer[m].sent.edits]
    BY DEF NoticeToItsAdmin
  <2>1. AsStored(mailer[m].sent, ActiveIds, config) /\ AsStored(notice[m].to, ActiveIds, config)
    BY OfOneMail DEF NoticeFits, Usable
  <2>2. notice[m].to.id = mailer[m].sent.id /\ notice[m].to.edits = mailer[m].sent.edits
    BY <2>1 DEF AsStored, MailInv, SettingsFit
  <2>3. notice[m].to \in [id : Nat, edits : Nat]
    BY OfOneMail DEF NoticeRecords
  <2> QED BY <2>2, <2>3
<1> QED BY <1>2, <1>3, <1>4, <1>5, <1>6, NoticesTell DEF NoticesSound, EmailSound

----------------------------------------
(* Stored files.  A file belongs to one row or to one request, and the       *)
(* quota's counter tells the pictures of both, until a failure.              *)

Errands == {"idle", "insert", "delete", "measure", "subtract", "unlink"}
NumberedFiles == 1..uploads \cup {NoFile}
Entries == [kind : Kinds, file : NumberedFiles, live : BOOLEAN]
Errand == [step : Errands, kind : Kinds, file : NumberedFiles, row : Nat]

StoreFits ==
  /\ entry \in Seq(Entries) /\ editor \in [Editors -> Errand] /\ uploads \in 0..MaxUploads
  /\ disk \subseteq 1..uploads /\ used \in 0..Quota /\ upset \in BOOLEAN

\* A file has one row.
OneRowEach ==
  \A i, j \in DOMAIN entry : entry[i].file = entry[j].file /\ entry[i].file # NoFile => i = j

\* A request with the file it uploaded: only a document whose row could not be
\* read back has a row.
UploadFits(e) ==
  /\ editor[e].step # "delete" /\ editor[e].file # NoFile
  /\ editor[e].step = "insert" => editor[e].file \in disk
  /\ \A i \in DOMAIN entry : entry[i].file = editor[e].file =>
       upset /\ editor[e].step = "unlink" /\ ~Metered(editor[e].kind) /\ ~Metered(entry[i].kind)

\* A request that removes a row: the row goes before the file.
RemovalFits(e) ==
  /\ editor[e].row \in DOMAIN entry /\ editor[e].step \notin {"idle", "insert"}
  /\ editor[e].file = entry[editor[e].row].file /\ editor[e].kind = entry[editor[e].row].kind
  /\ IF editor[e].step = "delete" THEN upset \/ entry[editor[e].row].live
     ELSE ~entry[editor[e].row].live /\ editor[e].file # NoFile

ErrandsFit ==
  \A e \in Editors :
    /\ editor[e].row = 0 /\ editor[e].step # "idle" => UploadFits(e)
    /\ editor[e].row # 0 => RemovalFits(e)
    /\ editor[e].step \in {"measure", "subtract"} => Metered(editor[e].kind)

\* Two requests have different files, but for two removals of one row.
ErrandsApart ==
  \A e, f \in Editors :
    e # f /\ editor[e].step # "idle" /\ editor[f].step # "idle" /\ editor[e].row = editor[f].row =>
      IF editor[e].row = 0 THEN editor[e].file # editor[f].file ELSE upset

OfRow(x, i) == entry[i].live /\ entry[i].file = x
OfErrand(x, e) == editor[e].step \in {"insert", "measure", "subtract", "unlink"} /\ editor[e].file = x
Kept(x) == (\E i \in DOMAIN entry : OfRow(x, i)) \/ (\E e \in Editors : OfErrand(x, e))

PaidForRow(x, i) == OfRow(x, i) /\ Metered(entry[i].kind)
PaidForErrand(x, e) == OfErrand(x, e) /\ editor[e].step # "unlink" /\ Metered(editor[e].kind)
PaidFor == {x \in 1..uploads : \/ \E i \in DOMAIN entry : PaidForRow(x, i)
                               \/ \E e \in Editors : PaidForErrand(x, e)}

\* Until a failure the disk holds the files of rows and requests, and the counter
\* tells those that are paid for.
Ledger == ~upset => disk = {x \in 1..uploads : Kept(x)} /\ used = Cardinality(PaidFor)

\* What the website shows has its picture, row by row.
PicturesThere ==
  \A i \in DOMAIN entry :
    entry[i].live /\ Metered(entry[i].kind) /\ entry[i].file # NoFile => entry[i].file \in disk

StoreInv == StoreFits /\ OneRowEach /\ ErrandsFit /\ ErrandsApart /\ PicturesThere /\ Ledger


\* The types of rows and requests, field by field.
LEMMA StoreFacts ==
  ASSUME StoreInv
  PROVE  /\ Len(entry) \in Nat /\ DOMAIN entry = 1..Len(entry) /\ uploads \in Nat /\ uploads <= MaxUploads
         /\ \A i \in DOMAIN entry : /\ entry[i] \in Entries /\ entry[i].kind \in Kinds
                                    /\ entry[i].file \in NumberedFiles /\ entry[i].live \in BOOLEAN
         /\ \A e \in Editors : /\ editor[e] \in Errand /\ editor[e].step \in Errands /\ editor[e].kind \in Kinds
                               /\ editor[e].file \in NumberedFiles /\ editor[e].row \in Nat
         /\ NoFile \notin 1..uploads
         /\ IsFiniteSet(PaidFor) /\ Cardinality(PaidFor) \in Nat
<1> USE StoreAssumption
<1>1. StoreFits /\ uploads \in Nat /\ uploads <= MaxUploads
  BY DEF StoreInv, StoreFits
<1>2. entry \in Seq(Entries) /\ editor \in [Editors -> Errand]
  BY <1>1 DEF StoreFits
<1>3. \A i \in DOMAIN entry : entry[i] \in Entries
  BY <1>2
<1>4. IsFiniteSet(PaidFor)
  <2>1. IsFiniteSet(1..uploads)
    BY <1>1, FS_Interval
  <2> QED BY <2>1, FS_Subset DEF PaidFor
<1>5. NoFile \notin 1..uploads
  BY <1>1
<1>6. \A i \in DOMAIN entry : entry[i].kind \in Kinds /\ entry[i].file \in NumberedFiles /\ entry[i].live \in BOOLEAN
  BY <1>3 DEF Entries
<1>7. \A e \in Editors : /\ editor[e] \in Errand /\ editor[e].step \in Errands /\ editor[e].kind \in Kinds
                         /\ editor[e].file \in NumberedFiles /\ editor[e].row \in Nat
  BY <1>2 DEF Errand
<1>8. Len(entry) \in Nat /\ DOMAIN entry = 1..Len(entry)
  BY <1>2
<1> QED BY <1>1, <1>3, <1>4, <1>5, <1>6, <1>7, <1>8, FS_CardinalityType

\* A request that goes on to another step keeps its kind, its file and its row.
LEMMA ErrandGoes ==
  ASSUME StoreInv, NEW e \in Editors, NEW step \in Errands, Goto(e, step), UNCHANGED uploads
  PROVE  /\ editor' \in [Editors -> Errand']
         /\ \A f \in Editors : /\ editor'[f].step = IF f = e THEN step ELSE editor[f].step
                               /\ editor'[f].kind = editor[f].kind /\ editor'[f].file = editor[f].file
                               /\ editor'[f].row = editor[f].row
<1>1. editor \in [Editors -> Errand]
  BY DEF StoreInv, StoreFits
<1>2. \A f \in Editors : editor'[f] = IF f = e THEN [editor[e] EXCEPT !.step = step] ELSE editor[f]
  BY <1>1 DEF Goto
<1>3. editor' \in [Editors -> Errand]
  <2>1. [editor[e] EXCEPT !.step = step] \in Errand
    BY <1>1 DEF Errand
  <2> QED BY <1>1, <2>1 DEF Goto
<1>4. Errand' = Errand
  BY DEF Errand, NumberedFiles
<1>5. \A f \in Editors : editor[f] \in Errand
  BY <1>1
<1> QED BY <1>2, <1>3, <1>4, <1>5 DEF Errand

\* A request that is done holds no file and no row.
LEMMA ErrandDone ==
  ASSUME StoreInv, NEW e \in Editors, Done(e), UNCHANGED uploads
  PROVE  /\ editor' \in [Editors -> Errand']
         /\ \A f \in Editors : editor'[f] = IF f = e THEN IdleEditor ELSE editor[f]
         /\ IdleEditor.step = "idle" /\ IdleEditor.row = 0 /\ IdleEditor.kind = "document"
<1>1. editor \in [Editors -> Errand]
  BY DEF StoreInv, StoreFits
<1>2. IdleEditor \in Errand
  BY DEF IdleEditor, Errand, Errands, Kinds, NumberedFiles
<1>3. Errand' = Errand
  BY DEF Errand, NumberedFiles
<1> QED BY <1>1, <1>2, <1>3 DEF Done, IdleEditor

\* At first there are no rows, files or requests.
LEMMA StoreStarts == StoreInit => StoreInv
<1> SUFFICES ASSUME StoreInit PROVE StoreInv
  OBVIOUS
<1> USE StoreAssumption DEF StoreInit
<1>1. StoreFits
  <2>1. IdleEditor \in Errand
    BY DEF IdleEditor, Errand, Errands, Kinds, NumberedFiles
  <2>2. editor \in [Editors -> Errand]
    BY <2>1
  <2>3. entry \in Seq(Entries) /\ 0 \in 0..MaxUploads /\ 0 \in 0..Quota
    OBVIOUS
  <2> QED BY <2>2, <2>3 DEF StoreFits
<1>2. \A e \in Editors : editor[e].step = "idle" /\ editor[e].row = 0
  BY DEF IdleEditor
<1>3. PaidFor = {}
  BY DEF PaidFor
<1>4. Ledger
  BY <1>3, FS_EmptySet DEF Ledger
<1> QED BY <1>1, <1>2, <1>4 DEF StoreInv, OneRowEach, ErrandsFit, ErrandsApart, PicturesThere

\* A request steps on towards the removal of its file, the row of which is gone.
LEMMA StepKeeps ==
  ASSUME StoreInv, NEW e \in Editors, editor[e].step \in {"insert", "measure", "subtract"},
         NEW step \in {"measure", "subtract", "unlink"}, Goto(e, step), UNCHANGED <<entry, disk, uploads>>,
         step # "unlink" => Metered(editor[e].kind), upset' \in BOOLEAN, upset => upset', used' \in 0..Quota,
         ~upset' => used' = Cardinality(PaidFor')
  PROVE  StoreInv'
<1>1. step \in Errands
  BY DEF Errands
<1>2. /\ editor' \in [Editors -> Errand']
      /\ \A f \in Editors : /\ editor'[f].step = IF f = e THEN step ELSE editor[f].step
                            /\ editor'[f].kind = editor[f].kind /\ editor'[f].file = editor[f].file
                            /\ editor'[f].row = editor[f].row
  BY <1>1, ErrandGoes
<1>3. StoreFits'
  <2>1. Entries' = Entries
    BY DEF Entries, NumberedFiles
  <2> QED BY <1>2, <2>1 DEF StoreInv, StoreFits
<1>4. OneRowEach' /\ PicturesThere'
  BY DEF StoreInv, OneRowEach, PicturesThere
<1>5. ErrandsFit'
  <2>1. \A f \in Editors : editor[f].row = 0 /\ editor[f].step # "idle" => UploadFits(f)'
    BY <1>2 DEF StoreInv, ErrandsFit, UploadFits
  <2>2. \A f \in Editors : editor[f].row # 0 => RemovalFits(f)'
    BY <1>2 DEF StoreInv, ErrandsFit, RemovalFits
  <2> QED BY <1>2, <2>1, <2>2 DEF StoreInv, ErrandsFit
<1>6. ErrandsApart'
  BY <1>2 DEF StoreInv, ErrandsApart
<1>7. Ledger'
  <2>1. \A x \in 1..uploads : Kept(x)' = Kept(x)
    BY <1>2 DEF Kept, OfRow, OfErrand
  <2> QED BY <2>1 DEF StoreInv, Ledger
<1> QED BY <1>3, <1>4, <1>5, <1>6, <1>7 DEF StoreInv

\* A failed insert: the request keeps its file, and its bytes.
LEMMA InsertFailsKeeps == ASSUME StoreInv, NEW e \in Editors, InsertFails(e) PROVE StoreInv'
<1> DEFINE step == Undo(e)
<1>1. /\ editor[e].step = "insert" /\ Goto(e, step) /\ UNCHANGED <<entry, disk, used, uploads, upset>>
      /\ step = IF Metered(editor[e].kind) THEN "measure" ELSE "unlink"
  BY DEF InsertFails, AtStep, Undo
<1>2. step \in {"measure", "subtract", "unlink"} /\ step \in Errands
  BY <1>1 DEF Errands
<1> HIDE DEF step
<1>3. PaidFor' = PaidFor
  <2>1. \A f \in Editors : /\ editor'[f].step = IF f = e THEN step ELSE editor[f].step
                           /\ editor'[f].kind = editor[f].kind /\ editor'[f].file = editor[f].file
    BY <1>1, <1>2, ErrandGoes
  <2>2. \A x \in 1..uploads : \A f \in Editors : PaidForErrand(x, f)' <=> PaidForErrand(x, f)
    BY <1>1, <1>2, <2>1 DEF PaidForErrand, OfErrand
  <2>3. \A x \in 1..uploads : \A i \in DOMAIN entry : PaidForRow(x, i)' <=> PaidForRow(x, i)
    BY <1>1 DEF PaidForRow, OfRow
  <2> QED BY <1>1, <2>2, <2>3 DEF PaidFor
<1>4. upset \in BOOLEAN /\ used \in 0..Quota /\ (~upset => used = Cardinality(PaidFor))
  BY DEF StoreInv, StoreFits, Ledger
<1> QED BY <1>1, <1>2, <1>3, <1>4, StepKeeps

\* A file that is measured is there, until a failure.
LEMMA MeasureKeeps == ASSUME StoreInv, NEW e \in Editors, MeasureFile(e) PROVE StoreInv'
<1> DEFINE step == IF editor[e].file \in disk THEN "subtract" ELSE "unlink"
<1>1. editor[e].step = "measure" /\ Goto(e, step) /\ UNCHANGED <<entry, disk, used, uploads, upset>>
  BY DEF MeasureFile, AtStep
<1>2. step \in {"measure", "subtract", "unlink"} /\ step \in Errands
  BY DEF Errands
<1>3. Metered(editor[e].kind)
  BY <1>1 DEF StoreInv, ErrandsFit
<1>4. ~upset => step = "subtract"
  <2>1. editor[e].file \in NumberedFiles /\ editor[e].file # NoFile
    <3>1. CASE editor[e].row = 0
      BY <1>1, <3>1, StoreFacts DEF StoreInv, ErrandsFit, UploadFits
    <3>2. CASE editor[e].row # 0
      BY <1>1, <3>2, StoreFacts DEF StoreInv, ErrandsFit, RemovalFits
    <3> QED BY <3>1, <3>2
  <2>2. editor[e].file \in 1..uploads /\ Kept(editor[e].file)
    BY <1>1, <2>1 DEF NumberedFiles, Kept, OfErrand
  <2> QED BY <2>2 DEF StoreInv, Ledger
<1> HIDE DEF step
<1>5. ~upset => PaidFor' = PaidFor
  <2> SUFFICES ASSUME ~upset PROVE PaidFor' = PaidFor
    OBVIOUS
  <2>1. \A f \in Editors : /\ editor'[f].step = IF f = e THEN step ELSE editor[f].step
                           /\ editor'[f].kind = editor[f].kind /\ editor'[f].file = editor[f].file
    BY <1>1, <1>2, ErrandGoes
  <2>2. \A x \in 1..uploads : \A f \in Editors : PaidForErrand(x, f)' <=> PaidForErrand(x, f)
    BY <1>1, <1>4, <2>1 DEF PaidForErrand, OfErrand
  <2>3. \A x \in 1..uploads : \A i \in DOMAIN entry : PaidForRow(x, i)' <=> PaidForRow(x, i)
    BY <1>1 DEF PaidForRow, OfRow
  <2> QED BY <1>1, <2>2, <2>3 DEF PaidFor
<1>6. upset \in BOOLEAN /\ used \in 0..Quota /\ (~upset => used = Cardinality(PaidFor))
  BY DEF StoreInv, StoreFits, Ledger
<1> QED BY <1>1, <1>2, <1>3, <1>5, <1>6, StepKeeps

\* The picture whose bytes are given back was counted once.
LEMMA SubtractKeeps == ASSUME StoreInv, NEW e \in Editors, Subtract(e) PROVE StoreInv'
<1> DEFINE x0 == editor[e].file
<1>1. editor[e].step = "subtract" /\ Goto(e, "unlink") /\ UNCHANGED <<entry, disk, uploads, upset>>
      /\ used' = IF used > 0 THEN used - 1 ELSE 0
  BY DEF Subtract, AtStep, GivenBack
<1>2. Metered(editor[e].kind) /\ "unlink" \in Errands
  BY <1>1 DEF StoreInv, ErrandsFit, Errands
<1>3. upset \in BOOLEAN /\ used \in 0..Quota /\ Quota \in Nat
  BY StoreAssumption DEF StoreInv, StoreFits
<1>4. used' \in 0..Quota
  BY <1>1, <1>3
<1>5. ASSUME ~upset PROVE used' = Cardinality(PaidFor')
  <2>1. x0 \in NumberedFiles /\ x0 # NoFile
        /\ \A i \in DOMAIN entry : entry[i].live => entry[i].file # x0
    <3>1. CASE editor[e].row = 0
      BY <1>1, <1>5, <3>1, StoreFacts DEF StoreInv, ErrandsFit, UploadFits
    <3>2. CASE editor[e].row # 0
      BY <1>1, <3>2, StoreFacts DEF StoreInv, ErrandsFit, RemovalFits, OneRowEach
    <3> QED BY <3>1, <3>2
  <2>2. x0 \in 1..uploads
    BY <2>1 DEF NumberedFiles
  <2>3. \A f \in Editors : f # e /\ editor[f].step \in {"insert", "measure", "subtract"} => editor[f].file # x0
    <3> SUFFICES ASSUME NEW f \in Editors, f # e, editor[f].step \in {"insert", "measure", "subtract"},
                        editor[f].file = x0
                 PROVE  FALSE
      OBVIOUS
    <3>1. CASE editor[e].row = 0 /\ editor[f].row = 0
      BY <1>1, <3>1 DEF StoreInv, ErrandsApart
    <3>2. CASE editor[e].row = 0 /\ editor[f].row # 0
      BY <1>1, <1>5, <3>2 DEF StoreInv, ErrandsFit, UploadFits, RemovalFits
    <3>3. CASE editor[e].row # 0 /\ editor[f].row = 0
      BY <1>1, <1>5, <3>3 DEF StoreInv, ErrandsFit, UploadFits, RemovalFits
    <3>4. CASE editor[e].row # 0 /\ editor[f].row # 0
      <4>1. editor[e].row = editor[f].row
        BY <1>1, <3>4, <2>1 DEF StoreInv, ErrandsFit, RemovalFits, OneRowEach
      <4> QED BY <1>1, <1>5, <3>4, <4>1 DEF StoreInv, ErrandsApart
    <3> QED BY <3>1, <3>2, <3>3, <3>4
  <2>4. \A f \in Editors : /\ editor'[f].step = IF f = e THEN "unlink" ELSE editor[f].step
                           /\ editor'[f].kind = editor[f].kind /\ editor'[f].file = editor[f].file
    BY <1>1, <1>2, ErrandGoes
  <2>5. \A x \in 1..uploads : \A f \in Editors : PaidForErrand(x, f)' <=> f # e /\ PaidForErrand(x, f)
    BY <2>4 DEF PaidForErrand, OfErrand
  <2>6. \A x \in 1..uploads : \A i \in DOMAIN entry : PaidForRow(x, i)' <=> PaidForRow(x, i)
    BY <1>1 DEF PaidForRow, OfRow
  <2>7. PaidForErrand(x0, e) /\ \A x \in 1..uploads : PaidForErrand(x, e) => x = x0
    BY <1>1, <1>2 DEF PaidForErrand, OfErrand
  <2>8. (\A f \in Editors : PaidForErrand(x0, f) => f = e) /\ \A i \in DOMAIN entry : ~PaidForRow(x0, i)
    BY <2>1, <2>3 DEF PaidForErrand, OfErrand, PaidForRow, OfRow
  <2>9. x0 \in PaidFor /\ PaidFor' = PaidFor \ {x0}
    BY <1>1, <2>2, <2>5, <2>6, <2>7, <2>8 DEF PaidFor
  <2>10. Cardinality(PaidFor') = Cardinality(PaidFor) - 1 /\ used = Cardinality(PaidFor)
         /\ Cardinality(PaidFor) \in Nat /\ Cardinality(PaidFor) # 0
    <3>1. used = Cardinality(PaidFor)
      BY <1>5 DEF StoreInv, Ledger
    <3>2. IsFiniteSet(PaidFor) /\ Cardinality(PaidFor) \in Nat
      BY StoreFacts
    <3>3. Cardinality(PaidFor \ {x0}) = Cardinality(PaidFor) - 1
      BY <2>9, <3>2, FS_RemoveElement
    <3>4. Cardinality(PaidFor) # 0
      BY <2>9, <3>2, FS_EmptySet
    <3> QED BY <2>9, <3>1, <3>2, <3>3, <3>4
  <2> QED BY <1>1, <2>10
<1> QED BY <1>1, <1>2, <1>3, <1>4, <1>5, StepKeeps

\* Bytes that could not be given back: a failure.
LEMMA SubtractFailsKeeps == ASSUME StoreInv, NEW e \in Editors, SubtractFails(e) PROVE StoreInv'
<1>1. editor[e].step = "subtract" /\ Goto(e, "unlink") /\ UNCHANGED <<entry, disk, used, uploads>> /\ upset'
  BY DEF SubtractFails, AtStep
<1>2. used \in 0..Quota
  BY DEF StoreInv, StoreFits
<1>3. upset' = TRUE
  BY DEF SubtractFails
<1> QED BY <1>1, <1>2, <1>3, StepKeeps

\* A file that is unlinked belongs to no other request and to no shown picture.
LEMMA UnlinkKeeps == ASSUME StoreInv, NEW e \in Editors, Unlink(e) PROVE StoreInv'
<1> DEFINE x0 == editor[e].file
<1>1. editor[e].step = "unlink" /\ disk' = disk \ {x0} /\ Done(e) /\ UNCHANGED <<entry, used, uploads, upset>>
  BY DEF Unlink, AtStep
<1>2. /\ editor' \in [Editors -> Errand']
      /\ \A f \in Editors : editor'[f] = IF f = e THEN IdleEditor ELSE editor[f]
      /\ IdleEditor.step = "idle" /\ IdleEditor.row = 0 /\ IdleEditor.kind = "document"
  BY <1>1, ErrandDone
<1>3. StoreFits'
  <2>1. Entries' = Entries
    BY <1>1 DEF Entries, NumberedFiles
  <2> QED BY <1>1, <1>2, <2>1 DEF StoreInv, StoreFits
<1>4. OneRowEach'
  BY <1>1 DEF StoreInv, OneRowEach
<1>5. x0 # NoFile /\ \A i \in DOMAIN entry : entry[i].live /\ entry[i].file = x0 => upset /\ ~Metered(entry[i].kind)
  <2>1. CASE editor[e].row = 0
    BY <1>1, <2>1 DEF StoreInv, ErrandsFit, UploadFits
  <2>2. CASE editor[e].row # 0
    BY <1>1, <2>2 DEF StoreInv, ErrandsFit, RemovalFits, OneRowEach
  <2> QED BY <2>1, <2>2
<1>6. PicturesThere'
  BY <1>1, <1>5 DEF StoreInv, PicturesThere
<1>7. ASSUME NEW f \in Editors, f # e, editor[f].step # "idle", editor[f].step # "delete",
             editor[f].file = x0, ~upset \/ editor[f].step = "insert"
      PROVE  FALSE
  <2>1. CASE editor[e].row = 0 /\ editor[f].row = 0
    BY <1>1, <1>7, <2>1 DEF StoreInv, ErrandsApart
  <2>2. CASE editor[e].row = 0 /\ editor[f].row # 0
    BY <1>1, <1>7, <2>2 DEF StoreInv, ErrandsFit, UploadFits, RemovalFits
  <2>3. CASE editor[e].row # 0 /\ editor[f].row = 0
    BY <1>1, <1>7, <2>3 DEF StoreInv, ErrandsFit, UploadFits, RemovalFits
  <2>4. CASE editor[e].row # 0 /\ editor[f].row # 0
    <3>1. editor[e].row = editor[f].row
      BY <1>1, <1>7, <2>4, <1>5 DEF StoreInv, ErrandsFit, RemovalFits, OneRowEach
    <3> QED BY <1>1, <1>7, <2>4, <3>1 DEF StoreInv, ErrandsApart, ErrandsFit, RemovalFits
  <2> QED BY <2>1, <2>2, <2>3, <2>4
<1>8. ErrandsFit'
  <2>1. \A f \in Editors : f # e /\ editor[f].row = 0 /\ editor[f].step # "idle" => UploadFits(f)'
    BY <1>1, <1>2, <1>7 DEF StoreInv, ErrandsFit, UploadFits
  <2>2. \A f \in Editors : f # e /\ editor[f].row # 0 => RemovalFits(f)'
    BY <1>1, <1>2 DEF StoreInv, ErrandsFit, RemovalFits
  <2> QED BY <1>2, <2>1, <2>2 DEF StoreInv, ErrandsFit
<1>9. ErrandsApart'
  BY <1>1, <1>2 DEF StoreInv, ErrandsApart
<1>10. ASSUME ~upset PROVE disk' = {x \in 1..uploads : Kept(x)'} /\ PaidFor' = PaidFor
  <2>1. \A x \in 1..uploads : \A f \in Editors : OfErrand(x, f)' <=> x # x0 /\ OfErrand(x, f)
    BY <1>1, <1>2, <1>7, <1>10 DEF OfErrand
  <2>2. \A x \in 1..uploads : \A i \in DOMAIN entry : OfRow(x, i)' <=> x # x0 /\ OfRow(x, i)
    BY <1>1, <1>5, <1>10 DEF OfRow
  <2>3. \A x \in 1..uploads : Kept(x)' <=> x # x0 /\ Kept(x)
    BY <1>1, <2>1, <2>2 DEF Kept
  <2>4. disk' = {x \in 1..uploads : Kept(x)'}
    BY <1>1, <1>10, <2>3 DEF StoreInv, Ledger
  <2>5. \A x \in 1..uploads : \A f \in Editors : PaidForErrand(x, f)' <=> PaidForErrand(x, f)
    BY <1>1, <1>2 DEF PaidForErrand, OfErrand
  <2>6. \A x \in 1..uploads : \A i \in DOMAIN entry : PaidForRow(x, i)' <=> PaidForRow(x, i)
    BY <1>1 DEF PaidForRow, OfRow
  <2> QED BY <1>1, <2>4, <2>5, <2>6 DEF PaidFor
<1>11. Ledger'
  BY <1>1, <1>10 DEF StoreInv, Ledger
<1> QED BY <1>3, <1>4, <1>6, <1>8, <1>9, <1>11 DEF StoreInv

\* A removal begins with a row that is shown; a second one of the same row is noted.
LEMMA RemoveKeeps ==
  ASSUME StoreInv, NEW e \in Editors, NEW id \in DOMAIN entry, StartRemoveEntry(e, id) PROVE StoreInv'
<1> DEFINE new == [step |-> "delete", kind |-> entry[id].kind, file |-> entry[id].file, row |-> id]
<1>1. /\ editor[e].step = "idle" /\ entry[id].live /\ editor' = [editor EXCEPT ![e] = new]
      /\ upset' = (upset \/ \E f \in Editors : editor[f].row = id) /\ UNCHANGED <<entry, disk, used, uploads>>
  BY DEF StartRemoveEntry, AtStep, Shown
<1>2. id \in Nat /\ id # 0 /\ editor \in [Editors -> Errand] /\ entry[id].kind \in Kinds /\ entry[id].file \in NumberedFiles
  BY StoreFacts DEF StoreInv, StoreFits
<1>3. new \in Errand /\ new.step = "delete" /\ new.kind = entry[id].kind /\ new.file = entry[id].file /\ new.row = id
  BY <1>2 DEF Errand, Errands
<1> HIDE DEF new
<1>4. editor' \in [Editors -> Errand] /\ \A f \in Editors : editor'[f] = IF f = e THEN new ELSE editor[f]
  BY <1>1, <1>2, <1>3
<1>5. StoreFits'
  <2>1. Entries' = Entries /\ Errand' = Errand
    BY <1>1 DEF Entries, Errand, NumberedFiles
  <2>2. upset' \in BOOLEAN
    BY <1>1 DEF StoreInv, StoreFits
  <2> QED BY <1>1, <1>4, <2>1, <2>2 DEF StoreInv, StoreFits
<1>6. OneRowEach' /\ PicturesThere'
  BY <1>1 DEF StoreInv, OneRowEach, PicturesThere
<1>7. ErrandsFit'
  <2>1. \A f \in Editors : f # e /\ editor[f].row = 0 /\ editor[f].step # "idle" => UploadFits(f)'
    BY <1>1, <1>4 DEF StoreInv, ErrandsFit, UploadFits
  <2>2. \A f \in Editors : f # e /\ editor[f].row # 0 => RemovalFits(f)'
    BY <1>1, <1>4 DEF StoreInv, ErrandsFit, RemovalFits
  <2>3. RemovalFits(e)'
    BY <1>1, <1>3, <1>4 DEF RemovalFits
  <2> QED BY <1>2, <1>3, <1>4, <2>1, <2>2, <2>3 DEF StoreInv, ErrandsFit
<1>8. ErrandsApart'
  <2>1. \A f \in Editors : f # e /\ editor[f].row = id => upset'
    BY <1>1
  <2> QED BY <1>1, <1>2, <1>3, <1>4, <2>1 DEF StoreInv, ErrandsApart
<1>9. Ledger'
  <2>1. \A x \in 1..uploads : \A f \in Editors : OfErrand(x, f)' <=> OfErrand(x, f)
    BY <1>1, <1>3, <1>4 DEF OfErrand
  <2>2. \A x \in 1..uploads : \A i \in DOMAIN entry : OfRow(x, i)' <=> OfRow(x, i)
    BY <1>1 DEF OfRow
  <2>3. \A x \in 1..uploads : Kept(x)' <=> Kept(x)
    BY <1>1, <2>1, <2>2 DEF Kept
  <2>4. \A x \in 1..uploads : \A f \in Editors : PaidForErrand(x, f)' <=> PaidForErrand(x, f)
    BY <1>1, <1>3, <1>4 DEF PaidForErrand, OfErrand
  <2>5. \A x \in 1..uploads : \A i \in DOMAIN entry : PaidForRow(x, i)' <=> PaidForRow(x, i)
    BY <1>1 DEF PaidForRow, OfRow
  <2>6. PaidFor' = PaidFor
    BY <1>1, <2>4, <2>5 DEF PaidFor
  <2> QED BY <1>1, <2>3, <2>6 DEF StoreInv, Ledger
<1> QED BY <1>5, <1>6, <1>7, <1>8, <1>9 DEF StoreInv

\* After a stop only rows and files are left.
LEMMA StopKeeps == ASSUME StoreInv, StoreStops PROVE StoreInv'
<1>1. editor' = [e \in Editors |-> IdleEditor] /\ upset' = TRUE /\ UNCHANGED <<entry, disk, used, uploads>>
  BY DEF StoreStops
<1>2. IdleEditor \in Errand' /\ IdleEditor.step = "idle" /\ IdleEditor.row = 0
  BY DEF IdleEditor, Errand, Errands, Kinds, NumberedFiles
<1>3. StoreFits'
  <2>1. Entries' = Entries /\ editor' \in [Editors -> Errand']
    BY <1>1, <1>2 DEF Entries, NumberedFiles
  <2> QED BY <1>1, <2>1 DEF StoreInv, StoreFits
<1>4. OneRowEach' /\ PicturesThere'
  BY <1>1 DEF StoreInv, OneRowEach, PicturesThere
<1> QED BY <1>1, <1>2, <1>3, <1>4 DEF StoreInv, ErrandsFit, ErrandsApart, Ledger

\* A row that is added comes last, and the others stay as they are.
LEMMA EntryAdded ==
  ASSUME StoreInv, NEW row, row \in Entries', uploads' \in Nat, uploads <= uploads', entry' = Append(entry, row)
  PROVE  /\ entry' \in Seq(Entries')
         /\ DOMAIN entry' = DOMAIN entry \cup {Len(entry) + 1} /\ Len(entry) + 1 \notin DOMAIN entry
         /\ \A i \in DOMAIN entry : entry'[i] = entry[i]
         /\ entry'[Len(entry) + 1] = row
<1>1. Entries \subseteq Entries'
  BY StoreFacts DEF Entries, NumberedFiles
<1>2. entry \in Seq(Entries')
  <2>1. entry \in Seq(Entries)
    BY DEF StoreInv, StoreFits
  <2> QED BY <1>1, <2>1
<1>3. entry' \in Seq(Entries') /\ Len(entry') = Len(entry) + 1
      /\ \A i \in 1..Len(entry) : entry'[i] = entry[i]
      /\ entry'[Len(entry) + 1] = row
  BY <1>2
<1>4. Len(entry) \in Nat /\ DOMAIN entry = 1..Len(entry) /\ DOMAIN entry' = 1..(Len(entry) + 1)
  BY <1>2, <1>3
<1> HIDE DEF Entries
<1> QED BY <1>3, <1>4

\* The row goes: its file is left to the request.
LEMMA DeleteKeeps == ASSUME StoreInv, NEW e \in Editors, DeleteEntry(e) PROVE StoreInv'
<1> DEFINE id == editor[e].row
           x0 == editor[e].file
           step == IF Metered(editor[e].kind) THEN "measure" ELSE "unlink"
<1>1. /\ editor[e].step = "delete" /\ entry' = [entry EXCEPT ![id].live = FALSE]
      /\ IF x0 = NoFile THEN Done(e) ELSE Goto(e, step)
      /\ UNCHANGED <<disk, used, uploads, upset>>
  BY DEF DeleteEntry, AtStep
<1>2. /\ id \in DOMAIN entry /\ x0 = entry[id].file /\ editor[e].kind = entry[id].kind
      /\ upset \/ entry[id].live
  <2>1. id # 0
    BY <1>1 DEF StoreInv, ErrandsFit, UploadFits
  <2> QED BY <1>1, <2>1 DEF StoreInv, ErrandsFit, RemovalFits
<1>3. /\ entry' \in Seq(Entries) /\ DOMAIN entry' = DOMAIN entry
      /\ \A i \in DOMAIN entry : /\ entry'[i].kind = entry[i].kind /\ entry'[i].file = entry[i].file
                                 /\ entry'[i].live = (i # id /\ entry[i].live)
  <2>1. entry \in Seq(Entries) /\ entry[id] \in Entries
    BY <1>2, StoreFacts DEF StoreInv, StoreFits
  <2>2. [entry[id] EXCEPT !.live = FALSE] \in Entries
    BY <2>1 DEF Entries
  <2>3. \A i \in DOMAIN entry : entry'[i] = IF i = id THEN [entry[id] EXCEPT !.live = FALSE] ELSE entry[i]
    BY <1>1, <2>1
  <2>4. entry' \in Seq(Entries) /\ DOMAIN entry' = DOMAIN entry
    BY <1>1, <1>2, <2>1, <2>2
  <2>5. \A i \in DOMAIN entry : entry[i] \in Entries
    BY StoreFacts
  <2> QED BY <2>3, <2>4, <2>5 DEF Entries
<1>4. /\ editor' \in [Editors -> Errand']
      /\ \A f \in Editors : f # e => /\ editor'[f].step = editor[f].step /\ editor'[f].kind = editor[f].kind
                                     /\ editor'[f].file = editor[f].file /\ editor'[f].row = editor[f].row
      /\ IF x0 = NoFile THEN editor'[e].step = "idle" /\ editor'[e].row = 0
         ELSE /\ editor'[e].step = step /\ editor'[e].kind = editor[e].kind
              /\ editor'[e].file = x0 /\ editor'[e].row = id
  <2>1. CASE x0 = NoFile
    BY <1>1, <2>1, ErrandDone
  <2>2. CASE x0 # NoFile
    <3>1. step \in Errands
      BY DEF Errands
    <3>2. Goto(e, step)
      BY <1>1, <2>2
    <3> HIDE DEF step
    <3> QED BY <1>1, <2>2, <3>1, <3>2, ErrandGoes
  <2> QED BY <2>1, <2>2
<1>5. StoreFits'
  <2>1. Entries' = Entries
    BY <1>1 DEF Entries, NumberedFiles
  <2> QED BY <1>1, <1>3, <1>4, <2>1 DEF StoreInv, StoreFits
<1>6. OneRowEach' /\ PicturesThere'
  BY <1>1, <1>3 DEF StoreInv, OneRowEach, PicturesThere
<1>7. ErrandsFit'
  <2>1. \A f \in Editors : f # e /\ editor[f].row = 0 /\ editor[f].step # "idle" => UploadFits(f)'
    BY <1>1, <1>3, <1>4 DEF StoreInv, ErrandsFit, UploadFits
  <2>2. ASSUME NEW f \in Editors, f # e, editor[f].row # 0 PROVE RemovalFits(f)'
    <3>1. RemovalFits(f)
      BY <2>2 DEF StoreInv, ErrandsFit
    <3>2. editor[f].row = id /\ editor[f].step = "delete" => upset
      BY <1>1, <2>2 DEF StoreInv, ErrandsApart
    <3> QED BY <1>1, <1>3, <1>4, <2>2, <3>1, <3>2 DEF RemovalFits
  <2>3. x0 # NoFile => RemovalFits(e)'
    <3>1. /\ id \in DOMAIN entry' /\ ~entry'[id].live
          /\ x0 = entry'[id].file /\ editor[e].kind = entry'[id].kind
      BY <1>2, <1>3
    <3>2. step \notin {"idle", "insert", "delete"}
      OBVIOUS
    <3> HIDE DEF step, id
    <3> QED BY <1>4, <3>1, <3>2 DEF RemovalFits
  <2>4. editor'[e].step \in {"measure", "subtract"} => Metered(editor'[e].kind)
    BY <1>4
  <2>5. x0 # NoFile => editor'[e].row # 0
    BY <1>2, <1>4, StoreFacts
  <2> QED BY <1>4, <2>1, <2>2, <2>3, <2>4, <2>5 DEF StoreInv, ErrandsFit
<1>8. ErrandsApart'
  <2>1. id # 0
    BY <1>2, StoreFacts
  <2> QED BY <1>1, <1>4, <2>1 DEF StoreInv, ErrandsApart
<1>9. ASSUME ~upset PROVE (\A x \in 1..uploads : Kept(x)' <=> Kept(x)) /\ PaidFor' = PaidFor
  <2>1. entry[id].live /\ \A x \in 1..uploads : x = x0 => x0 # NoFile
    BY <1>2, <1>9, StoreFacts
  <2>2. \A x \in 1..uploads : \A f \in Editors : OfErrand(x, f)' <=> OfErrand(x, f) \/ (f = e /\ x = x0)
    BY <1>1, <1>4, <2>1 DEF OfErrand
  <2>3. \A x \in 1..uploads : \A i \in DOMAIN entry :
          /\ OfRow(x, i)' <=> OfRow(x, i) /\ i # id
          /\ OfRow(x, id) <=> x = x0
    BY <1>2, <1>3, <2>1 DEF OfRow
  <2>4. \A x \in 1..uploads : Kept(x)' <=> Kept(x)
    BY <1>2, <1>3, <2>2, <2>3 DEF Kept
  <2>5. \A x \in 1..uploads : \A f \in Editors :
          PaidForErrand(x, f)' <=> PaidForErrand(x, f) \/ (f = e /\ x = x0 /\ Metered(entry[id].kind))
    BY <1>1, <1>2, <1>4, <2>1 DEF PaidForErrand, OfErrand
  <2>6. \A x \in 1..uploads : \A i \in DOMAIN entry :
          /\ PaidForRow(x, i)' <=> PaidForRow(x, i) /\ i # id
          /\ PaidForRow(x, id) <=> x = x0 /\ Metered(entry[id].kind)
    BY <1>2, <1>3, <2>1 DEF PaidForRow, OfRow
  <2>7. \A x \in 1..uploads :
          ((\E i \in DOMAIN entry : PaidForRow(x, i)') \/ (\E f \in Editors : PaidForErrand(x, f)'))
          <=> ((\E i \in DOMAIN entry : PaidForRow(x, i)) \/ (\E f \in Editors : PaidForErrand(x, f)))
    BY <1>2, <2>5, <2>6
  <2>8. PaidFor' = PaidFor
    BY <1>1, <1>3, <2>7 DEF PaidFor
  <2> QED BY <2>4, <2>8
<1>10. Ledger'
  BY <1>1, <1>9 DEF StoreInv, Ledger
<1> QED BY <1>5, <1>6, <1>7, <1>8, <1>10 DEF StoreInv

\* A new file is nobody else's, and its bytes are counted with it.
LEMMA UploadKeeps ==
  ASSUME StoreInv, NEW e \in Editors, NEW kind \in Kinds, StartUploadFile(e, kind) PROVE StoreInv'
<1> DEFINE n == uploads + 1
           new == [step |-> "insert", kind |-> kind, file |-> n, row |-> 0]
<1>1. /\ editor[e].step = "idle" /\ uploads < MaxUploads /\ (Metered(kind) => used + 1 <= Quota)
      /\ uploads' = n /\ disk' = disk \cup {n} /\ used' = (IF Metered(kind) THEN used + 1 ELSE used)
      /\ editor' = [editor EXCEPT ![e] = new] /\ UNCHANGED <<entry, upset>>
  BY DEF StartUploadFile, AtStep
<1>2. /\ uploads \in Nat /\ MaxUploads \in Nat /\ used \in 0..Quota /\ Quota \in Nat
      /\ n \in 1..n /\ n \notin 1..uploads /\ n # NoFile /\ 1..uploads \subseteq 1..n /\ \A x \in 1..n : x # n => x \in 1..uploads
  <2>1. uploads \in Nat /\ MaxUploads \in Nat /\ used \in 0..Quota /\ Quota \in Nat /\ NoFile \notin 1..MaxUploads
    BY StoreAssumption, StoreFacts DEF StoreInv, StoreFits
  <2> QED BY <1>1, <2>1
<1>3. new \in Errand' /\ new.step = "insert" /\ new.kind = kind /\ new.file = n /\ new.row = 0
  BY <1>1, <1>2 DEF Errand, Errands, NumberedFiles
<1> HIDE DEF new
<1>4. Entries \subseteq Entries' /\ Errand \subseteq Errand'
  BY <1>1, <1>2 DEF Entries, Errand, NumberedFiles
<1>5. editor' \in [Editors -> Errand'] /\ \A f \in Editors : editor'[f] = IF f = e THEN new ELSE editor[f]
  <2>1. editor \in [Editors -> Errand']
    BY <1>4 DEF StoreInv, StoreFits
  <2> QED BY <1>1, <1>3, <2>1
<1>6. \A i \in DOMAIN entry : entry[i].file # n
  BY <1>2, StoreFacts DEF NumberedFiles
<1>7. \A f \in Editors : editor[f].file # n
  BY <1>2, StoreFacts DEF NumberedFiles
<1>8. StoreFits'
  <2>1. entry' \in Seq(Entries')
    <3>1. entry \in Seq(Entries)
      BY DEF StoreInv, StoreFits
    <3> QED BY <1>1, <1>4, <3>1
  <2>2. uploads' \in 0..MaxUploads /\ disk' \subseteq 1..uploads'
    BY <1>1, <1>2 DEF StoreInv, StoreFits
  <2>3. used' \in 0..Quota
    BY <1>1, <1>2
  <2> QED BY <1>1, <1>5, <2>1, <2>2, <2>3 DEF StoreInv, StoreFits
<1>9. OneRowEach' /\ PicturesThere'
  BY <1>1 DEF StoreInv, OneRowEach, PicturesThere
<1>10. ErrandsFit'
  <2>1. \A f \in Editors : f # e /\ editor[f].row = 0 /\ editor[f].step # "idle" => UploadFits(f)'
    BY <1>1, <1>5 DEF StoreInv, ErrandsFit, UploadFits
  <2>2. \A f \in Editors : f # e /\ editor[f].row # 0 => RemovalFits(f)'
    BY <1>1, <1>5 DEF StoreInv, ErrandsFit, RemovalFits
  <2>3. UploadFits(e)'
    BY <1>1, <1>2, <1>3, <1>5, <1>6 DEF UploadFits
  <2> QED BY <1>3, <1>5, <2>1, <2>2, <2>3 DEF StoreInv, ErrandsFit
<1>11. ErrandsApart'
  BY <1>1, <1>3, <1>5, <1>7 DEF StoreInv, ErrandsApart
<1>12. ASSUME ~upset PROVE disk' = {x \in 1..uploads' : Kept(x)'} /\ used' = Cardinality(PaidFor')
  <2>1. \A x \in 1..n : \A f \in Editors : OfErrand(x, f)' <=> OfErrand(x, f) \/ (f = e /\ x = n)
    BY <1>1, <1>3, <1>5 DEF OfErrand
  <2>2. \A x \in 1..n : \A i \in DOMAIN entry : OfRow(x, i)' <=> OfRow(x, i)
    BY <1>1 DEF OfRow
  <2>3. \A x \in 1..n : Kept(x)' <=> Kept(x) \/ x = n
    BY <1>1, <2>1, <2>2 DEF Kept
  <2>4. disk' = {x \in 1..uploads' : Kept(x)'}
    BY <1>1, <1>2, <1>12, <2>3 DEF StoreInv, Ledger
  <2>5. \A x \in 1..n : \A f \in Editors :
          PaidForErrand(x, f)' <=> PaidForErrand(x, f) \/ (f = e /\ x = n /\ Metered(kind))
    BY <1>1, <1>3, <1>5 DEF PaidForErrand, OfErrand
  <2>6. \A x \in 1..n : \A i \in DOMAIN entry : PaidForRow(x, i)' <=> PaidForRow(x, i)
    BY <1>1 DEF PaidForRow, OfRow
  <2>7. ~(\E i \in DOMAIN entry : PaidForRow(n, i)) /\ ~(\E f \in Editors : PaidForErrand(n, f))
    BY <1>6, <1>7 DEF PaidForRow, OfRow, PaidForErrand, OfErrand
  <2>8. PaidFor' = IF Metered(kind) THEN PaidFor \cup {n} ELSE PaidFor
    BY <1>1, <1>2, <2>5, <2>6, <2>7 DEF PaidFor
  <2>9. n \notin PaidFor /\ IsFiniteSet(PaidFor) /\ Cardinality(PaidFor) \in Nat
    BY <2>7, StoreFacts DEF PaidFor
  <2>10. Cardinality(PaidFor \cup {n}) = Cardinality(PaidFor) + 1
    BY <2>9, FS_AddElement
  <2>11. used = Cardinality(PaidFor)
    BY <1>12 DEF StoreInv, Ledger
  <2> HIDE DEF n
  <2> QED BY <1>1, <2>4, <2>8, <2>10, <2>11
<1>13. Ledger'
  BY <1>1, <1>12 DEF Ledger
<1> QED BY <1>8, <1>9, <1>10, <1>11, <1>13 DEF StoreInv

\* A text ad has no file.
LEMMA TextAdKeeps == ASSUME StoreInv, NEW e \in Editors, CreateTextAd(e) PROVE StoreInv'
<1> DEFINE row == [kind |-> "ad", file |-> NoFile, live |-> TRUE]
           last == Len(entry) + 1
<1>1. /\ uploads < MaxUploads /\ uploads' = uploads + 1 /\ entry' = Append(entry, row)
      /\ UNCHANGED <<disk, used, editor, upset>>
  BY DEF CreateTextAd
<1>2. row \in Entries' /\ row.file = NoFile
  BY DEF Entries, Kinds, NumberedFiles
<1> HIDE DEF row
<1>3. uploads \in Nat /\ uploads' \in Nat /\ uploads <= uploads' /\ uploads' \in 0..MaxUploads /\ 1..uploads \subseteq 1..uploads'
  <2>1. uploads \in Nat /\ MaxUploads \in Nat
    BY StoreFacts, StoreAssumption
  <2> QED BY <1>1, <2>1
<1>4. /\ entry' \in Seq(Entries') /\ DOMAIN entry' = DOMAIN entry \cup {last} /\ last \notin DOMAIN entry
      /\ \A i \in DOMAIN entry : entry'[i] = entry[i]
      /\ entry'[last] = row
  BY <1>1, <1>2, <1>3, EntryAdded
<1> HIDE DEF last
<1>5. StoreFits'
  <2>1. editor' \in [Editors -> Errand']
    <3>1. Errand \subseteq Errand'
      BY <1>3 DEF Errand, NumberedFiles
    <3>2. editor \in [Editors -> Errand]
      BY DEF StoreInv, StoreFits
    <3> QED BY <1>1, <3>1, <3>2
  <2> QED BY <1>1, <1>3, <1>4, <2>1 DEF StoreInv, StoreFits
<1>6. OneRowEach' /\ PicturesThere'
  BY <1>1, <1>2, <1>4 DEF StoreInv, OneRowEach, PicturesThere
<1>7. ErrandsFit'
  <2>1. \A f \in Editors : editor[f].row = 0 /\ editor[f].step # "idle" => UploadFits(f)'
    BY <1>1, <1>2, <1>4 DEF StoreInv, ErrandsFit, UploadFits
  <2>2. \A f \in Editors : editor[f].row # 0 => RemovalFits(f)'
    BY <1>1, <1>4 DEF StoreInv, ErrandsFit, RemovalFits
  <2> QED BY <1>1, <2>1, <2>2 DEF StoreInv, ErrandsFit
<1>8. ErrandsApart'
  BY <1>1 DEF StoreInv, ErrandsApart
<1>9. \A x \in 1..uploads' : \A i \in DOMAIN entry' :
        /\ OfRow(x, i)' <=> i # last /\ OfRow(x, i)
        /\ PaidForRow(x, i)' <=> i # last /\ PaidForRow(x, i)
  <2>1. NoFile \notin 1..uploads'
    BY <1>3, StoreAssumption
  <2> QED BY <1>2, <1>4, <2>1 DEF OfRow, PaidForRow
<1>10. \A x \in 1..uploads' : \A f \in Editors :
         /\ OfErrand(x, f)' <=> OfErrand(x, f)
         /\ PaidForErrand(x, f)' <=> PaidForErrand(x, f)
  BY <1>1 DEF OfErrand, PaidForErrand
<1>11. \A x \in 1..uploads' : Kept(x)' <=> Kept(x)
  BY <1>4, <1>9, <1>10 DEF Kept
<1>12. \A x \in 1..uploads' : Kept(x) => x \in 1..uploads
  <2>1. NoFile \notin 1..uploads'
    BY <1>3, StoreAssumption
  <2>2. \A x \in 1..uploads' : x \in NumberedFiles => x \in 1..uploads
    BY <2>1 DEF NumberedFiles
  <2>3. \A x : Kept(x) => x \in NumberedFiles
    BY StoreFacts DEF Kept, OfRow, OfErrand
  <2> QED BY <2>2, <2>3
<1>13. PaidFor' = PaidFor
  <2>1. \A x \in 1..uploads' : x \in PaidFor' <=> x \in PaidFor
    <3>1. \A x \in 1..uploads' : (\E i \in DOMAIN entry : PaidForRow(x, i)) \/ (\E f \in Editors : PaidForErrand(x, f))
                                 => Kept(x)
      BY DEF Kept, PaidForRow, PaidForErrand
    <3> QED BY <1>4, <1>9, <1>10, <1>12, <3>1 DEF PaidFor
  <2> QED BY <1>3, <2>1 DEF PaidFor
<1>14. Ledger'
  BY <1>1, <1>3, <1>11, <1>12, <1>13 DEF StoreInv, Ledger
<1> QED BY <1>5, <1>6, <1>7, <1>8, <1>14 DEF StoreInv

\* The row of an upload, whether the request is done with it or not.
LEMMA RowKeeps ==
  ASSUME StoreInv, NEW e \in Editors, editor[e].step = "insert", UNCHANGED <<disk, used, uploads>>,
         entry' = Append(entry, [kind |-> editor[e].kind, file |-> editor[e].file, live |-> TRUE]),
         \/ Done(e) /\ UNCHANGED upset
         \/ ~Metered(editor[e].kind) /\ Goto(e, "unlink") /\ upset' = TRUE
  PROVE  StoreInv'
<1> DEFINE row == [kind |-> editor[e].kind, file |-> editor[e].file, live |-> TRUE]
           last == Len(entry) + 1
           x0 == editor[e].file
<1>1. /\ editor[e].row = 0 /\ x0 # NoFile /\ x0 \in disk /\ x0 \in NumberedFiles /\ editor[e].kind \in Kinds
      /\ \A i \in DOMAIN entry : entry[i].file # x0
  <2>1. editor[e].row = 0
    BY DEF StoreInv, ErrandsFit, RemovalFits
  <2> QED BY <2>1, StoreFacts DEF StoreInv, ErrandsFit, UploadFits
<1>2. row \in Entries' /\ row.file = x0 /\ row.kind = editor[e].kind /\ row.live
  BY <1>1 DEF Entries, NumberedFiles
<1>3. entry' = Append(entry, row) /\ uploads' \in Nat /\ uploads <= uploads'
  BY StoreFacts
<1> HIDE DEF row
<1>4. /\ entry' \in Seq(Entries') /\ DOMAIN entry' = DOMAIN entry \cup {last} /\ last \notin DOMAIN entry
      /\ \A i \in DOMAIN entry : entry'[i] = entry[i]
      /\ entry'[last] = row
  BY <1>2, <1>3, EntryAdded
<1> HIDE DEF last
<1>5. /\ editor' \in [Editors -> Errand']
      /\ \A f \in Editors : f # e => /\ editor'[f].step = editor[f].step /\ editor'[f].kind = editor[f].kind
                                     /\ editor'[f].file = editor[f].file /\ editor'[f].row = editor[f].row
      /\ editor'[e].row = 0
      /\ \/ editor'[e].step = "idle" /\ upset' = upset
         \/ editor'[e].step = "unlink" /\ editor'[e].file = x0 /\ ~Metered(editor'[e].kind)
            /\ editor'[e].kind = editor[e].kind /\ upset' = TRUE
  <2>1. CASE Done(e) /\ UNCHANGED upset
    BY <2>1, ErrandDone
  <2>2. CASE ~Metered(editor[e].kind) /\ Goto(e, "unlink") /\ upset' = TRUE
    <3>1. "unlink" \in Errands
      BY DEF Errands
    <3> QED BY <1>1, <2>2, <3>1, ErrandGoes
  <2> QED BY <2>1, <2>2
<1>6. StoreFits'
  BY <1>4, <1>5 DEF StoreInv, StoreFits
<1>7. OneRowEach' /\ PicturesThere'
  BY <1>1, <1>2, <1>4 DEF StoreInv, OneRowEach, PicturesThere
<1>8. \A f \in Editors : f # e /\ editor[f].row = 0 /\ editor[f].step # "idle" => editor[f].file # x0
  BY <1>1 DEF StoreInv, ErrandsApart
<1>9. ErrandsFit'
  <2>1. ASSUME NEW f \in Editors, f # e, editor[f].row = 0, editor[f].step # "idle" PROVE UploadFits(f)'
    <3>1. UploadFits(f) /\ editor[f].file # x0
      BY <1>8, <2>1 DEF StoreInv, ErrandsFit
    <3>2. upset => upset'
      BY <1>5
    <3> QED BY <1>2, <1>4, <1>5, <2>1, <3>1, <3>2 DEF UploadFits
  <2>2. \A f \in Editors : f # e /\ editor[f].row # 0 => RemovalFits(f)'
    <3>1. upset => upset'
      BY <1>5
    <3> QED BY <1>4, <1>5, <3>1 DEF StoreInv, ErrandsFit, RemovalFits
  <2>3. editor'[e].step # "idle" => UploadFits(e)'
    BY <1>1, <1>2, <1>4, <1>5 DEF UploadFits
  <2> QED BY <1>5, <2>1, <2>2, <2>3 DEF StoreInv, ErrandsFit
<1>10. ErrandsApart'
  BY <1>1, <1>5, <1>8 DEF StoreInv, ErrandsApart
<1>11. Ledger'
  <2> SUFFICES ASSUME ~upset' PROVE disk' = {x \in 1..uploads' : Kept(x)'} /\ used' = Cardinality(PaidFor')
    BY DEF Ledger
  <2>1. editor'[e].step = "idle" /\ ~upset
    BY <1>5
  <2>2. \A x \in 1..uploads : \A f \in Editors :
          /\ OfErrand(x, f)' <=> OfErrand(x, f) /\ f # e
          /\ PaidForErrand(x, f)' <=> PaidForErrand(x, f) /\ f # e
          /\ OfErrand(x, e) <=> x = x0
          /\ PaidForErrand(x, e) <=> x = x0 /\ Metered(editor[e].kind)
    BY <1>5, <2>1 DEF OfErrand, PaidForErrand
  <2>3. \A x \in 1..uploads : \A i \in DOMAIN entry' :
          /\ OfRow(x, i)' <=> IF i = last THEN x = x0 ELSE OfRow(x, i)
          /\ PaidForRow(x, i)' <=> IF i = last THEN x = x0 /\ Metered(editor[e].kind) ELSE PaidForRow(x, i)
    BY <1>2, <1>4 DEF OfRow, PaidForRow
  <2>4. \A x \in 1..uploads : Kept(x)' <=> Kept(x)
    BY <1>4, <2>2, <2>3 DEF Kept
  <2>5. \A x \in 1..uploads :
          ((\E i \in DOMAIN entry' : PaidForRow(x, i)') \/ (\E f \in Editors : PaidForErrand(x, f)'))
          <=> ((\E i \in DOMAIN entry : PaidForRow(x, i)) \/ (\E f \in Editors : PaidForErrand(x, f)))
    BY <1>4, <2>2, <2>3
  <2>6. PaidFor' = PaidFor
    BY <2>5 DEF PaidFor
  <2> QED BY <2>1, <2>4, <2>6 DEF StoreInv, Ledger
<1> QED BY <1>6, <1>7, <1>9, <1>10, <1>11 DEF StoreInv

\* Every step of the stored files keeps their invariant.
LEMMA StoreSteps == StoreInv /\ (StoreNext \/ UNCHANGED storeVars) => StoreInv'
<1> SUFFICES ASSUME StoreInv, StoreNext \/ UNCHANGED storeVars PROVE StoreInv'
  OBVIOUS
<1>1. CASE UNCHANGED storeVars
  <2>1. UNCHANGED <<entry, disk, used, editor, uploads, upset>>
    BY <1>1 DEF storeVars
  <2>2. Entries' = Entries /\ Errand' = Errand
    BY <2>1 DEF Entries, Errand, NumberedFiles
  <2>3. StoreFits' /\ OneRowEach' /\ ErrandsApart' /\ PicturesThere'
    BY <2>1, <2>2 DEF StoreInv, StoreFits, OneRowEach, ErrandsApart, PicturesThere
  <2>4. ErrandsFit'
    BY <2>1 DEF StoreInv, ErrandsFit, UploadFits, RemovalFits
  <2>5. PaidFor' = PaidFor
    BY <2>1 DEF PaidFor, PaidForRow, PaidForErrand, OfRow, OfErrand
  <2>6. \A x \in 1..uploads : Kept(x)' <=> Kept(x)
    BY <2>1 DEF Kept, OfRow, OfErrand
  <2>7. Ledger'
    BY <2>1, <2>5, <2>6 DEF StoreInv, Ledger
  <2> QED BY <2>3, <2>4, <2>7 DEF StoreInv
<1>2. ASSUME NEW e \in Editors, InsertEntry(e) PROVE StoreInv'
  BY <1>2, RowKeeps DEF InsertEntry, AtStep
<1>3. ASSUME NEW e \in Editors, RereadFails(e) PROVE StoreInv'
  <2>1. /\ editor[e].step = "insert" /\ ~Metered(editor[e].kind) /\ Goto(e, "unlink") /\ upset' = TRUE
        /\ entry' = Append(entry, [kind |-> editor[e].kind, file |-> editor[e].file, live |-> TRUE])
        /\ UNCHANGED <<disk, used, uploads>>
    BY <1>3 DEF RereadFails, AtStep, Metered
  <2> QED BY <2>1, RowKeeps
<1>4. CASE StoreStops
  BY <1>4, StopKeeps
<1> QED BY <1>1, <1>2, <1>3, <1>4, UploadKeeps, TextAdKeeps, InsertFailsKeeps, RemoveKeeps, DeleteKeeps,
           MeasureKeeps, SubtractKeeps, SubtractFailsKeeps, UnlinkKeeps
    DEF StoreNext

\* What the invariant says of pictures, documents and the counter.
LEMMA StoreIsSound == StoreInv => StoreSound
<1> SUFFICES ASSUME StoreInv PROVE StoreSound
  OBVIOUS
<1>1. StoreTypeOK
  <2>1. 1..uploads \subseteq 1..MaxUploads /\ disk \subseteq 1..uploads /\ used \in 0..Quota /\ uploads \in 0..MaxUploads
    <3>1. uploads \in Nat /\ MaxUploads \in Nat /\ uploads <= MaxUploads
      BY StoreFacts, StoreAssumption
    <3> QED BY <3>1 DEF StoreInv, StoreFits
  <2>2. \A id \in DOMAIN entry :
          entry[id] \in [kind : Kinds, file : disk \cup 1..MaxUploads \cup {NoFile}, live : BOOLEAN]
    BY <2>1, StoreFacts DEF Entries, NumberedFiles
  <2> QED BY <2>1, <2>2 DEF StoreTypeOK
<1>2. PicturesServed
  BY DEF StoreInv, PicturesThere, PicturesServed, Files, Shown
<1>3. DocumentsServed
  <2> SUFFICES ASSUME ~upset PROVE Files({id \in DOMAIN entry : Shown(id)}) \subseteq disk
    BY DEF DocumentsServed
  <2>1. \A i \in DOMAIN entry : entry[i].live /\ entry[i].file # NoFile => entry[i].file \in disk
    BY StoreFacts DEF StoreInv, Ledger, Kept, OfRow, NumberedFiles
  <2> QED BY <2>1 DEF Files, Shown
<1>4. NothingLeft
  <2> SUFFICES ASSUME \A e \in Editors : AtStep(e, "idle"), ~upset
               PROVE  LET now_shown == {id \in DOMAIN entry : Shown(id)}
                      IN /\ disk = Files(now_shown)
                         /\ used = Cardinality(Files({id \in now_shown : Metered(entry[id].kind)}))
    BY DEF NothingLeft
  <2> DEFINE kept == {id \in DOMAIN entry : Shown(id)}
  <2>1. \A x \in 1..uploads : \A e \in Editors : ~OfErrand(x, e) /\ ~PaidForErrand(x, e)
    BY DEF AtStep, OfErrand, PaidForErrand
  <2>2. \A i \in DOMAIN entry : entry[i].file # NoFile => entry[i].file \in 1..uploads
    BY StoreFacts DEF NumberedFiles
  <2>3. Files(kept) = {x \in 1..uploads : Kept(x)}
    BY <2>1, <2>2, StoreFacts DEF Files, Shown, Kept, OfRow
  <2>4. Files({id \in kept : Metered(entry[id].kind)}) = PaidFor
    BY <2>1, <2>2, StoreFacts DEF Files, Shown, PaidFor, PaidForRow, OfRow
  <2> QED BY <2>3, <2>4 DEF StoreInv, Ledger
<1> QED BY <1>1, <1>2, <1>3, <1>4 DEF StoreSound

----------------------------------------
(* Imported contacts.  An import files a row for the item it answers, and    *)
(* masters are only ever added.                                              *)

ClerkSteps == {"idle", "masters", "resolve", "create", "insert", "done"}
Marks == {Unresolved, "error"}

\* A clerk's record, field by field.
IsClerk(r) ==
  r = [step |-> r.step, batch |-> r.batch, skip |-> r.skip, dups |-> r.dups, known |-> r.known,
       pending |-> r.pending, codes |-> r.codes, answers |-> r.answers, before |-> r.before]

\* An import answers items of its sheet, in order, and knows masters that are there.
ClerkFits(r) ==
  /\ IsClerk(r) /\ r.step \in ClerkSteps
  /\ r.answers \in Seq({"created", "duplicate", "invalid", "error"})
  /\ r.known \in [Codes -> Labels \cup {NoLabel}]
  /\ IF r.step = "idle" THEN r = IdleClerk
     ELSE /\ r.batch \in Batches /\ r.codes \in [Labels -> Codes \cup Marks]
          /\ r.pending \subseteq {i \in DOMAIN r.batch : r.batch[i].label \in Labels}
          /\ IF r.step = "done" THEN Len(r.answers) = Len(r.batch) ELSE Len(r.answers) < Len(r.batch)

ClerksFit == /\ clerk = [c \in Clerks |-> clerk[c]]
             /\ \A c \in Clerks : ClerkFits(clerk[c])

ContactFields == {"mobile", "email", "code", "live", "from"}
BookFits == /\ (\E S : book \in Seq(S)) /\ Len(book) <= MaxContacts
            /\ \A j \in DOMAIN book : DOMAIN book[j] = ContactFields

\* A row an import filed stands for one of its answers, and an answer tells its row.
Filed(c, i) == {j \in DOMAIN book : book[j].from = <<c, i>>}
FiledFits(c, i) ==
  IF i \notin DOMAIN clerk[c].answers THEN Filed(c, i) = {}
  ELSE IF clerk[c].answers[i] = "created"
  THEN \E j \in Filed(c, i) : Filed(c, i) = {j} /\ Channels(book[j]) = Channels(clerk[c].batch[i])
  ELSE clerk[c].answers[i] = "error" \/ Filed(c, i) = {}
AnswersFit == \A c \in Clerks : \A i \in Nat \ {0} : FiledFits(c, i)

\* The duplicates of a sheet are those the book knew when the import began.
SkipFits(r) ==
  /\ \A i \in DOMAIN r.batch : Channels(r.batch[i]) \cap r.before # {} => i \in r.dups
  /\ r.skip => \A i \in DOMAIN r.answers :
       r.answers[i] = "created" => Channels(r.batch[i]) \cap r.before = {}
SkipsFit == \A c \in Clerks : SkipFits(clerk[c])

\* Masters have labels of their own, and none of the first is lost.
MastersFit ==
  /\ designation \in [Codes -> Labels \cup {NoLabel}]
  /\ \A k, l \in Codes : designation[k] = designation[l] /\ k # l => designation[k] = NoLabel
  /\ \A k \in Codes : FirstMaster[k] # NoLabel => designation[k] = FirstMaster[k]

Stands(k, l) == designation[k] = l \/ (k \in {CodeOf[l], l} /\ designation[k] # NoLabel)

\* What an import knows of the masters is so, and the label it is about to insert is
\* at most at the code it derived for it.
KnowsMasters(c) ==
  /\ \A k \in Codes : clerk[c].known[k] # NoLabel => designation[k] = clerk[c].known[k]
  /\ clerk[c].step # "idle" =>
       \A l \in Labels : clerk[c].codes[l] \in Codes => Stands(clerk[c].codes[l], l)
  /\ clerk[c].step = "insert" => \A i \in NextMention(c) : \A k \in Codes :
       designation[k] = clerk[c].batch[i].label => k = CodeOf[clerk[c].batch[i].label]
AllKnow == \A c \in Clerks : KnowsMasters(c)

ImportInv == BookFits /\ ClerksFit /\ AnswersFit /\ SkipsFit /\ MastersFit /\ AllKnow

\* A clerk's record after a step.
LEMMA StepOf ==
  ASSUME NEW r, IsClerk(r), NEW v, NEW q, q = [r EXCEPT !.step = v]
  PROVE  /\ IsClerk(q) /\ q.step = v /\ q.batch = r.batch /\ q.skip = r.skip /\ q.dups = r.dups
         /\ q.known = r.known /\ q.pending = r.pending /\ q.codes = r.codes
         /\ q.answers = r.answers /\ q.before = r.before
BY DEF IsClerk

\* One clerk's record changes.
LEMMA ClerkGoes ==
  ASSUME ClerksFit, NEW c \in Clerks, NEW r, clerk' = [clerk EXCEPT ![c] = r]
  PROVE  clerk' = [d \in Clerks |-> clerk'[d]] /\ \A d \in Clerks : clerk'[d] = IF d = c THEN r ELSE clerk[d]
<1>1. clerk = [d \in Clerks |-> clerk[d]]
  BY DEF ClerksFit
<1>2. DOMAIN clerk = Clerks
  BY <1>1
<1> QED BY <1>2

\* A record that is idle is idle in every field.
LEMMA IdleFits ==
  /\ ClerkFits(IdleClerk) /\ SkipFits(IdleClerk) /\ IdleClerk.known = FirstMaster
  /\ IdleClerk.answers = << >> /\ IdleClerk.step = "idle" /\ IdleClerk.pending = {}
<1>1. IsClerk(IdleClerk)
  BY DEF IsClerk, IdleClerk
<1>2. /\ IdleClerk.step = "idle" /\ IdleClerk.known = FirstMaster /\ IdleClerk.answers = << >>
      /\ IdleClerk.batch = << >> /\ IdleClerk.pending = {}
  BY DEF IdleClerk
<1>3. ClerkFits(IdleClerk)
  BY <1>1, <1>2, ImportAssumption DEF ClerkFits, ClerkSteps
<1>4. SkipFits(IdleClerk)
  BY <1>2 DEF SkipFits
<1> QED BY <1>2, <1>3, <1>4

\* At first nobody imports, and the book and the masters are as given.
LEMMA ImportStarts == ImportInit => ImportInv
<1> SUFFICES ASSUME ImportInit PROVE ImportInv
  OBVIOUS
<1> USE ImportAssumption DEF ImportInit
<1>1. \A c \in Clerks : clerk[c] = IdleClerk
  OBVIOUS
<1>2. BookFits
  BY DEF BookFits, ContactFields
<1>3. ClerksFit
  BY <1>1, IdleFits DEF ClerksFit
<1>4. AnswersFit
  <2> SUFFICES ASSUME NEW c \in Clerks, NEW i \in Nat \ {0} PROVE FiledFits(c, i)
    BY DEF AnswersFit
  <2>1. DOMAIN clerk[c].answers = {}
    BY <1>1, IdleFits
  <2>2. \A j \in DOMAIN book : book[j].from # <<c, i>>
    <3>1. << >> # <<c, i>>
      OBVIOUS
    <3>2. \A j \in DOMAIN book : book[j].from = << >>
      OBVIOUS
    <3> QED BY <3>1, <3>2
  <2> QED BY <2>1, <2>2 DEF FiledFits, Filed
<1>5. SkipsFit
  BY <1>1, IdleFits DEF SkipsFit
<1>6. MastersFit
  BY DEF MastersFit
<1>7. AllKnow
  BY <1>1, IdleFits DEF AllKnow, KnowsMasters
<1> QED BY <1>2, <1>3, <1>4, <1>5, <1>6, <1>7 DEF ImportInv

\* A clerk moves on in the same sheet, with the answers it has.
LEMMA ClerkKeeps ==
  ASSUME ImportInv, NEW c \in Clerks, NEW r, clerk' = [clerk EXCEPT ![c] = r], ClerkFits(r), SkipFits(r),
         r.answers = clerk[c].answers, r.answers # << >> => r.batch = clerk[c].batch,
         UNCHANGED book, MastersFit', AllKnow'
  PROVE  ImportInv'
<1>1. clerk' = [d \in Clerks |-> clerk'[d]] /\ \A d \in Clerks : clerk'[d] = IF d = c THEN r ELSE clerk[d]
  BY ClerkGoes DEF ImportInv
<1>2. BookFits'
  BY DEF ImportInv, BookFits
<1>3. ClerksFit'
  BY <1>1 DEF ImportInv, ClerksFit
<1>4. AnswersFit'
  <2>1. \A d \in Clerks : /\ clerk'[d].answers = clerk[d].answers
                          /\ clerk'[d].answers # << >> => clerk'[d].batch = clerk[d].batch
    BY <1>1
  <2>2. \A d \in Clerks : \A i \in Nat \ {0} : Filed(d, i)' = Filed(d, i)
    BY DEF Filed
  <2>3. \A d \in Clerks : \A i \in Nat \ {0} : FiledFits(d, i) => FiledFits(d, i)'
    <3> SUFFICES ASSUME NEW d \in Clerks, NEW i \in Nat \ {0}, FiledFits(d, i) PROVE FiledFits(d, i)'
      OBVIOUS
    <3>1. i \in DOMAIN clerk[d].answers => clerk[d].answers # << >>
      OBVIOUS
    <3> QED BY <2>1, <2>2, <3>1 DEF FiledFits
  <2> QED BY <2>3 DEF ImportInv, AnswersFit
<1>5. SkipsFit'
  BY <1>1 DEF ImportInv, SkipsFit
<1> QED BY <1>2, <1>3, <1>4, <1>5 DEF ImportInv

\* With the same masters, only the clerk that moves has to be looked at.
LEMMA OthersKnow ==
  ASSUME ImportInv, NEW c \in Clerks, NEW r, clerk' = [clerk EXCEPT ![c] = r], UNCHANGED designation,
         KnowsMasters(c)'
  PROVE  MastersFit' /\ AllKnow'
<1>1. \A d \in Clerks : clerk'[d] = IF d = c THEN r ELSE clerk[d]
  BY ClerkGoes DEF ImportInv
<1>2. MastersFit'
  BY DEF ImportInv, MastersFit
<1>3. ASSUME NEW d \in Clerks, d # c PROVE KnowsMasters(d)'
  <2>1. KnowsMasters(d) /\ clerk'[d] = clerk[d] /\ NextMention(d)' = NextMention(d)
    BY <1>1, <1>3 DEF ImportInv, AllKnow, NextMention
  <2>2. \A k, l : Stands(k, l)' <=> Stands(k, l)
    BY DEF Stands
  <2> QED BY <2>1, <2>2 DEF KnowsMasters
<1> QED BY <1>2, <1>3 DEF AllKnow

\* The record of a clerk at work, field by field.
LEMMA AtWork ==
  ASSUME ImportInv, NEW c \in Clerks, clerk[c].step # "idle"
  PROVE  /\ ClerkFits(clerk[c]) /\ IsClerk(clerk[c]) /\ SkipFits(clerk[c]) /\ KnowsMasters(c)
         /\ clerk[c].batch \in Batches /\ clerk[c].codes \in [Labels -> Codes \cup Marks]
         /\ clerk[c].known \in [Codes -> Labels \cup {NoLabel}]
         /\ clerk[c].pending \subseteq {i \in DOMAIN clerk[c].batch : clerk[c].batch[i].label \in Labels}
BY DEF ImportInv, ClerksFit, ClerkFits, SkipsFit, AllKnow

\* The masters are read: what the clerk knows is what there is.
LEMMA ReadKeeps == ASSUME ImportInv, NEW c \in Clerks, ReadMasters(c) PROVE ImportInv'
<1> DEFINE r == clerk[c]
<1>0. PICK q : q = [r EXCEPT !.step = "resolve", !.known = designation]
  OBVIOUS
<1>1. r.step = "masters" /\ clerk' = [clerk EXCEPT ![c] = q] /\ UNCHANGED <<book, designation>>
  BY <1>0 DEF ReadMasters
<1>2. ClerkFits(r) /\ IsClerk(r) /\ SkipFits(r) /\ KnowsMasters(c)
  BY <1>1, AtWork
<1>3. /\ IsClerk(q) /\ q.step = "resolve" /\ q.batch = r.batch /\ q.skip = r.skip /\ q.dups = r.dups
      /\ q.known = designation /\ q.pending = r.pending /\ q.codes = r.codes
      /\ q.answers = r.answers /\ q.before = r.before
  BY <1>0, <1>2 DEF IsClerk
<1>4. ClerkFits(q)
  <2>1. designation \in [Codes -> Labels \cup {NoLabel}]
    BY DEF ImportInv, MastersFit
  <2> QED BY <1>1, <1>2, <1>3, <2>1 DEF ClerkFits, ClerkSteps
<1>5. SkipFits(q)
  BY <1>2, <1>3 DEF SkipFits
<1>6. KnowsMasters(c)'
  <2>1. clerk'[c] = q
    BY <1>1, ClerkGoes DEF ImportInv
  <2>2. \A k, l : Stands(k, l)' <=> Stands(k, l)
    BY <1>1 DEF Stands
  <2> QED BY <1>1, <1>2, <1>3, <2>1, <2>2 DEF KnowsMasters
<1>7. MastersFit' /\ AllKnow'
  BY <1>1, <1>6, OthersKnow
<1> QED BY <1>1, <1>3, <1>4, <1>5, <1>7, ClerkKeeps

\* No master has the label: the clerk goes on to create one.
LEMMA GoOnKeeps ==
  ASSUME ImportInv, NEW c \in Clerks, clerk[c].step \in {"resolve", "create"}, NEW v \in {"create", "insert"},
         clerk' = [clerk EXCEPT ![c].step = v], UNCHANGED <<book, designation>>,
         v = "insert" => \A i \in NextMention(c) : \A k \in Codes : designation[k] # clerk[c].batch[i].label
  PROVE  ImportInv'
<1> DEFINE r == clerk[c]
           q == [r EXCEPT !.step = v]
<1>1. clerk' = [clerk EXCEPT ![c] = q]
  OBVIOUS
<1>2. ClerkFits(r) /\ IsClerk(r) /\ SkipFits(r) /\ KnowsMasters(c)
  BY AtWork
<1>3. /\ IsClerk(q) /\ q.step = v /\ q.batch = r.batch /\ q.skip = r.skip /\ q.dups = r.dups
      /\ q.known = r.known /\ q.pending = r.pending /\ q.codes = r.codes
      /\ q.answers = r.answers /\ q.before = r.before
  BY <1>2, StepOf
<1> HIDE DEF q
<1>4. ClerkFits(q)
  BY <1>2, <1>3 DEF ClerkFits, ClerkSteps
<1>5. SkipFits(q)
  BY <1>2, <1>3 DEF SkipFits
<1>6. KnowsMasters(c)'
  <2>1. clerk'[c] = q
    BY <1>1, ClerkGoes DEF ImportInv
  <2>2. \A k, l : Stands(k, l)' <=> Stands(k, l)
    BY DEF Stands
  <2>3. NextMention(c)' = NextMention(c)
    BY <1>3, <2>1 DEF NextMention
  <2> QED BY <1>2, <1>3, <2>1, <2>2, <2>3 DEF KnowsMasters
<1>7. MastersFit' /\ AllKnow'
  BY <1>1, <1>6, OthersKnow
<1> QED BY <1>1, <1>3, <1>4, <1>5, <1>7, ClerkKeeps

\* The record of a clerk that found or made a code for the next label.
LabelGets(c, i, code, known0, q) ==
  /\ Resolved(c, i, code, known0) = [clerk EXCEPT ![c] = q]
  /\ ClerkFits(q) /\ SkipFits(q) /\ q.answers = clerk[c].answers /\ q.batch = clerk[c].batch
  /\ q.step = "resolve" /\ q.known = known0
  /\ \A l \in Labels : q.codes[l] = IF l = clerk[c].batch[i].label THEN code ELSE clerk[c].codes[l]

\* Such a record fits, whatever code it is.
LEMMA LabelResolved ==
  ASSUME ImportInv, NEW c \in Clerks, clerk[c].step \in {"resolve", "create", "insert"}, NEW i \in NextMention(c),
         NEW code \in Codes \cup Marks, NEW known0 \in [Codes -> Labels \cup {NoLabel}]
  PROVE  \E q : LabelGets(c, i, code, known0, q)
<1> DEFINE r == clerk[c]
           label == r.batch[i].label
           codes == [r.codes EXCEPT ![label] = code]
           rest == r.pending \ {i}
<1>1. /\ ClerkFits(r) /\ IsClerk(r) /\ SkipFits(r) /\ r.codes \in [Labels -> Codes \cup Marks]
      /\ r.pending \subseteq {k \in DOMAIN r.batch : r.batch[k].label \in Labels}
  BY AtWork
<1>2. PICK q : q = [r EXCEPT !.codes = codes, !.known = known0, !.pending = rest, !.step = "resolve"]
  OBVIOUS
<1>3. Resolved(c, i, code, known0) = [clerk EXCEPT ![c] = q]
  BY <1>2 DEF Resolved
<1>4. label \in Labels /\ rest \subseteq r.pending
  BY <1>1 DEF NextMention
<1>5. codes \in [Labels -> Codes \cup Marks] /\ \A l \in Labels : codes[l] = IF l = label THEN code ELSE r.codes[l]
  BY <1>1, <1>4
<1> HIDE DEF codes, rest
<1>6. /\ IsClerk(q) /\ q.step = "resolve" /\ q.batch = r.batch /\ q.skip = r.skip /\ q.dups = r.dups
      /\ q.known = known0 /\ q.pending = rest /\ q.codes = codes
      /\ q.answers = r.answers /\ q.before = r.before
  BY <1>1, <1>2 DEF IsClerk
<1>7. ClerkFits(q)
  BY <1>1, <1>4, <1>5, <1>6 DEF ClerkFits, ClerkSteps
<1>8. SkipFits(q)
  BY <1>1, <1>6 DEF SkipFits
<1>9. LabelGets(c, i, code, known0, q)
  BY <1>3, <1>4, <1>5, <1>6, <1>7, <1>8 DEF LabelGets
<1> QED BY <1>9

\* The next label gets a code that stands for it, or an error.
LEMMA ResolvedKeeps ==
  ASSUME ImportInv, NEW c \in Clerks, clerk[c].step \in {"resolve", "create", "insert"}, NEW i \in NextMention(c),
         NEW code \in Codes \cup Marks, code \in Codes => Stands(code, clerk[c].batch[i].label),
         clerk' = Resolved(c, i, code, clerk[c].known), UNCHANGED <<book, designation>>
  PROVE  ImportInv'
<1>1. KnowsMasters(c) /\ clerk[c].known \in [Codes -> Labels \cup {NoLabel}]
  BY AtWork
<1>0. PICK q : LabelGets(c, i, code, clerk[c].known, q)
  BY <1>1, LabelResolved
<1>2. /\ clerk' = [clerk EXCEPT ![c] = q]
      /\ ClerkFits(q) /\ SkipFits(q) /\ q.answers = clerk[c].answers /\ q.batch = clerk[c].batch
      /\ q.step = "resolve" /\ q.known = clerk[c].known
      /\ \A l \in Labels : q.codes[l] = IF l = clerk[c].batch[i].label THEN code ELSE clerk[c].codes[l]
  BY <1>0 DEF LabelGets
<1>3. KnowsMasters(c)'
  <2>1. clerk'[c] = q
    BY <1>2, ClerkGoes DEF ImportInv
  <2>2. \A k, l : Stands(k, l)' <=> Stands(k, l)
    BY DEF Stands
  <2> QED BY <1>1, <1>2, <2>1, <2>2 DEF KnowsMasters
<1>4. MastersFit' /\ AllKnow'
  BY <1>2, <1>3, OthersKnow
<1> QED BY <1>2, <1>4, ClerkKeeps

\* The codes found for a label stand for it.
LEMMA FoundStand ==
  ASSUME NEW l \in Labels, NEW known0, MastersFit,
         \A k \in Codes : known0[k] # NoLabel => designation[k] = known0[k]
  PROVE  \A k \in CodesFor(l, known0) : k \in Codes /\ Stands(k, l)
<1>1. l # NoLabel /\ CodeOf[l] \in Codes
  BY ImportAssumption
<1>2. \A k \in Codes : known0[k] # NoLabel => designation[k] # NoLabel
  OBVIOUS
<1> QED BY <1>1, <1>2 DEF CodesFor, Stands

\* A label the clerk knows, or does not know.
LEMMA ResolveKeeps == ASSUME ImportInv, NEW c \in Clerks, ResolveKnown(c) PROVE ImportInv'
<1>1. clerk[c].step = "resolve" /\ UNCHANGED <<book, designation>>
  BY DEF ResolveKnown
<1>2. PICK i \in NextMention(c) :
        LET hits == CodesFor(clerk[c].batch[i].label, clerk[c].known)
        IN IF hits = {} THEN clerk' = [clerk EXCEPT ![c].step = "create"]
           ELSE \E k \in hits : clerk' = Resolved(c, i, k, clerk[c].known)
  BY DEF ResolveKnown
<1>3. clerk[c].batch[i].label \in Labels /\ KnowsMasters(c)
  BY <1>1, AtWork DEF NextMention
<1>4. \A k \in CodesFor(clerk[c].batch[i].label, clerk[c].known) : k \in Codes /\ Stands(k, clerk[c].batch[i].label)
  BY <1>3, FoundStand DEF KnowsMasters, ImportInv
<1>5. CASE clerk' = [clerk EXCEPT ![c].step = "create"]
  BY <1>1, <1>5, GoOnKeeps
<1>6. ASSUME NEW k \in CodesFor(clerk[c].batch[i].label, clerk[c].known),
             clerk' = Resolved(c, i, k, clerk[c].known)
      PROVE  ImportInv'
  BY <1>1, <1>4, <1>6, ResolvedKeeps
<1> QED BY <1>2, <1>5, <1>6

\* A master is looked for once more; if there is none, no code has the label.
LEMMA LookKeeps == ASSUME ImportInv, NEW c \in Clerks, LookMaster(c) PROVE ImportInv'
<1>1. clerk[c].step = "create" /\ UNCHANGED <<book, designation>>
  BY DEF LookMaster
<1> DEFINE label(i) == clerk[c].batch[i].label
           here(i) == {k \in {CodeOf[label(i)]} : designation[k] # NoLabel}
           hits(i) == IF here(i) # {} THEN here(i) ELSE CodesFor(label(i), designation)
<1>2. PICK i \in NextMention(c) :
        IF hits(i) = {} THEN clerk' = [clerk EXCEPT ![c].step = "insert"]
        ELSE \E k \in hits(i) : clerk' = Resolved(c, i, k, clerk[c].known)
  BY DEF LookMaster
<1>3. label(i) \in Labels /\ CodeOf[label(i)] \in Codes
  <2>1. label(i) \in Labels
    BY <1>1, AtWork DEF NextMention
  <2> QED BY <2>1, ImportAssumption
<1>4. \A k \in hits(i) : k \in Codes /\ Stands(k, label(i))
  <2>1. \A k \in CodesFor(label(i), designation) : k \in Codes /\ Stands(k, label(i))
    BY <1>3, FoundStand DEF ImportInv
  <2> QED BY <1>3, <2>1 DEF Stands
<1>5. CASE hits(i) = {} /\ clerk' = [clerk EXCEPT ![c].step = "insert"]
  <2>1. \A k \in Codes : designation[k] # label(i)
    BY <1>3, <1>5 DEF CodesFor
  <2>2. \A j \in NextMention(c) : label(j) = label(i)
    <3>1. clerk[c].pending \subseteq Nat
      <4>1. clerk[c].pending \subseteq DOMAIN clerk[c].batch /\ clerk[c].batch \in Batches
        BY <1>1, AtWork
      <4>2. clerk[c].batch \in Seq({clerk[c].batch[k] : k \in DOMAIN clerk[c].batch})
        BY <4>1, ImportAssumption
      <4>3. DOMAIN clerk[c].batch = 1..Len(clerk[c].batch) /\ Len(clerk[c].batch) \in Nat
        BY <4>2
      <4> QED BY <4>1, <4>3
    <3>2. \A j \in NextMention(c) : j = i
      BY <3>1 DEF NextMention
    <3> QED BY <3>2
  <2> QED BY <1>1, <1>5, <2>1, <2>2, GoOnKeeps
<1>6. ASSUME NEW k \in hits(i), clerk' = Resolved(c, i, k, clerk[c].known)
      PROVE  ImportInv'
  BY <1>1, <1>4, <1>6, ResolvedKeeps
<1> QED BY <1>2, <1>5, <1>6

\* A label whose master could not be inserted is marked.
LEMMA MasterFailsKeeps == ASSUME ImportInv, NEW c \in Clerks, MasterFails(c) PROVE ImportInv'
<1>1. clerk[c].step = "insert" /\ UNCHANGED <<book, designation>>
  BY DEF MasterFails
<1>2. PICK i \in NextMention(c) : clerk' = Resolved(c, i, "error", clerk[c].known)
  BY DEF MasterFails
<1>3. "error" \in Codes \cup Marks /\ "error" \notin Codes
  BY ImportAssumption DEF Marks
<1> QED BY <1>1, <1>2, <1>3, ResolvedKeeps

\* A master is inserted at the code derived of its label, unless the code is taken.
LEMMA InsertKeeps == ASSUME ImportInv, NEW c \in Clerks, InsertMaster(c) PROVE ImportInv'
<1>1. clerk[c].step = "insert" /\ UNCHANGED book
  BY DEF InsertMaster
<1>0. PICK i \in NextMention(c) :
        LET label == clerk[c].batch[i].label
            code == CodeOf[label]
        IN /\ designation' = IF CodeTaken(code) THEN designation ELSE [designation EXCEPT ![code] = label]
           /\ clerk' = Resolved(c, i, code, [clerk[c].known EXCEPT ![code] = designation'[code]])
  BY DEF InsertMaster
<1>2. PICK l0, k0, m0 :
        /\ l0 = clerk[c].batch[i].label /\ k0 = CodeOf[l0]
        /\ m0 = [clerk[c].known EXCEPT ![k0] = designation'[k0]]
        /\ designation' = IF designation[k0] # NoLabel THEN designation
                          ELSE [designation EXCEPT ![k0] = l0]
        /\ clerk' = Resolved(c, i, k0, m0)
  BY <1>0, Zenon DEF CodeTaken
<1>3. /\ KnowsMasters(c) /\ clerk[c].known \in [Codes -> Labels \cup {NoLabel}]
      /\ l0 \in Labels /\ l0 # NoLabel /\ k0 \in Codes
  <2>1. l0 \in Labels
    BY <1>1, <1>2, AtWork DEF NextMention
  <2> QED BY <1>1, <1>2, <2>1, AtWork, ImportAssumption
<1>4. \A k \in Codes : designation[k] = l0 => k = k0
  BY <1>1, <1>2, <1>3 DEF KnowsMasters
<1>5. /\ designation \in [Codes -> Labels \cup {NoLabel}]
      /\ \A k, l \in Codes : designation[k] = designation[l] /\ k # l => designation[k] = NoLabel
      /\ \A k \in Codes : FirstMaster[k] # NoLabel => designation[k] = FirstMaster[k]
  BY DEF ImportInv, MastersFit
<1>6. /\ designation' \in [Codes -> Labels \cup {NoLabel}]
      /\ \A k \in Codes : designation'[k] = IF k = k0 /\ designation[k] = NoLabel THEN l0 ELSE designation[k]
  BY <1>2, <1>3, <1>5
<1>7. \A k \in Codes : designation[k] # NoLabel => designation'[k] = designation[k]
  BY <1>6
<1>8. \A k \in Codes, l \in Labels : Stands(k, l) => Stands(k, l)'
  BY <1>6, ImportAssumption DEF Stands
<1>9. MastersFit'
  <2>1. \A k, l \in Codes : designation'[k] = designation'[l] /\ k # l => designation'[k] = NoLabel
    BY <1>3, <1>4, <1>5, <1>6
  <2>2. \A k \in Codes : FirstMaster[k] # NoLabel => designation'[k] = FirstMaster[k]
    BY <1>5, <1>7
  <2> QED BY <1>6, <2>1, <2>2 DEF MastersFit
<1>10. /\ m0 \in [Codes -> Labels \cup {NoLabel}]
       /\ \A k \in Codes : m0[k] = IF k = k0 THEN designation'[k] ELSE clerk[c].known[k]
  <2>1. PICK l1 \in Labels \cup {NoLabel} : l1 = designation'[k0]
    BY <1>3, <1>6
  <2>2. m0 = [clerk[c].known EXCEPT ![k0] = l1]
    BY <1>2, <2>1
  <2>3. /\ m0 \in [Codes -> Labels \cup {NoLabel}]
        /\ \A k \in Codes : m0[k] = IF k = k0 THEN l1 ELSE clerk[c].known[k]
    BY <1>3, <2>2
  <2> QED BY <2>1, <2>3
<1>a. PICK q : LabelGets(c, i, k0, m0, q)
  BY <1>1, <1>3, <1>10, LabelResolved
<1>11. /\ clerk' = [clerk EXCEPT ![c] = q]
       /\ ClerkFits(q) /\ SkipFits(q) /\ q.answers = clerk[c].answers /\ q.batch = clerk[c].batch
       /\ q.step = "resolve" /\ q.known = m0
       /\ \A l \in Labels : q.codes[l] = IF l = l0 THEN k0 ELSE clerk[c].codes[l]
  BY <1>2, <1>a DEF LabelGets
<1>12. \A d \in Clerks : clerk'[d] = IF d = c THEN q ELSE clerk[d]
  BY <1>11, ClerkGoes DEF ImportInv
<1>13. KnowsMasters(c)'
  <2>1. \A k \in Codes : q.known[k] # NoLabel => designation'[k] = q.known[k]
    BY <1>3, <1>7, <1>10, <1>11 DEF KnowsMasters
  <2>2. Stands(k0, l0)'
    BY <1>2, <1>3, <1>6 DEF Stands
  <2>3. \A l \in Labels : q.codes[l] \in Codes => Stands(q.codes[l], l)'
    <3> SUFFICES ASSUME NEW l \in Labels, q.codes[l] \in Codes PROVE Stands(q.codes[l], l)'
      OBVIOUS
    <3>1. CASE l = l0
      BY <1>11, <2>2, <3>1 DEF Stands
    <3>2. CASE l # l0
      <4>1. q.codes[l] = clerk[c].codes[l]
        BY <1>11, <3>2
      <4>2. Stands(clerk[c].codes[l], l)
        BY <1>1, <1>3, <4>1 DEF KnowsMasters
      <4> QED BY <1>6, <4>1, <4>2, ImportAssumption DEF Stands
    <3> QED BY <3>1, <3>2
  <2>4. clerk'[c] = q /\ q.step = "resolve"
    BY <1>11, <1>12
  <2> QED BY <2>1, <2>3, <2>4 DEF KnowsMasters, Stands
<1>14. ASSUME NEW d \in Clerks, d # c PROVE KnowsMasters(d)'
  <2>1. KnowsMasters(d) /\ clerk'[d] = clerk[d] /\ NextMention(d)' = NextMention(d)
    BY <1>12, <1>14 DEF ImportInv, AllKnow, NextMention
  <2>2. \A k \in Codes : clerk[d].known[k] # NoLabel => designation'[k] = clerk[d].known[k]
    BY <1>7, <2>1 DEF KnowsMasters
  <2>3. clerk[d].step = "insert" => \A j \in NextMention(d) : \A k \in Codes :
          designation'[k] = clerk[d].batch[j].label => k = CodeOf[clerk[d].batch[j].label]
    BY <1>2, <1>6, <2>1 DEF KnowsMasters
  <2>4. clerk[d].step # "idle" =>
          \A l \in Labels : clerk[d].codes[l] \in Codes => Stands(clerk[d].codes[l], l)
    BY <2>1 DEF KnowsMasters
  <2>5. clerk[d].step # "idle" => \A l \in Labels : clerk[d].codes[l] \in Codes =>
          designation'[clerk[d].codes[l]] = l
          \/ (clerk[d].codes[l] \in {CodeOf[l], l} /\ designation'[clerk[d].codes[l]] # NoLabel)
    BY <1>6, <2>4, ImportAssumption DEF Stands
  <2> QED BY <2>1, <2>2, <2>3, <2>5 DEF KnowsMasters, Stands
<1>15. AllKnow'
  BY <1>13, <1>14 DEF AllKnow
<1> QED BY <1>1, <1>9, <1>11, <1>15, ClerkKeeps

\* An import begins with what the book and the masters are.
LEMMA StartKeepsImport ==
  ASSUME ImportInv, NEW c \in Clerks, NEW batch \in Batches, NEW skip \in BOOLEAN, StartImport(c, batch, skip)
  PROVE  ImportInv'
<1>1. clerk[c].step = "idle" /\ UNCHANGED <<book, designation>>
  BY DEF StartImport
<1>a. PICK heard, dups, first, codes :
        /\ heard = UNION {Channels(book[j]) : j \in LiveContacts}
        /\ dups = Duplicates(batch) /\ first = FirstMentions(batch) /\ codes = [l \in Labels |-> Unresolved]
  OBVIOUS
<1>b. PICK fresh : fresh = IdleClerk /\ IsClerk(fresh) /\ fresh.known = FirstMaster /\ fresh.answers = << >>
  BY IdleFits DEF ClerkFits
<1>c. PICK q : q = [fresh EXCEPT !.step = "masters", !.batch = batch, !.skip = skip, !.dups = dups,
                                !.pending = first, !.codes = codes, !.before = heard]
  OBVIOUS
<1>2. clerk' = [clerk EXCEPT ![c] = q]
  BY <1>a, <1>b, <1>c DEF StartImport
<1>3. /\ IsClerk(q) /\ q.step = "masters" /\ q.batch = batch /\ q.dups = Duplicates(batch)
      /\ q.known = FirstMaster /\ q.pending = FirstMentions(batch) /\ q.codes = [l \in Labels |-> Unresolved]
      /\ q.answers = << >> /\ q.before = heard
  <2>1. /\ IsClerk(q) /\ q.step = "masters" /\ q.batch = batch /\ q.dups = dups /\ q.known = fresh.known
        /\ q.pending = first /\ q.codes = codes /\ q.answers = fresh.answers /\ q.before = heard
    BY <1>b, <1>c DEF IsClerk
  <2> QED BY <1>a, <1>b, <2>1
<1>4. clerk[c] = IdleClerk
  BY <1>1 DEF ImportInv, ClerksFit, ClerkFits
<1>5. ClerkFits(q)
  <2>1. Len(q.answers) < Len(q.batch)
    <3>1. batch \in Seq({batch[i] : i \in DOMAIN batch}) /\ batch # << >>
      BY ImportAssumption
    <3> QED BY <1>3, <3>1
  <2>2. FirstMentions(batch) \subseteq {i \in DOMAIN batch : batch[i].label \in Labels}
    BY ImportAssumption DEF FirstMentions
  <2>3. q.codes \in [Labels -> Codes \cup Marks]
    BY <1>3 DEF Marks
  <2>4. q.answers \in Seq({"created", "duplicate", "invalid", "error"}) /\ q.known \in [Codes -> Labels \cup {NoLabel}]
    BY <1>3, ImportAssumption
  <2> QED BY <1>3, <2>1, <2>2, <2>3, <2>4 DEF ClerkFits, ClerkSteps
<1>6. SkipFits(q)
  <2>1. \A i \in DOMAIN batch : Channels(batch[i]) \cap heard # {} => i \in Duplicates(batch)
    BY <1>a DEF Duplicates
  <2> QED BY <1>3, <2>1 DEF SkipFits
<1>7. KnowsMasters(c)'
  <2>1. clerk'[c] = q
    BY <1>2, ClerkGoes DEF ImportInv
  <2>2. \A k \in Codes : FirstMaster[k] # NoLabel => designation'[k] = FirstMaster[k]
    BY <1>1 DEF ImportInv, MastersFit
  <2>3. \A l \in Labels : q.codes[l] \notin Codes
    BY <1>3, ImportAssumption DEF Unresolved
  <2> QED BY <1>3, <2>1, <2>2, <2>3 DEF KnowsMasters
<1>8. MastersFit' /\ AllKnow'
  BY <1>1, <1>2, <1>7, OthersKnow
<1>9. q.answers = clerk[c].answers
  BY <1>3, <1>4, IdleFits
<1> QED BY <1>1, <1>2, <1>3, <1>5, <1>6, <1>8, <1>9, ClerkKeeps

\* The book changes by hand: what the imports filed stays.
LEMMA HandKeeps ==
  ASSUME ImportInv, UNCHANGED <<designation, clerk>>, BookFits',
         \A c \in Clerks : \A i \in Nat \ {0} : Filed(c, i)' = Filed(c, i),
         \A c \in Clerks : \A i \in Nat \ {0} : \A j \in Filed(c, i) : Channels(book'[j]) = Channels(book[j])
  PROVE  ImportInv'
<1>1. ClerksFit' /\ SkipsFit' /\ MastersFit'
  BY DEF ImportInv, ClerksFit, SkipsFit, MastersFit
<1>2. AnswersFit'
  <2>1. \A c \in Clerks : \A i \in Nat \ {0} : FiledFits(c, i) => FiledFits(c, i)'
    BY DEF FiledFits
  <2> QED BY <2>1 DEF ImportInv, AnswersFit
<1>3. AllKnow'
  <2>1. \A c \in Clerks : KnowsMasters(c) => KnowsMasters(c)'
    BY DEF KnowsMasters, NextMention, Stands
  <2> QED BY <2>1 DEF ImportInv, AllKnow
<1> QED BY <1>1, <1>2, <1>3 DEF ImportInv

\* A row that is added to the book comes last.
LEMMA ContactAdded ==
  ASSUME BookFits, NEW row, DOMAIN row = ContactFields, Len(book) < MaxContacts, book' = Append(book, row)
  PROVE  /\ BookFits' /\ Len(book) \in Nat
         /\ DOMAIN book' = DOMAIN book \cup {Len(book) + 1} /\ Len(book) + 1 \notin DOMAIN book
         /\ \A j \in DOMAIN book : book'[j] = book[j]
         /\ book'[Len(book) + 1] = row
<1>1. PICK S : book \in Seq(S)
  BY DEF BookFits
<1>2. book \in Seq(S \cup {row}) /\ Len(book) \in Nat /\ DOMAIN book = 1..Len(book)
  BY <1>1
<1>3. /\ book' \in Seq(S \cup {row}) /\ Len(book') = Len(book) + 1
      /\ \A j \in 1..Len(book) : book'[j] = book[j]
      /\ book'[Len(book) + 1] = row
  BY <1>2
<1>4. DOMAIN book' = 1..(Len(book) + 1)
  BY <1>3
<1>5. Len(book') <= MaxContacts
  BY <1>2, <1>3, ImportAssumption
<1>6. \A j \in DOMAIN book' : DOMAIN book'[j] = ContactFields
  BY <1>2, <1>3, <1>4 DEF BookFits
<1> QED BY <1>2, <1>3, <1>4, <1>5, <1>6 DEF BookFits

\* A contact is added by hand.
LEMMA CreateContactKeeps == ASSUME ImportInv, NEW item, createContact(item) PROVE ImportInv'
<1> DEFINE row == [mobile |-> item.mobile, email |-> item.email, code |-> NoCode, live |-> TRUE, from |-> << >>]
<1>1. Len(book) < MaxContacts /\ book' = Append(book, row) /\ UNCHANGED <<designation, clerk>>
  BY DEF createContact
<1>2. DOMAIN row = ContactFields /\ row.from = << >>
  BY DEF ContactFields
<1> HIDE DEF row
<1>3. /\ BookFits'
      /\ DOMAIN book' = DOMAIN book \cup {Len(book) + 1} /\ Len(book) + 1 \notin DOMAIN book
      /\ \A j \in DOMAIN book : book'[j] = book[j]
      /\ book'[Len(book) + 1] = row
  BY <1>1, <1>2, ContactAdded DEF ImportInv
<1>4. \A c \in Clerks : \A i \in Nat \ {0} : << >> # <<c, i>>
  OBVIOUS
<1>5. \A c \in Clerks : \A i \in Nat \ {0} : Filed(c, i)' = Filed(c, i)
  BY <1>2, <1>3, <1>4 DEF Filed
<1>6. \A c \in Clerks : \A i \in Nat \ {0} : \A j \in Filed(c, i) : Channels(book'[j]) = Channels(book[j])
  BY <1>3 DEF Filed
<1> QED BY <1>1, <1>3, <1>5, <1>6, HandKeeps

\* A contact that no import has filed is changed, or any contact is removed.
LEMMA ChangeContactKeeps ==
  ASSUME ImportInv, NEW i \in DOMAIN book, NEW row, DOMAIN row = ContactFields, row.from = book[i].from,
         book[i].from = << >> \/ Channels(row) = Channels(book[i]),
         book' = [book EXCEPT ![i] = row], UNCHANGED <<designation, clerk>>
  PROVE  ImportInv'
<1>1. PICK S : book \in Seq(S)
  BY DEF ImportInv, BookFits
<1>2. book \in Seq(S \cup {row})
  BY <1>1
<1>3. book' \in Seq(S \cup {row}) /\ Len(book') = Len(book) /\ DOMAIN book' = DOMAIN book
      /\ \A j \in DOMAIN book : book'[j] = IF j = i THEN row ELSE book[j]
  BY <1>2
<1>4. BookFits'
  BY <1>3 DEF ImportInv, BookFits
<1>5. \A c \in Clerks : \A k \in Nat \ {0} : << >> # <<c, k>>
  OBVIOUS
<1>6. \A c \in Clerks : \A k \in Nat \ {0} : Filed(c, k)' = Filed(c, k)
  BY <1>3 DEF Filed
<1>7. \A c \in Clerks : \A k \in Nat \ {0} : \A j \in Filed(c, k) : Channels(book'[j]) = Channels(book[j])
  BY <1>3, <1>5 DEF Filed
<1> QED BY <1>4, <1>6, <1>7, HandKeeps

\* A contact is changed by hand.
LEMMA UpdateContactKeeps ==
  ASSUME ImportInv, NEW i \in LiveContacts, NEW item, updateContact(i, item) PROVE ImportInv'
<1>1. PICK row : row = [book[i] EXCEPT !.mobile = item.mobile, !.email = item.email]
  OBVIOUS
<1>2. i \in DOMAIN book /\ DOMAIN book[i] = ContactFields
  BY DEF LiveContacts, ImportInv, BookFits
<1>3. book' = [book EXCEPT ![i] = row] /\ UNCHANGED <<designation, clerk>> /\ book[i].from = << >>
  BY <1>1 DEF updateContact
<1>4. DOMAIN row = ContactFields /\ row.from = book[i].from
  BY <1>1, <1>2 DEF ContactFields
<1> QED BY <1>2, <1>3, <1>4, ChangeContactKeeps

\* A contact is removed.
LEMMA RemoveContactKeeps == ASSUME ImportInv, NEW i \in LiveContacts, removeContact(i) PROVE ImportInv'
<1>1. PICK row : row = [book[i] EXCEPT !.live = FALSE]
  OBVIOUS
<1>2. i \in DOMAIN book /\ DOMAIN book[i] = ContactFields
  BY DEF LiveContacts, ImportInv, BookFits
<1>3. book' = [book EXCEPT ![i] = row] /\ UNCHANGED <<designation, clerk>>
  BY <1>1 DEF removeContact
<1>4. /\ DOMAIN row = ContactFields /\ row.from = book[i].from
      /\ row.mobile = book[i].mobile /\ row.email = book[i].email
  BY <1>1, <1>2 DEF ContactFields
<1>5. Channels(row) = Channels(book[i])
  BY <1>4 DEF Channels
<1> QED BY <1>2, <1>3, <1>4, <1>5, ChangeContactKeeps

\* One item of a sheet is answered, and the row it says was filed is there.
LEMMA ItemKeeps ==
  ASSUME ImportInv, NEW c \in Clerks, clerk[c].step = "resolve", UNCHANGED designation,
         NEW said \in {"created", "duplicate", "invalid", "error"}, clerk' = Answer(c, said),
         said = "created" => ~Skipped(c, Len(clerk[c].answers) + 1),
         NEW row, DOMAIN row = ContactFields, row.from = <<c, Len(clerk[c].answers) + 1>>,
         Channels(row) = Channels(clerk[c].batch[Len(clerk[c].answers) + 1]),
         \/ UNCHANGED book /\ said # "created"
         \/ Len(book) < MaxContacts /\ book' = Append(book, row) /\ said \in {"created", "error"}
  PROVE  ImportInv'
<1> DEFINE r == clerk[c]
           n == Len(r.answers) + 1
           answers == Append(r.answers, said)
<1>1. PICK q, v : /\ clerk' = [clerk EXCEPT ![c] = q]
                  /\ q = [r EXCEPT !.answers = answers, !.step = v]
                  /\ v = IF Len(answers) = Len(r.batch) THEN "done" ELSE "resolve"
  BY DEF Answer
<1>2. ClerkFits(r) /\ IsClerk(r) /\ SkipFits(r) /\ KnowsMasters(c) /\ r.batch \in Batches
  BY AtWork
<1>3. /\ r.answers \in Seq({"created", "duplicate", "invalid", "error"})
      /\ Len(r.answers) \in Nat /\ DOMAIN r.answers = 1..Len(r.answers) /\ n \notin DOMAIN r.answers
      /\ n \in Nat \ {0}
  BY <1>2 DEF ClerkFits
<1>4. /\ answers \in Seq({"created", "duplicate", "invalid", "error"}) /\ Len(answers) = n
      /\ DOMAIN answers = DOMAIN r.answers \cup {n}
      /\ \A i \in DOMAIN r.answers : answers[i] = r.answers[i]
      /\ answers[n] = said
  BY <1>3
<1>5. Len(r.batch) \in Nat /\ n <= Len(r.batch) /\ n \in DOMAIN r.batch
  <2>1. r.batch \in Seq({r.batch[i] : i \in DOMAIN r.batch})
    BY <1>2, ImportAssumption
  <2>2. Len(r.batch) \in Nat /\ DOMAIN r.batch = 1..Len(r.batch)
    BY <2>1
  <2>3. Len(r.answers) < Len(r.batch)
    BY <1>2 DEF ClerkFits
  <2> QED BY <1>3, <2>2, <2>3
<1> HIDE DEF answers
<1>6. /\ IsClerk(q) /\ q.step = v /\ q.batch = r.batch /\ q.skip = r.skip /\ q.dups = r.dups
      /\ q.known = r.known /\ q.pending = r.pending /\ q.codes = r.codes
      /\ q.answers = answers /\ q.before = r.before
  BY <1>1, <1>2 DEF IsClerk
<1>7. clerk' = [d \in Clerks |-> clerk'[d]] /\ \A d \in Clerks : clerk'[d] = IF d = c THEN q ELSE clerk[d]
  BY <1>1, ClerkGoes DEF ImportInv
<1>8. ClerkFits(q)
  <2>1. v \in {"done", "resolve"} /\ (IF v = "done" THEN Len(q.answers) = Len(q.batch) ELSE Len(q.answers) < Len(q.batch))
    <3>1. Len(q.answers) = n /\ Len(q.batch) = Len(r.batch) /\ Len(answers) = n /\ n \in Nat
      BY <1>3, <1>4, <1>6
    <3>2. n = Len(r.batch) \/ n < Len(r.batch)
      BY <1>5, <3>1
    <3> HIDE DEF n
    <3>3. CASE n = Len(r.batch)
      BY <1>1, <3>1, <3>3
    <3>4. CASE n # Len(r.batch)
      BY <1>1, <3>1, <3>2, <3>4
    <3> QED BY <3>3, <3>4
  <2>2. r.codes \in [Labels -> Codes \cup Marks] /\ r.known \in [Codes -> Labels \cup {NoLabel}]
        /\ r.pending \subseteq {i \in DOMAIN r.batch : r.batch[i].label \in Labels}
    BY AtWork
  <2> QED BY <1>2, <1>4, <1>6, <2>1, <2>2 DEF ClerkFits, ClerkSteps
<1>9. ClerksFit'
  BY <1>7, <1>8 DEF ImportInv, ClerksFit
<1>10. SkipsFit'
  <2>1. said = "created" /\ r.skip => n \notin r.dups
    BY DEF Skipped
  <2>2. SkipFits(q)
    BY <1>2, <1>4, <1>5, <1>6, <2>1 DEF SkipFits
  <2> QED BY <1>7, <2>2 DEF ImportInv, SkipsFit
<1>11. PICK last : /\ BookFits' /\ (book' = book \/ DOMAIN book' = DOMAIN book \cup {last})
                   /\ last \notin DOMAIN book
                   /\ \A j \in DOMAIN book : book'[j] = book[j]
                   /\ book' # book => book'[last] = row /\ said \in {"created", "error"}
                   /\ book' = book => said # "created"
  <2>1. CASE UNCHANGED book /\ said # "created"
    <3>1. BookFits' /\ Len(book) + 1 \notin DOMAIN book
      BY <2>1 DEF ImportInv, BookFits
    <3> QED BY <2>1, <3>1
  <2>2. CASE Len(book) < MaxContacts /\ book' = Append(book, row) /\ said \in {"created", "error"}
    <3>1. /\ BookFits' /\ DOMAIN book' = DOMAIN book \cup {Len(book) + 1} /\ Len(book) + 1 \notin DOMAIN book
          /\ \A j \in DOMAIN book : book'[j] = book[j]
          /\ book'[Len(book) + 1] = row
      BY <2>2, ContactAdded DEF ImportInv
    <3> QED BY <2>2, <3>1
  <2> QED BY <2>1, <2>2
<1>12. AnswersFit'
  <2> SUFFICES ASSUME NEW d \in Clerks, NEW i \in Nat \ {0} PROVE FiledFits(d, i)'
    BY DEF AnswersFit
  <2>1. FiledFits(d, i) /\ \A k \in Nat : <<c, k>> = <<d, i>> => c = d /\ i = k
    BY DEF ImportInv, AnswersFit
  <2>2. CASE d = c /\ i = n
    <3>1. Filed(d, i) = {} /\ row.from = <<d, i>> /\ clerk'[d].answers[i] = said /\ i \in DOMAIN clerk'[d].answers
      BY <1>3, <1>4, <1>6, <1>7, <2>1, <2>2 DEF FiledFits
    <3>2. \A j \in DOMAIN book : book[j].from # <<d, i>>
      BY <3>1 DEF Filed
    <3>3. CASE book' = book
      <4>1. Filed(d, i)' = {}
        BY <3>2, <3>3 DEF Filed
      <4> QED BY <1>11, <3>1, <3>3, <4>1 DEF FiledFits
    <3>4. CASE book' # book
      <4>1. Filed(d, i)' = {last} /\ book'[last] = row
        BY <1>11, <3>1, <3>2, <3>4 DEF Filed
      <4>2. clerk'[d].batch = r.batch /\ Channels(row) = Channels(r.batch[i])
        BY <1>6, <1>7, <2>2
      <4> QED BY <1>11, <3>1, <3>4, <4>1, <4>2 DEF FiledFits
    <3> QED BY <3>3, <3>4
  <2>3. CASE ~(d = c /\ i = n)
    <3>1. row.from # <<d, i>>
      BY <1>3, <2>1, <2>3
    <3>2. Filed(d, i)' = Filed(d, i)
      BY <1>11, <3>1 DEF Filed
    <3>3. \A j \in Filed(d, i) : book'[j] = book[j]
      BY <1>11 DEF Filed
    <3>4. /\ clerk'[d].batch = clerk[d].batch
          /\ i \in DOMAIN clerk'[d].answers <=> i \in DOMAIN clerk[d].answers
          /\ i \in DOMAIN clerk[d].answers => clerk'[d].answers[i] = clerk[d].answers[i]
      BY <1>3, <1>4, <1>6, <1>7, <2>3
    <3> QED BY <2>1, <3>2, <3>3, <3>4 DEF FiledFits
  <2> QED BY <2>2, <2>3
<1>13. KnowsMasters(c)'
  <2>1. clerk'[c] = q /\ v # "insert" /\ v # "idle"
    BY <1>1, <1>7
  <2>2. \A k, l : Stands(k, l)' <=> Stands(k, l)
    BY DEF Stands
  <2> QED BY <1>2, <1>6, <2>1, <2>2 DEF KnowsMasters
<1>14. MastersFit' /\ AllKnow'
  BY <1>1, <1>13, OthersKnow
<1> QED BY <1>9, <1>10, <1>11, <1>12, <1>14 DEF ImportInv

\* One pass of the loop over the items.
LEMMA ImportKeeps == ASSUME ImportInv, NEW c \in Clerks, ImportItem(c) PROVE ImportInv'
<1> DEFINE i == Len(clerk[c].answers) + 1
           item == clerk[c].batch[i]
           code == IF item.label = NoLabel THEN NoCode ELSE clerk[c].codes[item.label]
           row == [mobile |-> item.mobile, email |-> item.email, code |-> code, live |-> TRUE, from |-> <<c, i>>]
           inserts == Len(book) < MaxContacts /\ book' = Append(book, row)
<1>1. /\ clerk[c].step = "resolve" /\ UNCHANGED designation
      /\ \/ clerk' = Answer(c, "invalid") /\ UNCHANGED book
         \/ clerk' = Answer(c, "duplicate") /\ UNCHANGED book
         \/ clerk' = Answer(c, "error") /\ UNCHANGED book
         \/ clerk' = Answer(c, "created") /\ inserts /\ ~Skipped(c, i)
         \/ clerk' = Answer(c, "error") /\ inserts
  BY DEF ImportItem
<1>2. DOMAIN row = ContactFields /\ row.from = <<c, i>> /\ row.mobile = item.mobile /\ row.email = item.email
  BY DEF ContactFields
<1>3. Channels(row) = Channels(item)
  BY <1>2 DEF Channels
<1> HIDE DEF row
<1>4. CASE clerk' = Answer(c, "created") /\ inserts /\ ~Skipped(c, i)
  BY <1>1, <1>2, <1>3, <1>4, ItemKeeps
<1>5. CASE clerk' = Answer(c, "error") /\ inserts
  BY <1>1, <1>2, <1>3, <1>5, ItemKeeps
<1>6. ASSUME NEW said \in {"invalid", "duplicate", "error"}, clerk' = Answer(c, said) /\ UNCHANGED book
      PROVE  ImportInv'
  BY <1>1, <1>2, <1>3, <1>6, ItemKeeps
<1> QED BY <1>1, <1>4, <1>5, <1>6

\* The import is over: its rows are everybody's.
LEMMA EndImportKeeps == ASSUME ImportInv, NEW c \in Clerks, EndImport(c) PROVE ImportInv'
<1>1. /\ clerk' = [clerk EXCEPT ![c] = IdleClerk] /\ UNCHANGED designation
      /\ book' = [j \in DOMAIN book |-> IF book[j].from # << >> /\ book[j].from[1] = c
                                        THEN [book[j] EXCEPT !.from = <<"earlier">>] ELSE book[j]]
  BY DEF EndImport
<1>2. clerk' = [d \in Clerks |-> clerk'[d]] /\ \A d \in Clerks : clerk'[d] = IF d = c THEN IdleClerk ELSE clerk[d]
  BY <1>1, ClerkGoes DEF ImportInv
<1>3. ClerksFit' /\ SkipsFit'
  BY <1>2, IdleFits DEF ImportInv, ClerksFit, SkipsFit
<1>4. PICK S : book \in Seq(S)
  BY DEF ImportInv, BookFits
<1>5. Len(book) \in Nat /\ DOMAIN book = 1..Len(book)
  BY <1>4
<1>6. \A j \in DOMAIN book : /\ DOMAIN book'[j] = ContactFields
                             /\ book[j].from # << >> /\ book[j].from[1] = c => book'[j].from = <<"earlier">>
                             /\ ~(book[j].from # << >> /\ book[j].from[1] = c) => book'[j] = book[j]
  <2> SUFFICES ASSUME NEW j \in DOMAIN book
               PROVE  /\ DOMAIN book'[j] = ContactFields
                      /\ book[j].from # << >> /\ book[j].from[1] = c => book'[j].from = <<"earlier">>
                      /\ ~(book[j].from # << >> /\ book[j].from[1] = c) => book'[j] = book[j]
    OBVIOUS
  <2>1. DOMAIN book[j] = ContactFields
    BY DEF ImportInv, BookFits
  <2>2. CASE book[j].from # << >> /\ book[j].from[1] = c
    <3>1. book'[j] = [book[j] EXCEPT !.from = <<"earlier">>]
      BY <1>1, <2>2
    <3> QED BY <2>1, <2>2, <3>1 DEF ContactFields
  <2>3. CASE ~(book[j].from # << >> /\ book[j].from[1] = c)
    <3>1. book'[j] = book[j]
      BY <1>1, <2>3
    <3> QED BY <2>1, <2>3, <3>1
  <2> QED BY <2>2, <2>3
<1>7. BookFits'
  <2>1. book' \in [1..Len(book) -> {book'[j] : j \in DOMAIN book}] /\ DOMAIN book' = DOMAIN book
    BY <1>1, <1>5
  <2>2. book' \in Seq({book'[j] : j \in DOMAIN book}) /\ Len(book') = Len(book)
    BY <1>5, <2>1
  <2> QED BY <1>6, <2>1, <2>2 DEF ImportInv, BookFits
<1>8. AnswersFit'
  <2> SUFFICES ASSUME NEW d \in Clerks, NEW i \in Nat \ {0} PROVE FiledFits(d, i)'
    BY DEF AnswersFit
  <2>1. FiledFits(d, i) /\ <<d, i>> # << >> /\ <<d, i>>[1] = d /\ <<d, i>> # <<"earlier">>
    BY DEF ImportInv, AnswersFit
  <2>2. DOMAIN book' = DOMAIN book
    BY <1>1
  <2>3. CASE d = c
    <3>1. Filed(d, i)' = {}
      BY <1>6, <2>1, <2>2, <2>3 DEF Filed
    <3>2. clerk'[d].answers = << >>
      BY <1>2, <2>3, IdleFits
    <3> QED BY <3>1, <3>2 DEF FiledFits
  <2>4. CASE d # c
    <3>1. Filed(d, i)' = Filed(d, i) /\ \A j \in Filed(d, i) : book'[j] = book[j]
      BY <1>6, <2>1, <2>2, <2>4 DEF Filed
    <3>2. clerk'[d] = clerk[d]
      BY <1>2, <2>4
    <3> QED BY <2>1, <3>1, <3>2 DEF FiledFits
  <2> QED BY <2>3, <2>4
<1>9. KnowsMasters(c)'
  <2>1. clerk'[c] = IdleClerk
    BY <1>2
  <2>2. \A k \in Codes : FirstMaster[k] # NoLabel => designation'[k] = FirstMaster[k]
    BY <1>1 DEF ImportInv, MastersFit
  <2> QED BY <2>1, <2>2, IdleFits DEF KnowsMasters
<1>10. MastersFit' /\ AllKnow'
  BY <1>1, <1>9, OthersKnow
<1> QED BY <1>3, <1>7, <1>8, <1>10 DEF ImportInv

\* Every step of the address book keeps its invariant.
LEMMA ImportSteps == ImportInv /\ (ImportNext \/ UNCHANGED contactVars) => ImportInv'
<1> SUFFICES ASSUME ImportInv, ImportNext \/ UNCHANGED contactVars PROVE ImportInv'
  OBVIOUS
<1>1. CASE UNCHANGED contactVars
  <2>1. UNCHANGED <<book, designation, clerk>>
    BY <1>1 DEF contactVars
  <2>2. BookFits'
    BY <2>1 DEF ImportInv, BookFits
  <2>3. \A c \in Clerks : \A i \in Nat \ {0} : Filed(c, i)' = Filed(c, i)
    BY <2>1 DEF Filed
  <2> QED BY <2>1, <2>2, <2>3, HandKeeps
<1>2. ASSUME NEW item, createContact(item) \/ \E i \in LiveContacts : updateContact(i, item) PROVE ImportInv'
  BY <1>2, CreateContactKeeps, UpdateContactKeeps
<1>3. ASSUME NEW c \in Clerks, \E batch \in Batches, skip \in BOOLEAN : StartImport(c, batch, skip) PROVE ImportInv'
  BY <1>3, StartKeepsImport
<1> QED BY <1>1, <1>2, <1>3, RemoveContactKeeps, ReadKeeps, ResolveKeeps, LookKeeps, InsertKeeps, MasterFailsKeeps,
           ImportKeeps, EndImportKeeps
    DEF ImportNext

\* What the invariant says of answers, duplicates and designations.
LEMMA ImportIsSound == ImportInv => ContactsSound
<1> SUFFICES ASSUME ImportInv PROVE ContactsSound
  OBVIOUS
<1>1. \A c \in Clerks : ClerkFits(clerk[c]) /\ SkipFits(clerk[c]) /\ KnowsMasters(c)
  BY DEF ImportInv, ClerksFit, SkipsFit, AllKnow
<1>2. ImportTypeOK
  <2>1. \A c \in Clerks : Len(clerk[c].answers) <= Len(clerk[c].batch)
    <3> SUFFICES ASSUME NEW c \in Clerks PROVE Len(clerk[c].answers) <= Len(clerk[c].batch)
      OBVIOUS
    <3>1. CASE clerk[c].step = "idle"
      <4>1. clerk[c] = IdleClerk
        BY <1>1, <3>1 DEF ClerkFits
      <4>2. clerk[c].answers = << >> /\ clerk[c].batch = << >>
        BY <4>1 DEF IdleClerk
      <4> QED BY <4>2
    <3>2. CASE clerk[c].step # "idle"
      <4>1. clerk[c].batch \in Batches /\ clerk[c].answers \in Seq({"created", "duplicate", "invalid", "error"})
        BY <1>1, <3>2 DEF ClerkFits
      <4>2. clerk[c].batch \in Seq({clerk[c].batch[i] : i \in DOMAIN clerk[c].batch})
        BY <4>1, ImportAssumption
      <4>3. Len(clerk[c].batch) \in Nat /\ Len(clerk[c].answers) \in Nat
        BY <4>1, <4>2
      <4> QED BY <1>1, <3>2, <4>3 DEF ClerkFits
    <3> QED BY <3>1, <3>2
  <2> QED BY <2>1 DEF ImportInv, BookFits, MastersFit, ImportTypeOK
<1>3. AnswersTellRows
  <2> SUFFICES ASSUME NEW c \in Clerks, NEW i \in DOMAIN clerk[c].answers
               PROVE  IF clerk[c].answers[i] = "created"
                      THEN \E j \in Filed(c, i) : Filed(c, i) = {j} /\ Channels(book[j]) = Channels(clerk[c].batch[i])
                      ELSE clerk[c].answers[i] = "error" \/ Filed(c, i) = {}
    BY DEF AnswersTellRows, Filed
  <2>1. i \in Nat \ {0}
    <3>1. clerk[c].answers \in Seq({"created", "duplicate", "invalid", "error"})
      BY <1>1 DEF ClerkFits
    <3> QED BY <3>1
  <2> QED BY <2>1 DEF ImportInv, AnswersFit, FiledFits
<1>4. SkipKept
  BY <1>1 DEF SkipKept, SkipFits
<1>5. DesignationsOnce
  BY <1>1 DEF ImportInv, MastersFit, KnowsMasters, Stands, DesignationsOnce
<1> QED BY <1>2, <1>3, <1>4, <1>5 DEF ContactsSound

----------------------------------------
(* The desk.  A behaviour follows one component, so each invariant is kept   *)
(* while its component is at work.                                           *)

RequestsInv == (desk = "gates" => GateInv) /\ (desk = "pool" => PoolInv)

\* A request of the back office passes only the gates it has a grant for, and
\* neither loses a connection nor takes one that is lent (middleware/auth.js,
\* middleware/keyPinHeader.js, db/pool.js), for every number of requests,
\* connections, module keys and seconds.
THEOREM RequestsAreSound == DeskSpec => []RequestsSound
<1>1. DeskInit => RequestsInv
  BY GateStarts, PoolStarts DEF DeskInit, RequestsInv
<1>2. RequestsInv /\ [DeskNext]_deskVars => RequestsInv'
  <2> SUFFICES ASSUME RequestsInv, [DeskNext]_deskVars PROVE RequestsInv'
    OBVIOUS
  <2>1. UNCHANGED desk
    BY DEF DeskNext, deskVars
  <2>2. desk = "gates" => GateNext \/ UNCHANGED gateVars
    BY DEF DeskNext, deskVars
  <2>3. desk = "pool" => PoolNext \/ UNCHANGED poolVars
    BY DEF DeskNext, deskVars
  <2> QED BY <2>1, <2>2, <2>3, GateSteps, PoolSteps DEF RequestsInv
<1>3. RequestsInv => RequestsSound
  BY DEF RequestsInv, RequestsSound, GateInv, GatesSound, PoolInv
<1> QED BY <1>1, <1>2, <1>3, PTL DEF DeskSpec

\* Mails go out by the active settings and notices to the administrator they were
\* meant for, with the times the calendar shows (services/email/email_settings.js,
\* transporter.js, adminNotifications.js), for every number of pages, mails and
\* rows and every time.
THEOREM MailsAreRight == DeskSpec => []MailsSound
<1> DEFINE Inv == desk = "email" => MailInv
<1>1. DeskInit => Inv
  BY MailStarts DEF DeskInit
<1>2. Inv /\ [DeskNext]_deskVars => Inv'
  <2> SUFFICES ASSUME Inv, [DeskNext]_deskVars PROVE Inv'
    OBVIOUS
  <2>1. UNCHANGED desk
    BY DEF DeskNext, deskVars
  <2>2. desk = "email" => NoticeNext \/ UNCHANGED noticeVars
    BY DEF DeskNext, deskVars
  <2> QED BY <2>1, <2>2, MailSteps
<1>3. Inv => MailsSound
  BY MailsAreSound DEF MailsSound
<1> HIDE DEF Inv
<1> QED BY <1>1, <1>2, <1>3, PTL DEF DeskSpec

\* Rows, files and the quota's counter stay together: a shown picture is on the
\* disk however requests overlap or stop, and without a failure nothing is left
\* behind and nothing is miscounted (services/admin/documents.js, cms.js,
\* files/cmsBannerUpload.js), for every number of requests, files and quota.
THEOREM FilesAreSound == DeskSpec => []StoreSound
<1>1. DeskInit => StoreInv
  BY StoreStarts DEF DeskInit
<1>2. StoreInv /\ [DeskNext]_deskVars => StoreInv'
  <2>1. [DeskNext]_deskVars => StoreNext \/ UNCHANGED storeVars
    BY DEF DeskNext, deskVars
  <2> QED BY <2>1, StoreSteps
<1> QED BY <1>1, <1>2, StoreIsSound, PTL DEF DeskSpec

\* An import of contacts answers for what it files, files nobody it should skip and
\* gives no label a second master, however imports and changes by hand overlap
\* (services/admin/business_associates.js, phone_book.js), for every book, every
\* sheet and every number of requests.
THEOREM ContactsAreSound == DeskSpec => []ContactsSound
<1>1. DeskInit => ImportInv
  BY ImportStarts DEF DeskInit
<1>2. ImportInv /\ [DeskNext]_deskVars => ImportInv'
  <2>1. [DeskNext]_deskVars => ImportNext \/ UNCHANGED contactVars
    BY DEF DeskNext, deskVars
  <2> QED BY <2>1, ImportSteps
<1> QED BY <1>1, <1>2, ImportIsSound, PTL DEF DeskSpec

----------------------------------------
(* Price sheets.  What a save computes is a function of what was typed, so a *)
(* sheet that is not a draft is the computation of some sheet.               *)

Amount(a) == a \in Nat \cup {Blank}
IsSheet(s) ==
  s \in [type : PropertyTypes, builtUpArea : Areas, area : [Units -> Areas],
         rate : [RateKeys -> Rates], govRate : [RateKeys -> Rates],
         lastEditedRateUnit : Stamps, lastEditedGovRateUnit : Stamps,
         considerationValue : Amounts, gst : Percents,
         lines : [ManualLines -> Amounts], derived : {s.derived}]

PriceInv == IF sheet = NoSheet THEN ~computed
            ELSE IsSheet(sheet) /\ (computed => \E s : IsSheet(s) /\ sheet = computeLandPricing(s))

Covered(s) == detectFamily(s.type) # ""

\* The product of two amounts is one, and so are a percentage and a maximum.
LEMMA AmountsStay ==
  ASSUME NEW a, NEW b, Amount(a), Amount(b)
  PROVE  /\ Amount(Times(a, b)) /\ Amount(Percent(a, b)) /\ Amount(maxNumberOrNull(a, b))
         /\ OrZero(a) \in Nat
<1>1. a \in Nat /\ b \in Nat => a * b \in Nat
  OBVIOUS
<1>2. Amount(Times(a, b))
  BY <1>1 DEF Amount, Times
<1>3. \A n \in Nat : (n + 50) \div 100 \in Nat
  OBVIOUS
<1>4. Amount(Percent(a, b))
  BY <1>1, <1>3 DEF Amount, Percent
<1>5. Amount(maxNumberOrNull(a, b))
  BY DEF Amount, maxNumberOrNull
<1> QED BY <1>2, <1>4, <1>5 DEF Amount, OrZero

\* What a sheet is computed from: an amount each, and whole numbers to add up.
LEMMA SheetAmounts ==
  ASSUME NEW s, IsSheet(s), Covered(s)
  PROVE  /\ Amount(Priced(s, s.govRate, s.lastEditedGovRateUnit)) /\ Amount(s.considerationValue)
         /\ Amount(s.gst) /\ LinesOf(s) \in Int
<1>1. \A a : a \in Areas \cup Rates \cup Amounts \cup Percents => Amount(a)
  BY PriceAssumption DEF Amount
<1>2. /\ s.builtUpArea \in Areas /\ \A u \in Units : s.area[u] \in Areas /\ s.govRate[u] \in Rates
      /\ s.govRate["built-up"] \in Rates /\ s.considerationValue \in Amounts /\ s.gst \in Percents
      /\ \A l \in ManualLines : s.lines[l] \in Amounts
  BY DEF IsSheet, RateKeys
<1>3. Amount(Priced(s, s.govRate, s.lastEditedGovRateUnit))
  <2>1. Amount(Times(s.builtUpArea, s.govRate["built-up"]))
    BY <1>1, <1>2, AmountsStay
  <2>2. \A u \in Units : Amount(Times(s.area[u], s.govRate[u]))
    BY <1>1, <1>2, AmountsStay
  <2>3. Amount(Blank)
    BY DEF Amount
  <2> QED BY <2>1, <2>2, <2>3 DEF Priced
<1>4. LinesOf(s) \in Int
  <2> DEFINE f == [l \in ManualLines |-> OrZero(s.lines[l])]
  <2>1. \A l \in ManualLines : f[l] \in Int
    <3>1. \A l \in ManualLines : Amount(s.lines[l])
      BY <1>1, <1>2
    <3>2. \A a : Amount(a) => OrZero(a) \in Nat
      BY AmountsStay
    <3>3. \A l \in ManualLines : f[l] = OrZero(s.lines[l])
      OBVIOUS
    <3> HIDE DEF f
    <3>4. \A l \in ManualLines : f[l] \in Nat
      BY <3>1, <3>2, <3>3
    <3> QED BY <3>4
  <2>2. SumFunctionOnSet(f, ManualLines) \in Int
    <3> HIDE DEF f
    <3> QED BY <2>1, SumType, PriceAssumption
  <2> QED BY <2>2 DEF LinesOf, SumFunction
<1> QED BY <1>1, <1>2, <1>3, <1>4

\* The figures that are derived are not what they are derived from.
LEMMA ComputedReads ==
  ASSUME NEW s, NEW d, IsSheet(s), NEW t, t = [s EXCEPT !.derived = d]
  PROVE  /\ IsSheet(t) /\ t.derived = d /\ t.type = s.type
         /\ t.considerationValue = s.considerationValue /\ t.gst = s.gst
         /\ t.lines = s.lines /\ t.rate = s.rate /\ t.govRate = s.govRate
         /\ t.lastEditedRateUnit = s.lastEditedRateUnit
         /\ t.lastEditedGovRateUnit = s.lastEditedGovRateUnit
         /\ t.area = s.area /\ t.builtUpArea = s.builtUpArea
         /\ \A e : [t EXCEPT !.derived = e] = [s EXCEPT !.derived = e]
BY DEF IsSheet

GovernmentOf(s) == Priced(s, s.govRate, s.lastEditedGovRateUnit)
BaseOf(s) == BaseValue(s, GovernmentOf(s))
CostOf(s) ==
  OrZero(BaseOf(s)) + OrZero(Percent(BaseOf(s), 5)) + OrZero(Percent(BaseOf(s), 1))
  + OrZero(Percent(BaseOf(s), 1)) + OrZero(Percent(BaseOf(s), s.gst)) + LinesOf(s)
FiguresOf(s) ==
  [actual |-> Priced(s, s.rate, s.lastEditedRateUnit), government |-> GovernmentOf(s),
   gstPercentage |-> s.gst, stampDuty |-> Percent(BaseOf(s), 5),
   registration |-> Percent(BaseOf(s), 1), lbt |-> Percent(BaseOf(s), 1),
   gstAmount |-> Percent(BaseOf(s), s.gst),
   costToCustomer |-> IF Untouched(s, BaseOf(s)) THEN Blank ELSE CostOf(s)]

LEMMA ComputedIs ==
  ASSUME NEW s
  PROVE  computeLandPricing(s) = IF Covered(s) THEN [s EXCEPT !.derived = FiguresOf(s)] ELSE s
BY DEF Covered, computeLandPricing, FiguresOf, GovernmentOf, BaseOf, CostOf

\* Computing twice is computing once.
LEMMA ComputedTwice ==
  ASSUME NEW s, IsSheet(s), NEW t, t = computeLandPricing(s)
  PROVE  /\ IsSheet(t) /\ t.type = s.type /\ computeLandPricing(t) = t
         /\ Covered(s) => t.derived = FiguresOf(t)
<1>1. CASE ~Covered(s)
  BY <1>1, ComputedIs
<1>2. CASE Covered(s)
  <2>1. t = [s EXCEPT !.derived = FiguresOf(s)]
    BY <1>2, ComputedIs
  <2>2. /\ IsSheet(t) /\ t.derived = FiguresOf(s) /\ t.type = s.type
        /\ t.considerationValue = s.considerationValue /\ t.gst = s.gst
        /\ t.lines = s.lines /\ t.rate = s.rate /\ t.govRate = s.govRate
        /\ t.lastEditedRateUnit = s.lastEditedRateUnit
        /\ t.lastEditedGovRateUnit = s.lastEditedGovRateUnit
        /\ t.area = s.area /\ t.builtUpArea = s.builtUpArea
        /\ \A e : [t EXCEPT !.derived = e] = [s EXCEPT !.derived = e]
    BY <2>1, ComputedReads
  <2>3. \A r, u : Priced(t, r, u) = Priced(s, r, u)
    BY <2>2 DEF Priced
  <2>4. \A b : Untouched(t, b) = Untouched(s, b)
    BY <2>2 DEF Untouched
  <2>5. GovernmentOf(t) = GovernmentOf(s)
    BY <2>2, <2>3 DEF GovernmentOf
  <2>6. BaseOf(t) = BaseOf(s)
    BY <2>2, <2>5 DEF BaseOf, BaseValue
  <2>7. LinesOf(t) = LinesOf(s)
    BY <2>2 DEF LinesOf
  <2>8. CostOf(t) = CostOf(s)
    BY <2>2, <2>6, <2>7 DEF CostOf
  <2>9. FiguresOf(t) = FiguresOf(s)
    BY <2>2, <2>3, <2>4, <2>5, <2>6, <2>8 DEF FiguresOf
  <2>10. computeLandPricing(t) = [t EXCEPT !.derived = FiguresOf(t)]
    BY <1>2, <2>2, ComputedIs DEF Covered
  <2>11. computeLandPricing(t) = t
    BY <2>1, <2>2, <2>9, <2>10
  <2> QED BY <2>2, <2>9, <2>11
<1> QED BY <1>1, <1>2

LEMMA PriceStarts == PriceInit => PriceInv
BY DEF PriceInit, PriceInv

LEMMA SaveKeeps ==
  ASSUME NEW s, IsSheet(s), NEW d \in BOOLEAN, SaveSheet(s, d)
  PROVE  PriceInv'
<1>1. /\ sheet' = IF d THEN s ELSE computeLandPricing(s)
      /\ computed' = ~d
  BY DEF SaveSheet
<1>2. IsSheet(sheet')
  BY <1>1, ComputedTwice
<1>3. sheet' # NoSheet
  <2>1. "gst" \in DOMAIN sheet'
    BY <1>2 DEF IsSheet
  <2>2. "gst" \notin DOMAIN NoSheet
    BY DEF NoSheet
  <2> QED BY <2>1, <2>2
<1>4. computed' => \E t : IsSheet(t) /\ sheet' = computeLandPricing(t)
  BY <1>1
<1> QED BY <1>2, <1>3, <1>4 DEF PriceInv

\* A form that is edited is one form with another value in one place.
LEMMA PriceSteps == PriceInv /\ (PriceNext \/ UNCHANGED priceVars) => PriceInv'
<1> SUFFICES ASSUME PriceInv, PriceNext \/ UNCHANGED priceVars PROVE PriceInv'
  OBVIOUS
<1>1. CASE UNCHANGED priceVars
  BY <1>1 DEF priceVars, PriceInv, IsSheet
<1>2. CASE NewForm
  BY <1>2 DEF NewForm, PriceInv
<1>3. CASE OpenForm
  <2>1. PICK t \in PropertyTypes, d \in BOOLEAN, area \in Areas, rate \in Rates,
             amount \in Amounts, percent \in Percents :
               SaveSheet(FirstSheet(t, area, rate, amount, percent), d)
    BY <1>3 DEF OpenForm
  <2>2. IsSheet(FirstSheet(t, area, rate, amount, percent))
    BY DEF IsSheet, FirstSheet, Stamps
  <2> QED BY <2>1, <2>2, SaveKeeps
<1>4. CASE EditForm
  <2>1. IsSheet(sheet) /\ Edit(sheet)
    BY <1>4 DEF EditForm, PriceInv
  <2>2. PICK d \in BOOLEAN :
          \/ \E t \in PropertyTypes : SaveSheet([sheet EXCEPT !.type = t], d)
          \/ \E a \in Areas : SaveSheet([sheet EXCEPT !.builtUpArea = a], d)
          \/ \E u \in Units, a \in Areas : SaveSheet([sheet EXCEPT !.area[u] = a], d)
          \/ \E k \in RateKeys, r \in Rates :
               SaveSheet([sheet EXCEPT !.rate[k] = r, !.lastEditedRateUnit = IF k \in Units THEN k ELSE @], d)
          \/ \E k \in RateKeys, r \in Rates :
               SaveSheet([sheet EXCEPT !.govRate[k] = r, !.lastEditedGovRateUnit = IF k \in Units THEN k ELSE @], d)
          \/ \E a \in Amounts : SaveSheet([sheet EXCEPT !.considerationValue = a], d)
          \/ \E g \in Percents : SaveSheet([sheet EXCEPT !.gst = g], d)
          \/ \E l \in ManualLines, a \in Amounts : SaveSheet([sheet EXCEPT !.lines[l] = a], d)
          \/ \E f \in Derived, a \in Amounts : SaveSheet([sheet EXCEPT !.derived[f] = a], d)
    BY <2>1 DEF Edit
  <2>3. \A t \in PropertyTypes : IsSheet([sheet EXCEPT !.type = t])
    BY <2>1 DEF IsSheet
  <2>4. \A a \in Areas : IsSheet([sheet EXCEPT !.builtUpArea = a])
    BY <2>1 DEF IsSheet
  <2>5. \A u \in Units, a \in Areas : IsSheet([sheet EXCEPT !.area[u] = a])
    BY <2>1 DEF IsSheet
  <2>6. \A k \in RateKeys, r \in Rates :
          IsSheet([sheet EXCEPT !.rate[k] = r, !.lastEditedRateUnit = IF k \in Units THEN k ELSE @])
    BY <2>1 DEF IsSheet, Stamps
  <2>7. \A k \in RateKeys, r \in Rates :
          IsSheet([sheet EXCEPT !.govRate[k] = r, !.lastEditedGovRateUnit = IF k \in Units THEN k ELSE @])
    BY <2>1 DEF IsSheet, Stamps
  <2>8. \A a \in Amounts : IsSheet([sheet EXCEPT !.considerationValue = a])
    BY <2>1 DEF IsSheet
  <2>9. \A g \in Percents : IsSheet([sheet EXCEPT !.gst = g])
    BY <2>1 DEF IsSheet
  <2>10. \A l \in ManualLines, a \in Amounts : IsSheet([sheet EXCEPT !.lines[l] = a])
    BY <2>1 DEF IsSheet
  <2>11. \A f \in Derived, a \in Amounts : IsSheet([sheet EXCEPT !.derived[f] = a])
    BY <2>1 DEF IsSheet
  <2> QED BY <2>2, <2>3, <2>4, <2>5, <2>6, <2>7, <2>8, <2>9, <2>10, <2>11, SaveKeeps
<1> QED BY <1>1, <1>2, <1>3, <1>4 DEF PriceNext


\* The total is the sum of the figures beside it, and five per cent of the larger of
\* two values are no less than those of the other.
LEMMA PriceIsSound == PriceInv => PricesSound
<1> SUFFICES ASSUME PriceInv, computed, Covered(sheet)
             PROVE  /\ Figures["costToCustomer"] # Blank =>
                         Figures["costToCustomer"] =
                           OrZero(maxNumberOrNull(sheet.considerationValue, Figures["government"]))
                           + OrZero(Figures["stampDuty"]) + OrZero(Figures["registration"])
                           + OrZero(Figures["lbt"]) + OrZero(Figures["gstAmount"])
                           + LinesOf(sheet)
                    /\ Figures["government"] # Blank =>
                         100 * Figures["stampDuty"] + 50 >= 5 * Figures["government"]
                    /\ computeLandPricing(sheet) = sheet
  BY DEF PricesSound, Covered
<1>1. PICK s : IsSheet(s) /\ sheet = computeLandPricing(s)
  BY DEF PriceInv
<1>2. IsSheet(sheet) /\ computeLandPricing(sheet) = sheet /\ Figures = FiguresOf(sheet)
  BY <1>1, ComputedTwice DEF Figures, Covered
<1>3. /\ Figures["costToCustomer"] = IF Untouched(sheet, BaseOf(sheet)) THEN Blank ELSE CostOf(sheet)
      /\ Figures["government"] = GovernmentOf(sheet) /\ Figures["stampDuty"] = Percent(BaseOf(sheet), 5)
      /\ Figures["registration"] = Percent(BaseOf(sheet), 1) /\ Figures["lbt"] = Percent(BaseOf(sheet), 1)
      /\ Figures["gstAmount"] = Percent(BaseOf(sheet), sheet.gst)
  BY <1>2 DEF FiguresOf
<1>4. BaseOf(sheet) = maxNumberOrNull(sheet.considerationValue, GovernmentOf(sheet))
  BY DEF BaseOf, BaseValue
<1>5. ASSUME Figures["government"] # Blank
      PROVE  100 * Figures["stampDuty"] + 50 >= 5 * Figures["government"]
  <2>1. Amount(GovernmentOf(sheet)) /\ Amount(sheet.considerationValue)
    BY <1>2, SheetAmounts DEF GovernmentOf
  <2>2. /\ GovernmentOf(sheet) \in Nat /\ BaseOf(sheet) \in Nat /\ BaseOf(sheet) # Blank
        /\ BaseOf(sheet) >= GovernmentOf(sheet)
    <3>1. GovernmentOf(sheet) \in Nat /\ Blank \notin Nat
      BY <1>3, <1>5, <2>1, PriceAssumption DEF Amount
    <3>2. CASE sheet.considerationValue = Blank
      BY <1>4, <3>1, <3>2 DEF maxNumberOrNull
    <3>3. CASE sheet.considerationValue # Blank
      <4>1. sheet.considerationValue \in Nat
        BY <2>1, <3>3 DEF Amount
      <4> HIDE DEF GovernmentOf
      <4> QED BY <1>4, <3>1, <3>3, <4>1 DEF maxNumberOrNull
    <3> QED BY <3>2, <3>3
  <2>3. Percent(BaseOf(sheet), 5) = (BaseOf(sheet) * 5 + 50) \div 100
    <3>9. Blank \notin Nat /\ 5 \in Nat
      BY PriceAssumption
    <3>1. 5 # Blank
      BY <3>9
    <3> QED BY <2>2, <3>1 DEF Percent
  <2>4. \A n \in Nat : n \div 100 \in Nat /\ 100 * (n \div 100) >= n - 99
    OBVIOUS
  <2>5. BaseOf(sheet) * 5 + 50 \in Nat
    BY <2>2
  <2> HIDE DEF BaseOf, GovernmentOf
  <2>6. 100 * Percent(BaseOf(sheet), 5) >= (BaseOf(sheet) * 5 + 50) - 99 /\ Percent(BaseOf(sheet), 5) \in Nat
    BY <2>3, <2>4, <2>5
  <2> QED BY <1>3, <2>2, <2>6
<1>6. ASSUME Figures["costToCustomer"] # Blank
      PROVE  Figures["costToCustomer"] = CostOf(sheet)
  BY <1>3, <1>6
<1> QED BY <1>2, <1>3, <1>4, <1>5, <1>6 DEF CostOf

----------------------------------------
(* Property forms.  Each pass over a form settles some of its fields and     *)
(* leaves those the others settle, so what is stored is settled in all.      *)

IsForm(f) ==
  f \in [isDraft : BOOLEAN, address : BOOLEAN,
         parkingFacility : {Absent, "Available", "Not Available"}, parkingType : {Absent, "Common"},
         emiOption : {Absent, "Available"}, emiCount : {Absent, 12}, emiAmount : {Absent, 5},
         stage : {Absent, "Under Construction"}, maintenanceMonthly : {Absent, 2}, facing : Facings,
         nature : {Absent} \cup MasterCodes \cup Seq(MasterCodes),
         frontageFoot : Feet \cup {Absent}, frontageDistance : {Absent} \cup Measures]

ParkingFits(f) == f.parkingType # Absent => f.parkingFacility \in Affirmative
EmiFits(f) == (f.emiCount = Absent /\ f.emiAmount = Absent) \/ f.emiOption = "Available"
StageFits(f) == f.maintenanceMonthly # Absent => f.stage # "Under Construction"
FacingFits(f) == f.facing \in Pairs
FrontFits(f) ==
  \/ f.frontageFoot = Absent /\ f.frontageDistance = Absent
  \/ /\ f.frontageDistance \in Measures
     /\ f.frontageDistance.value = feetToDistance(f.frontageFoot, f.frontageDistance.unit)
NatureFits(f) ==
  route = "enquiry" => \/ f.nature = Absent
                       \/ (f.nature \in Seq(MasterCodes) /\ IsInjective(f.nature))
Settled(f) == ParkingFits(f) /\ EmiFits(f) /\ StageFits(f) /\ FacingFits(f) /\ FrontFits(f) /\ NatureFits(f)

FormInv == \/ form = NoForm
           \/ /\ IsForm(form)
              /\ (~form.isDraft => Settled(form) /\ form.address)

\* A list without its repetitions: each once, and the list itself if none repeats.
LEMMA UniqueIs ==
  ASSUME NEW S, NEW list \in Seq(S)
  PROVE  /\ Unique(list) \in Seq(S) /\ IsInjective(Unique(list))
         /\ IsInjective(list) => Unique(list) = list
<1> DEFINE L == Len(list)
           Next(g, n) == IF n = 0 THEN << >>
                         ELSE IF Contains(g[n - 1], list[n]) THEN g[n - 1] ELSE Append(g[n - 1], list[n])
           Kept0 == CHOOSE g : g = [n \in 0..L |-> Next(g, n)]
           Upto(g, k) == \A n \in 0..k : g[n] = Next(g, n)
           Some(k) == \E g \in [0..k -> Seq(S)] : Upto(g, k)
           Steps == {k \in Nat : k <= L => Some(k)}
<1>1. L \in Nat /\ \A n \in 1..L : list[n] \in S
  OBVIOUS
<1>2. 0 \in Steps
  <2> DEFINE g == [n \in 0..0 |-> << >>]
  <2>1. g \in [0..0 -> Seq(S)] /\ Upto(g, 0)
    OBVIOUS
  <2> QED BY <2>1
<1>3. ASSUME NEW k \in Nat, k \in Steps PROVE k + 1 \in Steps
  <2> SUFFICES ASSUME k + 1 <= L PROVE Some(k + 1)
    <3> HIDE DEF Some
    <3> QED OBVIOUS
  <2>9. Some(k)
    <3> HIDE DEF Some
    <3> QED BY <1>1, <1>3
  <2>1. PICK h \in [0..k -> Seq(S)] : Upto(h, k)
    BY <2>9
  <2> DEFINE e == IF Contains(h[k], list[k + 1]) THEN h[k] ELSE Append(h[k], list[k + 1])
             g == [n \in 0..(k + 1) |-> IF n = k + 1 THEN e ELSE h[n]]
  <2>2. h[k] \in Seq(S) /\ list[k + 1] \in S
    BY <1>1
  <2>3. e \in Seq(S)
    BY <2>2
  <2> HIDE DEF e
  <2>4. g \in [0..(k + 1) -> Seq(S)]
    BY <2>3
  <2>5. g[k + 1] = e /\ \A n \in 0..k : g[n] = h[n]
    OBVIOUS
  <2> HIDE DEF g
  <2>6. \A n \in 0..k : g[n] = Next(g, n)
    <3> SUFFICES ASSUME NEW n \in 0..k PROVE g[n] = Next(g, n)
      OBVIOUS
    <3>1. h[n] = Next(h, n)
      BY <2>1
    <3>2. g[n] = h[n]
      BY <2>5
    <3>3. n # 0 => n - 1 \in 0..k
      OBVIOUS
    <3>4. n # 0 => g[n - 1] = h[n - 1]
      BY <2>5, <3>3
    <3> QED BY <3>1, <3>2, <3>4
  <2>7. g[k + 1] = Next(g, k + 1)
    <3>1. k + 1 # 0 /\ (k + 1) - 1 = k /\ g[k] = h[k] /\ g[k + 1] = e
      BY <2>5
    <3> QED BY <3>1 DEF e
  <2>8. Upto(g, k + 1)
    <3>1. \A n \in 0..(k + 1) : n \in 0..k \/ n = k + 1
      OBVIOUS
    <3> HIDE DEF Next
    <3> QED BY <2>6, <2>7, <3>1
  <2> QED BY <2>4, <2>8
<1>4. L \in Steps
  <2> HIDE DEF Steps
  <2> QED BY <1>1, <1>2, <1>3, SetOfNaturals
<1>5. PICK h \in [0..L -> Seq(S)] : Upto(h, L)
  BY <1>1, <1>4
<1>6. h = [n \in 0..L |-> Next(h, n)]
  BY <1>5
<1>7. Kept0 = [n \in 0..L |-> Next(Kept0, n)]
  BY <1>6
<1>8. Unique(list) = Kept0[L]
  BY DEF Unique
<1> HIDE DEF Kept0
<1> DEFINE Fine(s, n) == /\ s \in Seq(S) /\ IsInjective(s)
                         /\ \A i \in DOMAIN s : \E m \in 1..n : s[i] = list[m]
                         /\ IsInjective(list) => Len(s) = n /\ \A i \in 1..n : s[i] = list[i]
           Goods == {k \in Nat : k <= L => Fine(Kept0[k], k)}
<1>9. 0 \in Goods
  <2>1. Kept0[0] = << >>
    BY <1>1, <1>7
  <2>2. Fine(Kept0[0], 0)
    BY <2>1 DEF IsInjective
  <2> HIDE DEF Fine
  <2> QED BY <2>2
<1>10. ASSUME NEW k \in Nat, k \in Goods PROVE k + 1 \in Goods
  <2> SUFFICES ASSUME k + 1 <= L PROVE Fine(Kept0[k + 1], k + 1)
    <3> HIDE DEF Fine
    <3> QED OBVIOUS
  <2> DEFINE s == Kept0[k]
             t == Kept0[k + 1]
  <2>1. Fine(s, k)
    <3> HIDE DEF Fine
    <3> QED BY <1>1, <1>10
  <2>2. t = IF Contains(s, list[k + 1]) THEN s ELSE Append(s, list[k + 1])
    <3>1. k + 1 \in 0..L /\ k + 1 # 0 /\ (k + 1) - 1 = k
      BY <1>1
    <3> QED BY <1>7, <3>1
  <2>3. list[k + 1] \in S /\ DOMAIN list = 1..L /\ k + 1 \in DOMAIN list /\ \A m \in 1..k : m \in DOMAIN list /\ m # k + 1
    BY <1>1
  <2>6. Contains(s, list[k + 1]) <=> \E i \in 1..Len(s) : s[i] = list[k + 1]
    BY DEF Contains
  <2> HIDE DEF s, t
  <2>4. CASE Contains(s, list[k + 1])
    <3>1. t = s /\ \A m \in 1..k : m \in 1..(k + 1)
      BY <2>2, <2>4
    <3>2. PICK i \in 1..Len(s) : s[i] = list[k + 1]
      BY <2>4, <2>6
    <3>3. ~IsInjective(list)
      <4>1. i \in DOMAIN s
        BY <2>1
      <4>2. PICK m \in 1..k : s[i] = list[m]
        BY <2>1, <4>1
      <4> QED BY <2>3, <3>2, <4>2 DEF IsInjective
    <3>4. Fine(s, k + 1)
      BY <2>1, <3>1, <3>3
    <3> HIDE DEF Fine
    <3> QED BY <3>1, <3>4 DEF t
  <2>5. CASE ~Contains(s, list[k + 1])
    <3>1. t = Append(s, list[k + 1]) /\ s \in Seq(S)
      BY <2>1, <2>2, <2>5
    <3>2. /\ t \in Seq(S) /\ DOMAIN t = 1..(Len(s) + 1) /\ t[Len(s) + 1] = list[k + 1] /\ Len(s) \in Nat
          /\ Len(t) = Len(s) + 1 /\ \A i \in 1..Len(s) : t[i] = s[i] /\ i \in DOMAIN s
      BY <2>3, <3>1
    <3>3. \A i \in DOMAIN t : \E m \in 1..(k + 1) : t[i] = list[m]
      <4> SUFFICES ASSUME NEW i \in DOMAIN t PROVE \E m \in 1..(k + 1) : t[i] = list[m]
        OBVIOUS
      <4>1. CASE i \in 1..Len(s)
        BY <2>1, <3>2, <4>1
      <4>2. CASE i = Len(s) + 1
        BY <3>2, <4>2
      <4> QED BY <3>2, <4>1, <4>2
    <3>4. IsInjective(t)
      <4>1. \A i \in 1..Len(s) : s[i] # list[k + 1]
        BY <2>5, <2>6
      <4>2. \A i, j \in 1..Len(s) : s[i] = s[j] => i = j
        BY <2>1, <3>2 DEF IsInjective
      <4>3. \A i, j \in DOMAIN t : t[i] = t[j] => i = j
        BY <3>2, <4>1, <4>2
      <4> QED BY <4>3 DEF IsInjective
    <3>6. ASSUME IsInjective(list) PROVE Len(t) = k + 1 /\ \A i \in 1..(k + 1) : t[i] = list[i]
      <4>1. Len(s) = k /\ \A i \in 1..k : s[i] = list[i]
        BY <2>1, <3>6
      <4>2. \A i \in 1..(k + 1) : i \in 1..k \/ i = k + 1
        OBVIOUS
      <4> QED BY <3>2, <4>1, <4>2
    <3>5. Fine(t, k + 1)
      BY <3>2, <3>3, <3>4, <3>6
    <3> HIDE DEF Fine
    <3> QED BY <3>5 DEF t
  <2> QED BY <2>4, <2>5
<1>11. L \in Goods
  <2> HIDE DEF Goods
  <2> QED BY <1>1, <1>9, <1>10, SetOfNaturals
<1>12. Fine(Kept0[L], L)
  BY <1>1, <1>11
<1>13. ASSUME IsInjective(list) PROVE Kept0[L] = list
  BY <1>12, <1>13, SeqEqual
<1> HIDE DEF L
<1> QED BY <1>8, <1>12, <1>13


\* A form with another answer to one question.
LEMMA ParkingPass ==
  ASSUME NEW f, IsForm(f), NEW t, t = StripParking(f)
  PROVE  /\ IsForm(t) /\ t.isDraft = f.isDraft /\ t.address = f.address /\ ParkingFits(t)
         /\ NatureFits(f) => NatureFits(t)
         /\ ParkingFits(f) => t = f
<1>1. CASE f.parkingFacility \in Affirmative
  BY <1>1 DEF StripParking, ParkingFits
<1>2. CASE f.parkingFacility \notin Affirmative
  <2>1. t = [f EXCEPT !.parkingType = Absent]
    BY <1>2 DEF StripParking
  <2>2. /\ IsForm(t) /\ t.isDraft = f.isDraft /\ t.address = f.address /\ t.parkingType = Absent
        /\ t.nature = f.nature
        /\ f.parkingType = Absent => t = f
    <3>1. IsForm(t)
      BY <2>1 DEF IsForm
    <3>2. /\ t.isDraft = f.isDraft /\ t.address = f.address /\ t.parkingType = Absent
        /\ t.nature = f.nature
      BY <2>1 DEF IsForm
    <3>3. ASSUME f.parkingType = Absent PROVE t = f
      BY <2>1, <3>3 DEF IsForm
    <3> QED BY <3>1, <3>2, <3>3
  <2> QED BY <1>2, <2>2 DEF ParkingFits, NatureFits
<1> QED BY <1>1, <1>2

LEMMA EmiPass ==
  ASSUME NEW f, IsForm(f), NEW t, t = StripEmi(f)
  PROVE  /\ IsForm(t) /\ t.isDraft = f.isDraft /\ t.address = f.address /\ EmiFits(t)
         /\ ParkingFits(f) => ParkingFits(t)
         /\ NatureFits(f) => NatureFits(t)
         /\ EmiFits(f) => t = f
<1>1. CASE f.emiOption = "Available"
  BY <1>1 DEF StripEmi, EmiFits
<1>2. CASE f.emiOption # "Available"
  <2>1. t = [f EXCEPT !.emiCount = Absent, !.emiAmount = Absent]
    BY <1>2 DEF StripEmi
  <2>2. /\ IsForm(t) /\ t.isDraft = f.isDraft /\ t.address = f.address
        /\ t.emiCount = Absent /\ t.emiAmount = Absent /\ t.nature = f.nature
        /\ t.parkingType = f.parkingType /\ t.parkingFacility = f.parkingFacility
        /\ f.emiCount = Absent /\ f.emiAmount = Absent => t = f
    <3>1. IsForm(t)
      BY <2>1 DEF IsForm
    <3>2. /\ t.isDraft = f.isDraft /\ t.address = f.address
        /\ t.emiCount = Absent /\ t.emiAmount = Absent /\ t.nature = f.nature
        /\ t.parkingType = f.parkingType /\ t.parkingFacility = f.parkingFacility
      BY <2>1 DEF IsForm
    <3>3. ASSUME f.emiCount = Absent, f.emiAmount = Absent PROVE t = f
      <4>1. [f EXCEPT !.emiCount = Absent] = f
        BY <3>3 DEF IsForm
      <4>2. [f EXCEPT !.emiAmount = Absent] = f
        BY <3>3 DEF IsForm
      <4>3. t = [[f EXCEPT !.emiCount = Absent] EXCEPT !.emiAmount = Absent]
        BY <2>1
      <4> QED BY <4>1, <4>2, <4>3
    <3> QED BY <3>1, <3>2, <3>3
  <2> QED BY <1>2, <2>2 DEF EmiFits, ParkingFits, NatureFits
<1> QED BY <1>1, <1>2

LEMMA StagePass ==
  ASSUME NEW f, IsForm(f), NEW t, t = StripMaintenance(f)
  PROVE  /\ IsForm(t) /\ t.isDraft = f.isDraft /\ t.address = f.address /\ StageFits(t)
         /\ ParkingFits(f) /\ EmiFits(f) => ParkingFits(t) /\ EmiFits(t)
         /\ NatureFits(f) => NatureFits(t)
         /\ StageFits(f) => t = f
<1>1. CASE f.stage # "Under Construction"
  BY <1>1 DEF StripMaintenance, StageFits
<1>2. CASE f.stage = "Under Construction"
  <2>1. t = [f EXCEPT !.maintenanceMonthly = Absent]
    BY <1>2 DEF StripMaintenance
  <2>2. /\ IsForm(t) /\ t.isDraft = f.isDraft /\ t.address = f.address
        /\ t.maintenanceMonthly = Absent /\ t.nature = f.nature
        /\ t.parkingType = f.parkingType /\ t.parkingFacility = f.parkingFacility
        /\ t.emiOption = f.emiOption /\ t.emiCount = f.emiCount /\ t.emiAmount = f.emiAmount
        /\ f.maintenanceMonthly = Absent => t = f
    <3>1. IsForm(t)
      BY <2>1 DEF IsForm
    <3>2. /\ t.isDraft = f.isDraft /\ t.address = f.address
        /\ t.maintenanceMonthly = Absent /\ t.nature = f.nature
        /\ t.parkingType = f.parkingType /\ t.parkingFacility = f.parkingFacility
        /\ t.emiOption = f.emiOption /\ t.emiCount = f.emiCount /\ t.emiAmount = f.emiAmount
      BY <2>1 DEF IsForm
    <3>3. ASSUME f.maintenanceMonthly = Absent PROVE t = f
      BY <2>1, <3>3 DEF IsForm
    <3> QED BY <3>1, <3>2, <3>3
  <2> QED BY <1>2, <2>2 DEF StageFits, EmiFits, ParkingFits, NatureFits
<1> QED BY <1>1, <1>2

LEMMA FacingPass ==
  ASSUME NEW f, IsForm(f), NEW t, t = [f EXCEPT !.facing = DualMode(f.facing)]
  PROVE  /\ IsForm(t) /\ t.isDraft = f.isDraft /\ t.address = f.address /\ FacingFits(t)
         /\ ParkingFits(f) /\ EmiFits(f) /\ StageFits(f) => ParkingFits(t) /\ EmiFits(t) /\ StageFits(t)
         /\ NatureFits(f) => NatureFits(t)
         /\ FacingFits(f) => t = f
<1>1. f.facing \in {Absent} \cup MasterCodes \cup Pairs
  BY DEF IsForm, Facings
<1>2. DualMode(f.facing) \in Pairs
  BY <1>1 DEF DualMode, Pairs
<1>3. f.facing \in Pairs => DualMode(f.facing) = f.facing
  BY FormAssumption DEF DualMode
<1> DEFINE v == DualMode(f.facing)
<1> HIDE DEF v
<1>4. v \in Facings
  BY <1>2 DEF Facings, v
<1>5. /\ IsForm(t) /\ t.isDraft = f.isDraft /\ t.address = f.address /\ t.facing = v
      /\ t.maintenanceMonthly = f.maintenanceMonthly /\ t.stage = f.stage /\ t.nature = f.nature
      /\ t.parkingType = f.parkingType /\ t.parkingFacility = f.parkingFacility
      /\ t.emiOption = f.emiOption /\ t.emiCount = f.emiCount /\ t.emiAmount = f.emiAmount
      /\ f.facing = v => t = f
  BY <1>4 DEF IsForm, v
<1> QED BY <1>2, <1>3, <1>5 DEF FacingFits, StageFits, EmiFits, ParkingFits, NatureFits, v

\* A length is a number when the feet are, and in either unit.
LEMMA LengthIs ==
  ASSUME NEW feet \in Feet \cup {Absent}, NEW unit \in {"Meters", "Kms"}
  PROVE  /\ feetToDistance(feet, unit) \in Nat \cup {Absent}
         /\ feetToDistance(feet, unit) = Absent <=> feet = Absent
<1>1. Feet \subseteq Nat /\ Absent \notin Nat
  BY FormAssumption
<1>2. CASE feet = Absent
  BY <1>2 DEF feetToDistance
<1>3. CASE feet # Absent
  <2>1. feet \in Nat
    BY <1>1, <1>3
  <2>2. 304800 * feet \in Nat /\ (3048 * feet + 5) \div 10 \in Nat
    BY <2>1
  <2>3. feetToDistance(feet, unit) \in Nat
    <3>1. CASE unit = "Meters"
      BY <1>3, <2>2, <3>1 DEF feetToDistance
    <3>2. CASE unit = "Kms"
      BY <1>3, <2>2, <3>2 DEF feetToDistance
    <3> QED BY <3>1, <3>2
  <2> QED BY <1>1, <1>3, <2>3
<1> QED BY <1>2, <1>3

LEMMA FrontPass ==
  ASSUME NEW f, IsForm(f), NEW t, t = computeLandFrontage(f)
  PROVE  /\ IsForm(t) /\ t.isDraft = f.isDraft /\ t.address = f.address /\ FrontFits(t)
         /\ ParkingFits(f) /\ EmiFits(f) /\ StageFits(f) /\ FacingFits(f) =>
              ParkingFits(t) /\ EmiFits(t) /\ StageFits(t) /\ FacingFits(t)
         /\ NatureFits(f) => NatureFits(t)
         /\ FrontFits(f) => t = f
<1>1. CASE f.frontageFoot = Absent /\ f.frontageDistance = Absent
  BY <1>1 DEF computeLandFrontage, FrontFits
<1>2. CASE ~(f.frontageFoot = Absent /\ f.frontageDistance = Absent)
  <2> DEFINE unit == IF f.frontageDistance = Absent THEN "Meters" ELSE f.frontageDistance.unit
             d == [value |-> feetToDistance(f.frontageFoot, unit), unit |-> unit]
  <2>1. f.frontageDistance \in {Absent} \cup Measures /\ f.frontageFoot \in Feet \cup {Absent}
    BY DEF IsForm
  <2>2. unit \in {"Meters", "Kms"}
    BY <2>1 DEF Measures
  <2>3. t = [f EXCEPT !.frontageDistance = d]
    BY <1>2 DEF computeLandFrontage
  <2>4. feetToDistance(f.frontageFoot, unit) \in Nat \cup {Absent}
    BY <2>1, <2>2, LengthIs
  <2>5. d \in Measures /\ d.value = feetToDistance(f.frontageFoot, d.unit)
    BY <2>2, <2>4 DEF Measures
  <2>6. FrontFits(f) => d = f.frontageDistance
    <3> SUFFICES ASSUME FrontFits(f) PROVE d = f.frontageDistance
      OBVIOUS
    <3>1. /\ f.frontageDistance \in Measures
          /\ f.frontageDistance.value = feetToDistance(f.frontageFoot, f.frontageDistance.unit)
      BY <1>2 DEF FrontFits
    <3>2. f.frontageDistance # Absent
      BY <3>1, FormAssumption
    <3>3. unit = f.frontageDistance.unit
      BY <3>2
    <3>4. d.value = f.frontageDistance.value /\ d.unit = f.frontageDistance.unit
      BY <3>1, <3>3
    <3> HIDE DEF unit
    <3> QED BY <2>5, <3>1, <3>4 DEF Measures
  <2> HIDE DEF d
  <2>7. /\ IsForm(t) /\ t.isDraft = f.isDraft /\ t.address = f.address /\ t.frontageDistance = d
        /\ t.frontageFoot = f.frontageFoot /\ t.facing = f.facing
        /\ t.maintenanceMonthly = f.maintenanceMonthly /\ t.stage = f.stage /\ t.nature = f.nature
        /\ t.parkingType = f.parkingType /\ t.parkingFacility = f.parkingFacility
        /\ t.emiOption = f.emiOption /\ t.emiCount = f.emiCount /\ t.emiAmount = f.emiAmount
        /\ d = f.frontageDistance => t = f
    <3>1. IsForm(t)
      BY <2>3, <2>5 DEF IsForm
    <3>2. /\ t.isDraft = f.isDraft /\ t.address = f.address /\ t.frontageDistance = d
        /\ t.frontageFoot = f.frontageFoot /\ t.facing = f.facing
        /\ t.maintenanceMonthly = f.maintenanceMonthly /\ t.stage = f.stage /\ t.nature = f.nature
        /\ t.parkingType = f.parkingType /\ t.parkingFacility = f.parkingFacility
        /\ t.emiOption = f.emiOption /\ t.emiCount = f.emiCount /\ t.emiAmount = f.emiAmount
      BY <2>3, <2>5 DEF IsForm
    <3>3. ASSUME d = f.frontageDistance PROVE t = f
      BY <2>3, <2>5, <3>3 DEF IsForm
    <3> QED BY <3>1, <3>2, <3>3
  <2>8. FrontFits(t)
    BY <2>5, <2>7 DEF FrontFits
  <2> QED BY <2>6, <2>7, <2>8 DEF FacingFits, StageFits, EmiFits, ParkingFits, NatureFits
<1> QED BY <1>1, <1>2

LEMMA NaturePass ==
  ASSUME NEW f, IsForm(f), NEW t, t = Incoming(f)
  PROVE  /\ IsForm(t) /\ t.isDraft = f.isDraft /\ t.address = f.address /\ NatureFits(t)
         /\ Settled(f) => Settled(t)
         /\ NatureFits(f) => t = f
         /\ ParkingFits(f) /\ EmiFits(f) /\ StageFits(f) /\ FacingFits(f) /\ FrontFits(f) => Settled(t)
<1>1. CASE route # "enquiry" \/ f.nature = Absent
  <2>1. t = f
    BY <1>1 DEF Incoming, normalizeEnquiryNature
  <2> QED BY <1>1, <2>1 DEF NatureFits, Settled
<1>2. CASE route = "enquiry" /\ f.nature # Absent
  <2> DEFINE list == IF f.nature \in MasterCodes THEN <<f.nature>> ELSE f.nature
             v == Unique(list)
  <2>1. f.nature \in MasterCodes \cup Seq(MasterCodes)
    BY <1>2 DEF IsForm
  <2>2. list \in Seq(MasterCodes)
    BY <2>1
  <2>3. t = [f EXCEPT !.nature = v]
    BY <1>2 DEF Incoming, normalizeEnquiryNature
  <2>4. NatureFits(f) => list = f.nature /\ IsInjective(list)
    BY <1>2, FormAssumption DEF NatureFits
  <2> HIDE DEF list
  <2>5. v \in Seq(MasterCodes) /\ IsInjective(v) /\ (IsInjective(list) => v = list)
    BY <2>2, UniqueIs
  <2> HIDE DEF v
  <2>7. /\ IsForm(t) /\ t.isDraft = f.isDraft /\ t.address = f.address /\ t.nature = v
        /\ t.frontageDistance = f.frontageDistance
        /\ t.frontageFoot = f.frontageFoot /\ t.facing = f.facing
        /\ t.maintenanceMonthly = f.maintenanceMonthly /\ t.stage = f.stage
        /\ t.parkingType = f.parkingType /\ t.parkingFacility = f.parkingFacility
        /\ t.emiOption = f.emiOption /\ t.emiCount = f.emiCount /\ t.emiAmount = f.emiAmount
        /\ v = f.nature => t = f
    <3>1. IsForm(t)
      BY <2>3, <2>5 DEF IsForm
    <3>2. /\ t.isDraft = f.isDraft /\ t.address = f.address /\ t.nature = v
        /\ t.frontageDistance = f.frontageDistance
        /\ t.frontageFoot = f.frontageFoot /\ t.facing = f.facing
        /\ t.maintenanceMonthly = f.maintenanceMonthly /\ t.stage = f.stage
        /\ t.parkingType = f.parkingType /\ t.parkingFacility = f.parkingFacility
        /\ t.emiOption = f.emiOption /\ t.emiCount = f.emiCount /\ t.emiAmount = f.emiAmount
      BY <2>3, <2>5 DEF IsForm
    <3>3. ASSUME v = f.nature PROVE t = f
      BY <2>3, <2>5, <3>3 DEF IsForm
    <3> QED BY <3>1, <3>2, <3>3
  <2>8. NatureFits(t)
    BY <2>5, <2>7 DEF NatureFits
  <2>9. NatureFits(f) => t = f
    BY <2>4, <2>5, <2>7
  <2> QED BY <2>7, <2>8, <2>9 DEF FacingFits, StageFits, EmiFits, ParkingFits, FrontFits, Settled
<1> QED BY <1>1, <1>2

\* A form that is no draft leaves the middleware settled, and a settled one as it came.
LEMMA FormPasses ==
  ASSUME NEW f, IsForm(f), NEW t, t = Processed(f)
  PROVE  /\ IsForm(t) /\ t.isDraft = f.isDraft /\ t.address = f.address
         /\ ~f.isDraft => Settled(t)
         /\ ~f.isDraft /\ Settled(f) => t = f
<1>1. CASE f.isDraft
  BY <1>1, NaturePass DEF Processed
<1>2. CASE ~f.isDraft
  <2>1. PICK f0 : f0 = Incoming(f)
    OBVIOUS
  <2>2. PICK f1 : f1 = StripParking(f0)
    OBVIOUS
  <2>3. PICK f2 : f2 = StripEmi(f1)
    OBVIOUS
  <2>4. PICK f3 : f3 = StripMaintenance(f2)
    OBVIOUS
  <2>5. PICK f4 : f4 = [f3 EXCEPT !.facing = DualMode(f3.facing)]
    OBVIOUS
  <2>6. PICK f5 : f5 = computeLandFrontage(f4)
    OBVIOUS
  <2>10. IsForm(f0) /\ f0.isDraft = f.isDraft /\ f0.address = f.address /\ NatureFits(f0) /\ (Settled(f) => f0 = f)
    BY <2>1, NaturePass DEF Settled
  <2>11. IsForm(f1) /\ f1.isDraft = f0.isDraft /\ f1.address = f0.address /\ ParkingFits(f1) /\ (ParkingFits(f0) => f1 = f0)
    BY <2>2, <2>10, ParkingPass
  <2>12. IsForm(f2) /\ f2.isDraft = f1.isDraft /\ f2.address = f1.address
         /\ ParkingFits(f2) /\ EmiFits(f2) /\ (EmiFits(f1) => f2 = f1)
    BY <2>3, <2>11, EmiPass
  <2>13. IsForm(f3) /\ f3.isDraft = f2.isDraft /\ f3.address = f2.address
         /\ ParkingFits(f3) /\ EmiFits(f3) /\ StageFits(f3) /\ (StageFits(f2) => f3 = f2)
    BY <2>4, <2>12, StagePass
  <2>14. f3.facing = f3.facing /\ f4 = validateDynamicData(f0)
    <3>1. f3 = StripMaintenance(StripEmi(StripParking(f0))) /\ f3.facing = f0.facing
      <4>1. f1.facing = f0.facing
        BY <2>2, <2>10 DEF StripParking, IsForm
      <4>2. f2.facing = f1.facing
        BY <2>3, <2>11 DEF StripEmi, IsForm
      <4>3. f3.facing = f2.facing
        BY <2>4, <2>12 DEF StripMaintenance, IsForm
      <4> QED BY <2>2, <2>3, <2>4, <4>1, <4>2, <4>3
    <3> QED BY <2>5, <3>1 DEF validateDynamicData
  <2>15. IsForm(f4) /\ f4.isDraft = f3.isDraft /\ f4.address = f3.address
         /\ ParkingFits(f4) /\ EmiFits(f4) /\ StageFits(f4) /\ FacingFits(f4) /\ (FacingFits(f3) => f4 = f3)
    BY <2>5, <2>13, FacingPass
  <2>16. IsForm(f5) /\ f5.isDraft = f4.isDraft /\ f5.address = f4.address
         /\ ParkingFits(f5) /\ EmiFits(f5) /\ StageFits(f5) /\ FacingFits(f5) /\ FrontFits(f5)
         /\ (FrontFits(f4) => f5 = f4)
    BY <2>6, <2>15, FrontPass
  <2>17. t = Incoming(f5)
    BY <1>2, <2>1, <2>6, <2>14 DEF Processed
  <2>18. IsForm(t) /\ t.isDraft = f5.isDraft /\ t.address = f5.address /\ Settled(t)
         /\ (NatureFits(f5) => t = f5)
    BY <2>16, <2>17, NaturePass
  <2>19. ASSUME Settled(f) PROVE t = f
    <3>1. f0 = f /\ f1 = f
      BY <2>10, <2>11, <2>19 DEF Settled
    <3>2. f2 = f /\ f3 = f
      BY <2>12, <2>13, <2>19, <3>1 DEF Settled
    <3>3. f4 = f /\ f5 = f
      BY <2>15, <2>16, <2>19, <3>2 DEF Settled
    <3> QED BY <2>18, <2>19, <3>3 DEF Settled
  <2> QED BY <1>2, <2>10, <2>11, <2>12, <2>13, <2>15, <2>16, <2>18, <2>19
<1> QED BY <1>1, <1>2


LEMMA FormStarts == FormInit => FormInv
BY DEF FormInit, FormInv

\* Whatever form is sent, the one that is stored has passed.
LEMMA SubmitKeeps == ASSUME NEW f, IsForm(f), Submit(f) PROVE FormInv'
<1>1. form' = Processed(f) /\ route' = route /\ Complete(f)
  BY DEF Submit
<1>2. PICK t : t = Processed(f)
  OBVIOUS
<1>3. /\ IsForm(t) /\ t.isDraft = f.isDraft /\ t.address = f.address
      /\ ~f.isDraft => Settled(t)
  BY <1>2, FormPasses
<1>4. IsForm(t)' /\ (Settled(t) => Settled(t)')
  BY <1>1, <1>3 DEF IsForm, Settled, ParkingFits, EmiFits, StageFits, FacingFits, FrontFits, NatureFits
<1>5. form' = t
  BY <1>1, <1>2
<1> QED BY <1>1, <1>3, <1>4, <1>5 DEF FormInv, Complete

LEMMA FormSteps == FormInv /\ (FormNext \/ UNCHANGED formVars) => FormInv'
<1> SUFFICES ASSUME FormInv, FormNext \/ UNCHANGED formVars PROVE FormInv'
  OBVIOUS
<1>1. CASE UNCHANGED formVars
  BY <1>1 DEF formVars, FormInv, IsForm, Settled, ParkingFits, EmiFits, StageFits, FacingFits, FrontFits, NatureFits
<1>2. CASE CloseForm
  BY <1>2 DEF CloseForm, FormInv
<1>3. CASE CreateForm
  <2>1. PICK d \in BOOLEAN : Submit(BlankForm(d))
    BY <1>3 DEF CreateForm
  <2>2. IsForm(BlankForm(d))
    BY DEF IsForm, BlankForm, Facings
  <2> QED BY <2>1, <2>2, SubmitKeeps
<1>4. CASE UpdateForm
  <2>1. form # NoForm /\ IsForm(form)
    BY <1>4 DEF UpdateForm, FormInv
  <2>2. PICK g \in [{"isDraft", "address"} -> BOOLEAN] :
          LET sent == [form EXCEPT !.isDraft = g["isDraft"], !.address = g["address"]] IN
          \/ Submit(sent)
          \/ \E v \in {Absent, "Available", "Not Available"}, t \in {Absent, "Common"} :
               Submit([sent EXCEPT !.parkingFacility = v, !.parkingType = t])
          \/ \E v \in {Absent, "Available"}, n \in {Absent, 12}, a \in {Absent, 5} :
               Submit([sent EXCEPT !.emiOption = v, !.emiCount = n, !.emiAmount = a])
          \/ \E v \in {Absent, "Under Construction"}, a \in {Absent, 2} :
               Submit([sent EXCEPT !.stage = v, !.maintenanceMonthly = a])
          \/ \E v \in Facings : Submit([sent EXCEPT !.facing = v])
          \/ \E v \in Natures : Submit([sent EXCEPT !.nature = v])
          \/ \E v \in Feet \cup {Absent}, d \in Distances :
               Submit([sent EXCEPT !.frontageFoot = v, !.frontageDistance = d])
    BY <1>4 DEF UpdateForm
  <2>3. PICK sent : sent = [form EXCEPT !.isDraft = g["isDraft"], !.address = g["address"]]
    OBVIOUS
  <2>4. IsForm(sent)
    <3>1. g["isDraft"] \in BOOLEAN /\ g["address"] \in BOOLEAN
      OBVIOUS
    <3> QED BY <2>1, <2>3, <3>1 DEF IsForm
  <2>5. \/ Submit(sent)
        \/ \E v \in {Absent, "Available", "Not Available"}, t \in {Absent, "Common"} :
             Submit([sent EXCEPT !.parkingFacility = v, !.parkingType = t])
        \/ \E v \in {Absent, "Available"}, n \in {Absent, 12}, a \in {Absent, 5} :
             Submit([sent EXCEPT !.emiOption = v, !.emiCount = n, !.emiAmount = a])
        \/ \E v \in {Absent, "Under Construction"}, a \in {Absent, 2} :
             Submit([sent EXCEPT !.stage = v, !.maintenanceMonthly = a])
        \/ \E v \in Facings : Submit([sent EXCEPT !.facing = v])
        \/ \E v \in Natures : Submit([sent EXCEPT !.nature = v])
        \/ \E v \in Feet \cup {Absent}, d \in Distances :
             Submit([sent EXCEPT !.frontageFoot = v, !.frontageDistance = d])
    BY <2>2, <2>3
  <2>6. \A v \in {Absent, "Available", "Not Available"}, t \in {Absent, "Common"} :
          IsForm([sent EXCEPT !.parkingFacility = v, !.parkingType = t])
    BY <2>4 DEF IsForm
  <2>7. \A v \in {Absent, "Available"}, n \in {Absent, 12}, a \in {Absent, 5} :
          IsForm([sent EXCEPT !.emiOption = v, !.emiCount = n, !.emiAmount = a])
    BY <2>4 DEF IsForm
  <2>8. \A v \in {Absent, "Under Construction"}, a \in {Absent, 2} :
          IsForm([sent EXCEPT !.stage = v, !.maintenanceMonthly = a])
    BY <2>4 DEF IsForm
  <2>9. \A v \in Facings : IsForm([sent EXCEPT !.facing = v])
    BY <2>4 DEF IsForm
  <2>10. ASSUME NEW v \in Natures PROVE IsForm([sent EXCEPT !.nature = v])
    <3>1. \A m \in Nat : \A s \in [1..m -> MasterCodes] : s \in Seq(MasterCodes)
      OBVIOUS
    <3>2. v \in {Absent} \cup MasterCodes \cup Seq(MasterCodes)
      <4>1. CASE v \in BoundedSeq(MasterCodes, 2)
        <5>1. PICK m \in 0..2 : v \in [1..m -> MasterCodes]
          BY <4>1 DEF BoundedSeq, SeqOf
        <5> QED BY <3>1, <5>1
      <4> QED BY <4>1 DEF Natures
    <3> QED BY <2>4, <3>2 DEF IsForm
  <2>11. Distances \subseteq {Absent} \cup Measures
    BY DEF Distances, Measures
  <2>12. \A v \in Feet \cup {Absent}, d \in Distances :
           IsForm([sent EXCEPT !.frontageFoot = v, !.frontageDistance = d])
    BY <2>4, <2>11 DEF IsForm
  <2> QED BY <2>4, <2>5, <2>6, <2>7, <2>8, <2>9, <2>10, <2>12, SubmitKeeps
<1> QED BY <1>1, <1>2, <1>3, <1>4 DEF FormNext

LEMMA FormIsSound == FormInv => FormSound
<1> SUFFICES ASSUME FormInv, ~form.isDraft
             PROVE  /\ form.address
                    /\ form.parkingType # Absent => form.parkingFacility \in {"Available", "Essential", "Required"}
                    /\ {form.emiCount, form.emiAmount} # {Absent} => form.emiOption = "Available"
                    /\ form.maintenanceMonthly # Absent => form.stage # "Under Construction"
                    /\ form.frontageDistance # Absent =>
                         (form.frontageDistance.value = Absent <=> form.frontageFoot = Absent)
                    /\ route = "enquiry" /\ form.nature # Absent => IsInjective(form.nature)
                    /\ Processed(form) = form
  BY DEF FormSound
<1>1. IsForm(form) /\ Settled(form) /\ form.address
  BY DEF FormInv, NoForm
<1>2. Processed(form) = form
  BY <1>1, FormPasses
<1>3. ASSUME form.frontageDistance # Absent
      PROVE  form.frontageDistance.value = Absent <=> form.frontageFoot = Absent
  <2>1. /\ form.frontageDistance \in Measures /\ form.frontageFoot \in Feet \cup {Absent}
        /\ form.frontageDistance.value = feetToDistance(form.frontageFoot, form.frontageDistance.unit)
    BY <1>1, <1>3 DEF Settled, FrontFits, IsForm
  <2>2. form.frontageDistance.unit \in {"Meters", "Kms"}
    BY <2>1 DEF Measures
  <2> QED BY <2>1, <2>2, LengthIs
<1>4. route = "enquiry" /\ form.nature # Absent => IsInjective(form.nature)
  BY <1>1 DEF Settled, NatureFits
<1>5. /\ form.parkingType # Absent => form.parkingFacility \in {"Available", "Essential", "Required"}
      /\ {form.emiCount, form.emiAmount} # {Absent} => form.emiOption = "Available"
      /\ form.maintenanceMonthly # Absent => form.stage # "Under Construction"
  BY <1>1 DEF Settled, ParkingFits, EmiFits, StageFits, Affirmative
<1> QED BY <1>1, <1>2, <1>3, <1>4, <1>5

----------------------------------------
(* Shared properties.  A mail is what the ticked sections and the completion *)
(* render of the leaves, which stay as they are; the files come and go.      *)

Paths(S) == \A path \in S :
  /\ path \in Seq({path[i] : i \in DOMAIN path}) \ {<< >>}
  /\ \A other \in S : Len(path) = 1 /\ other[1] = path[1] => other = path

RenderedKeys(asked) == {path[1] : path \in RenderSection(asked[1]) \cup RenderSection(asked[2])}
ShownFor(asked) == Append(<<RenderSection(asked[1]), RenderSection(asked[2])>>,
                          Completion(RenderedKeys(asked)))

IsLetter(l) == l = [step |-> l.step, asked |-> l.asked, shown |-> l.shown, units |-> l.units,
                    listed |-> l.listed, attached |-> l.attached, kept |-> l.kept]
UnitsFit(l) == \A u \in DOMAIN l.units : l.units[u] \cap DeniedKeys = {}

LetterFits ==
  /\ IsLetter(letter) /\ UnitsFit(letter)
  /\ letter.step \in {"none", "list", "collect", "send"}
  /\ IF letter.step = "none" THEN letter = NoLetter
     ELSE letter.asked \in Ticked /\ letter.shown = ShownFor(letter.asked)

\* A mail under way goes on as it was written.
SameText == /\ letter'.asked = letter.asked /\ letter'.shown = letter.shown
            /\ letter'.units = letter.units /\ IsLetter(letter')

ShareInv == Paths(leaves) /\ LetterFits /\ letter.kept \subseteq attachable /\ KeptFilesAttached

LEMMA ShareStarts == ShareInit => ShareInv
<1> SUFFICES ASSUME ShareInit PROVE ShareInv
  OBVIOUS
<1>1. Paths(leaves)
  BY ShareAssumption DEF ShareInit, Paths
<1>2. LetterFits
  BY DEF ShareInit, NoLetter, LetterFits, IsLetter, UnitsFit
<1> QED BY <1>1, <1>2 DEF ShareInit, NoLetter, ShareInv, KeptFilesAttached

\* The leaves stay, and so does what a mail shows.
LEMMA ShareSteps == ShareInv /\ (ShareNext \/ UNCHANGED shareVars) => ShareInv'
<1> SUFFICES ASSUME ShareInv, ShareNext \/ UNCHANGED shareVars PROVE ShareInv'
  OBVIOUS
<1> USE DEF ShareInv
<1>2. ASSUME ShareNext PROVE leaves' = leaves
  BY <1>2 DEF ShareNext, StartShare, ListFilesForMail, CollectAttachments, SendShare,
     AddPropertyFile, RemovePropertyFile
<1>3. ASSUME leaves' = leaves
      PROVE  /\ Paths(leaves)' /\ Ticked' = Ticked
             /\ \A asked : ShownFor(asked)' = ShownFor(asked)
  <2>1. TopKeys' = TopKeys /\ Paths(leaves)'
    BY <1>3 DEF TopKeys, Paths
  <2>2. \A keys : RenderSection(keys)' = RenderSection(keys)
    BY <1>3 DEF RenderSection, IsLeaf, isDeniedKey
  <2>3. \A key : RenderLeaves(key)' = RenderLeaves(key)
    BY <1>3 DEF RenderLeaves, isDeniedKey
  <2>4. \A asked : RenderedKeys(asked)' = RenderedKeys(asked)
    BY <2>2 DEF RenderedKeys
  <2>5. \A keys : Completion(keys)' = Completion(keys)
    BY <2>1, <2>3 DEF Completion
  <2>6. \A asked : ShownFor(asked)' = ShownFor(asked)
    BY <2>2, <2>4, <2>5 DEF ShownFor
  <2>7. Ticked' = Ticked
    BY <2>1 DEF Ticked
  <2> QED BY <2>1, <2>6, <2>7
<1>5. ASSUME leaves' = leaves, letter.step # "none", letter'.step \in {"list", "collect", "send"}, SameText
      PROVE  LetterFits'
  <2>1. PICK asked : asked = letter.asked /\ asked \in Ticked /\ letter.shown = ShownFor(asked)
    BY <1>5 DEF LetterFits
  <2>2. asked \in Ticked' /\ letter'.shown = ShownFor(asked)' /\ asked = letter'.asked
    BY <1>3, <1>5, <2>1 DEF SameText
  <2>3. UnitsFit(letter)' /\ IsLetter(letter)'
    BY <1>5 DEF LetterFits, UnitsFit, IsLetter, SameText
  <2>4. letter'.asked \in Ticked' /\ letter'.shown = ShownFor(letter.asked)'
    BY <2>2 DEF ShownFor, RenderedKeys
  <2> QED BY <1>5, <2>3, <2>4 DEF LetterFits
<1>11. ASSUME leaves' = leaves, letter' = letter PROVE LetterFits'
  <2>1. CASE letter.step = "none"
    <3>1. letter' = NoLetter
      BY <1>11, <2>1 DEF LetterFits
    <3> QED BY <3>1 DEF LetterFits, NoLetter, IsLetter, UnitsFit
  <2>2. CASE letter.step # "none"
    <3>1. SameText
      BY <1>11 DEF LetterFits, IsLetter, SameText
    <3> QED BY <1>5, <1>11, <2>2, <3>1 DEF LetterFits
  <2> QED BY <2>1, <2>2
<1>1. CASE UNCHANGED shareVars
  <2>1. leaves' = leaves /\ letter' = letter /\ attachable' = attachable
    BY <1>1 DEF shareVars
  <2> QED BY <1>3, <1>11, <2>1 DEF KeptFilesAttached
<1>4. CASE StartShare
  <2>1. PICK asked \in Ticked, units \in UnitSections \cup {<< >>} :
          letter' = [NoLetter EXCEPT !.step = "list", !.asked = asked, !.units = units,
                                     !.kept = attachable, !.shown = ShownFor(asked)]
    BY <1>4 DEF StartShare, ShownFor, RenderedKeys
  <2>2. /\ letter'.step = "list" /\ letter'.shown = ShownFor(asked) /\ letter'.kept = attachable
        /\ letter'.asked = asked /\ letter'.units = units /\ IsLetter(letter')
    BY <2>1 DEF NoLetter, IsLetter
  <2>3. leaves' = leaves /\ attachable' = attachable
    BY <1>4 DEF StartShare
  <2>4. letter'.asked \in Ticked' /\ letter'.shown = ShownFor(letter.asked)'
    <3>1. asked \in Ticked' /\ letter'.shown = ShownFor(asked)'
      BY <1>3, <2>2, <2>3
    <3> QED BY <2>2, <3>1 DEF ShownFor, RenderedKeys
  <2>5. \A u \in DOMAIN units : units[u] \cap DeniedKeys = {}
    BY DEF UnitSections, isDeniedKey
  <2>6. LetterFits'
    BY <2>2, <2>4, <2>5 DEF LetterFits, IsLetter, UnitsFit
  <2> QED BY <1>3, <2>2, <2>3, <2>6 DEF KeptFilesAttached
<1>6. CASE ListFilesForMail
  <2>1. /\ leaves' = leaves /\ attachable' = attachable /\ letter.step = "list"
        /\ letter' = [letter EXCEPT !.step = "collect", !.listed = attachable]
    BY <1>6 DEF ListFilesForMail
  <2>2. /\ letter'.step = "collect" /\ letter'.listed = attachable /\ letter'.kept = letter.kept /\ SameText
    BY <2>1 DEF LetterFits, IsLetter, SameText
  <2> QED BY <1>3, <1>5, <2>1, <2>2 DEF KeptFilesAttached
<1>7. CASE CollectAttachments
  <2>1. /\ leaves' = leaves /\ attachable' = attachable /\ letter.step = "collect"
        /\ letter' = [letter EXCEPT !.step = "send", !.attached = attachable]
    BY <1>7 DEF CollectAttachments
  <2>2. /\ letter'.step = "send" /\ letter'.kept = letter.kept
        /\ letter'.listed = letter.listed /\ letter'.attached = attachable /\ SameText
    BY <2>1 DEF LetterFits, IsLetter, SameText
  <2> QED BY <1>3, <1>5, <2>1, <2>2 DEF KeptFilesAttached
<1>8. CASE SendShare
  <2>1. leaves' = leaves /\ attachable' = attachable /\ letter' = NoLetter
    BY <1>8 DEF SendShare
  <2>2. LetterFits'
    BY <2>1 DEF LetterFits, NoLetter, IsLetter, UnitsFit
  <2> QED BY <1>3, <2>1, <2>2 DEF KeptFilesAttached, NoLetter
<1>9. ASSUME NEW f \in PropertyFiles, AddPropertyFile(f) PROVE ShareInv'
  <2>1. leaves' = leaves /\ attachable \subseteq attachable' /\ letter' = letter
    BY <1>9 DEF AddPropertyFile
  <2> QED BY <1>3, <1>11, <2>1 DEF KeptFilesAttached
<1>10. ASSUME NEW f \in PropertyFiles, RemovePropertyFile(f) PROVE ShareInv'
  <2>1. leaves' = leaves /\ attachable' = attachable \ {f} /\ letter' = [letter EXCEPT !.kept = @ \ {f}]
    BY <1>10 DEF RemovePropertyFile
  <2>2. /\ letter'.step = letter.step /\ letter'.kept = letter.kept \ {f}
        /\ letter'.listed = letter.listed /\ letter'.attached = letter.attached /\ SameText
    BY <2>1 DEF LetterFits, IsLetter, SameText
  <2>3. LetterFits'
    <3>1. CASE letter.step = "none"
      <4>1. letter = NoLetter /\ letter.kept = {}
        BY <3>1 DEF LetterFits, NoLetter
      <4>2. letter' = letter
        BY <2>1, <4>1 DEF NoLetter
      <4> QED BY <1>11, <2>1, <4>2
    <3>2. CASE letter.step # "none"
      BY <1>5, <2>1, <2>2, <3>2 DEF LetterFits
    <3> QED BY <3>1, <3>2
  <2> QED BY <1>3, <2>1, <2>2, <2>3 DEF KeptFilesAttached
<1> QED BY <1>1, <1>4, <1>6, <1>7, <1>8, <1>9, <1>10 DEF ShareNext

\* A section never renders a denied key; a leaf that may be shown is rendered by the
\* sections that ask for its key, if it is all the key has, and else by the completion.
LEMMA ShareIsSound == ShareInv => ShareSound
<1> SUFFICES ASSUME ShareInv PROVE ShareSound
  OBVIOUS
<1>1. CASE letter.step = "none"
  BY <1>1 DEF ShareInv, LetterFits, NoLetter, ShareSound, NothingDenied, EachLeafOnce
<1>2. CASE letter.step # "none"
  <2> DEFINE asked == letter.asked
             done == RenderedKeys(asked)
  <2>1. letter.shown = ShownFor(asked) /\ asked \in Ticked
    BY <1>2 DEF ShareInv, LetterFits
  <2>2. /\ DOMAIN letter.shown = {1, 2, 3}
        /\ Section(1) = RenderSection(asked[1]) /\ Section(2) = RenderSection(asked[2])
        /\ Section(3) = Completion(done)
    BY <2>1 DEF ShownFor, Section
  <2>4. \A keys, path : path \in RenderSection(keys) <=>
          \E key \in keys : path = <<key>> /\ key \notin DeniedKeys /\ <<key>> \in leaves
    BY DEF RenderSection, isDeniedKey, IsLeaf
  <2>5. \A path : path \in Completion(done) <=>
          /\ path \in leaves /\ Len(path) <= 4 /\ \A i \in DOMAIN path : path[i] \notin DeniedKeys
          /\ path[1] \in TopKeys \ done
    BY DEF Completion, RenderLeaves, isDeniedKey
  <2>6. \A key : key \in done <=> \E path \in RenderSection(asked[1]) \cup RenderSection(asked[2]) : key = path[1]
    BY DEF RenderedKeys
  <2> HIDE DEF done, asked
  <2>7. NothingDenied
    <3> SUFFICES ASSUME NEW i \in {1, 2, 3}, NEW path \in Section(i), NEW k \in DOMAIN path
                 PROVE  path[k] \notin DeniedKeys
      BY <2>2 DEF NothingDenied, ShareInv, LetterFits, UnitsFit
    <3>1. CASE i = 3
      BY <2>2, <2>5, <3>1
    <3>2. CASE i \in {1, 2}
      <4>1. \E keys : path \in RenderSection(keys)
        BY <2>2, <3>2
      <4>2. \E key : path = <<key>> /\ key \notin DeniedKeys
        BY <2>4, <4>1
      <4>3. PICK key : path = <<key>> /\ key \notin DeniedKeys
        BY <4>2
      <4> QED BY <4>3
    <3> QED BY <3>1, <3>2
  <2>8. EachLeafOnce
    <3> SUFFICES ASSUME NEW path \in leaves, \A k \in DOMAIN path : path[k] \notin DeniedKeys, Len(path) <= 4
                 PROVE  /\ \E i \in {1, 2, 3} : path \in Section(i)
                        /\ \A i, j \in {1, 2, 3} : i # j /\ path \in Section(i) \cap Section(j) =>
                             {i, j} = {1, 2} /\ path[1] \in asked[1] \cap asked[2]
      BY <2>2 DEF EachLeafOnce, asked
    <3>1. /\ path \in Seq({path[i] : i \in DOMAIN path}) /\ path # << >>
          /\ \A other \in leaves : Len(other) = 1 /\ other[1] = path[1] => other = path
      BY DEF ShareInv, Paths
    <3>2. path[1] \in TopKeys
      BY DEF TopKeys
    <3>3. \A keys : path \in RenderSection(keys) => path[1] \in keys
      <4> SUFFICES ASSUME NEW keys, path \in RenderSection(keys) PROVE path[1] \in keys
        OBVIOUS
      <4>1. PICK key \in keys : path = <<key>>
        BY <2>4
      <4> QED BY <4>1
    <3>4. path[1] \in done <=> path \in RenderSection(asked[1]) \/ path \in RenderSection(asked[2])
      <4>1. ASSUME path[1] \in done PROVE path \in RenderSection(asked[1]) \/ path \in RenderSection(asked[2])
        <5>1. PICK other \in RenderSection(asked[1]) \cup RenderSection(asked[2]) : path[1] = other[1]
          BY <2>6, <4>1
        <5>2. \E keys : other \in RenderSection(keys)
          BY <5>1
        <5>3. \E key : other = <<key>> /\ <<key>> \in leaves
          BY <2>4, <5>2
        <5>4. PICK key : other = <<key>> /\ <<key>> \in leaves
          BY <5>3
        <5>5. other = path
          BY <3>1, <5>1, <5>4
        <5> QED BY <5>1, <5>5
      <4> QED BY <2>6, <4>1
    <3>5. path \in Section(3) <=> path[1] \notin done
      BY <2>2, <2>5, <3>2
    <3> QED BY <2>2, <3>3, <3>4, <3>5
  <2> QED BY <2>7, <2>8 DEF ShareInv, ShareSound
<1> QED BY <1>1, <1>2

\* A property form that is saved and no draft stores figures that fit what was typed and
\* answers that fit each other, and saving it again changes nothing; a shared sheet
\* shows each leaf that may be shown once, and no other (landPricingCompute.js,
\* dynamicDataValidation.js, landFrontageCompute.js, shareProperty.js), for all
\* amounts, forms, keys and files.
THEOREM FormsAreSound == DeskSpec => []FormsSound
<1> DEFINE Inv == PriceInv /\ FormInv /\ ShareInv
<1>1. DeskInit => Inv
  BY PriceStarts, FormStarts, ShareStarts DEF DeskInit
<1>2. Inv /\ [DeskNext]_deskVars => Inv'
  <2>1. [DeskNext]_deskVars => PriceNext \/ UNCHANGED priceVars
    BY DEF DeskNext, deskVars
  <2>2. [DeskNext]_deskVars => FormNext \/ UNCHANGED formVars
    BY DEF DeskNext, deskVars
  <2>3. [DeskNext]_deskVars => ShareNext \/ UNCHANGED shareVars
    BY DEF DeskNext, deskVars
  <2> QED BY <2>1, <2>2, <2>3, PriceSteps, FormSteps, ShareSteps
<1>3. Inv => FormsSound
  BY PriceIsSound, FormIsSound, ShareIsSound DEF FormsSound
<1> QED BY <1>1, <1>2, <1>3, PTL DEF DeskSpec

----------------------------------------
(* Agreements.  The cards, the badge and the list count the same rows by       *)
(* different tests; the days of a tracked row are a number, and the statuses   *)
(* cut the numbers into intervals.                                             *)

LeasesFit == /\ today \in Nat
             /\ lease = [p \in Agreed |-> lease[p]]
             /\ \A p \in Agreed : lease[p].end \in EndDays \cup {None}

LEMMA AgreementsStart == AgreementsInit => LeasesFit
<1> SUFFICES ASSUME AgreementsInit PROVE LeasesFit
  OBVIOUS
<1>1. \A deal \in Deals, end \in EndDays \cup {None} : Leased(deal, end).end = end
  BY DEF Leased
<1>2. \A p \in Agreed : \E deal \in Deals, end \in EndDays \cup {None} : lease[p] = Leased(deal, end)
  BY DEF AgreementsInit
<1> QED BY <1>1, <1>2 DEF AgreementsInit, LeasesFit

LEMMA AgreementsStep == LeasesFit /\ (AgreementsNext \/ UNCHANGED agreementVars) => LeasesFit'
<1> SUFFICES ASSUME LeasesFit, AgreementsNext \/ UNCHANGED agreementVars PROVE LeasesFit'
  OBVIOUS
<1> USE DEF LeasesFit
<1>1. ASSUME NEW p \in Agreed, SaveLease(p) PROVE LeasesFit'
  <2>1. PICK deal \in Deals, end \in EndDays \cup {None} :
          lease' = [lease EXCEPT ![p] = Leased(deal, end)] /\ today' = today
    BY <1>1 DEF SaveLease
  <2>2. Leased(deal, end).end = end
    BY DEF Leased
  <2> QED BY <2>1, <2>2
<1>2. ASSUME NEW p \in Agreed, RemoveLease(p) PROVE LeasesFit'
  <2>1. lease' = [lease EXCEPT ![p] = [lease[p] EXCEPT !.deleted = TRUE]] /\ today' = today
    BY <1>2 DEF RemoveLease
  <2>2. [lease[p] EXCEPT !.deleted = TRUE].end = lease[p].end
    OBVIOUS
  <2> QED BY <2>1, <2>2
<1>3. CASE Midnight
  BY <1>3 DEF Midnight
<1>4. CASE UNCHANGED agreementVars
  BY <1>4 DEF agreementVars
<1> QED BY <1>1, <1>2, <1>3, <1>4 DEF AgreementsNext

\* The statuses, by the days that are left.
LEMMA StatusIs ==
  ASSUME NEW days \in Int
  PROVE  /\ StatusOf(days) = "active" <=> days > 30
         /\ StatusOf(days) = "reminder_started" <=> days = 30
         /\ StatusOf(days) = "upcoming_expiry" <=> days \in 15..29
         /\ StatusOf(days) = "expiring_soon" <=> days \in 1..14
         /\ StatusOf(days) = "expires_today" <=> days = 0
         /\ StatusOf(days) = "overdue" <=> days < 0
BY DEF StatusOf, ReminderStartDays, UpcomingExpiryMin

LEMMA RankIs ==
  /\ Rank("active") = 1 /\ Rank("reminder_started") = 2 /\ Rank("upcoming_expiry") = 3
  /\ Rank("expiring_soon") = 4 /\ Rank("expires_today") = 5 /\ Rank("overdue") = 6
<1> DEFINE names == <<"active", "reminder_started", "upcoming_expiry",
                      "expiring_soon", "expires_today", "overdue">>
<1>1. /\ names[1] = "active" /\ names[2] = "reminder_started" /\ names[3] = "upcoming_expiry"
      /\ names[4] = "expiring_soon" /\ names[5] = "expires_today" /\ names[6] = "overdue"
  OBVIOUS
<1>2. \A s : Rank(s) = CHOOSE n \in 1..6 : s = names[n]
  BY DEF Rank
<1> HIDE DEF names
<1>3. \A n \in 1..6 : n = 1 \/ n = 2 \/ n = 3 \/ n = 4 \/ n = 5 \/ n = 6
  OBVIOUS
<1>4. \A m, n \in 1..6 : names[m] = names[n] => m = n
  BY <1>1, <1>3
<1>5. \A n \in 1..6 : Rank(names[n]) = n
  BY <1>2, <1>4
<1> QED BY <1>1, <1>5

\* The fewer days are left, the higher the rank.
LEMMA RanksGrow ==
  ASSUME NEW days \in Int, NEW fewer \in Int, fewer <= days
  PROVE  Rank(StatusOf(days)) <= Rank(StatusOf(fewer))
<1>1. \A n \in Int : \/ n > 30 /\ Rank(StatusOf(n)) = 1
                     \/ n = 30 /\ Rank(StatusOf(n)) = 2
                     \/ n \in 15..29 /\ Rank(StatusOf(n)) = 3
                     \/ n \in 1..14 /\ Rank(StatusOf(n)) = 4
                     \/ n = 0 /\ Rank(StatusOf(n)) = 5
                     \/ n < 0 /\ Rank(StatusOf(n)) = 6
  BY StatusIs, RankIs
<1> QED BY <1>1

\* What is known of a tracked row: its days are a number, and its state is theirs.
LEMMA TrackedIs ==
  ASSUME LeasesFit, NEW p \in Tracked
  PROVE  /\ lease[p].end \in Int /\ today \in Int
         /\ StateOf(p).daysRemaining = lease[p].end - today
         /\ StateOf(p).status = StatusOf(lease[p].end - today)
         /\ StateOf(p).countable <=> StatusOf(lease[p].end - today) # "active"
<1>1. p \in Agreed /\ lease[p].end # None
  BY DEF Tracked
<1>2. lease[p].end \in Int /\ today \in Int
  BY <1>1, AgreementAssumption DEF LeasesFit
<1> PICK c : c = (StatusOf(lease[p].end - today) # "active")
  OBVIOUS
<1>3. StateOf(p) = [status |-> StatusOf(lease[p].end - today), daysRemaining |-> lease[p].end - today,
                    countable |-> c]
  BY <1>1 DEF StateOf, computeAgreementState
<1>4. /\ StateOf(p).daysRemaining = lease[p].end - today
      /\ StateOf(p).status = StatusOf(lease[p].end - today)
  BY <1>3
<1>5. StateOf(p).countable = c
  BY <1>3
<1> QED BY <1>2, <1>4, <1>5

LEMMA TrackedIsFinite == IsFiniteSet(Tracked)
BY AgreementAssumption, FS_Subset DEF Tracked

\* The list under a status, or under bounds of the days.
LEMMA ListsAre ==
  ASSUME LeasesFit
  PROVE  /\ Listed(NoFilter) = Cardinality(Tracked)
         /\ \A s \in {"active", "expires_today", "overdue"} :
              ByStatus(s) = Cardinality({p \in Tracked : StateOf(p).status = s})
         /\ \A b \in Int : Between(0, b) = Cardinality({p \in Tracked : StateOf(p).daysRemaining \in 0..b})
<1>1. DerivedFilter(NoFilter) = Tracked
  BY DEF DerivedFilter, fetchListRows, NoFilter
<1>2. ASSUME NEW s \in {"active", "expires_today", "overdue"}
      PROVE  ByStatus(s) = Cardinality({p \in Tracked : StateOf(p).status = s})
  <2>1. PICK f : f = [type |-> "", status |-> s, min |-> None, max |-> None]
    OBVIOUS
  <2>2. [NoFilter EXCEPT !.status = s] = f
    <3> DEFINE t == [NoFilter EXCEPT !.status = s]
    <3>1. /\ DOMAIN t = {"type", "status", "min", "max"} /\ t = [i \in DOMAIN t |-> t[i]]
          /\ t.type = "" /\ t.status = s /\ t.min = None /\ t.max = None
      BY DEF NoFilter
    <3>2. t = [type |-> t.type, status |-> t.status, min |-> t.min, max |-> t.max]
      <4> HIDE DEF t
      <4> QED BY <3>1
    <3> HIDE DEF t
    <3>3. t = f
      BY <2>1, <3>1, <3>2
    <3> QED BY <3>3 DEF t
  <2>3. DerivedFilter(f) = {p \in Tracked : StateOf(p).status = s}
    BY <2>1 DEF DerivedFilter, fetchListRows
  <2> QED BY <2>2, <2>3 DEF ByStatus, Listed
<1>3. ASSUME NEW b \in Int
      PROVE  Between(0, b) = Cardinality({p \in Tracked : StateOf(p).daysRemaining \in 0..b})
  <2>1. PICK f : f = [type |-> "", status |-> "", min |-> 0, max |-> b]
    OBVIOUS
  <2>2. [NoFilter EXCEPT !.min = 0, !.max = b] = f
    <3> DEFINE t == [NoFilter EXCEPT !.min = 0, !.max = b]
    <3>1. /\ DOMAIN t = {"type", "status", "min", "max"} /\ t = [i \in DOMAIN t |-> t[i]]
          /\ t.type = "" /\ t.status = "" /\ t.min = 0 /\ t.max = b
      BY DEF NoFilter
    <3>2. t = [type |-> t.type, status |-> t.status, min |-> t.min, max |-> t.max]
      <4> HIDE DEF t
      <4> QED BY <3>1
    <3> HIDE DEF t
    <3>3. t = f
      BY <2>1, <3>1, <3>2
    <3> QED BY <3>3 DEF t
  <2>3. None \notin Int /\ 0 # None /\ b # None
    BY AgreementAssumption
  <2>4. \A p \in Tracked : StateOf(p).daysRemaining \in Int
    BY TrackedIs
  <2>5. DerivedFilter(f) = {p \in Tracked : StateOf(p).daysRemaining \in 0..b}
    <3>1. f.type = "" /\ f.status = "" /\ f.min = 0 /\ f.max = b
      BY <2>1
    <3>2. fetchListRows(f) = Tracked
      BY <3>1 DEF fetchListRows
    <3>3. DerivedFilter(f) = {p \in Tracked : StateOf(p).daysRemaining >= 0 /\ StateOf(p).daysRemaining <= b}
      BY <2>3, <3>1, <3>2 DEF DerivedFilter
    <3> QED BY <2>4, <3>3
  <2> QED BY <2>2, <2>5 DEF Between, Listed
<1> QED BY <1>1, <1>2, <1>3 DEF Listed

\* The cards and the badge, as the sizes of sets of rows.
LEMMA SummaryIs ==
  /\ fetchSummary.totalActive = Cardinality({p \in Tracked : StateOf(p).status = "active"})
  /\ fetchSummary.expiringWithin30 = Cardinality({p \in Tracked : StateOf(p).daysRemaining \in 0..30})
  /\ fetchSummary.expiringWithin7 = Cardinality({p \in Tracked : StateOf(p).daysRemaining \in 0..7})
  /\ fetchSummary.expiringToday = Cardinality({p \in Tracked : StateOf(p).status = "expires_today"})
  /\ fetchSummary.totalOverdue = Cardinality({p \in Tracked : StateOf(p).status = "overdue"})
  /\ fetchSummary.badgeCount = Cardinality({p \in Tracked : StateOf(p).countable})
BY DEF fetchSummary, CountIf

LEMMA AgreementsHold == LeasesFit => AgreementsSound
<1> SUFFICES ASSUME LeasesFit PROVE AgreementsSound
  OBVIOUS
<1> DEFINE Active == {p \in Tracked : StateOf(p).status = "active"}
           Overdue == {p \in Tracked : StateOf(p).status = "overdue"}
           Soon == {p \in Tracked : StateOf(p).daysRemaining \in 0..30}
           Counted == {p \in Tracked : StateOf(p).countable}
<1>1. CardsMatchList
  <2>1. Tracked = UNION {fetchListRows([NoFilter EXCEPT !.type = t]) : t \in OutVariants}
    <3>1. ASSUME NEW t \in OutVariants
          PROVE  fetchListRows([NoFilter EXCEPT !.type = t]) = {p \in Tracked : t \in Columns(p)}
      <4>1. [NoFilter EXCEPT !.type = t].type = t /\ t # ""
        BY DEF NoFilter, OutVariants
      <4> QED BY <4>1 DEF fetchListRows
    <3>2. \A p \in Tracked : \E t \in OutVariants : t \in Columns(p)
      BY DEF Tracked
    <3> QED BY <3>1, <3>2
  <2>2. /\ ByStatus("active") = Cardinality(Active) /\ ByStatus("overdue") = Cardinality(Overdue)
        /\ ByStatus("expires_today") = Cardinality({p \in Tracked : StateOf(p).status = "expires_today"})
        /\ Between(0, 30) = Cardinality(Soon)
        /\ Between(0, 7) = Cardinality({p \in Tracked : StateOf(p).daysRemaining \in 0..7})
    <3>1. \A s \in {"active", "expires_today", "overdue"} :
            ByStatus(s) = Cardinality({p \in Tracked : StateOf(p).status = s})
      BY ListsAre
    <3>2. \A b \in Int : Between(0, b) = Cardinality({p \in Tracked : StateOf(p).daysRemaining \in 0..b})
      BY ListsAre
    <3>3. ByStatus("active") = Cardinality(Active)
      BY <3>1
    <3>4. ByStatus("overdue") = Cardinality(Overdue)
      BY <3>1
    <3>5. ByStatus("expires_today") = Cardinality({p \in Tracked : StateOf(p).status = "expires_today"})
      BY <3>1
    <3>6. Between(0, 30) = Cardinality(Soon)
      BY <3>2
    <3>7. Between(0, 7) = Cardinality({p \in Tracked : StateOf(p).daysRemaining \in 0..7})
      BY <3>2
    <3> QED BY <3>3, <3>4, <3>5, <3>6, <3>7
  <2> QED BY <2>1, <2>2, SummaryIs DEF CardsMatchList
<1>2. BadgeCountsDue
  <2>1. \A p \in Tracked : /\ p \in Active <=> lease[p].end - today > 30
                           /\ p \in Overdue <=> lease[p].end - today < 0
                           /\ p \in Soon <=> lease[p].end - today \in 0..30
                           /\ p \in Counted <=> ~(lease[p].end - today > 30)
                           /\ lease[p].end - today \in Int
    BY TrackedIs, StatusIs
  <2>2. Counted = Soon \cup Overdue /\ Soon \cap Overdue = {}
        /\ Tracked = Counted \cup Active /\ Counted \cap Active = {}
    BY <2>1
  <2>3. /\ IsFiniteSet(Active) /\ IsFiniteSet(Overdue) /\ IsFiniteSet(Soon) /\ IsFiniteSet(Counted)
    BY TrackedIsFinite, FS_Subset
  <2> HIDE DEF Active, Overdue, Soon, Counted
  <2>4. \A S, T : IsFiniteSet(S) /\ IsFiniteSet(T) /\ S \cap T = {}
                    => Cardinality(S \cup T) = Cardinality(S) + Cardinality(T)
    <3> SUFFICES ASSUME NEW S, NEW T, IsFiniteSet(S), IsFiniteSet(T), S \cap T = {}
                 PROVE  Cardinality(S \cup T) = Cardinality(S) + Cardinality(T)
      OBVIOUS
    <3>1. Cardinality(S) \in Nat /\ Cardinality(T) \in Nat /\ Cardinality(S \cap T) = 0
      BY FS_CardinalityType, FS_EmptySet
    <3>2. Cardinality(S \cup T) = Cardinality(S) + Cardinality(T) - Cardinality(S \cap T)
      BY FS_Union
    <3> QED BY <3>1, <3>2
  <2>5. Cardinality(Counted) = Cardinality(Soon) + Cardinality(Overdue)
        /\ Cardinality(Tracked) = Cardinality(Counted) + Cardinality(Active)
    BY <2>2, <2>3, <2>4
  <2> QED BY <2>5, SummaryIs, ListsAre DEF BadgeCountsDue, Active, Overdue, Soon, Counted
<1>3. StatusNeverReturns
  <2> SUFFICES ASSUME NEW p \in Tracked, NEW d \in today..LastDay
               PROVE  Rank(StateOf(p).status) <= Rank(StatusOf(lease[p].end - d))
    BY DEF StatusNeverReturns
  <2>1. lease[p].end \in Int /\ today \in Int /\ d \in Int /\ today <= d
    BY TrackedIs
  <2>2. lease[p].end - d \in Int /\ lease[p].end - today \in Int /\ lease[p].end - d <= lease[p].end - today
    BY <2>1
  <2> QED BY <2>2, TrackedIs, RanksGrow
<1> QED BY <1>1, <1>2, <1>3 DEF AgreementsSound

----------------------------------------
(* The slots offered.  The grid and a booking read one calendar, so what is    *)
(* left is the arithmetic of days, quarters and the offset of the time zone.   *)

GridInv == /\ utcNow \in Nat /\ bookings \subseteq Nat
           /\ \A e \in calendar : e.from \in Int /\ e.to \in Int

\* A set of naturals has a least one, and Min is it.
LEMMA MinIsLeast ==
  ASSUME NEW S, S \subseteq Nat, S # {}
  PROVE  Min(S) \in S /\ \A x \in S : Min(S) <= x
<1> DEFINE R == OpToRel(<, Nat)
<1>1. PICK x \in S : \A y \in S : ~(<<y, x>> \in R)
  <2>1. IsWellFoundedOn(R, Nat)
    BY NatLessThanWellFounded
  <2> HIDE DEF R
  <2> QED BY <2>1, WFMin, Zenon
<1>2. \A y \in Nat : y < x => <<y, x>> \in R
  BY DEF OpToRel
<1> HIDE DEF R
<1>3. ASSUME NEW y \in S PROVE x <= y
  <2>1. x \in Nat /\ y \in Nat
    OBVIOUS
  <2>2. ~(y < x)
    BY <1>1, <1>2, <2>1
  <2> QED BY <2>1, <2>2
<1> QED BY <1>3 DEF Min

\* A quarter begins at most 14 minutes before each of its minutes.
LEMMA QuartersFloor ==
  ASSUME NEW m \in Nat
  PROVE  /\ floorToSlot(m) \in Nat /\ m - floorToSlot(m) \in 0..14
         /\ floorToSlot(m) % 15 = 0
<1>1. m % 15 \in 0..14 /\ m = 15 * (m \div 15) + (m % 15) /\ m \div 15 \in Nat
  OBVIOUS
<1> DEFINE q == m \div 15
<1>2. floorToSlot(m) = 15 * q
  BY <1>1 DEF floorToSlot, SlotLength
<1>3. (15 * q) % 15 = 0
  BY <1>1
<1> HIDE DEF q
<1> QED BY <1>1, <1>2, <1>3 DEF q

\* The grid is every quarter of a day from six o'clock on.
LEMMA GridIs == buildDayGrid = {s \in 360..1439 : s % 15 = 0}
<1>1. ASSUME NEW h \in 6..23, NEW m \in {0, 15, 30, 45}
      PROVE  h * 60 + m \in 360..1439 /\ (h * 60 + m) % 15 = 0
  BY <1>1
<1>2. ASSUME NEW s \in 360..1439, s % 15 = 0
      PROVE  \E h \in 6..23, m \in {0, 15, 30, 45} : s = h * 60 + m
  <2> DEFINE h == s \div 60
             m == s % 60
  <2>1. h \in 6..23 /\ s = h * 60 + m /\ m \in 0..59
    OBVIOUS
  <2>2. m % 15 = 0
    BY <1>2
  <2>3. m \in {0, 15, 30, 45}
    <3> HIDE DEF m
    <3> QED BY <2>1, <2>2
  <2> QED BY <2>1, <2>3
<1> QED BY <1>1, <1>2 DEF buildDayGrid

LEMMA GridStarts == GridInit => GridInv
BY GridAssumption, MinIsLeast DEF GridInit, GridInv

LEMMA GridSteps == GridInv /\ (GridNext \/ UNCHANGED gridVars) => GridInv'
<1> SUFFICES ASSUME GridInv, GridNext \/ UNCHANGED gridVars PROVE GridInv'
  OBVIOUS
<1> USE DEF GridInv
<1>1. CASE Book
  <2>1. PICK w \in Wishes :
          /\ bookings' = bookings \cup {floorToSlot(w)} /\ utcNow' = utcNow
          /\ calendar' = IF calendarUp THEN calendar \cup {buildEventBody(floorToSlot(w))} ELSE calendar
    BY <1>1 DEF Book
  <2>2. floorToSlot(w) \in Nat
    BY GridAssumption, QuartersFloor
  <2>3. buildEventBody(floorToSlot(w)).from \in Int /\ buildEventBody(floorToSlot(w)).to \in Int
    BY <2>2 DEF buildEventBody, IstOffset, DurationMinutes
  <2> QED BY <2>1, <2>2, <2>3
<1>2. CASE Unbook
  BY <1>2 DEF Unbook
<1>3. CASE Meet
  BY <1>3, GridAssumption DEF Meet
<1>4. CASE LinkOrUnlink \/ UNCHANGED gridVars
  BY <1>4 DEF LinkOrUnlink, gridVars
<1>5. CASE Tick
  BY <1>5, GridAssumption DEF Tick
<1> QED BY <1>1, <1>2, <1>3, <1>4, <1>5 DEF GridNext

\* Where a slot of a day stands to the present quarter.
LEMMA PastIsPast ==
  ASSUME GridInv, NEW day \in Nat, NEW s \in Nat, s < DayLength, NEW key, key = day * DayLength + s
  PROVE  (day < todayIst \/ (day = todayIst /\ key <= nowSlotKey)) <=> isSlotKeyInPastIst(key)
<1> DEFINE n == nowSlotKey
<1>0. s \in 0..1439
  BY DEF DayLength
<1>1. n \in Nat
  BY QuartersFloor DEF GridInv, nowSlotKey, IstOffset
<1>2. todayIst = n \div 1440 /\ n \div 1440 \in Nat /\ n = 1440 * (n \div 1440) + (n % 1440) /\ n % 1440 \in 0..1439
  BY <1>1 DEF todayIst, DayLength
<1>3. \A d, r \in Nat : \A e, t \in Nat :
        r <= 1439 /\ t <= 1439 => (1440 * d + r <= 1440 * e + t <=> d < e \/ (d = e /\ r <= t))
  OBVIOUS
<1> DEFINE present == n \div 1440
           rest == n % 1440
<1> HIDE DEF n, present, rest
<1>4. n = 1440 * present + rest /\ present \in Nat /\ rest \in 0..1439 /\ todayIst = present
  BY <1>2 DEF present, rest
<1>5. 1440 * day + s <= 1440 * present + rest <=> day < present \/ (day = present /\ s <= rest)
  BY <1>0, <1>3, <1>4
<1>6. key = 1440 * day + s
  BY DEF DayLength
<1>7. isSlotKeyInPastIst(key) <=> 1440 * day + s <= 1440 * present + rest
  BY <1>4, <1>6 DEF isSlotKeyInPastIst, n
<1>8. day = present => (key <= nowSlotKey <=> s <= rest)
  BY <1>4, <1>6 DEF n
<1> QED BY <1>4, <1>5, <1>7, <1>8

\* The calendar by the half hour and by the day: they tell the same of a slot that
\* ends with its day, and of one that does not, they differ by events after midnight.
LEMMA BusyIsBusy ==
  ASSUME GridInv, NEW day \in Nat, NEW s \in Nat, s < DayLength, NEW key, key = day * DayLength + s
  PROVE  LET over == slotOverlapsBusy(key, listGoogleBusyForDate(day))
         IN /\ over => checkGoogleCalendarBusy(key)
            /\ checkGoogleCalendarBusy(key) /\ ~over =>
                 /\ s > DayLength - DurationMinutes
                 /\ \E e \in calendar : /\ e.from < key + DurationMinutes - IstOffset
                                        /\ e.from >= (day + 1) * DayLength - IstOffset
<1> DEFINE over == slotOverlapsBusy(key, listGoogleBusyForDate(day))
<1> USE DEF DayLength, DurationMinutes, IstOffset
<1>1. key \in Nat /\ key = day * 1440 + s /\ (day + 1) * 1440 = day * 1440 + 1440 /\ day * 1440 \in Nat
  OBVIOUS
<1>2. ASSUME over PROVE checkGoogleCalendarBusy(key)
  <2>1. PICK e \in listGoogleBusyForDate(day) : key - 330 < e.to /\ key - 330 + 30 > e.from
    BY <1>2 DEF slotOverlapsBusy
  <2>2. e \in calendar /\ calendarUp
    BY <2>1 DEF listGoogleBusyForDate, busyIn
  <2>3. e.from \in Int /\ e.to \in Int
    BY <2>2 DEF GridInv
  <2>4. e \in busyIn(key - 330, key + 30 - 330)
    BY <2>1, <2>2, <2>3, <1>1 DEF busyIn
  <2> QED BY <2>4 DEF checkGoogleCalendarBusy
<1>3. ASSUME checkGoogleCalendarBusy(key), ~over
      PROVE  /\ s > 1440 - 30
             /\ \E e \in calendar : e.from < key + 30 - 330 /\ e.from >= (day + 1) * 1440 - 330
  <2>1. PICK e \in calendar : calendarUp /\ e.from < key + 30 - 330 /\ e.to > key - 330
    BY <1>3 DEF checkGoogleCalendarBusy, busyIn
  <2>2. e.from \in Int /\ e.to \in Int
    BY DEF GridInv
  <2>3. e \notin listGoogleBusyForDate(day)
    BY <1>1, <1>3, <2>1, <2>2 DEF slotOverlapsBusy
  <2>4. ~(e.from < (day + 1) * 1440 - 330 /\ e.to > day * 1440 - 330)
    BY <2>1, <2>3 DEF listGoogleBusyForDate, busyIn
  <2> QED BY <1>1, <2>1, <2>2, <2>4
<1> HIDE DEF over
<1> QED BY <1>2, <1>3 DEF over

LEMMA OffersFit ==
  ASSUME GridInv, NEW day \in Nat
  PROVE  LET accepted == {s \in buildDayGrid : ~Refused(day * DayLength + s)}
             last == DayLength - SlotLength
             offered == Offered(day)
         IN /\ accepted \subseteq offered
            /\ offered \subseteq accepted \cup {last}
            /\ (last \in offered \ accepted) =>
                 \E e \in calendar : e.from < (day + 1) * DayLength + SlotLength - IstOffset
                                     /\ e.from >= (day + 1) * DayLength - IstOffset
<1> DEFINE Key(s) == day * DayLength + s
           Over(s) == slotOverlapsBusy(Key(s), listGoogleBusyForDate(day))
<1>1. \A s \in buildDayGrid : s \in 360..1439 /\ s % 15 = 0
  BY GridIs
<1>2. \A s \in buildDayGrid : s \in Offered(day) <=> /\ ~isSlotKeyInPastIst(Key(s))
                                                    /\ Key(s) \notin bookings /\ ~Over(s)
  <2> SUFFICES ASSUME NEW s \in buildDayGrid
               PROVE  s \in Offered(day) <=> /\ ~isSlotKeyInPastIst(Key(s))
                                            /\ Key(s) \notin bookings /\ ~Over(s)
    OBVIOUS
  <2>1. s \in Nat /\ s < DayLength
    BY <1>1 DEF DayLength
  <2>2. (day < todayIst \/ (day = todayIst /\ Key(s) <= nowSlotKey)) <=> isSlotKeyInPastIst(Key(s))
    <3>1. PICK key : key = Key(s)
      OBVIOUS
    <3>2. key = day * DayLength + s
      BY <3>1
    <3>3. (day < todayIst \/ (day = todayIst /\ key <= nowSlotKey)) <=> isSlotKeyInPastIst(key)
      BY <2>1, <3>2, PastIsPast, Zenon
    <3> HIDE DEF Key
    <3> QED BY <3>1, <3>3
  <2>3. s \in Offered(day) <=> /\ ~(day < todayIst \/ (day = todayIst /\ Key(s) <= nowSlotKey))
                              /\ Key(s) \notin bookings /\ ~Over(s)
    BY DEF Offered
  <2> HIDE DEF Key, Over
  <2> QED BY <2>2, <2>3
<1>3. Offered(day) \subseteq buildDayGrid
  BY DEF Offered
<1>4. \A s \in buildDayGrid : Refused(Key(s)) <=> \/ isSlotKeyInPastIst(Key(s))
                                                  \/ checkGoogleCalendarBusy(Key(s))
                                                  \/ Key(s) \in bookings
  BY DEF Refused
<1>5. \A s \in buildDayGrid :
        /\ Over(s) => checkGoogleCalendarBusy(Key(s))
        /\ checkGoogleCalendarBusy(Key(s)) /\ ~Over(s) =>
             /\ s > DayLength - DurationMinutes
             /\ \E e \in calendar : /\ e.from < Key(s) + DurationMinutes - IstOffset
                                    /\ e.from >= (day + 1) * DayLength - IstOffset
  <2> SUFFICES ASSUME NEW s \in buildDayGrid
               PROVE  /\ Over(s) => checkGoogleCalendarBusy(Key(s))
                      /\ checkGoogleCalendarBusy(Key(s)) /\ ~Over(s) =>
                           /\ s > DayLength - DurationMinutes
                           /\ \E e \in calendar : /\ e.from < Key(s) + DurationMinutes - IstOffset
                                                  /\ e.from >= (day + 1) * DayLength - IstOffset
    OBVIOUS
  <2>1. s \in Nat /\ s < DayLength
    BY <1>1 DEF DayLength
  <2>2. PICK key : key = Key(s)
    OBVIOUS
  <2>3. key = day * DayLength + s
    BY <2>2
  <2>4. LET over == slotOverlapsBusy(key, listGoogleBusyForDate(day))
        IN /\ over => checkGoogleCalendarBusy(key)
           /\ checkGoogleCalendarBusy(key) /\ ~over =>
                /\ s > DayLength - DurationMinutes
                /\ \E e \in calendar : /\ e.from < key + DurationMinutes - IstOffset
                                       /\ e.from >= (day + 1) * DayLength - IstOffset
    BY <2>1, <2>3, BusyIsBusy, Zenon
  <2> HIDE DEF Key
  <2> QED BY <2>2, <2>4 DEF Over
<1>6. \A s \in buildDayGrid : s > DayLength - DurationMinutes => s = DayLength - SlotLength
  <2> SUFFICES ASSUME NEW s \in buildDayGrid, s > 1410 PROVE s = 1425
    BY DEF DayLength, DurationMinutes, SlotLength
  <2>1. s \in 1411..1439 /\ s % 15 = 0
    BY <1>1
  <2> QED BY <2>1
<1>7. Key(DayLength - SlotLength) + DurationMinutes - IstOffset
        = (day + 1) * DayLength + SlotLength - IstOffset
  BY DEF DayLength, SlotLength, DurationMinutes, IstOffset
<1> HIDE DEF Key, Over
<1>8. \A s \in buildDayGrid : ~Refused(Key(s)) => s \in Offered(day)
  BY <1>2, <1>4, <1>5
<1>9. \A s \in Offered(day) : Refused(Key(s)) =>
        /\ s = DayLength - SlotLength
        /\ \E e \in calendar : /\ e.from < Key(s) + DurationMinutes - IstOffset
                               /\ e.from >= (day + 1) * DayLength - IstOffset
  BY <1>2, <1>3, <1>4, <1>5, <1>6
<1>10. \A s \in buildDayGrid : Refused(Key(s)) <=> Refused(day * DayLength + s)
  BY DEF Key
<1> QED BY <1>3, <1>7, <1>8, <1>9, <1>10

\* The slot a refusal names.
LEMMA NextFits ==
  ASSUME GridInv, NEW w \in Wishes, NEW day \in Nat, floorToSlot(w) \div DayLength = day
  PROVE  LET key == floorToSlot(w)
             next == findNextAvailableSlot(key)
         IN IF next = -1 THEN \A s \in Offered(day) : s <= key % DayLength
            ELSE next > key /\ next - day * DayLength \in Offered(day)
<1> DEFINE key == floorToSlot(w)
           r == key % DayLength
           later == {s \in Offered(day) : r \in buildDayGrid => s > r}
           next == findNextAvailableSlot(key)
<1>1. key \in Nat /\ key % 15 = 0
  BY GridAssumption, QuartersFloor
<1>2. r \in 0..1439 /\ key = 1440 * day + r
  BY <1>1 DEF DayLength
<1>3. r % 15 = 0
  <2> HIDE DEF key, r
  <2>1. (1440 * day + r) % 15 = 0
    BY <1>1, <1>2
  <2>2. 1440 * day + r = r + 15 * (96 * day)
    BY <1>2
  <2>3. \A x, y \in Nat : (x + 15 * y) % 15 = x % 15
    OBVIOUS
  <2> QED BY <1>2, <2>1, <2>2, <2>3
<1>4. next = IF later = {} THEN -1 ELSE day * DayLength + Min(later)
  BY DEF findNextAvailableSlot
<1>5. Offered(day) \subseteq buildDayGrid /\ \A s \in buildDayGrid : s \in 360..1439
  BY GridIs DEF Offered
<1>6. r \notin buildDayGrid => r < 360
  BY <1>2, <1>3, GridIs
<1> HIDE DEF key, r, next
<1>7. CASE later = {}
  <2>1. \A s \in Offered(day) : s <= r
    <3> SUFFICES ASSUME NEW s \in Offered(day), ~(s <= r) PROVE FALSE
      OBVIOUS
    <3>1. s > r
      BY <1>2, <1>5
    <3>2. s \in later
      BY <3>1
    <3> QED BY <1>7, <3>2
  <2> QED BY <1>4, <1>7, <2>1 DEF key, r, next
<1>8. CASE later # {}
  <2>1. Min(later) \in later
    <3>1. later \subseteq Nat
      BY <1>5
    <3> QED BY <1>8, <3>1, MinIsLeast
  <2>2. Min(later) \in Offered(day) /\ Min(later) > r /\ Min(later) \in 360..1439
    BY <1>2, <1>5, <1>6, <2>1
  <2> HIDE DEF later
  <2>3. PICK m \in 360..1439 : m = Min(later)
    BY <2>2
  <2>4. next = day * 1440 + m
    BY <1>4, <1>8, <2>3 DEF DayLength
  <2>5. next # -1 /\ next > key /\ next - day * DayLength = m
    BY <1>2, <2>2, <2>3, <2>4 DEF DayLength
  <2> QED BY <2>2, <2>3, <2>5 DEF key, r, next
<1> QED BY <1>7, <1>8

LEMMA GridHolds == GridInv => GridSound
<1> SUFFICES ASSUME GridInv, NEW day \in {t \div DayLength : t \in Wishes}
             PROVE
    LET accepted == {s \in buildDayGrid : ~Refused(day * DayLength + s)}
        last == DayLength - SlotLength
        offered == Offered(day)
    IN /\ accepted \subseteq offered
       /\ offered \subseteq accepted \cup {last}
       /\ (last \in offered \ accepted) =>
            \E e \in calendar : e.from < (day + 1) * DayLength + SlotLength - IstOffset
                                /\ e.from >= (day + 1) * DayLength - IstOffset
       /\ \A w \in Wishes :
            LET key == floorToSlot(w)
                next == findNextAvailableSlot(key)
            IN /\ w - key \in 0..(SlotLength - 1)
               /\ (key \div DayLength = day /\ Refused(key)) =>
                    IF next = -1 THEN \A s \in offered : s <= key % DayLength
                    ELSE next > key /\ next - day * DayLength \in offered
  BY DEF GridSound
<1>1. day \in Nat
  <2>1. PICK t \in Wishes : day = t \div DayLength
    OBVIOUS
  <2> QED BY <2>1, GridAssumption DEF DayLength
<1>2. \A w \in Wishes : w - floorToSlot(w) \in 0..(SlotLength - 1)
  BY GridAssumption, QuartersFloor DEF SlotLength
<1> QED BY <1>1, <1>2, OffersFit, NextFits

----------------------------------------
(* Land records.  A request under way knows a row that is still in the table,  *)
(* and an answer was made of one that was at least as new as its save.         *)

Cells == {Normalized(f) : f \in {g \in LandForms : FitsBook(g)}}

IsRecord(r) ==
  /\ r = [cells |-> r.cells, edits |-> r.edits, gone |-> r.gone, editsWhenGone |-> r.editsWhenGone]
  /\ r.cells \in Cells /\ r.edits \in Nat /\ r.gone \in BOOLEAN
  /\ r.gone => r.edits = r.editsWhenGone

RecordsFit ==
  /\ register \in Books /\ landCalls \in 0..MaxLandCalls
  /\ records = [id \in 1..Len(records) |-> records[id]] /\ Len(records) \in 1..MaxLandRows
  /\ \A id \in 1..Len(records) : IsRecord(records[id])

\* What a page of a list that counted "total" rows must hold.
PageFits(c) ==
  LET rest == c.total - (c.page - 1) * LandPageSize
  IN /\ Cardinality(c.ids) =
          IF rest <= 0 THEN 0 ELSE IF rest < LandPageSize THEN rest ELSE LandPageSize
     /\ c.total > 0 /\ c.page <= PageCount(c.total) => c.ids # {}

CallFits(c) ==
  \/ c = AtDesk
  \/ /\ c = [at |-> "write", id |-> c.id, cells |-> c.cells]
     /\ c.id \in DOMAIN records /\ c.cells \in Cells
  \/ /\ c = [at |-> "stamp", id |-> c.id]
     /\ c.id \in DOMAIN records
  \/ /\ c = [at |-> "reread", id |-> c.id, version |-> c.version]
     /\ c.id \in DOMAIN records /\ c.version \in Nat /\ c.version <= records[c.id].edits
  \/ /\ c = [at |-> "saved", id |-> c.id, version |-> c.version, seen |-> c.seen, body |-> c.body]
     /\ c.id \in DOMAIN records /\ c.seen >= c.version
     /\ c.body = NoRecord => records[c.id].gone
  \/ /\ c = [at |-> "select", search |-> c.search, page |-> c.page, total |-> c.total, moved |-> c.moved]
     /\ c.page \in Nat \ {0} /\ c.moved \in BOOLEAN
     /\ ~c.moved => c.total = Cardinality(Found(c.search))
  \/ /\ c.at = "listed"
     /\ ~c.moved => PageFits(c)

CallsFit == /\ landCall = [k \in LandClerks |-> landCall[k]]
            /\ \A k \in LandClerks : CallFits(landCall[k])

LandInv == RecordsFit /\ CallsFit

----------------------------------------
\* The rows of a set that come before one of its rows: as many as its place in
\* the order, so the places are 0 up to the number of rows, each once.
LEMMA PlacesAreOnce ==
  ASSUME RecordsFit, NEW ids \in SUBSET (DOMAIN records)
  PROVE  /\ IsFiniteSet(ids)
         /\ [id \in ids |-> Cardinality(Ahead(id, ids))] \in Bijection(ids, 0..(Cardinality(ids) - 1))
<1> DEFINE T == 0..(Cardinality(ids) - 1)
           f == [id \in ids |-> Cardinality(Ahead(id, ids))]
           Text(i) == records[i].cells.text
<1>0. DOMAIN records = 1..Len(records) /\ Len(records) \in Nat
  BY DEF RecordsFit
<1>1. IsFiniteSet(ids) /\ Cardinality(ids) \in Nat
  <2>1. IsFiniteSet(DOMAIN records)
    BY <1>0, FS_Interval
  <2>2. IsFiniteSet(ids)
    BY <2>1, FS_Subset
  <2> QED BY <2>2, FS_CardinalityType
<1>2. \A i \in ids : i \in Int /\ Text(i) \in Int
  <2> SUFFICES ASSUME NEW i \in ids PROVE i \in Int /\ Text(i) \in Int
    OBVIOUS
  <2>1. i \in Int /\ records[i].cells \in Cells
    BY <1>0 DEF RecordsFit, IsRecord
  <2>2. PICK g \in LandForms : records[i].cells = Normalized(g)
    BY <2>1 DEF Cells
  <2>3. Normalized(g).text = g.text
    BY DEF Normalized, normalizeGaothan, normalizeSurvey, normalizePaper
  <2> QED BY <2>1, <2>2, <2>3, LandAssumption
<1>3. \A i \in ids : Ahead(i, ids) \in SUBSET (ids \ {i})
  BY <1>2 DEF Ahead
<1>4. \A i \in ids : IsFiniteSet(ids \ {i}) /\ Cardinality(ids \ {i}) = Cardinality(ids) - 1
  BY <1>1, FS_RemoveElement
<1>5. \A i \in ids : /\ IsFiniteSet(Ahead(i, ids)) /\ Cardinality(Ahead(i, ids)) \in Nat
                     /\ Cardinality(Ahead(i, ids)) <= Cardinality(ids) - 1
  <2> SUFFICES ASSUME NEW i \in ids
               PROVE  /\ IsFiniteSet(Ahead(i, ids)) /\ Cardinality(Ahead(i, ids)) \in Nat
                      /\ Cardinality(Ahead(i, ids)) <= Cardinality(ids) - 1
    OBVIOUS
  <2>1. IsFiniteSet(Ahead(i, ids)) /\ Cardinality(Ahead(i, ids)) <= Cardinality(ids \ {i})
    BY <1>3, <1>4, FS_Subset
  <2> QED BY <2>1, <1>4, FS_CardinalityType
<1>6. f \in [ids -> T]
  BY <1>1, <1>5
<1>7. ASSUME NEW i \in ids, NEW j \in ids, i \in Ahead(j, ids)
      PROVE  f[i] < f[j]
  <2>1. Ahead(i, ids) \in SUBSET Ahead(j, ids)
    BY <1>2, <1>7 DEF Ahead
  <2>2. i \notin Ahead(i, ids)
    BY <1>3
  <2>3. Cardinality(Ahead(i, ids)) <= Cardinality(Ahead(j, ids))
        /\ Cardinality(Ahead(i, ids)) # Cardinality(Ahead(j, ids))
    BY <2>1, <2>2, <1>5, <1>7, FS_Subset
  <2> QED BY <2>3, <1>5
<1>8. \A i, j \in ids : i # j => i \in Ahead(j, ids) \/ j \in Ahead(i, ids)
  BY <1>2 DEF Ahead
<1>9. \A i, j \in ids : i # j => f[i] # f[j]
  <2> SUFFICES ASSUME NEW i \in ids, NEW j \in ids, i # j PROVE f[i] # f[j]
    OBVIOUS
  <2>1. f[i] \in Int /\ f[j] \in Int
    BY <1>5
  <2>2. f[i] < f[j] \/ f[j] < f[i]
    BY <1>7, <1>8
  <2> HIDE DEF f
  <2> QED BY <2>1, <2>2
<1>10. f \in Injection(ids, T)
  <2> HIDE DEF f, T
  <2> QED BY <1>6, <1>9 DEF Injection, IsInjective
<1>11. IsFiniteSet(T) /\ Cardinality(T) = Cardinality(ids)
  BY <1>1, FS_Interval
<1>12. f \in Surjection(ids, T)
  <2> HIDE DEF f, T
  <2> QED BY <1>10, <1>11, FS_Injection
<1> HIDE DEF f
<1>13. f \in Bijection(ids, T)
  BY <1>10, <1>12 DEF Bijection
<1> QED BY <1>1, <1>13 DEF f

\* A page holds the rows whose places are its own.
LEMMA PageHolds ==
  ASSUME RecordsFit, NEW ids \in SUBSET (DOMAIN records), NEW page \in Nat \ {0}
  PROVE  LET rest == Cardinality(ids) - (page - 1) * LandPageSize
         IN Cardinality(RecordsOnPage(ids, page)) =
              IF rest <= 0 THEN 0 ELSE IF rest < LandPageSize THEN rest ELSE LandPageSize
<1> DEFINE n == Cardinality(ids)
           a == (page - 1) * LandPageSize
           b == page * LandPageSize - 1
           f == [id \in ids |-> Cardinality(Ahead(id, ids))]
           last == IF b < n - 1 THEN b ELSE n - 1
           S == RecordsOnPage(ids, page)
           g == [id \in S |-> f[id]]
<1>1. n \in Nat /\ f \in Bijection(ids, 0..(n - 1))
  BY PlacesAreOnce, FS_CardinalityType
<1>2. LandPageSize \in Nat \ {0}
  BY LandAssumption
<1>3. a \in Nat /\ b = a + LandPageSize - 1
  BY <1>2
<1>4. S = {id \in ids : f[id] \in a..b}
  BY DEF RecordsOnPage
<1> HIDE DEF f, n, a, b, S
<1>5. /\ \A id \in ids : f[id] \in 0..(n - 1)
      /\ \A i, j \in ids : f[i] = f[j] => i = j
      /\ \A m \in 0..(n - 1) : \E id \in ids : f[id] = m
  BY <1>1 DEF Bijection, Injection, IsInjective, Surjection
<1>6. S = {id \in ids : f[id] \in a..last}
  BY <1>1, <1>3, <1>2, <1>4, <1>5
<1>7. a..last \subseteq 0..(n - 1)
  BY <1>1, <1>3, <1>2
<1> DEFINE R == a..last
<1>8. g \in Bijection(S, R)
  <2> HIDE DEF R, last
  <2>1. g \in [S -> R]
    BY <1>6 DEF R
  <2>2. \A i, j \in S : g[i] = g[j] => i = j
    BY <1>5, <1>6
  <2>3. \A m \in R : \E id \in S : g[id] = m
    BY <1>5, <1>6, <1>7 DEF R
  <2> HIDE DEF g
  <2> QED BY <2>1, <2>2, <2>3 DEF Bijection, Injection, IsInjective, Surjection
<1>9. last \in Int
  BY <1>1, <1>2, <1>3
<1>10. IsFiniteSet(R) /\ Cardinality(R) = IF a > last THEN 0 ELSE last - a + 1
  <2> HIDE DEF last
  <2> QED BY <1>3, <1>9, FS_Interval
<1>11. IsFiniteSet(S)
  BY <1>6, PlacesAreOnce, FS_Subset
<1>12. Cardinality(S) = Cardinality(R)
  <2> HIDE DEF R, g
  <2> QED BY <1>8, <1>11, FS_Bijection DEF ExistsBijection
<1> HIDE DEF R
<1> QED BY <1>1, <1>2, <1>3, <1>10, <1>12 DEF n, a, S

\* What a page of an unmoved list must hold, it holds.
LEMMA PagesFit ==
  ASSUME RecordsFit, NEW ids \in SUBSET (DOMAIN records), NEW page \in Nat \ {0},
         NEW c, c.total = Cardinality(ids), c.page = page, c.ids = RecordsOnPage(ids, page)
  PROVE  PageFits(c)
<1> DEFINE n == Cardinality(ids)
           rest == n - (page - 1) * LandPageSize
           S == RecordsOnPage(ids, page)
<1>1. n \in Nat /\ IsFiniteSet(ids)
  BY PlacesAreOnce, FS_CardinalityType
<1>2. Cardinality(S) = IF rest <= 0 THEN 0 ELSE IF rest < LandPageSize THEN rest ELSE LandPageSize
  BY PageHolds
<1>3. LandPageSize \in Nat \ {0}
  BY LandAssumption
<1>4. ASSUME n > 0, page <= PageCount(n) PROVE S # {}
  <2> DEFINE q == (n + LandPageSize - 1) \div LandPageSize
             p == page - 1
  <2>1. page <= q
    BY <1>1, <1>4 DEF PageCount
  <2>2. q \in Int /\ q * LandPageSize <= n + LandPageSize - 1
    BY <1>1, <1>3
  <2> HIDE DEF q, n
  <2>3. p \in Nat /\ p + 1 <= q
    BY <2>1
  <2>4. p * LandPageSize + LandPageSize <= q * LandPageSize
    <3>1. \A x, y, z \in Int : x + 1 <= y /\ z > 0 => x * z + z <= y * z
      <4> SUFFICES ASSUME NEW x \in Int, NEW y \in Int, NEW z \in Int, x + 1 <= y, z > 0
                   PROVE  x * z + z <= y * z
        OBVIOUS
      <4>1. (y - (x + 1)) * z >= 0
        OBVIOUS
      <4>2. (y - (x + 1)) * z = y * z - (x * z + z)
        OBVIOUS
      <4>3. x * z \in Int /\ y * z \in Int
        OBVIOUS
      <4> QED BY <4>1, <4>2, <4>3
    <3> HIDE DEF p
    <3> QED BY <3>1, <2>2, <2>3, <1>3
  <2>5. p * LandPageSize \in Int /\ q * LandPageSize \in Int
    BY <2>2, <2>3, <1>3
  <2>6. rest > 0
    <3> HIDE DEF p
    <3>1. n - p * LandPageSize > 0
      BY <2>2, <2>4, <2>5, <1>1, <1>3
    <3> QED BY <3>1 DEF p
  <2>7. Cardinality(S) # 0
    <3> HIDE DEF rest, S
    <3>1. rest \in Int
      BY <1>1, <1>3 DEF rest
    <3> QED BY <1>2, <1>3, <2>6, <3>1
  <2> QED BY <2>7, FS_EmptySet
<1> HIDE DEF n, S
<1> QED BY <1>2, <1>4 DEF PageFits, n, S

\* A form that fits its book makes a row of the table.
LEMMA FormsMakeCells ==
  ASSUME NEW f \in LandForms, FitsBook(f) PROVE Normalized(f) \in Cells
BY DEF Cells

LEMMA LandStarts == LandInit => LandInv
<1> SUFFICES ASSUME LandInit PROVE LandInv
  OBVIOUS
<1> DEFINE fits == {f \in LandForms : FitsBook(f)}
           f0 == CHOOSE f \in fits : TRUE
<1>1. register \in Books /\ landCalls = 0 /\ landCall = [k \in LandClerks |-> AtDesk]
      /\ records = <<Filled(Normalized(f0))>>
  BY DEF LandInit
<1>2. fits # {}
  BY <1>1, LandAssumption DEF Books, FitsBook
<1>3. f0 \in fits
  BY <1>2
<1>4. Normalized(f0) \in Cells
  BY <1>3, FormsMakeCells
<1> HIDE DEF f0, fits
<1>5. IsRecord(Filled(Normalized(f0)))
  BY <1>4 DEF IsRecord, Filled
<1>6. Len(records) = 1 /\ records[1] = Filled(Normalized(f0)) /\ records = [id \in 1..1 |-> records[id]]
  BY <1>1
<1>7. RecordsFit
  BY <1>1, <1>5, <1>6, LandAssumption DEF RecordsFit
<1>8. CallsFit
  BY <1>1 DEF CallsFit, CallFits
<1> QED BY <1>7, <1>8 DEF LandInv

----------------------------------------
(* Every row stays, is edited no fewer times and, once removed, stays so.      *)
RowsGrow == /\ DOMAIN records \subseteq DOMAIN records'
            /\ \A id \in DOMAIN records : /\ records'[id].edits >= records[id].edits
                                          /\ records[id].gone => records'[id].gone

LEMMA CellsStay == ASSUME UNCHANGED register PROVE Cells' = Cells
BY DEF Cells, FitsBook, Normalized

\* A request that waits fits the rows whatever others write, once a list that has
\* counted knows that it is moved.
LEMMA CallsStay ==
  ASSUME RecordsFit, RecordsFit', UNCHANGED register, RowsGrow, NEW c, CallFits(c), c.at # "select"
  PROVE  CallFits(c)'
<1>1. Cells' = Cells
  BY CellsStay
<1>2. c.at = "reread" /\ c.id \in DOMAIN records /\ c.version \in Nat
        /\ c.version <= records[c.id].edits => c.version <= records'[c.id].edits
  <2>1. DOMAIN records = 1..Len(records)
    BY DEF RecordsFit
  <2>2. DOMAIN records' = 1..Len(records')
    BY DEF RecordsFit
  <2>3. \A id \in DOMAIN records : records[id].edits \in Nat
    BY <2>1 DEF RecordsFit, IsRecord
  <2>4. \A id \in DOMAIN records' : records'[id].edits \in Nat
    BY <2>2 DEF RecordsFit, IsRecord
  <2> QED BY <2>3, <2>4 DEF RowsGrow
<1> QED BY <1>1, <1>2 DEF CallFits, RowsGrow, PageFits, AtDesk

LEMMA MovedFits ==
  ASSUME NEW c, CallFits(c), c.at = "select", NEW d, d = [c EXCEPT !.moved = TRUE]
  PROVE  CallFits(d)'
<1>1. /\ c = [at |-> "select", search |-> c.search, page |-> c.page, total |-> c.total, moved |-> c.moved]
      /\ c.page \in Nat \ {0}
  BY DEF CallFits, AtDesk
<1>2. /\ d = [at |-> "select", search |-> d.search, page |-> d.page, total |-> d.total, moved |-> d.moved]
      /\ d.page = c.page /\ d.moved = TRUE
  BY <1>1
<1> QED BY <1>1, <1>2 DEF CallFits

\* A write of one request leaves the others in their place.
LEMMA WritesLeaveOthers ==
  ASSUME LandInv, RecordsFit', UNCHANGED register, RowsGrow,
         NEW k \in LandClerks, NEW next, CallFits(next)', Wrote(k, next)
  PROVE  CallsFit'
<1>1. landCall' = [q \in LandClerks |->
        IF q = k THEN next ELSE IF landCall[q].at = "select" THEN [landCall[q] EXCEPT !.moved = TRUE]
        ELSE landCall[q]]
  BY DEF Wrote
<1>2. landCall' = [q \in LandClerks |-> landCall'[q]]
  BY <1>1
<1>3. ASSUME NEW q \in LandClerks PROVE CallFits(landCall[q]) 
  BY DEF LandInv, CallsFit
<1>4. ASSUME NEW q \in LandClerks PROVE CallFits(landCall[q])'
  <2>1. PICK c : c = landCall[q]
    OBVIOUS
  <2>2. CallFits(c)
    BY <2>1, <1>3
  <2>3. CASE q = k
    <3>1. landCall'[q] = next
      BY <1>1, <2>3
    <3> QED BY <3>1 DEF CallFits
  <2>4. CASE q # k /\ c.at = "select"
    <3>1. landCall'[q] = [c EXCEPT !.moved = TRUE]
      BY <1>1, <2>1, <2>4
    <3>2. PICK d : d = [c EXCEPT !.moved = TRUE]
      OBVIOUS
    <3>3. CallFits(d)'
      BY <3>2, <2>2, <2>4, MovedFits
    <3> QED BY <3>1, <3>2, <3>3 DEF CallFits
  <2>5. CASE q # k /\ c.at # "select"
    <3>1. landCall'[q] = c
      BY <1>1, <2>1, <2>5
    <3>2. CallFits(c)'
      BY <2>2, <2>5, CallsStay DEF LandInv
    <3> QED BY <3>1, <3>2 DEF CallFits
  <2> QED BY <2>3, <2>4, <2>5
<1> QED BY <1>2, <1>4 DEF CallsFit

\* A request that does not write goes on alone.
LEMMA OneGoesOn ==
  ASSUME LandInv, UNCHANGED <<register, records>>, NEW k \in LandClerks, NEW next, CallFits(next),
         landCall' = [landCall EXCEPT ![k] = next], landCalls' \in 0..MaxLandCalls
  PROVE  LandInv'
<1>1. RecordsFit'
  <2>1. Cells' = Cells
    BY CellsStay
  <2> QED BY <2>1 DEF LandInv, RecordsFit, IsRecord
<1>2. \A c : CallFits(c) => CallFits(c)'
  <2>1. Cells' = Cells
    BY CellsStay
  <2>2. \A search : Found(search)' = Found(search)
    BY DEF Found, OnFile
  <2> QED BY <2>1, <2>2 DEF CallFits, PageFits
<1>3. landCall' = [q \in LandClerks |-> landCall'[q]]
  BY DEF LandInv, CallsFit
<1>4. ASSUME NEW q \in LandClerks PROVE CallFits(landCall[q])'
  <2>1. PICK c : c = landCall'[q]
    OBVIOUS
  <2>2. CallFits(landCall[q])
    BY DEF LandInv, CallsFit
  <2>3. c = IF q = k THEN next ELSE landCall[q]
    BY <2>1 DEF LandInv, CallsFit
  <2>4. CallFits(c)
    BY <2>2, <2>3
  <2>5. CallFits(c)'
    BY <1>2, <2>4
  <2> QED BY <2>1, <2>5 DEF CallFits
<1> QED BY <1>1, <1>3, <1>4 DEF LandInv, CallsFit

LEMMA InsertsFit ==
  ASSUME LandInv, NEW k \in LandClerks, NEW f \in LandForms, Insert(k, f) PROVE LandInv'
<1> DEFINE n == Len(records) + 1
<1> USE DEF LandInv
<1>1. PICK r : r = Filled(Normalized(f))
  OBVIOUS
<1>2. /\ records' = Append(records, r) /\ UNCHANGED register /\ landCalls' = landCalls + 1
      /\ landCalls < MaxLandCalls /\ Len(records) < MaxLandRows /\ FitsBook(f)
      /\ Wrote(k, [at |-> "reread", id |-> n, version |-> 1])
  BY <1>1 DEF Insert
<1>3. IsRecord(r) /\ r.edits = 1
  BY <1>1, <1>2, FormsMakeCells DEF IsRecord, Filled
<1>4. /\ Len(records) \in Nat /\ DOMAIN records = 1..Len(records)
      /\ records = [id \in 1..Len(records) |-> records[id]]
  BY DEF RecordsFit
<1>5. /\ Len(records') = n /\ records' = [id \in 1..n |-> records'[id]] /\ records'[n] = r
      /\ DOMAIN records' = 1..n
      /\ \A id \in DOMAIN records : records'[id] = records[id]
  <2> DEFINE S == {records[i] : i \in 1..Len(records)} \cup {r}
  <2>1. records \in Seq(S) /\ r \in S
    BY <1>4
  <2> HIDE DEF S
  <2>2. /\ Append(records, r) \in Seq(S) /\ Len(Append(records, r)) = n
        /\ \A i \in 1..Len(records) : Append(records, r)[i] = records[i]
        /\ Append(records, r)[n] = r
    BY <2>1, AppendProperties
  <2>3. records' \in Seq(S) /\ Len(records') = n
    BY <1>2, <2>1, <2>2
  <2>4. DOMAIN records' = 1..n /\ records' = [id \in 1..n |-> records'[id]]
    BY <2>3
  <2> QED BY <1>2, <1>4, <2>2, <2>3, <2>4
<1>6. RecordsFit'
  <2>1. Cells' = Cells
    BY <1>2, CellsStay
  <2>2. \A id \in 1..n : IsRecord(records'[id])
    BY <1>3, <1>4, <1>5 DEF RecordsFit
  <2>3. n \in 1..MaxLandRows /\ landCalls' \in 0..MaxLandCalls
    BY <1>2, <1>4, LandAssumption DEF RecordsFit
  <2> QED BY <1>2, <1>5, <2>1, <2>2, <2>3 DEF RecordsFit, IsRecord
<1>7. RowsGrow
  BY <1>4, <1>5 DEF RowsGrow, RecordsFit, IsRecord
<1>8. PICK next : next = [at |-> "reread", id |-> n, version |-> 1]
  OBVIOUS
<1>9. CallFits(next)'
  <2>1. n \in DOMAIN records' /\ records'[n].edits = 1
    BY <1>3, <1>4, <1>5
  <2> HIDE DEF n
  <2> QED BY <1>8, <2>1 DEF CallFits
<1>10. Wrote(k, next)
  BY <1>2, <1>8
<1>11. CallsFit'
  BY <1>2, <1>6, <1>7, <1>9, <1>10, WritesLeaveOthers
<1> QED BY <1>6, <1>11

\* A statement that changes one row: what it leaves of the row is a row as new.
LEMMA RowsChange ==
  ASSUME LandInv, UNCHANGED <<register, landCalls>>, NEW id \in DOMAIN records, NEW r, IsRecord(r),
         records' = [records EXCEPT ![id] = r], r.edits >= records[id].edits,
         records[id].gone => r.gone
  PROVE  RecordsFit' /\ RowsGrow
<1> USE DEF LandInv
<1>1. /\ Len(records) \in Nat /\ DOMAIN records = 1..Len(records)
      /\ records = [i \in 1..Len(records) |-> records[i]]
  BY DEF RecordsFit
<1>2. records' = [i \in 1..Len(records) |-> IF i = id THEN r ELSE records[i]]
  BY <1>1
<1>3. Len(records') = Len(records) /\ DOMAIN records' = 1..Len(records)
  BY <1>1, <1>2
<1>4. \A i \in 1..Len(records) : IsRecord(records'[i])
  BY <1>2 DEF RecordsFit
<1>5. Cells' = Cells
  BY CellsStay
<1>6. records' = [i \in 1..Len(records) |-> records'[i]]
  BY <1>2
<1>7. RecordsFit'
  BY <1>3, <1>4, <1>5, <1>6 DEF RecordsFit, IsRecord
<1>8. \A i \in 1..Len(records) : records[i].edits \in Nat
  BY DEF RecordsFit, IsRecord
<1>9. RowsGrow
  BY <1>1, <1>2, <1>3, <1>8 DEF RowsGrow
<1> QED BY <1>7, <1>9

\* Nothing changes in the table.
LEMMA RowsStay ==
  ASSUME LandInv, UNCHANGED <<register, landCalls, records>> PROVE RecordsFit' /\ RowsGrow
<1>1. Cells' = Cells
  BY CellsStay
<1>2. \A id \in DOMAIN records : records[id].edits \in Nat
  BY DEF LandInv, RecordsFit, IsRecord
<1> QED BY <1>1, <1>2 DEF LandInv, RecordsFit, IsRecord, RowsGrow

LEMMA LandWritesFit ==
  ASSUME LandInv, NEW k \in LandClerks, WriteRecord(k) PROVE LandInv'
<1> USE DEF LandInv
<1>1. PICK c : c = landCall[k]
  OBVIOUS
<1>2. /\ c = [at |-> "write", id |-> c.id, cells |-> c.cells]
      /\ c.id \in DOMAIN records /\ c.cells \in Cells
  BY <1>1 DEF WriteRecord, CallsFit, CallFits, AtDesk
<1>3. PICK id \in DOMAIN records : id = c.id
  BY <1>2
<1>4. PICK v : v = IF OnFile(id) THEN records[id].edits + 1 ELSE records[id].edits
  OBVIOUS
<1>5. /\ UNCHANGED <<register, landCalls>>
      /\ records' = IF OnFile(id) THEN [records EXCEPT ![id].cells = c.cells, ![id].edits = @ + 1]
                    ELSE records
      /\ Wrote(k, [at |-> "reread", id |-> id, version |-> v])
  BY <1>1, <1>3, <1>4 DEF WriteRecord
<1>6. IsRecord(records[id])
  BY DEF RecordsFit
<1>7. RecordsFit' /\ RowsGrow /\ records'[id].edits = v /\ v \in Nat
  <2>1. CASE OnFile(id)
    <3>1. PICK r : r = [cells |-> c.cells, edits |-> records[id].edits + 1, gone |-> records[id].gone,
                        editsWhenGone |-> records[id].editsWhenGone]
      OBVIOUS
    <3>2. [records[id] EXCEPT !.cells = c.cells, !.edits = @ + 1] = r
      <4>1. PICK old : old = records[id]
        OBVIOUS
      <4> DEFINE t == [old EXCEPT !.cells = c.cells, !.edits = @ + 1]
      <4>2. PICK a, b, g, w : old = [cells |-> a, edits |-> b, gone |-> g, editsWhenGone |-> w]
        <5>1. IsRecord(old)
          BY <4>1, <1>6
        <5> QED BY <5>1 DEF IsRecord
      <4>3. old.cells = a /\ old.edits = b /\ old.gone = g /\ old.editsWhenGone = w
        BY <4>2
      <4>4. /\ DOMAIN t = {"cells", "edits", "gone", "editsWhenGone"} /\ t = [i \in DOMAIN t |-> t[i]]
            /\ t.cells = c.cells /\ t.edits = b + 1 /\ t.gone = g /\ t.editsWhenGone = w
        BY <4>2, <4>3
      <4>5. t = [cells |-> t.cells, edits |-> t.edits, gone |-> t.gone, editsWhenGone |-> t.editsWhenGone]
        <5> HIDE DEF t
        <5> QED BY <4>4
      <4>6. r = [cells |-> c.cells, edits |-> b + 1, gone |-> g, editsWhenGone |-> w]
        BY <3>1, <4>1, <4>3
      <4>7. t = r
        <5> HIDE DEF t
        <5> QED BY <4>4, <4>5, <4>6
      <4> QED BY <4>1, <4>7
    <3>3. records' = [records EXCEPT ![id] = r]
      BY <1>5, <2>1, <3>2
    <3>4. IsRecord(r) /\ r.edits = v /\ v >= records[id].edits /\ v \in Nat /\ ~records[id].gone
      BY <1>2, <1>4, <1>6, <2>1, <3>1 DEF IsRecord, OnFile
    <3>5. records'[id] = r
      BY <3>3
    <3> QED BY <1>5, <3>3, <3>4, <3>5, RowsChange
  <2>2. CASE ~OnFile(id)
    BY <1>4, <1>5, <1>6, <2>2, RowsStay DEF IsRecord
  <2> QED BY <2>1, <2>2
<1>8. PICK next : next = [at |-> "reread", id |-> id, version |-> v]
  OBVIOUS
<1>9. CallFits(next)'
  <2>1. id \in DOMAIN records'
    BY <1>7 DEF RowsGrow
  <2> QED BY <1>7, <1>8, <2>1 DEF CallFits
<1>10. CallsFit'
  BY <1>5, <1>7, <1>8, <1>9, WritesLeaveOthers
<1> QED BY <1>7, <1>10

LEMMA StampsFit ==
  ASSUME LandInv, NEW k \in LandClerks, StampDeleted(k) PROVE LandInv'
<1> USE DEF LandInv
<1>1. PICK c : c = landCall[k]
  OBVIOUS
<1>2. c = [at |-> "stamp", id |-> c.id] /\ c.id \in DOMAIN records
  BY <1>1 DEF StampDeleted, CallsFit, CallFits, AtDesk
<1>3. PICK id \in DOMAIN records : id = c.id
  BY <1>2
<1>4. /\ UNCHANGED <<register, landCalls>>
      /\ records' = IF OnFile(id)
                    THEN [records EXCEPT ![id].gone = TRUE, ![id].editsWhenGone = records[id].edits]
                    ELSE records
      /\ Wrote(k, AtDesk)
  BY <1>1, <1>3 DEF StampDeleted
<1>5. IsRecord(records[id])
  BY DEF RecordsFit
<1>6. RecordsFit' /\ RowsGrow
  <2>1. CASE OnFile(id)
    <3>1. PICK r : r = [cells |-> records[id].cells, edits |-> records[id].edits, gone |-> TRUE,
                        editsWhenGone |-> records[id].edits]
      OBVIOUS
    <3>2. [records[id] EXCEPT !.gone = TRUE, !.editsWhenGone = records[id].edits] = r
      <4>1. PICK old : old = records[id]
        OBVIOUS
      <4> DEFINE t == [old EXCEPT !.gone = TRUE, !.editsWhenGone = old.edits]
      <4>2. PICK a, b, g, w : old = [cells |-> a, edits |-> b, gone |-> g, editsWhenGone |-> w]
        <5>1. IsRecord(old)
          BY <4>1, <1>5
        <5> QED BY <5>1 DEF IsRecord
      <4>3. old.cells = a /\ old.edits = b /\ old.gone = g /\ old.editsWhenGone = w
        BY <4>2
      <4>4. /\ DOMAIN t = {"cells", "edits", "gone", "editsWhenGone"} /\ t = [i \in DOMAIN t |-> t[i]]
            /\ t.cells = a /\ t.edits = b /\ t.gone = TRUE /\ t.editsWhenGone = b
        BY <4>2, <4>3
      <4>5. t = [cells |-> t.cells, edits |-> t.edits, gone |-> t.gone, editsWhenGone |-> t.editsWhenGone]
        <5> HIDE DEF t
        <5> QED BY <4>4
      <4>6. r = [cells |-> a, edits |-> b, gone |-> TRUE, editsWhenGone |-> b]
        BY <3>1, <4>1, <4>3
      <4>7. t = r
        <5> HIDE DEF t
        <5> QED BY <4>4, <4>5, <4>6
      <4> QED BY <4>1, <4>7
    <3>3. records' = [records EXCEPT ![id] = r]
      BY <1>4, <2>1, <3>2
    <3>4. IsRecord(r) /\ r.edits >= records[id].edits /\ r.gone
      BY <1>5, <3>1 DEF IsRecord
    <3> QED BY <1>4, <3>3, <3>4, RowsChange
  <2>2. CASE ~OnFile(id)
    BY <1>4, <2>2, RowsStay
  <2> QED BY <2>1, <2>2
<1>7. PICK next : next = AtDesk
  OBVIOUS
<1>8. CallFits(next)'
  BY <1>7 DEF CallFits
<1>9. CallsFit'
  BY <1>4, <1>6, <1>7, <1>8, WritesLeaveOthers
<1> QED BY <1>6, <1>9

\* The steps that only read: each is followed by the answer it read.
LEMMA LandReadsFit ==
  ASSUME LandInv, NEW k \in LandClerks, ReadBack(k) \/ SelectRows(k) \/ AnswerClerk(k) PROVE LandInv'
<1>1. PICK c : c = landCall[k]
  OBVIOUS
<1>2. CallFits(c) /\ landCalls \in 0..MaxLandCalls /\ RecordsFit
  BY <1>1 DEF LandInv, CallsFit, RecordsFit
<1>3. CASE ReadBack(k)
  <2>1. /\ c = [at |-> "reread", id |-> c.id, version |-> c.version]
        /\ c.id \in DOMAIN records /\ c.version \in Nat /\ c.version <= records[c.id].edits
    BY <1>1, <1>2, <1>3 DEF ReadBack, CallFits, AtDesk
  <2>2. PICK id \in DOMAIN records : id = c.id
    BY <2>1
  <2>3. PICK next : next = [at |-> "saved", id |-> id, version |-> c.version, seen |-> records[id].edits,
                            body |-> IF OnFile(id) THEN Dto(records[id]) ELSE NoRecord]
    OBVIOUS
  <2>4. landCall' = [landCall EXCEPT ![k] = next] /\ UNCHANGED <<register, records, landCalls>>
    BY <1>1, <1>3, <2>2, <2>3 DEF ReadBack
  <2>5. \A r : Dto(r) # NoRecord
    BY DEF Dto, toGaothanDto, toSurveyDto, toPaperDto, NoRecord
  <2>6. next.body = NoRecord => records[id].gone
    <3>1. next.body = NoRecord => ~OnFile(id)
      BY <2>3, <2>5
    <3> QED BY <3>1 DEF OnFile
  <2>7. records[id].edits \in Nat
    BY <1>2 DEF RecordsFit, IsRecord
  <2>8. CallFits(next)
    BY <2>1, <2>2, <2>3, <2>6, <2>7 DEF CallFits
  <2> QED BY <1>2, <2>4, <2>8, OneGoesOn
<1>4. CASE SelectRows(k)
  <2>1. /\ c.page \in Nat \ {0}
        /\ ~c.moved => c.total = Cardinality(Found(c.search))
    BY <1>1, <1>2, <1>4 DEF SelectRows, CallFits, AtDesk
  <2>2. PICK next : next = [at |-> "listed", page |-> c.page, total |-> c.total, moved |-> c.moved,
                            ids |-> RecordsOnPage(Found(c.search), c.page)]
    OBVIOUS
  <2>3. landCall' = [landCall EXCEPT ![k] = next] /\ UNCHANGED <<register, records, landCalls>>
    BY <1>1, <1>4, <2>2 DEF SelectRows
  <2>4. Found(c.search) \in SUBSET (DOMAIN records)
    BY DEF Found
  <2>5. ~next.moved => PageFits(next)
    BY <1>2, <2>1, <2>2, <2>4, PagesFit
  <2>6. CallFits(next)
    BY <2>2, <2>5 DEF CallFits
  <2> QED BY <1>2, <2>3, <2>6, OneGoesOn
<1>5. CASE AnswerClerk(k)
  <2>1. PICK next : next = AtDesk
    OBVIOUS
  <2>2. landCall' = [landCall EXCEPT ![k] = next] /\ UNCHANGED <<register, records, landCalls>>
    BY <1>5, <2>1 DEF AnswerClerk
  <2>3. CallFits(next)
    BY <2>1 DEF CallFits
  <2> QED BY <1>2, <2>2, <2>3, OneGoesOn
<1> QED BY <1>3, <1>4, <1>5

\* A request begins by looking a row up, or by counting.
LEMMA LandOpensFit ==
  ASSUME LandInv, NEW k \in LandClerks,
         \/ \E f \in LandForms, id \in DOMAIN records : LookUpRecord(k, id, f)
         \/ \E id \in DOMAIN records : LookUpToDelete(k, id)
         \/ \E search : \E page \in Nat \ {0} : CountRecords(k, search, page)
  PROVE  LandInv'
<1>1. ASSUME NEW next, CallFits(next), Opens(k, next), UNCHANGED <<register, records>>
      PROVE  LandInv'
  <2>1. landCalls' \in 0..MaxLandCalls
    BY <1>1, LandAssumption DEF Opens, LandInv, RecordsFit
  <2> QED BY <1>1, <2>1, OneGoesOn DEF Opens
<1>2. ASSUME NEW f \in LandForms, NEW id \in DOMAIN records, LookUpRecord(k, id, f) PROVE LandInv'
  <2>1. PICK next : next = [at |-> "write", id |-> id, cells |-> Normalized(f)]
    OBVIOUS
  <2>2. CallFits(next)
    BY <1>2, <2>1, FormsMakeCells DEF CallFits, LookUpRecord
  <2> QED BY <1>1, <1>2, <2>1, <2>2 DEF LookUpRecord
<1>3. ASSUME NEW id \in DOMAIN records, LookUpToDelete(k, id) PROVE LandInv'
  <2>1. PICK next : next = [at |-> "stamp", id |-> id]
    OBVIOUS
  <2>2. CallFits(next)
    BY <2>1 DEF CallFits
  <2> QED BY <1>1, <1>3, <2>1, <2>2 DEF LookUpToDelete
<1>4. ASSUME NEW search, NEW page \in Nat \ {0}, CountRecords(k, search, page) PROVE LandInv'
  <2>1. PICK next : next = [at |-> "select", search |-> search, page |-> page,
                            total |-> Cardinality(Found(search)), moved |-> FALSE]
    OBVIOUS
  <2>2. CallFits(next)
    BY <2>1 DEF CallFits
  <2> QED BY <1>1, <1>4, <2>1, <2>2 DEF CountRecords
<1> QED BY <1>2, <1>3, <1>4

LEMMA LandSteps == LandInv /\ (LandNext \/ UNCHANGED landVars) => LandInv'
<1> SUFFICES ASSUME LandInv, LandNext \/ UNCHANGED landVars PROVE LandInv'
  OBVIOUS
<1>1. ASSUME NEW k \in LandClerks, LandRequest(k) PROVE LandInv'
  <2>1. ASSUME NEW f \in LandForms, Insert(k, f) PROVE LandInv'
    BY <2>1, InsertsFit
  <2>2. \A f \in LandForms : createGaothan(k, f) \/ createSurvey(k, f) \/ createPaperNotice(k, f)
          => Insert(k, f)
    BY DEF createGaothan, createSurvey, createPaperNotice
  <2>3. \A f \in LandForms : \A id \in DOMAIN records :
          updateGaothan(k, id, f) \/ updateSurvey(k, id, f) \/ updatePaperNotice(k, id, f)
          => LookUpRecord(k, id, f)
    BY DEF updateGaothan, updateSurvey, updatePaperNotice
  <2>4. \A id \in DOMAIN records :
          deleteGaothan(k, id) \/ deleteSurvey(k, id) \/ deletePaperNotice(k, id) => LookUpToDelete(k, id)
    BY DEF deleteGaothan, deleteSurvey, deletePaperNotice
  <2>5. \A search : \A page \in 1..2 :
          listGaothan(k, search, page) \/ listSurvey(k, search, page) \/ listPaperNotice(k, search, page)
          => CountRecords(k, search, page) /\ page \in Nat \ {0}
    BY DEF listGaothan, listSurvey, listPaperNotice
  <2>6. \/ \E f \in LandForms : Insert(k, f)
        \/ \E f \in LandForms, id \in DOMAIN records : LookUpRecord(k, id, f)
        \/ \E id \in DOMAIN records : LookUpToDelete(k, id)
        \/ \E search : \E page \in Nat \ {0} : CountRecords(k, search, page)
    <3>1. CASE \E f \in LandForms :
                 createGaothan(k, f) \/ createSurvey(k, f) \/ createPaperNotice(k, f)
      BY <3>1, <2>2
    <3>2. CASE \E f \in LandForms, id \in DOMAIN records :
                 updateGaothan(k, id, f) \/ updateSurvey(k, id, f) \/ updatePaperNotice(k, id, f)
      BY <3>2, <2>3
    <3>3. CASE \E id \in DOMAIN records :
                 deleteGaothan(k, id) \/ deleteSurvey(k, id) \/ deletePaperNotice(k, id)
      BY <3>3, <2>4
    <3>4. CASE \E search : \E page \in 1..2 : listGaothan(k, search, page)
                 \/ listSurvey(k, search, page) \/ listPaperNotice(k, search, page)
      BY <3>4, <2>5
    <3> QED BY <1>1, <3>1, <3>2, <3>3, <3>4, Zenon DEF LandRequest
  <2> QED BY <2>1, <2>6, LandOpensFit
<1>2. ASSUME UNCHANGED landVars PROVE LandInv'
  <2>1. Cells' = Cells
    BY <1>2, CellsStay DEF landVars
  <2>2. \A search : Found(search)' = Found(search)
    BY <1>2 DEF Found, OnFile, landVars
  <2>3. \A c : CallFits(c) => CallFits(c)'
    BY <1>2, <2>1, <2>2 DEF CallFits, PageFits, landVars
  <2>4. \A k \in LandClerks : CallFits(landCall[k])'
    <3> SUFFICES ASSUME NEW k \in LandClerks PROVE CallFits(landCall[k])'
      OBVIOUS
    <3>1. PICK c : c = landCall[k]
      OBVIOUS
    <3>2. CallFits(c)'
      BY <2>3, <3>1 DEF LandInv, CallsFit
    <3> QED BY <1>2, <3>1, <3>2 DEF CallFits, landVars
  <2> QED BY <1>2, <2>1, <2>4 DEF LandInv, RecordsFit, IsRecord, CallsFit, landVars
<1> QED BY <1>1, <1>2, LandWritesFit, StampsFit, LandReadsFit DEF LandNext

LEMMA LandHolds == LandInv => LandSound
<1> SUFFICES ASSUME LandInv PROVE LandSound
  OBVIOUS
<1> USE DEF LandInv
<1>1. DOMAIN records = 1..Len(records)
  BY DEF RecordsFit
<1>2. LandTypeOK
  BY <1>1 DEF LandTypeOK, RecordsFit, IsRecord
<1>3. RemovedStays
  BY <1>1 DEF RemovedStays, RecordsFit, IsRecord
<1>4. WholeForm
  BY <1>1 DEF WholeForm, RecordsFit, IsRecord, Cells
<1>5. AnswersCurrent
  BY DEF AnswersCurrent, CallsFit, CallFits, AtDesk
<1>6. PagesAddUp
  BY DEF PagesAddUp, CallsFit, CallFits, AtDesk, PageFits
<1> QED BY <1>2, <1>3, <1>4, <1>5, <1>6 DEF LandSound

----------------------------------------
(* Lists read page by page.  A row's rank is the number of rows of the list    *)
(* that come before it: a page shows the ranks that are its own, and while no  *)
(* row enters the list no rank grows, so what was shown stays behind.          *)

RowsFit == /\ DOMAIN listed = Stock /\ date \in Int
           /\ \A i \in Stock : listed[i] = Missing \/ IsRow(listed[i])

ListKinds == Tables \cup {"public", "crm"}

\* i comes before j whatever the statement returns; of two created at once
\* neither does.
ComesFirst(list, i, j) == ~NotAfter(list, j, i)
Earlier(list, f, j) == {i \in Matching(list, f) : ComesFirst(list, i, j)}
InLine(list, f) ==
  \A i, j \in Matching(list, f) : i # j => ComesFirst(list, i, j) \/ ComesFirst(list, j, i)

\* Lists are finite, of rows that fit.
LEMMA MatchingFits ==
  ASSUME RowsFit, NEW list \in ListKinds, NEW f
  PROVE  /\ Matching(list, f) \subseteq Stock /\ IsFiniteSet(Matching(list, f))
         /\ \A i \in Matching(list, f) : IsRow(listed[i]) /\ listed[i] # Missing
<1> DEFINE S == Matching(list, f)
<1>1. S \subseteq Stock /\ \A i \in S : listed[i] # Missing
  BY DEF Matching, Live, ListKinds, Tables
<1>2. IsFiniteSet(S)
  BY <1>1, CatalogueAssumption, FS_Subset
<1> QED BY <1>1, <1>2 DEF RowsFit

\* An order that a statement may return has every row of the list once.
LEMMA OrdersAre ==
  ASSUME NEW list, NEW S, IsFiniteSet(S), NEW s \in Orders(list, S)
  PROVE  /\ Cardinality(S) \in Nat
         /\ s \in Seq(S) /\ Len(s) = Cardinality(S)
         /\ \A m, n \in 1..Len(s) : m # n => s[m] # s[n]
         /\ \A i \in S : \E m \in 1..Len(s) : s[m] = i
         /\ \A m, n \in 1..Len(s) : m < n => NotAfter(list, s[m], s[n])
<1> DEFINE n == Cardinality(S)
           T == 1..n
<1>1. n \in Nat /\ IsFiniteSet(T) /\ Cardinality(T) = n
  BY FS_CardinalityType, FS_Interval
<1>2. s \in [1..n -> S] /\ \A p, q \in 1..n : p # q => s[p] # s[q]
  BY DEF Orders, SetToSeqs
<1>3. s \in Seq(S) /\ Len(s) = n
  BY <1>1, <1>2
<1>4. s \in Injection(T, S)
  BY <1>2 DEF Injection, IsInjective
<1>5. s \in Surjection(T, S)
  <2> HIDE DEF T
  <2> QED BY <1>1, <1>4, FS_Injection
<1>6. \A i \in S : \E m \in 1..n : s[m] = i
  BY <1>5 DEF Surjection
<1>7. \A p, q \in 1..Len(s) : p < q => NotAfter(list, s[p], s[q])
  BY DEF Orders
<1> QED BY <1>1, <1>2, <1>3, <1>6, <1>7

\* What a page is: the rows in the places that are its own.
LEMMA PageIs ==
  ASSUME NEW S, NEW s \in Seq(S), NEW page \in Nat \ {0}, NEW size \in Nat
  PROVE  /\ PageRows(s, page, size) \in Seq(S)
         /\ Len(PageRows(s, page, size)) <= size
         /\ \A k \in 1..Len(PageRows(s, page, size)) :
              /\ (page - 1) * size + k \in 1..Len(s) /\ (page - 1) * size + k <= page * size
              /\ PageRows(s, page, size)[k] = s[(page - 1) * size + k]
<1> DEFINE a == (page - 1) * size
           b == IF page * size < Len(s) THEN page * size ELSE Len(s)
           P == [k \in 1..(1 + b - (a + 1)) |-> s[k + (a + 1) - 1]]
<1>1. a \in Nat /\ page * size = a + size /\ size \in Nat /\ Len(s) \in Nat
  OBVIOUS
<1>2. PageRows(s, page, size) = SubSeq(s, a + 1, b)
  BY DEF PageRows
<1> HIDE DEF a
<1>3. b \in Nat /\ b <= Len(s) /\ b <= a + size
  BY <1>1
<1> HIDE DEF b
<1> DEFINE Q == SubSeq(s, a + 1, b)
<1>4. /\ Q \in Seq(S) /\ Len(Q) = IF a + 1 <= b THEN b - a ELSE 0
      /\ \A k \in 1..Len(Q) : Q[k] = s[a + k]
  <2>1. \A i \in a + 1 .. b : i \in 1..Len(s) /\ s[i] \in S
    BY <1>1, <1>3
  <2>2. /\ Q \in Seq(S) /\ Len(Q) = IF a + 1 <= b THEN b - (a + 1) + 1 ELSE 0
        /\ \A k \in 1..b - (a + 1) + 1 : Q[k] = s[a + 1 + k - 1]
    BY <1>1, <1>3, <2>1, SubSeqProperties
  <2> QED BY <1>1, <1>3, <2>2
<1> HIDE DEF Q
<1>5. Len(Q) <= size /\ \A k \in 1..Len(Q) : a + k \in 1..Len(s) /\ a + k <= a + size
  BY <1>1, <1>3, <1>4
<1> QED BY <1>1, <1>2, <1>4, <1>5 DEF a, Q

\* The order of a list is one of distinct rows: strict, and whole but for
\* enquiries created at once.
LEMMA OrderFits ==
  ASSUME RowsFit, NEW list \in ListKinds, NEW f
  PROVE  /\ \A i \in Matching(list, f) : ~ComesFirst(list, i, i)
         /\ list # "crm" \/ ~Ties => InLine(list, f)
<1> DEFINE S == Matching(list, f)
<1>1. \A i \in S : /\ i \in Int /\ listed[i].title \in Int /\ listed[i].approvedOn \in Int
                   /\ listed[i].born \in Int
  <2>1. \A i \in S : i \in Stock /\ IsRow(listed[i])
    BY MatchingFits
  <2>2. \A i \in Stock : i \in Int
    BY CatalogueAssumption
  <2> QED BY <2>1, <2>2 DEF IsRow
<1>2. list = "crm" => S = Live("enquiry")
  BY DEF Matching
<1> HIDE DEF S
<1>3. \A i \in S : ~ComesFirst(list, i, i)
  BY <1>1 DEF ComesFirst, NotAfter, Before
<1>4. CASE list = "crm" /\ ~Ties
  <2>1. \A i, j \in S : i # j => listed[i].born # listed[j].born
    BY <1>2, <1>4 DEF Ties
  <2> QED BY <1>1, <1>3, <1>4, <2>1 DEF InLine, ComesFirst, NotAfter, S
<1>5. CASE list # "crm"
  BY <1>1, <1>3, <1>5 DEF InLine, ComesFirst, NotAfter, Before, S
<1> QED BY <1>3, <1>4, <1>5 DEF S

\* The rank of the row in a place is less than the place, and no other than the
\* place's own where the order is whole.
LEMMA RanksAre ==
  ASSUME RowsFit, NEW list \in ListKinds, NEW f, NEW s \in Orders(list, Matching(list, f)),
         NEW p \in 1..Len(s)
  PROVE  /\ Cardinality(Earlier(list, f, s[p])) \in Nat
         /\ Cardinality(Earlier(list, f, s[p])) <= p - 1
         /\ InLine(list, f) => Cardinality(Earlier(list, f, s[p])) = p - 1
<1> DEFINE S == Matching(list, f)
           D == 1..(p - 1)
           T == {s[m] : m \in D}
           g == [m \in D |-> s[m]]
           E == Earlier(list, f, s[p])
<1>0. /\ s \in Seq(S) /\ p \in Nat \ {0} /\ Len(s) \in Nat /\ p <= Len(s)
      /\ \A m, n \in 1..Len(s) : m # n => s[m] # s[n]
      /\ \A i \in S : \E m \in 1..Len(s) : s[m] = i
      /\ \A m, n \in 1..Len(s) : m < n => NotAfter(list, s[m], s[n])
  BY MatchingFits, OrdersAre
<1>1. IsFiniteSet(D) /\ Cardinality(D) = p - 1
  <2> DEFINE q == p - 1
  <2>1. 1 \in Int /\ q \in Int /\ q >= 0
    BY <1>0
  <2> HIDE DEF q
  <2>2. IsFiniteSet(1..q) /\ Cardinality(1..q) = IF 1 > q THEN 0 ELSE q - 1 + 1
    BY <2>1, FS_Interval
  <2>3. Cardinality(1..q) = q
    BY <2>1, <2>2
  <2> QED BY <2>2, <2>3 DEF q
<1>2. \A m \in D : m \in 1..Len(s) /\ m < p
  BY <1>0
<1> HIDE DEF D
<1>3. g \in Bijection(D, T)
  <2>1. g \in [D -> T] /\ \A m, n \in D : g[m] = g[n] => m = n
    BY <1>0, <1>2
  <2>2. \A i \in T : \E m \in D : g[m] = i
    OBVIOUS
  <2> HIDE DEF g, T
  <2> QED BY <2>1, <2>2 DEF Bijection, Injection, IsInjective, Surjection
<1>4. IsFiniteSet(T) /\ Cardinality(T) = p - 1
  BY <1>1, <1>3, FS_Bijection DEF ExistsBijection
<1>5. E \subseteq T
  <2> SUFFICES ASSUME NEW i \in E PROVE i \in T
    OBVIOUS
  <2>1. i \in S /\ ComesFirst(list, i, s[p])
    BY DEF Earlier
  <2>2. PICK q \in 1..Len(s) : s[q] = i
    BY <1>0, <2>1
  <2>3. q # p
    BY <2>1, <2>2, OrderFits
  <2>4. ~(p < q)
    BY <1>0, <2>1, <2>2 DEF ComesFirst
  <2>5. q \in D
    BY <1>0, <2>3, <2>4 DEF D
  <2> QED BY <2>2, <2>5
<1>6. ASSUME InLine(list, f) PROVE T \subseteq E
  <2> SUFFICES ASSUME NEW m \in D PROVE s[m] \in E
    OBVIOUS
  <2>1. s[m] \in S /\ s[p] \in S /\ s[m] # s[p] /\ NotAfter(list, s[m], s[p])
    BY <1>0, <1>2
  <2>2. ComesFirst(list, s[m], s[p])
    BY <1>6, <2>1 DEF InLine, ComesFirst
  <2> QED BY <2>1, <2>2 DEF Earlier
<1> HIDE DEF T, E
<1>7. IsFiniteSet(E) /\ Cardinality(E) <= p - 1
  BY <1>4, <1>5, FS_Subset
<1>8. InLine(list, f) => Cardinality(E) = p - 1
  <2>1. InLine(list, f) => E = T
    BY <1>5, <1>6
  <2> QED BY <1>4, <2>1
<1>9. Cardinality(E) \in Nat
  BY <1>7, FS_CardinalityType
<1> QED BY <1>7, <1>8, <1>9 DEF E

----------------------------------------
\* A sequence that goes on with rows it does not have.
LEMMA OnceJoined ==
  ASSUME NEW S, NEW a \in Seq(S), NEW b \in Seq(S), Once(a), Once(b), ToSet(a) \cap ToSet(b) = {}
  PROVE  /\ a \o b \in Seq(S) /\ Len(a \o b) = Len(a) + Len(b) /\ Once(a \o b)
         /\ ToSet(a \o b) = ToSet(a) \cup ToSet(b)
<1> DEFINE c == a \o b
<1>1. /\ Len(a) \in Nat /\ Len(b) \in Nat /\ DOMAIN a = 1..Len(a) /\ DOMAIN b = 1..Len(b)
      /\ c \in Seq(S) /\ Len(c) = Len(a) + Len(b) /\ DOMAIN c = 1..(Len(a) + Len(b))
      /\ \A m \in 1..(Len(a) + Len(b)) : c[m] = IF m <= Len(a) THEN a[m] ELSE b[m - Len(a)]
  OBVIOUS
<1>2. /\ \A m, n \in DOMAIN a : a[m] = a[n] => m = n
      /\ \A m, n \in DOMAIN b : b[m] = b[n] => m = n
  BY DEF Once
<1>3. \A m \in DOMAIN a, n \in DOMAIN b : a[m] # b[n]
  BY DEF ToSet
<1> HIDE DEF c
<1>4. ASSUME NEW m \in DOMAIN c
      PROVE  \/ m \in DOMAIN a /\ c[m] = a[m]
             \/ m - Len(a) \in DOMAIN b /\ c[m] = b[m - Len(a)]
  BY <1>1, <1>4
<1>5. Once(c)
  <2> SUFFICES ASSUME NEW m \in DOMAIN c, NEW n \in DOMAIN c, c[m] = c[n] PROVE m = n
    BY DEF Once
  <2>1. CASE m <= Len(a) /\ n <= Len(a)
    BY <1>1, <1>2, <2>1
  <2>2. CASE m > Len(a) /\ n > Len(a)
    <3>1. m - Len(a) \in DOMAIN b /\ n - Len(a) \in DOMAIN b
      BY <1>1, <2>2
    <3>2. b[m - Len(a)] = b[n - Len(a)]
      BY <1>1, <2>2
    <3>3. m - Len(a) = n - Len(a)
      BY <1>2, <3>1, <3>2
    <3> QED BY <1>1, <3>3
  <2>3. CASE m <= Len(a) /\ n > Len(a)
    <3>1. m \in DOMAIN a /\ n - Len(a) \in DOMAIN b /\ a[m] = b[n - Len(a)]
      BY <1>1, <2>3
    <3> QED BY <1>3, <3>1
  <2>4. CASE m > Len(a) /\ n <= Len(a)
    <3>1. n \in DOMAIN a /\ m - Len(a) \in DOMAIN b /\ a[n] = b[m - Len(a)]
      BY <1>1, <2>4
    <3> QED BY <1>3, <3>1
  <2> QED BY <1>1, <2>1, <2>2, <2>3, <2>4
<1>6. ToSet(c) \subseteq ToSet(a) \cup ToSet(b)
  BY <1>4 DEF ToSet
<1>7. \A m \in DOMAIN a : m \in DOMAIN c /\ c[m] = a[m]
  BY <1>1
<1>8. \A n \in DOMAIN b : Len(a) + n \in DOMAIN c /\ c[Len(a) + n] = b[n]
  BY <1>1
<1>9. ToSet(a) \cup ToSet(b) \subseteq ToSet(c)
  BY <1>7, <1>8 DEF ToSet
<1> QED BY <1>1, <1>5, <1>6, <1>9 DEF c

\* The first page of a list: as much of it as there is room for.
LEMMA FirstPageIs ==
  ASSUME NEW S, NEW s \in Seq(S), NEW size \in Nat,
         \A m, n \in 1..Len(s) : m # n => s[m] # s[n]
  PROVE  /\ PageRows(s, 1, size) \in Seq(S) /\ Len(PageRows(s, 1, size)) \in Nat
         /\ Len(PageRows(s, 1, size)) <= size /\ Once(PageRows(s, 1, size))
         /\ ToSet(PageRows(s, 1, size)) \subseteq {s[m] : m \in 1..Len(s)}
         /\ Len(PageRows(s, 1, size)) < size => \A m \in 1..Len(s) : s[m] \in ToSet(PageRows(s, 1, size))
<1> DEFINE b == IF size < Len(s) THEN size ELSE Len(s)
           P == SubSeq(s, 1, b)
<1>1. Len(s) \in Nat /\ b \in Nat /\ b <= size /\ b <= Len(s) /\ (b < size => b = Len(s))
  OBVIOUS
<1>2. PageRows(s, 1, size) = P
  <2>1. (1 - 1) * size + 1 = 1 /\ 1 * size = size
    OBVIOUS
  <2> QED BY <2>1 DEF PageRows
<1> HIDE DEF b
<1>3. P \in Seq(S) /\ Len(P) = b /\ \A k \in 1..b : P[k] = s[k]
  <2>1. \A i \in 1..b : i \in 1..Len(s) /\ s[i] \in S
    BY <1>1
  <2>2. /\ P \in Seq(S) /\ Len(P) = IF 1 <= b THEN b - 1 + 1 ELSE 0
        /\ \A k \in 1..b - 1 + 1 : P[k] = s[1 + k - 1]
    BY <1>1, <2>1, SubSeqProperties
  <2> QED BY <1>1, <2>2
<1> HIDE DEF P
<1>4. DOMAIN P = 1..b
  BY <1>3
<1>5. Once(P)
  BY <1>1, <1>3, <1>4 DEF Once
<1>6. ToSet(P) \subseteq {s[m] : m \in 1..Len(s)}
  BY <1>1, <1>3, <1>4 DEF ToSet
<1>7. b < size => \A m \in 1..Len(s) : s[m] \in ToSet(P)
  BY <1>1, <1>3, <1>4 DEF ToSet
<1> QED BY <1>1, <1>2, <1>3, <1>5, <1>6, <1>7

\* A page joined to all that was before it.
LEMMA PageJoins ==
  ASSUME NEW S, NEW s \in Seq(S), NEW page \in Nat \ {0}, NEW size \in Nat
  PROVE  PageRows(s, 1, (page - 1) * size) \o PageRows(s, page, size) = PageRows(s, 1, page * size)
<1> DEFINE L == Len(s)
           a == (page - 1) * size
           n == page * size
           x == IF a < L THEN a ELSE L
           y == IF n < L THEN n ELSE L
           A == SubSeq(s, 1, x)
           B == SubSeq(s, a + 1, y)
           C == SubSeq(s, 1, y)
<1>1. /\ L \in Nat /\ a \in Nat /\ n \in Nat /\ size \in Nat /\ n = a + size
      /\ (1 - 1) * a + 1 = 1 /\ 1 * a = a /\ (1 - 1) * n + 1 = 1 /\ 1 * n = n
  OBVIOUS
<1>2. PageRows(s, 1, a) = A /\ PageRows(s, page, size) = B /\ PageRows(s, 1, n) = C
  <2>1. \A k \in Nat : (1 - 1) * k + 1 = 1 /\ 1 * k = k
    OBVIOUS
  <2> QED BY <1>1, <2>1 DEF PageRows
<1> HIDE DEF L, a, n
<1>3. x \in Nat /\ y \in Nat /\ x <= L /\ y <= L /\ x <= y /\ (a < y => x = a) /\ (~(a < y) => x = y)
  BY <1>1
<1> HIDE DEF x, y
<1>4. \A i \in 1..L : s[i] \in S
  BY DEF L
<1>5. A \in Seq(S) /\ Len(A) = x /\ \A i \in 1..x : A[i] = s[i]
  <2>1. \A i \in 1..x : i \in 1..Len(s) /\ s[i] \in S
    BY <1>1, <1>3, <1>4 DEF L
  <2>2. /\ A \in Seq(S) /\ Len(A) = IF 1 <= x THEN x - 1 + 1 ELSE 0
        /\ \A i \in 1..x - 1 + 1 : A[i] = s[1 + i - 1]
    BY <1>3, <2>1, SubSeqProperties
  <2> QED BY <1>3, <2>2
<1>6. C \in Seq(S) /\ Len(C) = y /\ \A i \in 1..y : C[i] = s[i]
  <2>1. \A i \in 1..y : i \in 1..Len(s) /\ s[i] \in S
    BY <1>1, <1>3, <1>4 DEF L
  <2>2. /\ C \in Seq(S) /\ Len(C) = IF 1 <= y THEN y - 1 + 1 ELSE 0
        /\ \A i \in 1..y - 1 + 1 : C[i] = s[1 + i - 1]
    BY <1>3, <2>1, SubSeqProperties
  <2> QED BY <1>3, <2>2
<1>7. B \in Seq(S) /\ Len(B) = y - x /\ \A i \in 1..y - x : B[i] = s[x + i]
  <2>1. \A i \in a + 1 .. y : i \in 1..Len(s) /\ s[i] \in S
    BY <1>1, <1>3, <1>4 DEF L
  <2>2. /\ B \in Seq(S) /\ Len(B) = IF a + 1 <= y THEN y - (a + 1) + 1 ELSE 0
        /\ \A i \in 1..y - (a + 1) + 1 : B[i] = s[a + 1 + i - 1]
    BY <1>1, <1>3, <2>1, SubSeqProperties
  <2> QED BY <1>1, <1>3, <2>2
<1> HIDE DEF A, B, C
<1>8. /\ A \o B \in Seq(S) /\ Len(A \o B) = y
      /\ \A i \in 1..y : (A \o B)[i] = IF i <= x THEN A[i] ELSE B[i - x]
  <2>1. /\ A \o B \in Seq(S) /\ Len(A \o B) = Len(A) + Len(B)
        /\ \A i \in 1..Len(A) + Len(B) : (A \o B)[i] = IF i <= Len(A) THEN A[i] ELSE B[i - Len(A)]
    BY <1>5, <1>7, ConcatProperties
  <2> QED BY <1>3, <1>5, <1>7, <2>1
<1> DEFINE D == A \o B
<1> HIDE DEF D
<1>9. D \in Seq(S) /\ Len(D) = y /\ \A i \in 1..y : D[i] = C[i]
  <2> SUFFICES ASSUME NEW i \in 1..y PROVE D[i] = C[i]
    BY <1>8 DEF D
  <2>1. CASE i <= x
    BY <1>3, <1>5, <1>6, <1>8, <2>1 DEF D
  <2>2. CASE i > x
    <3>1. i - x \in 1..y - x /\ x + (i - x) = i
      BY <1>3, <2>2
    <3>2. B[i - x] = s[i]
      BY <1>7, <3>1
    <3> QED BY <1>3, <1>6, <1>8, <2>2, <3>2 DEF D
  <2> QED BY <1>3, <2>1, <2>2
<1>10. A \o B = C
  <2>1. D = [i \in 1..y |-> D[i]] /\ C = [i \in 1..y |-> C[i]]
    BY <1>6, <1>9
  <2>2. D = C
    BY <1>9, <2>1
  <2> QED BY <2>2 DEF D
<1> QED BY <1>2, <1>10 DEF a, n

\* What no statement may reorder it returns in one order.
LEMMA OrderIsOne ==
  ASSUME RowsFit, NEW list \in ListKinds, NEW f, InLine(list, f),
         NEW s \in Orders(list, Matching(list, f)), NEW t \in Orders(list, Matching(list, f))
  PROVE  s = t
<1> DEFINE S == Matching(list, f)
           n == Cardinality(S)
           R(i) == Cardinality(Earlier(list, f, i))
<1>1. IsFiniteSet(S)
  BY MatchingFits
<1>2. n \in Nat /\ s \in Seq(S) /\ Len(s) = n
  BY <1>1, OrdersAre
<1>3. t \in Seq(S) /\ Len(t) = n
  BY <1>1, OrdersAre
<1>4. \A i \in S : \E m \in 1..n : t[m] = i
  BY <1>1, OrdersAre
<1>5. \A p \in 1..n : R(s[p]) = p - 1
  BY <1>2, RanksAre
<1>6. \A p \in 1..n : R(t[p]) = p - 1
  BY <1>3, RanksAre
<1> HIDE DEF S, n, R
<1>7. ASSUME NEW p \in 1..n PROVE s[p] = t[p]
  <2>1. s[p] \in S
    BY <1>2
  <2>2. PICK q \in 1..n : t[q] = s[p]
    BY <1>4, <2>1
  <2>3. R(t[q]) = q - 1 /\ R(s[p]) = p - 1
    BY <1>5, <1>6
  <2>4. p - 1 = q - 1
    BY <2>2, <2>3
  <2>5. p = q
    BY <1>2, <2>4
  <2> QED BY <2>2, <2>5
<1>8. s = [p \in 1..n |-> s[p]] /\ t = [p \in 1..n |-> t[p]]
  BY <1>2, <1>3
<1> QED BY <1>7, <1>8

\* What was shown is behind place n: no row twice, and what of it is still in the
\* list is of a lower rank.
Behind(got, list, f, n) ==
  /\ Once(got)
  /\ \A i \in ToSet(got) : i \in Matching(list, f) => Cardinality(Earlier(list, f, i)) < n

\* The next page shows what was not shown before.
LEMMA NextPageIsNew ==
  ASSUME RowsFit, NEW list \in ListKinds, NEW f, NEW s \in Orders(list, Matching(list, f)),
         InLine(list, f), NEW page \in Nat \ {0},
         NEW size \in Nat, NEW got \in Seq(Stock),
         Behind(got, list, f, (page - 1) * size)
  PROVE  Behind(got \o PageRows(s, page, size), list, f, page * size)
<1> DEFINE S == Matching(list, f)
           P == PageRows(s, page, size)
           R(i) == Cardinality(Earlier(list, f, i))
           a == (page - 1) * size
           more == got \o P
<1>1. IsFiniteSet(S) /\ S \subseteq Stock /\ \A i \in S : ~ComesFirst(list, i, i)
  BY MatchingFits, OrderFits
<1>2. /\ s \in Seq(S) /\ Len(s) \in Nat /\ \A m, n \in 1..Len(s) : m # n => s[m] # s[n]
  BY <1>1, OrdersAre
<1>3. \A i \in S : \E m \in 1..Len(s) : s[m] = i
  BY <1>1, OrdersAre
<1>4. \A p \in 1..Len(s) : R(s[p]) = p - 1
  BY <1>1, RanksAre
<1>5. /\ P \in Seq(S)
      /\ \A k \in 1..Len(P) : a + k \in 1..Len(s) /\ a + k <= page * size /\ P[k] = s[a + k]
  BY <1>2, PageIs
<1>6. a \in Nat /\ page * size \in Nat /\ a <= page * size
  OBVIOUS
<1>7. Once(got) /\ \A i \in ToSet(got) : i \in S => R(i) < a
  BY DEF Behind
<1> HIDE DEF S, P, R, a, more
<1>8. \A k \in 1..Len(P) : P[k] \in S /\ R(P[k]) >= a /\ R(P[k]) < page * size
  BY <1>2, <1>4, <1>5, <1>6
<1>9. Len(P) \in Nat /\ DOMAIN P = 1..Len(P)
  BY <1>5
<1>10. Once(P)
  <2> SUFFICES ASSUME NEW m \in 1..Len(P), NEW n \in 1..Len(P), m # n PROVE P[m] # P[n]
    BY <1>9 DEF Once
  <2>1. a + m # a + n
    BY <1>6
  <2> QED BY <1>2, <1>5, <2>1
<1>11. \A i \in ToSet(P) : i \in S /\ R(i) >= a /\ R(i) < page * size
  BY <1>8, <1>9 DEF ToSet
<1>12. \A i \in S : R(i) \in Nat
  <2> SUFFICES ASSUME NEW i \in S PROVE R(i) \in Nat
    OBVIOUS
  <2>1. PICK p \in 1..Len(s) : s[p] = i
    BY <1>3
  <2>2. R(s[p]) = p - 1
    BY <1>4
  <2> QED BY <1>2, <2>1, <2>2
<1>13. ToSet(got) \cap ToSet(P) = {}
  <2> SUFFICES ASSUME NEW i \in ToSet(got), i \in ToSet(P) PROVE FALSE
    OBVIOUS
  <2>1. i \in S /\ R(i) \in Nat /\ R(i) >= a /\ R(i) < a
    BY <1>7, <1>11, <1>12
  <2> QED BY <1>6, <2>1
<1>14. P \in Seq(Stock)
  BY <1>1, <1>5
<1>15. Once(more) /\ ToSet(more) = ToSet(got) \cup ToSet(P)
  BY <1>7, <1>10, <1>13, <1>14, OnceJoined DEF more
<1>16. \A i \in ToSet(got) : i \in S => R(i) < page * size
  BY <1>6, <1>7, <1>12
<1>17. \A i \in ToSet(more) : i \in S => R(i) < page * size
  BY <1>11, <1>15, <1>16
<1> QED BY <1>15, <1>17 DEF Behind, more, P, S, R

----------------------------------------
(* The report of a reader, between two statements and when it is answered.     *)
IsList(r) ==
  /\ {"what", "at", "list", "filter", "size", "page", "got", "matched", "total", "hidden",
      "strayed", "tied"} \subseteq DOMAIN r
  /\ r.what = "list"
  /\ r.list \in ListKinds /\ r.page \in Nat \ {0} /\ r.size \in Nat /\ r.got \in Seq(Stock)
  /\ r.strayed \in BOOLEAN /\ r.tied \in BOOLEAN
  /\ r.size = PerPage \/ (r.size = ExportSize /\ r.page = 1)

\* The places of the list that the pages fetched so far have shown.
PlacesShown(r) == IF r.at \in {"found", "orphans"} THEN r.page * r.size ELSE (r.page - 1) * r.size

\* The orders a statement may return a list in; that of what n places show.
Arranged(list, f) == Orders(list, Matching(list, f))
Shows(got, list, f, n) == \E s \in Arranged(list, f) : got = PageRows(s, 1, n)

OrderKept(r) ==
  ~grew /\ ~shrank /\ ~r.tied =>
    (r.got = << >> /\ PlacesShown(r) = 0) \/ Shows(r.got, r.list, r.filter, PlacesShown(r))

TotalFits(r) ==
  ~grew /\ ~shrank =>
    /\ r.at = "rows" => r.total = Cardinality(Matching(r.list, r.filter))
    /\ r.at = "found" => r.matched = Cardinality(Matching(r.list, r.filter))
    /\ r.at = "orphans" /\ ~r.strayed => r.total = Cardinality(Matching(r.list, r.filter))

ListFits(r) ==
  /\ IsList(r)
  /\ r.at \in IF r.list = "crm" THEN {"enquiries", "found", "orphans"} ELSE {"count", "rows"}
  /\ ~grew /\ ~r.tied => Behind(r.got, r.list, r.filter, PlacesShown(r))
  /\ OrderKept(r)
  /\ TotalFits(r)

AllCounted(r) == ~grew /\ ~shrank => r.total = Cardinality(Live(r.table))

CountersFit(r) ==
  /\ {"what", "at", "table", "total", "by"} \subseteq DOMAIN r
  /\ r.what = "counters" /\ r.at = "statuses" /\ r.table \in DOMAIN StatusCodes
  /\ AllCounted(r)

FewSimilar(r) == Once(r.got) /\ r.base \notin ToSet(r.got) /\ Len(r.got) <= SimilarLimit

\* The other listings of the site, of which a statement about the type finds all.
Others(r) == {i \in Live("website") : OnSite(i) /\ i # r.base}
TypeFound(r) == \A i \in Others(r) : listed[i].type = r.row.type => i \in ToSet(r.got)
DealFound(r) == \A i \in Others(r) : listed[i].deal = r.row.deal => i \in ToSet(r.got)

SimilarFits(r) ==
  /\ {"what", "at", "tier", "base", "row", "got"} \subseteq DOMAIN r
  /\ r.what = "similar" /\ r.at = "similar"
  /\ r.tier \in 1..3 /\ r.got \in Seq(Stock) /\ FewSimilar(r)
  /\ ~grew /\ ~shrank /\ r.tier = 3 => TypeFound(r)

ReportFits(r) == r = Unread \/ ListFits(r) \/ CountersFit(r) \/ SimilarFits(r)

ListRight(r) ==
  /\ ~grew /\ ~r.tied => Once(r.got)
  /\ Quiet(r) =>
       /\ r.total = Cardinality(Matching(r.list, r.filter))
       /\ r.list = "crm" => r.total + r.hidden = Cardinality({i \in Stock : listed[i] # Missing
                                                                /\ listed[i].table = "enquiry"})

OrderRight(r) ==
  Quiet(r) /\ ~r.tied =>
    Shows(r.got, r.list, r.filter,
          IF r.size = PerPage THEN Cardinality(Matching(r.list, r.filter)) ELSE ExportSize)

\* Each code's figure is the number of its rows, for the codes that were active.
WithStatus(t, c) == {i \in Live(t) : listed[i].status = c}

CountersRight(r) ==
  ~grew /\ ~shrank =>
    /\ r.total = Cardinality(Live(r.table)) /\ r.table \in DOMAIN StatusCodes
    /\ DOMAIN r.by \subseteq StatusCodes[r.table]
    /\ r.by = [c \in DOMAIN r.by |-> Cardinality(WithStatus(r.table, c))]

SimilarRight(r) ==
  /\ FewSimilar(r)
  /\ ~grew /\ ~shrank /\ Len(r.got) < SimilarLimit => TypeFound(r) /\ DealFound(r)

AnswerFits(r) == /\ r.what = "list" => ListRight(r) /\ OrderRight(r)
                 /\ r.what = "counters" => CountersRight(r)
                 /\ r.what = "similar" => SimilarRight(r)

HistoryFits == grew \in BOOLEAN /\ shrank \in BOOLEAN

PagingInv == RowsFit /\ HistoryFits /\ ReportFits(report) /\ AnswerFits(answer)

\* Rows leave the lists at most, and those that stay keep their order.
Narrower == \A list \in ListKinds : \A f :
  /\ Matching(list, f)' \subseteq Matching(list, f)
  /\ \A i, j \in Stock : NotAfter(list, i, j)' <=> NotAfter(list, i, j)

LEMMA SameIsNarrower == UNCHANGED listed => Narrower
<1> SUFFICES ASSUME UNCHANGED listed PROVE Narrower
  OBVIOUS
<1>1. \A list, f : Matching(list, f)' = Matching(list, f)
  BY DEF Matching, Live, MatchesInventory, MatchesEnquiry, MatchesWebsite, OnSite
<1>2. \A list, i, j : NotAfter(list, i, j)' <=> NotAfter(list, i, j)
  BY DEF NotAfter, Before
<1> QED BY <1>1, <1>2 DEF Narrower

\* What was shown stays behind.
LEMMA BehindStays ==
  ASSUME RowsFit, Narrower, NEW got, NEW list \in ListKinds, NEW f, NEW n \in Nat,
         Behind(got, list, f, n)
  PROVE  Behind(got, list, f, n)'
<1>1. Once(got)
  BY DEF Behind
<1>2. ASSUME NEW i \in Matching(list, f)', i \in ToSet(got)
      PROVE  Cardinality(Earlier(list, f, i)') < n
  <2>1. i \in Matching(list, f) /\ Matching(list, f) \subseteq Stock /\ IsFiniteSet(Matching(list, f))
    BY <1>2, MatchingFits DEF Narrower
  <2>2. Cardinality(Earlier(list, f, i)) < n
    BY <1>2, <2>1 DEF Behind
  <2>3. \A j \in Matching(list, f)' : j \in Matching(list, f) /\ (NotAfter(list, i, j)' <=> NotAfter(list, i, j))
    BY <2>1 DEF Narrower
  <2>4. Earlier(list, f, i)' \subseteq Earlier(list, f, i)
    BY <2>3 DEF Earlier, ComesFirst
  <2>5. IsFiniteSet(Earlier(list, f, i))
    BY <2>1, FS_Subset DEF Earlier
  <2>6. PICK E : E = Earlier(list, f, i)'
    OBVIOUS
  <2>7. /\ IsFiniteSet(E) /\ Cardinality(E) <= Cardinality(Earlier(list, f, i))
        /\ Cardinality(E) \in Nat /\ Cardinality(Earlier(list, f, i)) \in Nat
    BY <2>4, <2>5, <2>6, FS_Subset, FS_CardinalityType
  <2> QED BY <2>2, <2>6, <2>7
<1> QED BY <1>1, <1>2 DEF Behind

\* Reports and answers stay right when rows leave, and say nothing of rows that
\* enter.
LEMMA StillFits ==
  ASSUME RowsFit, HistoryFits, HistoryFits', grew => grew', shrank => shrank',
         grew' \/ Narrower, grew' \/ shrank' \/ UNCHANGED listed, NEW q
  PROVE  (ReportFits(q) => ReportFits(q)') /\ (AnswerFits(q) => AnswerFits(q)')
<1>1. ASSUME UNCHANGED listed
      PROVE  /\ \A list, f : Matching(list, f)' = Matching(list, f)
             /\ \A t : Live(t)' = Live(t)
             /\ \A t, c : WithStatus(t, c)' = WithStatus(t, c)
             /\ \A got, list, f, n : Shows(got, list, f, n)' <=> Shows(got, list, f, n)
             /\ TypeFound(q)' <=> TypeFound(q)
             /\ DealFound(q)' <=> DealFound(q)
  <2>1. /\ \A list, f : Matching(list, f)' = Matching(list, f)
        /\ \A t : Live(t)' = Live(t)
        /\ \A t, c : WithStatus(t, c)' = WithStatus(t, c)
        /\ TypeFound(q)' <=> TypeFound(q)
        /\ DealFound(q)' <=> DealFound(q)
    BY <1>1 DEF Matching, Live, MatchesInventory, MatchesEnquiry, MatchesWebsite, OnSite,
                TypeFound, DealFound, Others, WithStatus
  <2>2. \A list, i, j : NotAfter(list, i, j)' <=> NotAfter(list, i, j)
    BY <1>1 DEF NotAfter, Before
  <2>3. \A list, f : Arranged(list, f)' = Arranged(list, f)
    BY <2>1, <2>2 DEF Arranged, Orders
  <2> QED BY <2>1, <2>3 DEF Shows
<1>2. ASSUME ListFits(q) PROVE ListFits(q)'
  <2>1. IsList(q)' 
    BY <1>2 DEF ListFits, IsList
  <2>2. ~grew' /\ ~q.tied => Behind(q.got, q.list, q.filter, PlacesShown(q))'
    <3> SUFFICES ASSUME ~grew', ~q.tied PROVE Behind(q.got, q.list, q.filter, PlacesShown(q))'
      OBVIOUS
    <3>1. PlacesShown(q) \in Nat /\ q.list \in ListKinds
      BY <1>2 DEF ListFits, IsList, PlacesShown
    <3>2. Behind(q.got, q.list, q.filter, PlacesShown(q))
      BY <1>2 DEF ListFits, HistoryFits
    <3> QED BY <3>1, <3>2, BehindStays
  <2>3. TotalFits(q)'
    BY <1>1, <1>2 DEF ListFits, TotalFits, HistoryFits
  <2>4. OrderKept(q)'
    BY <1>1, <1>2 DEF ListFits, OrderKept, PlacesShown, HistoryFits
  <2> QED BY <1>2, <2>1, <2>2, <2>3, <2>4 DEF ListFits
<1>3. ASSUME SimilarFits(q) PROVE SimilarFits(q)'
  BY <1>1, <1>3 DEF SimilarFits, HistoryFits, FewSimilar
<1>4. ASSUME ListRight(q) PROVE ListRight(q)'
  BY <1>1, <1>4 DEF ListRight, Quiet, HistoryFits
<1>5. ASSUME SimilarRight(q) PROVE SimilarRight(q)'
  BY <1>1, <1>5 DEF SimilarRight, FewSimilar, HistoryFits
<1>6. ASSUME OrderRight(q) PROVE OrderRight(q)'
  BY <1>1, <1>6 DEF OrderRight, Quiet, HistoryFits
<1>7. ASSUME CountersFit(q) PROVE CountersFit(q)'
  BY <1>1, <1>7 DEF CountersFit, AllCounted, HistoryFits
<1>8. ASSUME CountersRight(q) PROVE CountersRight(q)'
  BY <1>1, <1>8 DEF CountersRight, HistoryFits
<1> QED BY <1>2, <1>3, <1>4, <1>5, <1>6, <1>7, <1>8 DEF ReportFits, AnswerFits

LEMMA ReportOf == ASSUME NEW q, report' = q, ReportFits(q)' PROVE ReportFits(report)'
BY DEF ReportFits, ListFits, IsList, PlacesShown, TotalFits, OrderKept, CountersFit,
       AllCounted, SimilarFits, FewSimilar,
       TypeFound, Others, Unread

LEMMA AnswerOf == ASSUME NEW q, answer' = q, AnswerFits(q)' PROVE AnswerFits(answer)'
BY DEF AnswerFits, ListRight, OrderRight, CountersRight, Quiet, WithStatus, SimilarRight, FewSimilar,
       TypeFound, DealFound, Others

----------------------------------------
LEMMA CatalogueStarts == CatalogueInit => PagingInv
<1> SUFFICES ASSUME CatalogueInit PROVE PagingInv
  OBVIOUS
<1>1. PICK first \in Firsts : listed = first.listed /\ date = first.date
  BY DEF CatalogueInit
<1>2. RowsFit
  BY <1>1, CatalogueAssumption DEF RowsFit, IsHeld
<1>3. HistoryFits /\ ReportFits(report) /\ AnswerFits(answer)
  BY DEF CatalogueInit, HistoryFits, ReportFits, AnswerFits, NoAnswerYet
<1> QED BY <1>2, <1>3 DEF PagingInv

\* A write is told to the reader: that rows entered, left, or neither.
LEMMA WriteFits ==
  ASSUME PagingInv, RowsFit', NEW g \in BOOLEAN, NEW h \in BOOLEAN, Write(g, h),
         g \/ Narrower, g \/ h \/ UNCHANGED listed
  PROVE  PagingInv'
<1>1. /\ HistoryFits' /\ (grew => grew') /\ (shrank => shrank')
      /\ (grew' \/ Narrower) /\ (grew' \/ shrank' \/ UNCHANGED listed)
      /\ report' = report /\ answer' = answer
  BY DEF Write, HistoryFits, PagingInv
<1>2. PICK q : q = report
  OBVIOUS
<1>3. PICK a : a = answer
  OBVIOUS
<1>4. ReportFits(q) /\ AnswerFits(a)
  BY <1>2, <1>3 DEF PagingInv
<1>5. ReportFits(q)' /\ AnswerFits(a)'
  BY <1>1, <1>4, StillFits DEF PagingInv
<1>6. ReportFits(report)' /\ AnswerFits(answer)'
  BY <1>1, <1>2, <1>3, <1>5, ReportOf, AnswerOf
<1> QED BY <1>1, <1>6 DEF PagingInv

\* One row changes in fields that no order and no list's kind depends on.
LEMMA RowFits ==
  ASSUME RowsFit, NEW i \in Stock, NEW row, IsRow(row), listed' = [listed EXCEPT ![i] = row],
         date' \in Int
  PROVE  RowsFit'
BY DEF RowsFit

LEMMA WritersKeep ==
  ASSUME PagingInv,
         AddRow \/ SetEntryStatus \/ DecideEntry \/ RemoveEntry \/ SwitchStatus \/ NextDate
  PROVE  PagingInv'
<1>1. CASE AddRow
  <2>1. PICK i \in Stock, sent \in Arrivals :
          /\ listed' = [listed EXCEPT ![i] = [sent EXCEPT !.status = HealedStatus(sent.table, @),
                                                        !.born = date]]
          /\ Write(TRUE, FALSE) /\ date' = date
    BY <1>1 DEF AddRow
  <2>2. PICK code : code = HealedStatus(sent.table, sent.status)
    OBVIOUS
  <2>3. PICK row : row = [sent EXCEPT !.status = code, !.born = date]
    OBVIOUS
  <2>4. IsRow(row)
    BY <2>3, CatalogueAssumption DEF IsRow, PagingInv, RowsFit
  <2>5. listed' = [listed EXCEPT ![i] = row]
    BY <2>1, <2>2, <2>3
  <2>6. RowsFit'
    BY <2>1, <2>4, <2>5, RowFits DEF PagingInv, RowsFit
  <2> QED BY <2>1, <2>6, WriteFits
<1>2. CASE SetEntryStatus
  <2>0. PICK i \in Stock : /\ listed[i] # Missing
                           /\ \E code : listed' = [listed EXCEPT ![i].status = code]
                           /\ Write(TRUE, TRUE) /\ date' = date
    <3>1. PICK i \in Stock, c \in UNION {StatusCodes[t] : t \in DOMAIN StatusCodes} :
            /\ i \in Live("inventory") \cup Live("enquiry")
            /\ listed' = [listed EXCEPT ![i].status = HealedStatus(listed[i].table, c)]
            /\ Write(TRUE, TRUE) /\ date' = date
      BY <1>2 DEF SetEntryStatus
    <3> QED BY <3>1 DEF Live
  <2>1. PICK code : listed' = [listed EXCEPT ![i].status = code]
    BY <2>0
  <2>2. PICK row : row = [listed[i] EXCEPT !.status = code]
    OBVIOUS
  <2>3. IsRow(row)
    BY <2>0, <2>2 DEF IsRow, PagingInv, RowsFit
  <2>4. RowsFit'
    BY <2>0, <2>1, <2>2, <2>3, RowFits DEF PagingInv, RowsFit
  <2> QED BY <2>0, <2>4, WriteFits
<1>3. CASE DecideEntry
  <2>0. PICK i \in Live("website"), a \in {"approved", "rejected"} :
          /\ listed' = [listed EXCEPT ![i].approval = a, ![i].approvedOn = date]
          /\ Write(TRUE, TRUE) /\ date' = date
    BY <1>3 DEF DecideEntry
  <2>1. i \in Stock /\ listed[i] # Missing
    BY <2>0 DEF Live
  <2>2. PICK row : row = [listed[i] EXCEPT !.approval = a, !.approvedOn = date]
    OBVIOUS
  <2>3. IsRow(row)
    BY <2>1, <2>2 DEF IsRow, PagingInv, RowsFit
  <2>4. listed' = [listed EXCEPT ![i] = row]
    BY <2>0, <2>1, <2>2 DEF PagingInv, RowsFit
  <2>5. RowsFit'
    BY <2>0, <2>1, <2>3, <2>4, RowFits DEF PagingInv, RowsFit
  <2> QED BY <2>0, <2>5, WriteFits
<1>4. CASE RemoveEntry
  <2>1. PICK i \in Stock : 
          /\ listed[i] # Missing
          /\ listed' = [listed EXCEPT ![i].deleted = TRUE,
                                      ![i].active = @ /\ listed[i].table # "website"]
          /\ Write(FALSE, TRUE) /\ date' = date
    BY <1>4 DEF RemoveEntry, Live
  <2>2. PICK seen : seen = (listed[i].active /\ listed[i].table # "website")
    OBVIOUS
  <2>3. PICK row : row = [listed[i] EXCEPT !.deleted = TRUE, !.active = seen]
    OBVIOUS
  <2>4. listed' = [listed EXCEPT ![i] = row]
    BY <2>1, <2>2, <2>3 DEF PagingInv, RowsFit
  <2>5. IsRow(row) /\ IsRow(listed[i])
    BY <2>1, <2>3 DEF IsRow, PagingInv, RowsFit
  <2>6. RowsFit'
    BY <2>1, <2>4, <2>5, RowFits DEF PagingInv, RowsFit
  <2>7. /\ row.deleted = TRUE
        /\ row.title = listed[i].title /\ row.born = listed[i].born
        /\ row.approvedOn = listed[i].approvedOn
    BY <2>3, <2>5 DEF IsRow
  <2>8. DOMAIN listed = Stock /\ (\A j \in Stock : listed'[j] = IF j = i THEN row ELSE listed[j])
    BY <2>4 DEF PagingInv, RowsFit
  <2>9. Narrower
    <3>1. \A j \in Stock : j # i => listed'[j] = listed[j]
      BY <2>8
    <3>2. \A t : \A j \in Live(t)' : j # i /\ j \in Live(t)
      BY <2>7, <2>8, <3>1 DEF Live
    <3>3. ASSUME NEW list \in ListKinds, NEW f, NEW j \in Matching(list, f)'
          PROVE  j \in Matching(list, f)
      <4>1. j \in Stock /\ j # i
        BY <3>2, <3>3 DEF Matching, Live, ListKinds, Tables
      <4>2. listed'[j] = listed[j]
        BY <3>1, <4>1
      <4>3. CASE list = "inventory"
        BY <3>2, <3>3, <4>2, <4>3 DEF Matching, MatchesInventory
      <4>4. CASE list = "enquiry"
        BY <3>2, <3>3, <4>2, <4>4 DEF Matching, MatchesEnquiry, MatchesInventory
      <4>5. CASE list = "website"
        BY <3>2, <3>3, <4>2, <4>5 DEF Matching, MatchesWebsite
      <4>6. CASE list = "public"
        BY <3>2, <3>3, <4>2, <4>6 DEF Matching, OnSite
      <4>7. CASE list = "crm"
        BY <3>2, <3>3, <4>7 DEF Matching
      <4> QED BY <4>3, <4>4, <4>5, <4>6, <4>7 DEF ListKinds, Tables
    <3>4. \A j \in Stock : /\ listed'[j].title = listed[j].title /\ listed'[j].born = listed[j].born
                           /\ listed'[j].approvedOn = listed[j].approvedOn
      BY <2>7, <2>8
    <3>5. \A list \in ListKinds : \A j, k \in Stock : NotAfter(list, j, k)' <=> NotAfter(list, j, k)
      BY <3>4 DEF NotAfter, Before
    <3> QED BY <3>3, <3>5 DEF Narrower
  <2> QED BY <2>1, <2>6, <2>9, WriteFits
<1>5. CASE SwitchStatus \/ NextDate
  <2>1. Write(FALSE, FALSE) /\ UNCHANGED listed /\ (date' = date \/ date' = date + 1)
    BY <1>5 DEF SwitchStatus, NextDate
  <2>2. RowsFit'
    BY <2>1 DEF PagingInv, RowsFit
  <2> QED BY <2>1, <2>2, SameIsNarrower, WriteFits
<1> QED BY <1>1, <1>2, <1>3, <1>4, <1>5

----------------------------------------
\* A report begins, and knows nothing of what was before it.
LEMMA AskFits ==
  ASSUME PagingInv, NEW q, Ask(q),
         ReportFits(q)'
  PROVE  PagingInv'
<1>1. /\ listed' = listed /\ date' = date /\ grew' = FALSE /\ shrank' = FALSE
      /\ report' = q /\ answer' = NoAnswerYet
  BY DEF Ask
<1>2. RowsFit' /\ HistoryFits'
  BY <1>1 DEF PagingInv, RowsFit, HistoryFits
<1>3. ReportFits(report)'
  BY <1>1, ReportOf
<1>4. AnswerFits(answer)'
  BY <1>1 DEF AnswerFits, NoAnswerYet
<1> QED BY <1>2, <1>3, <1>4 DEF PagingInv

LEMMA BeginsFit ==
  ASSUME PagingInv, BeginList \/ BeginCounters \/ BeginSimilar PROVE PagingInv'
<1>1. CASE BeginList
  <2>1. PICK list \in ListKinds, f \in Filters, size \in {PerPage, ExportSize} :
          Ask([what |-> "list", at |-> IF list = "crm" THEN "enquiries" ELSE "count", list |-> list,
               filter |-> f, size |-> size, page |-> 1, got |-> << >>, matched |-> 0, total |-> 0,
               hidden |-> 0, strayed |-> FALSE, tied |-> FALSE])
    BY <1>1 DEF BeginList, ListKinds
  <2>2. PICK q : q = [what |-> "list", at |-> IF list = "crm" THEN "enquiries" ELSE "count",
                      list |-> list, filter |-> f, size |-> size, page |-> 1, got |-> << >>,
                      matched |-> 0, total |-> 0, hidden |-> 0, strayed |-> FALSE, tied |-> FALSE]
    OBVIOUS
  <2>3. size \in Nat
    BY CatalogueAssumption
  <2>4. /\ IsList(q) /\ q.got = << >> /\ q.page = 1 /\ ~q.strayed
        /\ q.at = IF q.list = "crm" THEN "enquiries" ELSE "count"
    BY <2>2, <2>3 DEF IsList
  <2>5. \A g, list0, n : Behind(<< >>, list0, g, n)'
    BY DEF Behind, Once, ToSet
  <2>6. PlacesShown(q) = 0
    BY <2>4 DEF PlacesShown, IsList
  <2>7. OrderKept(q)'
    BY <2>4, <2>6 DEF OrderKept, PlacesShown
  <2>8. ListFits(q)'
    BY <2>4, <2>5, <2>7 DEF ListFits, IsList, TotalFits
  <2> QED BY <2>1, <2>2, <2>8, AskFits DEF ReportFits
<1>2. CASE BeginCounters
  <2>1. PICK t \in DOMAIN StatusCodes :
          Ask([what |-> "counters", at |-> "statuses", table |-> t, total |-> Cardinality(Live(t)),
               by |-> << >>])
    BY <1>2 DEF BeginCounters
  <2>2. PICK q : q = [what |-> "counters", at |-> "statuses", table |-> t,
                      total |-> Cardinality(Live(t)), by |-> << >>]
    OBVIOUS
  <2>3. Live(t)' = Live(t)
    BY <2>1 DEF Ask, Live
  <2>4. ReportFits(q)'
    BY <2>2, <2>3 DEF ReportFits, CountersFit, AllCounted
  <2> QED BY <2>1, <2>2, <2>4, AskFits
<1>3. CASE BeginSimilar
  <2>1. PICK i \in Live("website") :
          Ask([what |-> "similar", at |-> "similar", tier |-> 1, base |-> i, row |-> listed[i],
               got |-> << >>])
    BY <1>3 DEF BeginSimilar
  <2>2. PICK q : q = [what |-> "similar", at |-> "similar", tier |-> 1, base |-> i,
                      row |-> listed[i], got |-> << >>]
    OBVIOUS
  <2>3. FewSimilar(q)
    BY <2>2, CatalogueAssumption DEF FewSimilar, Once, ToSet
  <2>4. SimilarFits(q)'
    BY <2>2, <2>3 DEF SimilarFits, FewSimilar
  <2> QED BY <2>1, <2>2, <2>4, AskFits DEF ReportFits
<1> QED BY <1>1, <1>2, <1>3

\* The next statement of a report, or its answer.
LEMMA StepFits ==
  ASSUME PagingInv, NEW q, NEW a, Step(q, a), ReportFits(q), AnswerFits(a) PROVE PagingInv'
<1>1. listed' = listed /\ date' = date /\ grew' = grew /\ shrank' = shrank /\ report' = q /\ answer' = a
  BY DEF Step
<1>2. RowsFit' /\ HistoryFits'
  BY <1>1 DEF PagingInv, RowsFit, HistoryFits
<1>3. ReportFits(q)' /\ AnswerFits(a)'
  BY <1>1, <1>2, SameIsNarrower, StillFits DEF PagingInv
<1> QED BY <1>1, <1>2, <1>3, ReportOf, AnswerOf DEF PagingInv

\* The reader goes on, with the answer given before or none.
LEMMA GoesOn == ASSUME PagingInv, NEW q, Step(q, answer), ReportFits(q) PROVE PagingInv'
<1>1. PICK a : a = answer
  OBVIOUS
<1>2. Step(q, a) /\ AnswerFits(a)
  BY <1>1 DEF Step, PagingInv
<1> QED BY <1>2, StepFits

\* A page is complete: its rows are shown, and the total, if it is right, is that
\* of the list.
PageDone(r) ==
  /\ IsList(r)
  /\ ~grew /\ ~r.tied => Behind(r.got, r.list, r.filter, r.page * r.size)
  /\ ~grew /\ ~shrank /\ ~r.tied => Shows(r.got, r.list, r.filter, r.page * r.size)
  /\ ListRight(r)

\* The last page shows the places up to the last row.
LEMMA LastPage ==
  ASSUME NEW total \in Nat, NEW size \in Nat \ {0}, NEW page \in Nat \ {0},
         ~(page < TotalPages(total, size))
  PROVE  total <= page * size
<1>1. CASE total = 0
  BY <1>1
<1>2. CASE total # 0
  <2> DEFINE q == (total + size - 1) \div size
  <2>1. q \in Int /\ total + size - 1 < (q + 1) * size
    OBVIOUS
  <2>2. q <= page
    BY <1>2 DEF TotalPages
  <2> HIDE DEF q
  <2>3. (q + 1) * size <= (page + 1) * size
    BY <2>1, <2>2
  <2>4. (page + 1) * size = page * size + size
    OBVIOUS
  <2>5. page * size \in Int /\ (q + 1) * size \in Int
    BY <2>1
  <2> QED BY <2>1, <2>3, <2>4, <2>5
<1> QED BY <1>1, <1>2

\* Beyond the last row there is nothing to show.
LEMMA ShowsAll ==
  ASSUME RowsFit, NEW list \in ListKinds, NEW f, NEW got, NEW n \in Nat, Shows(got, list, f, n),
         Cardinality(Matching(list, f)) <= n
  PROVE  Shows(got, list, f, Cardinality(Matching(list, f)))
<1> DEFINE c == Cardinality(Matching(list, f))
<1>1. PICK s \in Arranged(list, f) : got = PageRows(s, 1, n)
  BY DEF Shows
<1>2. Len(s) = c /\ c \in Nat
  BY <1>1, MatchingFits, OrdersAre DEF Arranged
<1>3. PageRows(s, 1, n) = PageRows(s, 1, c)
  <2>1. \A k \in Nat : (1 - 1) * k + 1 = 1 /\ 1 * k = k
    OBVIOUS
  <2> HIDE DEF c
  <2>2. (IF n < Len(s) THEN n ELSE Len(s)) = (IF c < Len(s) THEN c ELSE Len(s))
    BY <1>2 DEF c
  <2> QED BY <1>2, <2>1, <2>2 DEF PageRows
<1> QED BY <1>1, <1>3 DEF Shows

LEMMA ToPageFits == ASSUME PagingInv, NEW r, PageDone(r), ToPage(r) PROVE PagingInv'
<1>1. CASE /\ Step([r EXCEPT !.at = IF r.list = "crm" THEN "enquiries" ELSE "count", !.page = @ + 1],
                   answer)
           /\ r.size = PerPage
  <2>1. PICK x : x = IF r.list = "crm" THEN "enquiries" ELSE "count"
    OBVIOUS
  <2>2. PICK q : q = [r EXCEPT !.at = x, !.page = @ + 1]
    OBVIOUS
  <2>3. /\ IsList(q) /\ q.page = r.page + 1 /\ q.got = r.got /\ q.list = r.list
        /\ q.filter = r.filter /\ q.size = r.size /\ q.tied = r.tied
        /\ q.at = IF q.list = "crm" THEN "enquiries" ELSE "count"
    BY <1>1, <2>1, <2>2 DEF PageDone, IsList
  <2>4. PlacesShown(q) = r.page * r.size
    <3>1. (r.page + 1) - 1 = r.page
      BY DEF PageDone, IsList
    <3> QED BY <2>3, <3>1 DEF PlacesShown
  <2>5. ListFits(q)
    BY <2>3, <2>4 DEF ListFits, PageDone, TotalFits, OrderKept
  <2>6. Step(q, answer)
    BY <1>1, <2>1, <2>2
  <2> QED BY <2>5, <2>6, GoesOn DEF ReportFits
<1>2. CASE Step(Unread, r) /\ ~(r.size = PerPage /\ r.page < TotalPages(r.total, r.size))
  <2>1. ASSUME Quiet(r), ~r.tied
        PROVE  Shows(r.got, r.list, r.filter,
                     IF r.size = PerPage THEN Cardinality(Matching(r.list, r.filter)) ELSE ExportSize)
    <3>1. Shows(r.got, r.list, r.filter, r.page * r.size)
      BY <2>1 DEF PageDone, Quiet
    <3>2. CASE r.size = PerPage
      <4>1. PICK list, f, got, total : list = r.list /\ f = r.filter /\ got = r.got /\ total = r.total
        OBVIOUS
      <4>2. total = Cardinality(Matching(list, f))
        BY <2>1, <4>1 DEF PageDone, ListRight
      <4>3. list \in ListKinds /\ r.page \in Nat \ {0} /\ r.size \in Nat \ {0}
        BY <3>2, <4>1, CatalogueAssumption DEF PageDone, IsList
      <4>4. total \in Nat
        BY <4>2, <4>3, MatchingFits, FS_CardinalityType DEF PagingInv
      <4>5. total <= r.page * r.size /\ r.page * r.size \in Nat
        BY <1>2, <3>2, <4>1, <4>3, <4>4, LastPage
      <4>6. Shows(got, list, f, Cardinality(Matching(list, f)))
        BY <3>1, <4>1, <4>2, <4>3, <4>5, ShowsAll DEF PagingInv
      <4> QED BY <3>2, <4>1, <4>6
    <3>3. CASE r.size # PerPage
      <4>1. r.page * r.size = ExportSize
        BY <3>3, CatalogueAssumption DEF PageDone, IsList
      <4> QED BY <3>1, <3>3, <4>1
    <3> QED BY <3>2, <3>3
  <2>2. AnswerFits(r)
    BY <2>1 DEF AnswerFits, PageDone, IsList, OrderRight
  <2> QED BY <1>2, <2>2, StepFits DEF ReportFits
<1> QED BY <1>1, <1>2 DEF ToPage

\* The statement a reader is about to make says which list it reads.
LEMMA ReadsList ==
  ASSUME PagingInv, NEW r, r = report, r.at \in {"count", "rows", "enquiries", "found", "orphans"}
  PROVE  ListFits(r)
BY DEF PagingInv, ReportFits, CountersFit, SimilarFits, Unread

LEMMA CountRowsKeeps == ASSUME PagingInv, CountRows PROVE PagingInv'
<1>1. PICK r : r = report
  OBVIOUS
<1>2. ListFits(r) /\ r.at = "count"
  BY <1>1, ReadsList DEF CountRows
<1>3. PICK n : n = Cardinality(Matching(r.list, r.filter))
  OBVIOUS
<1>4. PICK q : q = [r EXCEPT !.at = "rows", !.total = n]
  OBVIOUS
<1>5. /\ IsList(q) /\ q.at = "rows" /\ q.total = n /\ q.list = r.list /\ q.filter = r.filter
      /\ q.got = r.got /\ q.page = r.page /\ q.size = r.size /\ q.tied = r.tied
      /\ q.list # "crm"
  BY <1>2, <1>4 DEF ListFits, IsList
<1>6. PlacesShown(q) = PlacesShown(r)
  BY <1>2, <1>5 DEF PlacesShown
<1>7. ListFits(q)
  BY <1>2, <1>3, <1>5, <1>6 DEF ListFits, TotalFits, OrderKept
<1>8. Step(q, answer)
  BY <1>1, <1>3, <1>4 DEF CountRows
<1> QED BY <1>7, <1>8, GoesOn DEF ReportFits

\* A page fetched of a list that is in line is new.
LEMMA PageFetched ==
  ASSUME PagingInv, NEW r, ListFits(r), r.at \notin {"found", "orphans"},
         NEW s \in Orders(r.list, Matching(r.list, r.filter)),
         NEW p, p = r.got \o PageRows(s, r.page, r.size)
  PROVE  /\ p \in Seq(Stock)
         /\ Len(s) = Cardinality(Matching(r.list, r.filter))
         /\ (~grew /\ ~r.tied /\ InLine(r.list, r.filter)) =>
              Behind(p, r.list, r.filter, r.page * r.size)
         /\ (~grew /\ ~shrank /\ ~r.tied /\ InLine(r.list, r.filter)) =>
              Shows(p, r.list, r.filter, r.page * r.size)
<1>1. r.list \in ListKinds /\ r.page \in Nat \ {0} /\ r.size \in Nat /\ r.got \in Seq(Stock)
  BY DEF ListFits, IsList
<1>2. RowsFit
  BY DEF PagingInv
<1> DEFINE S == Matching(r.list, r.filter)
           P == PageRows(s, r.page, r.size)
<1>3. IsFiniteSet(S) /\ S \subseteq Stock
  BY <1>1, <1>2, MatchingFits
<1>4. s \in Seq(S) /\ Len(s) = Cardinality(S)
  BY <1>3, OrdersAre
<1>5. P \in Seq(S)
  BY <1>1, <1>4, PageIs
<1>6. P \in Seq(Stock)
  BY <1>3, <1>5
<1>7. p \in Seq(Stock)
  BY <1>1, <1>6
<1>8. ASSUME ~grew, ~r.tied, InLine(r.list, r.filter)
      PROVE  Behind(p, r.list, r.filter, r.page * r.size)
  <2>1. PICK list, f, page, size, shot : list = r.list /\ f = r.filter /\ page = r.page
                                         /\ size = r.size /\ shot = r.got
    OBVIOUS
  <2>2. Behind(shot, list, f, (page - 1) * size)
    BY <1>8, <2>1 DEF ListFits, PlacesShown
  <2>3. Behind(shot \o PageRows(s, page, size), list, f, page * size)
    BY <1>1, <1>2, <1>8, <2>1, <2>2, NextPageIsNew
  <2> QED BY <2>1, <2>3
<1>9. ASSUME ~grew, ~shrank, ~r.tied, InLine(r.list, r.filter)
      PROVE  Shows(p, r.list, r.filter, r.page * r.size)
  <2>1. PICK list, f, page, size, shot : list = r.list /\ f = r.filter /\ page = r.page
                                         /\ size = r.size /\ shot = r.got
    OBVIOUS
  <2>2. PageRows(s, 1, (page - 1) * size) \o PageRows(s, page, size) = PageRows(s, 1, page * size)
    BY <1>1, <1>4, <2>1, PageJoins
  <2>3. PlacesShown(r) = (page - 1) * size
    BY <2>1 DEF PlacesShown
  <2>4. shot = PageRows(s, 1, (page - 1) * size)
    <3>1. CASE shot = << >> /\ PlacesShown(r) = 0
      <4>1. PageRows(s, 1, 0) \in Seq(S) /\ Len(PageRows(s, 1, 0)) <= 0
        BY <1>4, PageIs
      <4>2. PageRows(s, 1, 0) = << >>
        <5> HIDE DEF S
        <5>1. PICK x : x = PageRows(s, 1, 0)
          OBVIOUS
        <5>2. x \in Seq(S) /\ Len(x) = 0
          BY <4>1, <5>1, LenProperties
        <5> QED BY <5>1, <5>2, EmptySeq
      <4> QED BY <2>3, <3>1, <4>2
    <3>2. CASE \E t \in Arranged(list, f) : shot = PageRows(t, 1, PlacesShown(r))
      <4>1. PICK t \in Arranged(list, f) : shot = PageRows(t, 1, PlacesShown(r))
        BY <3>2
      <4>2. s = t
        BY <1>1, <1>2, <1>9, <2>1, <4>1, OrderIsOne DEF Arranged
      <4> QED BY <2>3, <4>1, <4>2
    <3> QED BY <1>9, <2>1, <3>1, <3>2 DEF ListFits, OrderKept, Shows
  <2>5. p = PageRows(s, 1, page * size)
    BY <2>1, <2>2, <2>4
  <2> QED BY <2>1, <2>5 DEF Shows, Arranged
<1> QED BY <1>4, <1>7, <1>8, <1>9

LEMMA FetchRowsKeeps == ASSUME PagingInv, FetchRows PROVE PagingInv'
<1>1. PICK r : r = report
  OBVIOUS
<1>2. ListFits(r) /\ r.at = "rows"
  BY <1>1, ReadsList DEF FetchRows
<1>3. PICK s \in Orders(r.list, Matching(r.list, r.filter)) :
        ToPage([r EXCEPT !.got = @ \o PageRows(s, r.page, r.size)])
  BY <1>1 DEF FetchRows
<1>4. PICK p : p = r.got \o PageRows(s, r.page, r.size)
  OBVIOUS
<1>5. PICK q : q = [r EXCEPT !.got = p]
  OBVIOUS
<1>6. /\ p \in Seq(Stock)
      /\ (~grew /\ ~r.tied /\ InLine(r.list, r.filter)) => Behind(p, r.list, r.filter, r.page * r.size)
      /\ (~grew /\ ~shrank /\ ~r.tied /\ InLine(r.list, r.filter)) =>
           Shows(p, r.list, r.filter, r.page * r.size)
  BY <1>2, <1>4, PageFetched
<1>7. r.list \in ListKinds /\ r.list # "crm"
  BY <1>2 DEF ListFits, IsList
<1>8. InLine(r.list, r.filter)
  <2>1. PICK f : f = r.filter
    OBVIOUS
  <2> QED BY <1>7, <2>1, OrderFits DEF PagingInv
<1>9. /\ IsList(q) /\ q.got = p /\ q.at = r.at /\ q.list = r.list /\ q.filter = r.filter
      /\ q.page = r.page /\ q.size = r.size /\ q.tied = r.tied /\ q.total = r.total
  BY <1>2, <1>5, <1>6 DEF ListFits, IsList
<1>10. /\ ~grew /\ ~q.tied => Behind(q.got, q.list, q.filter, q.page * q.size)
       /\ ~grew /\ ~shrank /\ ~q.tied => Shows(q.got, q.list, q.filter, q.page * q.size)
  BY <1>6, <1>8, <1>9
<1>11. ListRight(q)
  BY <1>2, <1>7, <1>9, <1>10 DEF ListRight, ListFits, TotalFits, Quiet, Behind
<1>12. ToPage(q)
  BY <1>3, <1>4, <1>5
<1> QED BY <1>9, <1>10, <1>11, <1>12, ToPageFits DEF PageDone

LEMMA FetchEnquiriesKeeps == ASSUME PagingInv, FetchEnquiries PROVE PagingInv'
<1>1. PICK r : r = report
  OBVIOUS
<1>2. ListFits(r) /\ r.at = "enquiries"
  BY <1>1, ReadsList DEF FetchEnquiries
<1>3. r.list = "crm"
  BY <1>2 DEF ListFits
<1>4. PICK s \in Orders(r.list, Matching(r.list, r.filter)) :
        Step([r EXCEPT !.at = "found", !.matched = Len(s), !.tied = @ \/ Ties,
                       !.got = @ \o PageRows(s, r.page, r.size)], answer)
  BY <1>1, <1>3 DEF FetchEnquiries
<1>5. PICK p : p = r.got \o PageRows(s, r.page, r.size)
  OBVIOUS
<1>6. PICK t \in BOOLEAN : t = (r.tied \/ Ties)
  OBVIOUS
<1>7. PICK n : n = Len(s)
  OBVIOUS
<1>8. PICK q : q = [r EXCEPT !.at = "found", !.matched = n, !.tied = t, !.got = p]
  OBVIOUS
<1>9. /\ p \in Seq(Stock) /\ n = Cardinality(Matching(r.list, r.filter))
      /\ (~grew /\ ~r.tied /\ InLine(r.list, r.filter)) => Behind(p, r.list, r.filter, r.page * r.size)
      /\ (~grew /\ ~shrank /\ ~r.tied /\ InLine(r.list, r.filter)) =>
           Shows(p, r.list, r.filter, r.page * r.size)
  BY <1>2, <1>5, <1>7, PageFetched
<1>10. /\ IsList(q) /\ q.at = "found" /\ q.matched = n /\ q.got = p /\ q.list = r.list
       /\ q.filter = r.filter /\ q.page = r.page /\ q.size = r.size /\ q.tied = t
  BY <1>2, <1>6, <1>8, <1>9 DEF ListFits, IsList
<1>11. ~t => ~r.tied /\ InLine(r.list, r.filter)
  <2>1. PICK list, f : list = r.list /\ f = r.filter
    OBVIOUS
  <2>2. list \in ListKinds
    BY <1>2, <2>1 DEF ListFits, IsList
  <2> QED BY <1>6, <2>1, <2>2, OrderFits DEF PagingInv
<1>12. PlacesShown(q) = r.page * r.size
  BY <1>10 DEF PlacesShown
<1>13. ListFits(q)
  BY <1>3, <1>9, <1>10, <1>11, <1>12 DEF ListFits, TotalFits, OrderKept
<1>14. Step(q, answer)
  BY <1>4, <1>5, <1>6, <1>7, <1>8
<1> QED BY <1>13, <1>14, GoesOn DEF ReportFits

LEMMA ReadFoundKeeps == ASSUME PagingInv, ReadFound PROVE PagingInv'
<1>1. PICK r : r = report
  OBVIOUS
<1>2. ListFits(r) /\ r.at = "found"
  BY <1>1, ReadsList DEF ReadFound
<1>3. CASE Step([r EXCEPT !.at = "orphans", !.total = r.matched], answer)
  <2>1. PICK q : q = [r EXCEPT !.at = "orphans", !.total = r.matched]
    OBVIOUS
  <2>2. /\ IsList(q) /\ q.at = "orphans" /\ q.total = r.matched /\ q.list = r.list
        /\ q.filter = r.filter /\ q.got = r.got /\ q.page = r.page /\ q.size = r.size
        /\ q.tied = r.tied
    BY <1>2, <2>1 DEF ListFits, IsList
  <2>3. PlacesShown(q) = PlacesShown(r)
    BY <1>2, <2>2 DEF PlacesShown
  <2>4. ListFits(q)
    BY <1>2, <2>2, <2>3 DEF ListFits, TotalFits, OrderKept
  <2> QED BY <1>3, <2>1, <2>4, GoesOn DEF ReportFits
<1>4. CASE \E n \in Elsewhere :
             Step([r EXCEPT !.at = "orphans", !.total = n, !.strayed = TRUE], answer)
  <2>0. PICK n \in Elsewhere :
          Step([r EXCEPT !.at = "orphans", !.total = n, !.strayed = TRUE], answer)
    BY <1>4
  <2>1. PICK q : q = [r EXCEPT !.at = "orphans", !.total = n, !.strayed = TRUE]
    OBVIOUS
  <2>2. /\ IsList(q) /\ q.at = "orphans" /\ q.strayed /\ q.list = r.list
        /\ q.filter = r.filter /\ q.got = r.got /\ q.page = r.page /\ q.size = r.size
        /\ q.tied = r.tied
    BY <1>2, <2>1 DEF ListFits, IsList
  <2>3. PlacesShown(q) = PlacesShown(r)
    BY <1>2, <2>2 DEF PlacesShown
  <2>4. ListFits(q)
    BY <1>2, <2>2, <2>3 DEF ListFits, TotalFits, OrderKept
  <2> QED BY <2>0, <2>1, <2>4, GoesOn DEF ReportFits
<1> QED BY <1>1, <1>3, <1>4 DEF ReadFound

LEMMA CountOrphansKeeps == ASSUME PagingInv, CountOrphans PROVE PagingInv'
<1> DEFINE gone == {i \in Stock : listed[i] # Missing /\ listed[i].table = "enquiry" /\ listed[i].deleted}
           all == {i \in Stock : listed[i] # Missing /\ listed[i].table = "enquiry"}
<1>1. PICK r : r = report
  OBVIOUS
<1>2. ListFits(r) /\ r.at = "orphans" /\ r.list = "crm"
  BY <1>1, ReadsList DEF CountOrphans, ListFits
<1>3. PICK n : n = Cardinality(gone)
  OBVIOUS
<1>4. PICK q : q = [r EXCEPT !.hidden = n]
  OBVIOUS
<1>5. /\ IsList(q) /\ q.at = "orphans" /\ q.hidden = n /\ q.total = r.total /\ q.list = r.list
      /\ q.filter = r.filter /\ q.got = r.got /\ q.page = r.page /\ q.size = r.size
      /\ q.tied = r.tied /\ q.strayed = r.strayed
  BY <1>2, <1>4 DEF ListFits, IsList
<1>6. /\ ~grew /\ ~q.tied => Behind(q.got, q.list, q.filter, q.page * q.size)
      /\ ~grew /\ ~shrank /\ ~q.tied => Shows(q.got, q.list, q.filter, q.page * q.size)
  <2>1. r.page \in Nat \ {0} /\ r.size \in Nat \ {0}
    BY <1>2, CatalogueAssumption DEF ListFits, IsList
  <2>2. \A j, k \in Nat \ {0} : j * k # 0
    OBVIOUS
  <2>3. PlacesShown(r) = r.page * r.size /\ PlacesShown(r) # 0
    BY <1>2, <2>1, <2>2 DEF PlacesShown
  <2> QED BY <1>2, <1>5, <2>3 DEF ListFits, OrderKept
<1>7. Cardinality(Live("enquiry")) + n = Cardinality(all)
  <2>1. IsFiniteSet(gone) /\ IsFiniteSet(Live("enquiry"))
    BY CatalogueAssumption, FS_Subset DEF Live
  <2>2. all = Live("enquiry") \cup gone /\ Live("enquiry") \cap gone = {}
    BY DEF Live
  <2>3. Cardinality({}) = 0
    BY FS_EmptySet
  <2>4. /\ Cardinality(all) = Cardinality(Live("enquiry")) + Cardinality(gone) - Cardinality({})
        /\ Cardinality(Live("enquiry")) \in Nat /\ Cardinality(gone) \in Nat
    BY <2>1, <2>2, FS_Union, FS_CardinalityType
  <2> QED BY <1>3, <2>3, <2>4
<1>8. ListRight(q)
  <2>1. Matching(q.list, q.filter) = Live("enquiry")
    BY <1>2, <1>5 DEF Matching
  <2>2. Matching(r.list, r.filter) = Matching(q.list, q.filter)
    BY <1>5
  <2> QED BY <1>2, <1>5, <1>6, <1>7, <2>1, <2>2 DEF ListRight, ListFits, TotalFits, Quiet, Behind
<1>9. ToPage(q)
  BY <1>1, <1>3, <1>4 DEF CountOrphans
<1> QED BY <1>5, <1>6, <1>8, <1>9, ToPageFits DEF PageDone

\* A statement of the similar listings: what it finds is new, and if it leaves
\* room it has found all.
LEMMA FillSimilarKeeps == ASSUME PagingInv, FillSimilar PROVE PagingInv'
<1>1. PICK r : r = report
  OBVIOUS
<1>2. SimilarFits(r)
  BY <1>1 DEF PagingInv, ReportFits, ListFits, CountersFit, Unread, FillSimilar
<1> DEFINE S == TierRows(r.tier)
<1>3. PICK s \in Orders("public", S) :
        LET p == r.got \o PageRows(s, 1, SimilarLimit - Len(r.got))
        IN IF r.tier = 3 \/ Len(p) >= SimilarLimit
           THEN Step(Unread, [r EXCEPT !.got = p])
           ELSE Step([r EXCEPT !.got = p, !.tier = @ + 1], answer)
  BY <1>1 DEF FillSimilar
<1>4. /\ r.tier \in 1..3 /\ r.got \in Seq(Stock) /\ Len(r.got) \in Nat /\ Once(r.got)
      /\ SimilarLimit \in Nat /\ SimilarLimit - Len(r.got) \in Nat /\ r.base \notin ToSet(r.got)
  BY <1>2, CatalogueAssumption DEF SimilarFits, FewSimilar
<1>5. S = {i \in Others(r) : Tier(r.tier, i) /\ i \notin ToSet(r.got)}
  BY <1>1 DEF TierRows, Others
<1>6. S \subseteq Stock /\ IsFiniteSet(S) /\ r.base \notin S
  BY <1>5, CatalogueAssumption, FS_Subset DEF Others, Live
<1>7. S \cap ToSet(r.got) = {}
  BY <1>5
<1>8. /\ r.tier = 2 => {i \in Others(r) : listed[i].type = r.row.type} \subseteq S \cup ToSet(r.got)
      /\ r.tier = 3 => {i \in Others(r) : listed[i].deal = r.row.deal} \subseteq S \cup ToSet(r.got)
  <2>1. ASSUME NEW i PROVE Tier(2, i) <=> listed[i].type = report.row.type
    BY DEF Tier
  <2>2. ASSUME NEW i PROVE Tier(3, i) <=> listed[i].deal = report.row.deal
    BY DEF Tier
  <2> QED BY <1>1, <1>5, <2>1, <2>2
<1> HIDE DEF S
<1>9. /\ s \in Seq(S) /\ (\A m, n \in 1..Len(s) : m # n => s[m] # s[n])
      /\ \A i \in S : \E m \in 1..Len(s) : s[m] = i
  BY <1>6, OrdersAre
<1>10. PICK room : room = SimilarLimit - Len(r.got)
  OBVIOUS
<1>11. PICK P : P = PageRows(s, 1, room)
  OBVIOUS
<1>12. PICK p : p = r.got \o P
  OBVIOUS
<1>13. /\ P \in Seq(S) /\ Len(P) \in Nat /\ Len(P) <= room /\ Once(P)
       /\ ToSet(P) \subseteq {s[m] : m \in 1..Len(s)}
       /\ Len(P) < room => \A m \in 1..Len(s) : s[m] \in ToSet(P)
  <2>1. room \in Nat
    BY <1>4, <1>10
  <2> QED BY ONLY <1>9, <1>11, <2>1, FirstPageIs
<1>14. ToSet(P) \subseteq S /\ (Len(P) < room => ToSet(P) = S)
  <2>1. \A m \in 1..Len(s) : s[m] \in S
    BY <1>9
  <2>2. ToSet(P) \subseteq S
    BY <1>13, <2>1
  <2> QED BY <1>9, <1>13, <2>2
<1>15. /\ p \in Seq(Stock) /\ Len(p) = Len(r.got) + Len(P) /\ Once(p)
       /\ ToSet(p) = ToSet(r.got) \cup ToSet(P)
  <2>1. P \in Seq(Stock)
    BY <1>6, <1>13
  <2>2. ToSet(r.got) \cap ToSet(P) = {}
    BY <1>7, <1>14
  <2>3. Once(r.got) /\ Once(P) /\ r.got \in Seq(Stock)
    BY <1>4, <1>13
  <2> QED BY <1>12, <2>1, <2>2, <2>3, OnceJoined
<1>16. Len(p) <= SimilarLimit /\ r.base \notin ToSet(p) /\ (Len(p) < SimilarLimit => Len(P) < room)
  BY <1>4, <1>6, <1>10, <1>13, <1>14, <1>15
<1>17. Len(p) < SimilarLimit => ToSet(p) = ToSet(r.got) \cup S
  BY <1>14, <1>15, <1>16
<1>18. IF r.tier = 3 \/ Len(p) >= SimilarLimit
       THEN Step(Unread, [r EXCEPT !.got = p])
       ELSE Step([r EXCEPT !.got = p, !.tier = @ + 1], answer)
  BY <1>3, <1>10, <1>11, <1>12
<1>19. CASE r.tier = 3 \/ Len(p) >= SimilarLimit
  <2>1. PICK a : a = [r EXCEPT !.got = p]
    OBVIOUS
  <2>2. a.what = "similar" /\ a.got = p /\ a.base = r.base /\ a.row = r.row
    BY <1>2, <2>1 DEF SimilarFits
  <2>3. Others(a) = Others(r)
    BY <2>2 DEF Others
  <2>4. ASSUME ~grew, ~shrank, Len(p) < SimilarLimit PROVE TypeFound(a) /\ DealFound(a)
    <3>1. r.tier = 3 /\ TypeFound(r)
      BY <1>2, <1>4, <1>15, <1>13, <1>19, <2>4, CatalogueAssumption DEF SimilarFits
    <3> QED BY <1>8, <1>17, <2>2, <2>3, <2>4, <3>1 DEF TypeFound, DealFound
  <2>5. AnswerFits(a)
    BY <1>15, <1>16, <2>2, <2>4 DEF AnswerFits, SimilarRight, FewSimilar
  <2>6. Step(Unread, a)
    BY <1>18, <1>19, <2>1
  <2> QED BY <2>5, <2>6, StepFits DEF ReportFits
<1>20. CASE ~(r.tier = 3 \/ Len(p) >= SimilarLimit)
  <2>1. PICK q : q = [r EXCEPT !.got = p, !.tier = @ + 1]
    OBVIOUS
  <2>2. /\ {"what", "at", "tier", "base", "row", "got"} \subseteq DOMAIN q
        /\ q.what = "similar" /\ q.at = "similar" /\ q.got = p /\ q.base = r.base /\ q.row = r.row
        /\ q.tier = r.tier + 1
    BY <1>2, <2>1 DEF SimilarFits
  <2>3. Others(q) = Others(r)
    BY <2>2 DEF Others
  <2>4. Len(p) < SimilarLimit /\ q.tier \in 1..3 /\ (q.tier = 3 => r.tier = 2)
    BY <1>4, <1>13, <1>15, <1>20, <2>2
  <2>5. q.tier = 3 => TypeFound(q)
    BY <1>8, <1>17, <2>2, <2>3, <2>4 DEF TypeFound
  <2>6. SimilarFits(q)
    BY <1>15, <1>16, <2>2, <2>4, <2>5 DEF SimilarFits, FewSimilar
  <2>7. Step(q, answer)
    BY <1>18, <1>20, <2>1
  <2> QED BY <2>6, <2>7, GoesOn DEF ReportFits
<1> QED BY <1>19, <1>20

\* The codes of the masters, the active ones among them, and what the tables hold.
HeldFits == /\ \A t \in DOMAIN StatusCodes : shown[t] \subseteq StatusCodes[t]
            /\ DOMAIN shown = DOMAIN StatusCodes
            /\ \A i \in Stock : listed[i] = Missing \/ IsHeld(listed[i], date)

LEMMA CountStatusesKeeps == ASSUME PagingInv, HeldFits, CountStatuses PROVE PagingInv'
<1>1. PICK r : r = report
  OBVIOUS
<1>2. CountersFit(r)
  BY <1>1 DEF PagingInv, ReportFits, ListFits, SimilarFits, Unread, CountStatuses
<1>3. PICK t \in DOMAIN StatusCodes : t = r.table
  BY <1>2 DEF CountersFit
<1>4. PICK n : n = byStatus(t)
  OBVIOUS
<1>5. n = [c \in shown[t] |-> Cardinality(WithStatus(t, c))] /\ shown[t] \subseteq StatusCodes[t]
  BY <1>4 DEF byStatus, WithStatus, HeldFits
<1>6. PICK a : a = [r EXCEPT !.by = n]
  OBVIOUS
<1>7. a.what = "counters" /\ a.by = n /\ a.table = t /\ a.total = r.total
  BY <1>2, <1>3, <1>6 DEF CountersFit
<1>8. CountersRight(a)
  BY <1>2, <1>3, <1>5, <1>7 DEF CountersFit, AllCounted, CountersRight
<1>9. AnswerFits(a)
  BY <1>7, <1>8 DEF AnswerFits
<1>10. Step(Unread, a)
  BY <1>1, <1>3, <1>4, <1>6 DEF CountStatuses
<1> QED BY <1>9, <1>10, StepFits DEF ReportFits

LEMMA HeldStarts == CatalogueInit => HeldFits
<1> SUFFICES ASSUME CatalogueInit PROVE HeldFits
  OBVIOUS
<1>1. PICK first \in Firsts : listed = first.listed /\ date = first.date
  BY DEF CatalogueInit
<1> QED BY <1>1, CatalogueAssumption DEF CatalogueInit, HeldFits

\* A status is healed to one of the table's codes, and a row is of the day it is
\* entered.
LEMMA HeldSteps ==
  ASSUME RowsFit, HeldFits, CatalogueNext \/ UNCHANGED catalogueVars PROVE HeldFits'
<1>1. ASSUME NEW i \in Stock, NEW row, listed' = [listed EXCEPT ![i] = row], IsHeld(row, date),
             UNCHANGED <<shown, date>>
      PROVE  HeldFits'
  BY <1>1 DEF HeldFits, RowsFit
<1>2. CASE AddRow
  <2>1. PICK i \in Stock, sent \in Arrivals :
          /\ listed' = [listed EXCEPT ![i] = [sent EXCEPT !.status = HealedStatus(sent.table, @),
                                                        !.born = date]]
          /\ Accepted(sent.table, sent.status)
          /\ UNCHANGED <<shown, date>>
    BY <1>2 DEF AddRow
  <2>2. PICK code : code = HealedStatus(sent.table, sent.status)
    OBVIOUS
  <2>3. PICK row : row = [sent EXCEPT !.status = code, !.born = date]
    OBVIOUS
  <2>4. IsRow(row) /\ row.table = sent.table /\ row.status = code /\ row.born = date
    BY <2>3, CatalogueAssumption DEF IsRow, RowsFit
  <2>5. sent.table \in DOMAIN StatusCodes => code \in StatusCodes[sent.table]
    BY <2>1, <2>2 DEF Accepted, HeldFits, StatusCodes
  <2>6. IsHeld(row, date)
    BY <2>4, <2>5 DEF IsHeld, RowsFit
  <2>7. listed' = [listed EXCEPT ![i] = row]
    BY <2>1, <2>2, <2>3
  <2> QED BY <1>1, <2>1, <2>6, <2>7
<1>3. CASE SetEntryStatus
  <2>1. PICK i \in Stock, c \in UNION {StatusCodes[t] : t \in DOMAIN StatusCodes} :
          /\ i \in Live("inventory") \cup Live("enquiry")
          /\ Accepted(listed[i].table, c)
          /\ listed' = [listed EXCEPT ![i].status = HealedStatus(listed[i].table, c)]
          /\ UNCHANGED <<shown, date>>
    BY <1>3 DEF SetEntryStatus
  <2>2. PICK code : code = HealedStatus(listed[i].table, c)
    OBVIOUS
  <2>3. PICK row : row = [listed[i] EXCEPT !.status = code]
    OBVIOUS
  <2>4. listed[i] # Missing /\ listed[i].table \in DOMAIN StatusCodes /\ listed[i].table # "website"
    BY <2>1 DEF Live, StatusCodes
  <2>5. code \in StatusCodes[listed[i].table]
    BY <2>1, <2>2, <2>4 DEF Accepted, HeldFits
  <2>6. IsHeld(listed[i], date)
    BY <2>4 DEF HeldFits
  <2>7. IsHeld(row, date)
    BY <2>3, <2>5, <2>6 DEF IsHeld, IsRow
  <2>8. listed' = [listed EXCEPT ![i] = row]
    BY <2>1, <2>2, <2>3
  <2> QED BY <1>1, <2>1, <2>7, <2>8
<1>4. CASE DecideEntry
  <2>1. PICK i \in Live("website"), a \in {"approved", "rejected"} :
          /\ listed' = [listed EXCEPT ![i].approval = a, ![i].approvedOn = date]
          /\ UNCHANGED <<shown, date>>
    BY <1>4 DEF DecideEntry
  <2>2. i \in Stock /\ IsHeld(listed[i], date)
    BY <2>1 DEF Live, HeldFits
  <2>3. PICK row : row = [listed[i] EXCEPT !.approval = a, !.approvedOn = date]
    OBVIOUS
  <2>4. IsHeld(row, date)
    BY <2>2, <2>3 DEF IsHeld, IsRow, RowsFit
  <2>5. listed' = [listed EXCEPT ![i] = row]
    BY <2>1, <2>2, <2>3 DEF RowsFit
  <2> QED BY <1>1, <2>1, <2>2, <2>4, <2>5
<1>5. CASE RemoveEntry
  <2>1. PICK i \in Stock :
          /\ \E t \in Tables : i \in Live(t)
          /\ listed' = [listed EXCEPT ![i].deleted = TRUE,
                                      ![i].active = @ /\ listed[i].table # "website"]
          /\ UNCHANGED <<shown, date>>
    BY <1>5 DEF RemoveEntry
  <2>2. IsHeld(listed[i], date)
    BY <2>1 DEF Live, HeldFits
  <2>3. PICK seen : seen = (listed[i].active /\ listed[i].table # "website")
    OBVIOUS
  <2>4. PICK row : row = [listed[i] EXCEPT !.deleted = TRUE, !.active = seen]
    OBVIOUS
  <2>5. IsHeld(row, date)
    BY <2>2, <2>4 DEF IsHeld, IsRow
  <2>6. listed' = [listed EXCEPT ![i] = row]
    BY <2>1, <2>3, <2>4 DEF RowsFit
  <2> QED BY <1>1, <2>1, <2>5, <2>6
<1>6. CASE SwitchStatus
  <2>1. PICK t \in DOMAIN StatusCodes :
          /\ \E c \in StatusCodes[t] :
               shown' = [shown EXCEPT ![t] = IF c \in @ THEN @ \ {c} ELSE @ \cup {c}]
          /\ UNCHANGED <<listed, date>>
    BY <1>6 DEF SwitchStatus
  <2>2. PICK c \in StatusCodes[t] :
          shown' = [shown EXCEPT ![t] = IF c \in @ THEN @ \ {c} ELSE @ \cup {c}]
    BY <2>1
  <2> QED BY <2>1, <2>2 DEF HeldFits
<1>7. CASE NextDate
  <2>1. date' = date + 1 /\ UNCHANGED <<listed, shown>>
    BY <1>7 DEF NextDate
  <2>2. \A i \in Stock : listed[i] # Missing => IsHeld(listed[i], date + 1)
    BY DEF HeldFits, IsHeld, IsRow, RowsFit
  <2> QED BY <2>1, <2>2 DEF HeldFits
<1>8. CASE UNCHANGED <<listed, shown, date>>
  BY <1>8 DEF HeldFits
<1>9. BeginList \/ BeginCounters \/ BeginSimilar => UNCHANGED <<listed, shown, date>>
  BY DEF BeginList, BeginCounters, BeginSimilar, Ask
<1>10. CountRows \/ FetchRows \/ FetchEnquiries \/ ReadFound \/ CountOrphans \/ CountStatuses
         \/ FillSimilar => UNCHANGED <<listed, shown, date>>
  BY DEF CountRows, FetchRows, FetchEnquiries, ReadFound, CountOrphans, CountStatuses, FillSimilar,
         ToPage, Step
<1> QED BY <1>2, <1>3, <1>4, <1>5, <1>6, <1>7, <1>8, <1>9, <1>10 DEF CatalogueNext, catalogueVars

CatalogueInv == PagingInv /\ HeldFits

LEMMA CatalogueSteps == CatalogueInv /\ (CatalogueNext \/ UNCHANGED catalogueVars) => CatalogueInv'
<1> SUFFICES ASSUME PagingInv, HeldFits, CatalogueNext \/ UNCHANGED catalogueVars PROVE PagingInv'
  BY HeldSteps DEF CatalogueInv, PagingInv
<1>1. CASE UNCHANGED catalogueVars
  <2>1. PICK q : q = report
    OBVIOUS
  <2>2. Step(q, answer) /\ ReportFits(q)
    BY <1>1, <2>1 DEF Step, catalogueVars, PagingInv
  <2> QED BY <2>2, GoesOn
<1>2. CASE CatalogueNext
  BY <1>2, WritersKeep, BeginsFit, CountRowsKeeps, FetchRowsKeeps, FetchEnquiriesKeeps, ReadFoundKeeps,
     CountOrphansKeeps, CountStatusesKeeps, FillSimilarKeeps DEF CatalogueNext
<1> QED BY <1>1, <1>2

LEMMA PagesHold == PagingInv => PagesSound /\ SimilarSound
<1> SUFFICES ASSUME PagingInv PROVE PagesSound /\ SimilarSound
  OBVIOUS
<1>1. AnswerFits(answer)
  BY DEF PagingInv
<1>2. PagesRepeatNothing /\ TotalsRight
  BY <1>1 DEF AnswerFits, ListRight, PagesRepeatNothing, TotalsRight
<1>3. PagesInOrder
  BY <1>1 DEF AnswerFits, OrderRight, Shows, Arranged, PagesInOrder
<1>4. SimilarSound
  BY <1>1 DEF AnswerFits, SimilarRight, FewSimilar, TypeFound, DealFound, Others, SimilarSound
<1> QED BY <1>2, <1>3, <1>4 DEF PagesSound

----------------------------------------
(* Figures: a sum over kinds of how many rows are of each is the number of     *)
(* rows that are of one of them.                                               *)
LEMMA CountsAddUp ==
  ASSUME NEW K, IsFiniteSet(K), NEW R, IsFiniteSet(R), NEW kind,
         NEW f, \A k \in K : f[k] = Cardinality({i \in R : kind[i] = k})
  PROVE  SumFunctionOnSet(f, K) = Cardinality({i \in R : kind[i] \in K})
<1> DEFINE Of(T) == {i \in R : kind[i] \in T}
           Good == {T \in SUBSET K : SumFunctionOnSet(f, T) = Cardinality(Of(T))}
<1>1. ASSUME NEW k \in K PROVE f[k] \in Nat
  <2>1. IsFiniteSet({i \in R : kind[i] = k})
    BY FS_Subset
  <2> QED BY <2>1, FS_CardinalityType
<1>2. ASSUME NEW T \in SUBSET K, \A U \in SUBSET T : U # T => U \in Good PROVE T \in Good
  <2>1. CASE T = {}
    <3>1. Of(T) = {} /\ Cardinality({}) = 0
      BY <2>1, FS_EmptySet
    <3> QED BY <2>1, <3>1, SumEmpty
  <2>2. CASE T # {}
    <3>1. PICK k \in T : TRUE
      BY <2>2
    <3> DEFINE U == T \ {k}
               one == {i \in R : kind[i] = k}
    <3>2. SumFunctionOnSet(f, U) = Cardinality(Of(U))
      BY <1>2
    <3>3. IsFiniteSet(T) /\ \A j \in T : f[j] \in Int
      BY <1>1, FS_Subset
    <3>4. SumFunctionOnSet(f, T) = f[k] + SumFunctionOnSet(f, U)
      BY <3>3, SumRemove
    <3>5. Of(T) = one \cup Of(U) /\ one \cap Of(U) = {}
      OBVIOUS
    <3>6. IsFiniteSet(one) /\ IsFiniteSet(Of(U))
      BY FS_Subset
    <3> HIDE DEF U, Of, one
    <3>7. Cardinality(one \cup Of(U)) = Cardinality(one) + Cardinality(Of(U)) - Cardinality(one \cap Of(U))
      BY <3>6, FS_Union
    <3>8. Cardinality({}) = 0 /\ Cardinality(one) \in Nat /\ Cardinality(Of(U)) \in Nat
      BY <3>6, FS_EmptySet, FS_CardinalityType
    <3>9. f[k] = Cardinality(one)
      BY DEF one
    <3>10. /\ Cardinality(Of(T)) = Cardinality(one \cup Of(U))
           /\ Cardinality(one \cap Of(U)) = Cardinality({})
      BY <3>5, Zenon
    <3>11. SumFunctionOnSet(f, T) = Cardinality(Of(T))
      BY ONLY <3>2, <3>4, <3>7, <3>8, <3>9, <3>10
    <3> QED BY <3>11
  <2> QED BY <2>1, <2>2
<1>3. SUBSET K \subseteq Good
  <2> HIDE DEF Good
  <2> QED BY <1>2, SetOfSubsets
<1>4. K \in Good
  BY <1>3
<1> QED BY <1>4

\* The sum the dashboard shows leaves out the kinds of which there is none.
LEMMA SumOfCounts ==
  ASSUME NEW K, IsFiniteSet(K), NEW R, IsFiniteSet(R), NEW kind,
         NEW f, f = [k \in K |-> Cardinality({i \in R : kind[i] = k})]
  PROVE  SumOf(f) = Cardinality({i \in R : kind[i] \in K})
<1> DEFINE P == {k \in K : f[k] > 0}
<1>1. ASSUME NEW k \in K PROVE f[k] \in Nat
  <2>1. IsFiniteSet({i \in R : kind[i] = k})
    BY FS_Subset
  <2> QED BY <2>1, FS_CardinalityType
<1>2. SumOf(f) = SumFunctionOnSet(f, P)
  BY DEF SumOf
<1>3. P \in SUBSET K /\ IsFiniteSet(P) /\ IsFiniteSet(K \ P)
  BY FS_Subset
<1>4. \A k \in K \ P : f[k] = 0
  BY <1>1
<1>5. \A k \in K : f[k] \in Int
  BY <1>1
<1> HIDE DEF P
<1>6. SumFunctionOnSet(f, K) = SumFunctionOnSet(f, P) + SumFunctionOnSet(f, K \ P)
  BY <1>3, <1>5, SumSplit
<1>7. SumFunctionOnSet(f, K \ P) = 0
  BY <1>3, <1>4, SumZero
<1>8. SumFunctionOnSet(f, P) \in Int
  <2>1. \A k \in P : f[k] \in Int
    BY <1>3, <1>5
  <2> QED BY <1>3, <2>1, SumType
<1>9. SumFunctionOnSet(f, K) = Cardinality({i \in R : kind[i] \in K})
  <2>1. \A k \in K : f[k] = Cardinality({i \in R : kind[i] = k})
    OBVIOUS
  <2> QED BY <2>1, CountsAddUp
<1> QED BY <1>2, <1>6, <1>7, <1>8, <1>9

LEMMA LiveIsFinite == ASSUME NEW t PROVE IsFiniteSet(Live(t)) /\ Live(t) \subseteq Stock
BY CatalogueAssumption, FS_Subset DEF Live

LEMMA CardsHold == CatalogueInv => CardsSound
<1> SUFFICES ASSUME PagingInv, HeldFits PROVE CardsSound
  BY DEF CatalogueInv
<1> DEFINE Length(list, f) == Cardinality(Matching(list, f))
<1>1. websiteCounters.total = Length("website", Unfiltered)
  <2>1. Matching("website", Unfiltered) = Live("website")
    BY DEF Matching, MatchesWebsite, Unfiltered
  <2> QED BY <2>1 DEF websiteCounters
<1>2. websiteCounters.pending = Length("website", [Unfiltered EXCEPT !.approval = "pending"])
  <2>1. Matching("website", [Unfiltered EXCEPT !.approval = "pending"])
          = {i \in Live("website") : listed[i].approval = "pending"}
    BY DEF Matching, MatchesWebsite, Unfiltered
  <2> QED BY <2>1 DEF websiteCounters
<1>3. websiteCounters.live = Length("public", Unfiltered)
  BY DEF websiteCounters, Matching
<1>4. ASSUME NEW t \in DOMAIN StatusCodes, NEW c \in shown[t]
      PROVE  byStatus(t)[c] = Length(t, [Unfiltered EXCEPT !.status = c])
  <2>1. c # ""
    BY <1>4 DEF HeldFits, StatusCodes
  <2>2. t = "inventory" \/ t = "enquiry"
    BY DEF StatusCodes
  <2>3. Matching(t, [Unfiltered EXCEPT !.status = c]) = {i \in Live(t) : listed[i].status = c}
    BY <2>1, <2>2 DEF Matching, MatchesInventory, MatchesEnquiry, Unfiltered
  <2> QED BY <2>3 DEF byStatus
<1>5. \A code : listByProperty(code) = {i \in listEnquiriesReferencingPropertyCode(code) : ~isOrphan(i)}
  BY DEF listByProperty, listEnquiriesReferencingPropertyCode, isOrphan, Live
<1>6. ASSUME answer.what = "counters", ~grew, ~shrank
      PROVE  answer.total - SumOf(answer.by)
               = Cardinality({i \in Live(answer.table) : listed[i].status \notin DOMAIN answer.by})
  <2>1. PICK t, f, n : t = answer.table /\ f = answer.by /\ n = answer.total
    OBVIOUS
  <2> DEFINE K == DOMAIN f
             L == Live(t)
             kind == [i \in L |-> listed[i].status]
             in == {i \in L : kind[i] \in K}
             out == {i \in L : listed[i].status \notin K}
  <2>2. /\ n = Cardinality(L) /\ t \in DOMAIN StatusCodes /\ K \subseteq StatusCodes[t]
        /\ f = [c \in K |-> Cardinality(WithStatus(t, c))]
    BY <1>6, <2>1 DEF PagingInv, AnswerFits, CountersRight
  <2>3. IsFiniteSet(K)
    <3>1. StatusCodes[t] \subseteq {"available", "sold"} \cup {"new_enquiry", "enquiry_converted"}
      BY <2>2 DEF StatusCodes
    <3>2. \A x : IsFiniteSet({x})
      BY FS_Singleton
    <3>3. IsFiniteSet({"available"} \cup {"sold"}) /\ IsFiniteSet({"new_enquiry"} \cup {"enquiry_converted"})
      BY <3>2, FS_Union
    <3>4. IsFiniteSet(({"available"} \cup {"sold"}) \cup ({"new_enquiry"} \cup {"enquiry_converted"}))
      BY <3>3, FS_Union
    <3>5. K \subseteq ({"available"} \cup {"sold"}) \cup ({"new_enquiry"} \cup {"enquiry_converted"})
      BY <2>2, <3>1
    <3> HIDE DEF K
    <3> QED BY <3>4, <3>5, FS_Subset
  <2>4. IsFiniteSet(L)
    BY LiveIsFinite
  <2>5. \A c \in K : WithStatus(t, c) = {i \in L : kind[i] = c}
    BY DEF WithStatus
  <2>6. f = [c \in K |-> Cardinality({i \in L : kind[i] = c})]
    <3> HIDE DEF K, L, kind
    <3> QED BY <2>2, <2>5
  <2>7. SumOf(f) = Cardinality(in)
    <3> HIDE DEF K, L, kind
    <3> QED BY <2>3, <2>4, <2>6, SumOfCounts
  <2>8. L = in \cup out /\ in \cap out = {} /\ IsFiniteSet(in) /\ IsFiniteSet(out)
    BY <2>4, FS_Subset
  <2> HIDE DEF in, out, L
  <2>9. /\ Cardinality(in \cup out) = Cardinality(in) + Cardinality(out) - Cardinality(in \cap out)
        /\ Cardinality({}) = 0 /\ Cardinality(in) \in Nat /\ Cardinality(out) \in Nat
    BY <2>8, FS_Union, FS_EmptySet, FS_CardinalityType
  <2>10. Cardinality(L) = Cardinality(in \cup out) /\ Cardinality(in \cap out) = Cardinality({})
    BY <2>8, Zenon
  <2>11. n - SumOf(f) = Cardinality(out)
    BY ONLY <2>2, <2>7, <2>9, <2>10
  <2> QED BY <2>1, <2>11 DEF out, L
<1> QED BY <1>1, <1>2, <1>3, <1>4, <1>5, <1>6 DEF CardsSound

----------------------------------------
(* The bars of a chart: each is a day, a week from Monday or a month, and a     *)
(* row of the window is of one bar.                                            *)
WindowFrom(g) == CASE g = "daily" -> date - 29
                   [] g = "weekly" -> Monday(date) - 77
                   [] g = "monthly" -> (MonthOf(date) - 11) * 30
                   [] g = "custom" -> IF date > 365 THEN date - 365 ELSE 0

BarOf(g, d) == CASE g = "daily" -> d - date + 30
                 [] g = "weekly" -> (d \div 7) - (date \div 7) + 12
                 [] g = "monthly" -> MonthOf(d) - MonthOf(date) + 12
                 [] g = "custom" -> d - WindowFrom("custom") + 1

\* What the bars of a chart must be for its rows to be counted once.
BarsFit(g, b) ==
  /\ \E n \in Nat : DOMAIN b = 1..n
  /\ \A d \in Int : d <= date =>
       /\ \A k \in DOMAIN b : BucketOf(g, d) = b[k] <=> BarOf(g, d) = k
       /\ (d >= Since(g, b) /\ BarOf(g, d) \in DOMAIN b) <=> d \in WindowFrom(g)..date

LEMMA DaysFit == ASSUME date \in Int PROVE BarsFit("daily", DayBuckets(30))
<1> DEFINE b == DayBuckets(30)
<1>1. DOMAIN b = 1..30 /\ (\A k \in 1..30 : b[k] = date - 30 + k) /\ b # << >>
  BY DEF DayBuckets
<1>2. Since("daily", b) = date - 29
  <2> HIDE DEF b
  <2>1. b[1] = date - 29 /\ b # << >>
    BY <1>1
  <2> QED BY <2>1 DEF Since
<1> HIDE DEF b
<1>3. \A d \in Int : BucketOf("daily", d) = d /\ BarOf("daily", d) = d - date + 30
  BY DEF BucketOf, BarOf
<1>4. WindowFrom("daily") = date - 29
  BY DEF WindowFrom
<1>5. ASSUME NEW d \in Int, d <= date
      PROVE  /\ \A k \in 1..30 : BucketOf("daily", d) = b[k] <=> BarOf("daily", d) = k
             /\ (d >= Since("daily", b) /\ BarOf("daily", d) \in 1..30) <=> d \in WindowFrom("daily")..date
  <2>1. ASSUME NEW k \in 1..30 PROVE d = b[k] <=> d - date + 30 = k
    <3>1. b[k] = date - 30 + k
      BY <1>1
    <3>2. k \in Int
      BY <2>1
    <3> QED BY <3>1, <3>2
  <2>2. (d >= date - 29 /\ d - date + 30 \in 1..30) <=> d \in (date - 29)..date
    BY <1>5
  <2> QED BY <1>2, <1>3, <1>4, <2>1, <2>2
<1>6. 30 \in Nat
  OBVIOUS
<1> QED BY ONLY <1>1, <1>5, <1>6 DEF BarsFit, b

LEMMA WeeksFit == ASSUME date \in Int PROVE BarsFit("weekly", WeekBuckets(12))
<1> DEFINE b == WeekBuckets(12)
           q == date \div 7
<1>1. ASSUME NEW d \in Int PROVE d \div 7 \in Int /\ Monday(d) = 7 * (d \div 7)
  BY DEF Monday
<1>2. q \in Int /\ Monday(date) = 7 * q
  BY <1>1
<1>3. DOMAIN b = 1..12 /\ (\A k \in 1..12 : b[k] = 7 * q - (12 - k) * 7) /\ b # << >>
  BY <1>2 DEF WeekBuckets
<1>4. Since("weekly", b) = 7 * q - 77
  <2> HIDE DEF b, q
  <2>1. b[1] = 7 * q - 77 /\ b # << >>
    BY <1>2, <1>3
  <2> QED BY <2>1 DEF Since
<1>5. WindowFrom("weekly") = 7 * q - 77
  BY <1>2 DEF WindowFrom
<1> HIDE DEF b, q
<1>6. ASSUME NEW d \in Int, d <= date
      PROVE  /\ \A k \in 1..12 : BucketOf("weekly", d) = b[k] <=> BarOf("weekly", d) = k
             /\ (d >= Since("weekly", b) /\ BarOf("weekly", d) \in 1..12) <=> d \in WindowFrom("weekly")..date
  <2> DEFINE p == d \div 7
  <2>1. p \in Int /\ BucketOf("weekly", d) = 7 * p
    BY <1>1 DEF BucketOf
  <2>2. BarOf("weekly", d) = p - q + 12
    BY DEF BarOf, q
  <2>3. 7 * p <= d /\ d < 7 * p + 7
    OBVIOUS
  <2>4. p <= q
    BY <1>6 DEF q
  <2> HIDE DEF p
  <2>5. d >= 7 * q - 77 <=> p >= q - 11
    BY <1>2, <2>1, <2>3
  <2>6. ASSUME NEW k \in 1..12 PROVE 7 * p = b[k] <=> p - q + 12 = k
    <3>1. b[k] = 7 * q - (12 - k) * 7 /\ k \in Int
      BY <1>3, <2>6
    <3> QED BY <1>2, <2>1, <3>1
  <2>7. (d >= 7 * q - 77 /\ p - q + 12 \in 1..12) <=> d \in (7 * q - 77)..date
    BY <1>2, <1>6, <2>1, <2>4, <2>5
  <2> QED BY <1>4, <1>5, <2>1, <2>2, <2>6, <2>7
<1>7. 12 \in Nat
  OBVIOUS
<1> QED BY ONLY <1>3, <1>6, <1>7 DEF BarsFit, b

LEMMA MonthsFit == ASSUME date \in Int PROVE BarsFit("monthly", MonthBuckets(12))
<1> DEFINE b == MonthBuckets(12)
           q == date \div 30
<1>1. q \in Int /\ MonthOf(date) = q
  BY DEF MonthOf
<1>2. DOMAIN b = 1..12 /\ (\A k \in 1..12 : b[k] = q - (12 - k)) /\ b # << >>
  BY <1>1 DEF MonthBuckets
<1>3. Since("monthly", b) = (q - 11) * 30
  <2> HIDE DEF b, q
  <2>1. b[1] = q - 11 /\ b # << >>
    BY <1>1, <1>2
  <2> QED BY <2>1 DEF Since
<1>4. WindowFrom("monthly") = (q - 11) * 30
  BY <1>1 DEF WindowFrom
<1> HIDE DEF b
<1>5. ASSUME NEW d \in Int, d <= date
      PROVE  /\ \A k \in 1..12 : BucketOf("monthly", d) = b[k] <=> BarOf("monthly", d) = k
             /\ (d >= Since("monthly", b) /\ BarOf("monthly", d) \in 1..12) <=> d \in WindowFrom("monthly")..date
  <2> DEFINE p == d \div 30
  <2>1. p \in Int /\ BucketOf("monthly", d) = p
    BY DEF BucketOf, MonthOf
  <2>2. BarOf("monthly", d) = p - q + 12
    BY DEF BarOf, MonthOf
  <2>3. 30 * p <= d /\ d < 30 * p + 30
    OBVIOUS
  <2>4. p <= q
    BY <1>5
  <2> HIDE DEF p, q
  <2>5. d >= (q - 11) * 30 <=> p >= q - 11
    BY <1>1, <2>1, <2>3
  <2>6. ASSUME NEW k \in 1..12 PROVE p = b[k] <=> p - q + 12 = k
    <3>1. b[k] = q - (12 - k) /\ k \in Int
      BY <1>2, <2>6
    <3> QED BY <1>1, <2>1, <3>1
  <2>7. (d >= (q - 11) * 30 /\ p - q + 12 \in 1..12) <=> d \in ((q - 11) * 30)..date
    BY <1>1, <1>5, <2>1, <2>4, <2>5
  <2> QED BY <1>3, <1>4, <2>1, <2>2, <2>6, <2>7
<1>6. 12 \in Nat
  OBVIOUS
<1> QED BY ONLY <1>2, <1>5, <1>6 DEF BarsFit, b

LEMMA SpanFits == ASSUME date \in Int PROVE BarsFit("custom", DayBucketsBetween(0, date))
<1> DEFINE b == DayBucketsBetween(0, date)
           from == WindowFrom("custom")
           all == [k \in 1..(date - 0 + 1) |-> 0 + k - 1]
<1>1. from = IF date > 365 THEN date - 365 ELSE 0
  BY DEF WindowFrom
<1>2. \A d \in Int : BucketOf("custom", d) = d /\ BarOf("custom", d) = d - from + 1
  BY DEF BucketOf, BarOf
<1>3. CASE date < 0
  <2>1. b = << >> /\ DOMAIN b = 1..0
    BY <1>3 DEF DayBucketsBetween
  <2> HIDE DEF b
  <2>2. \A d \in Int : ~(d \in from..date)
    BY <1>1, <1>3
  <2>3. DOMAIN b = {}
    BY <2>1
  <2> QED BY <2>1, <2>2, <2>3 DEF BarsFit, b, from
<1>4. CASE date >= 0
  <2> DEFINE n == date - from + 1
  <2>1. n \in Nat \ {0} /\ from \in Nat
    BY <1>1, <1>4
  <2>2. all \in Seq(Int) /\ Len(all) = date + 1 /\ \A k \in 1..date + 1 : all[k] = k - 1
    BY <1>4
  <2>3. DOMAIN b = 1..n /\ \A k \in 1..n : b[k] = from + k - 1
    <3>1. b = IF date + 1 > 366 THEN SubSeq(all, date + 1 - 365, date + 1) ELSE all
      BY <1>4, <2>2 DEF DayBucketsBetween
    <3> HIDE DEF all, b
    <3>2. CASE date > 365
      <4>1. \A i \in date + 1 - 365 .. date + 1 : all[i] \in Int
        BY <2>2, <3>2
      <4>2. /\ SubSeq(all, date + 1 - 365, date + 1) \in Seq(Int)
            /\ Len(SubSeq(all, date + 1 - 365, date + 1)) = date + 1 - (date + 1 - 365) + 1
            /\ \A i \in 1..date + 1 - (date + 1 - 365) + 1 :
                 SubSeq(all, date + 1 - 365, date + 1)[i] = all[date + 1 - 365 + i - 1]
        BY <3>2, <4>1, SubSeqProperties
      <4>3. date + 1 - (date + 1 - 365) + 1 = 366 /\ n = 366 /\ from = date - 365
        BY <1>1, <3>2
      <4>4. b = SubSeq(all, date + 1 - 365, date + 1) /\ DOMAIN b = 1..366
        BY <3>1, <3>2, <4>2, <4>3
      <4>5. ASSUME NEW k \in 1..366 PROVE b[k] = from + k - 1
        <5>1. b[k] = all[date + 1 - 365 + k - 1]
          BY <4>2, <4>3, <4>4
        <5>2. date + 1 - 365 + k - 1 \in 1..date + 1
          BY <3>2
        <5>3. b[k] = date + 1 - 365 + k - 1 - 1
          BY <2>2, <5>1, <5>2
        <5> QED BY <4>3, <5>3
      <4> QED BY <4>3, <4>4, <4>5
    <3>3. CASE ~(date > 365)
      <4>1. b = all /\ from = 0
        BY <1>1, <3>1, <3>3
      <4> QED BY <1>4, <2>2, <4>1
    <3> QED BY <3>2, <3>3
  <2> HIDE DEF b, n
  <2>4. b # << >> /\ Since("custom", b) = from
    <3>1. 1 \in DOMAIN b
      BY <2>1, <2>3
    <3>2. b[1] = from
      BY <2>1, <2>3
    <3> QED BY <3>1, <3>2 DEF Since
  <2>5. ASSUME NEW d \in Int, d <= date
        PROVE  /\ \A k \in 1..n : BucketOf("custom", d) = b[k] <=> BarOf("custom", d) = k
               /\ (d >= Since("custom", b) /\ BarOf("custom", d) \in 1..n) <=> d \in from..date
    <3>1. ASSUME NEW k \in 1..n PROVE d = b[k] <=> d - from + 1 = k
      BY <2>1, <2>3
    <3>2. (d >= from /\ d - from + 1 \in 1..n) <=> d \in from..date
      BY <2>1, <2>5 DEF n
    <3> QED BY <1>2, <2>4, <3>1, <3>2
  <2> QED BY ONLY <2>1, <2>3, <2>5 DEF BarsFit, b, from
<1> QED BY <1>3, <1>4

LEMMA AllBarsFit ==
  ASSUME date \in Int, NEW g \in Granularities PROVE BarsFit(g, Buckets(g, 0, date))
BY DaysFit, WeeksFit, MonthsFit, SpanFits DEF Granularities, Buckets

LEMMA ChartsHold == CatalogueInv => ChartsSound
<1> SUFFICES ASSUME PagingInv, HeldFits, NEW t \in Tables, NEW g \in Granularities
             PROVE  /\ SumOf(listingsByBucketSingle(t, g, 0, date))
                         = Cardinality({i \in Live(t) : listed[i].born \in WindowFrom(g)..date})
                    /\ SumOf(topAreas(t)) <= Cardinality(Live(t))
                    /\ suggest(t, 2) \subseteq
                         IF t = "website" THEN Live(t) ELSE Matching(t, [Unfiltered EXCEPT !.draft = "no"])
  BY DEF CatalogueInv, ChartsSound, WindowFrom
<1>1. date \in Int /\ IsFiniteSet(Live(t))
        /\ \A i \in Live(t) : /\ listed[i].born \in Int /\ listed[i].born <= date
                              /\ listed[i].draft \in BOOLEAN
  BY LiveIsFinite DEF PagingInv, RowsFit, HeldFits, IsHeld, IsRow, Live
<1>2. SumOf(listingsByBucketSingle(t, g, 0, date))
        = Cardinality({i \in Live(t) : listed[i].born \in WindowFrom(g)..date})
  <2>1. PICK b : b = Buckets(g, 0, date)
    OBVIOUS
  <2>2. BarsFit(g, b)
    BY <1>1, <2>1, AllBarsFit
  <2> DEFINE rows == {i \in Live(t) : listed[i].born >= Since(g, b)}
             K == DOMAIN b
             kind == [i \in rows |-> BarOf(g, listed[i].born)]
             f == [k \in K |-> Cardinality({i \in rows : BucketOf(g, listed[i].born) = b[k]})]
  <2>3. listingsByBucketSingle(t, g, 0, date) = f
    BY <2>1 DEF listingsByBucketSingle
  <2>4. IsFiniteSet(K) /\ IsFiniteSet(rows)
    <3>1. PICK n \in Nat : K = 1..n
      BY <2>2 DEF BarsFit
    <3>2. IsFiniteSet(1..n)
      BY FS_Interval
    <3> QED BY <1>1, <3>1, <3>2, FS_Subset
  <2>5. \A k \in K : {i \in rows : BucketOf(g, listed[i].born) = b[k]} = {i \in rows : kind[i] = k}
    BY <1>1, <2>2 DEF BarsFit
  <2>6. f = [k \in K |-> Cardinality({i \in rows : kind[i] = k})]
    <3> HIDE DEF K, rows, kind
    <3> QED BY <2>5
  <2>7. SumOf(f) = Cardinality({i \in rows : kind[i] \in K})
    <3> HIDE DEF K, rows, kind, f
    <3> QED BY <2>4, <2>6, SumOfCounts
  <2>8. {i \in rows : kind[i] \in K} = {i \in Live(t) : listed[i].born \in WindowFrom(g)..date}
    BY <1>1, <2>2 DEF BarsFit
  <2> HIDE DEF f, rows, kind, K
  <2> QED BY <2>3, <2>7, <2>8
<1>3. SumOf(topAreas(t)) <= Cardinality(Live(t))
  <2> DEFINE placed == {i \in Live(t) : listed[i].place # ""}
             kind == [i \in placed |-> listed[i].place]
             K == {listed[i].place : i \in placed}
             f == [p \in K |-> Cardinality({i \in placed : listed[i].place = p})]
  <2>1. topAreas(t) = f
    BY DEF topAreas
  <2>2. IsFiniteSet(placed) /\ Cardinality(placed) <= Cardinality(Live(t))
    BY <1>1, FS_Subset
  <2>3. kind \in Surjection(placed, K)
    BY DEF Surjection
  <2>4. IsFiniteSet(K)
    <3> HIDE DEF K, placed, kind
    <3> QED BY <2>2, <2>3, FS_Surjection
  <2>5. f = [p \in K |-> Cardinality({i \in placed : kind[i] = p})]
    <3>1. \A p \in K : {i \in placed : listed[i].place = p} = {i \in placed : kind[i] = p}
      OBVIOUS
    <3> HIDE DEF K, placed, kind
    <3> QED BY <3>1
  <2>6. {i \in placed : kind[i] \in K} = placed
    OBVIOUS
  <2>7. SumOf(f) = Cardinality({i \in placed : kind[i] \in K})
    <3> HIDE DEF K, placed, kind, f
    <3> QED BY <2>2, <2>4, <2>5, SumOfCounts
  <2> HIDE DEF K, placed, kind, f
  <2> QED BY <2>1, <2>2, <2>6, <2>7
<1>4. suggest(t, 2) \subseteq
        IF t = "website" THEN Live(t) ELSE Matching(t, [Unfiltered EXCEPT !.draft = "no"])
  <2>1. suggest(t, 2) \subseteq {i \in Live(t) : ~listed[i].draft}
    BY DEF suggest
  <2>2. t # "website" => {i \in Live(t) : ~listed[i].draft}
                           \subseteq Matching(t, [Unfiltered EXCEPT !.draft = "no"])
    BY <1>1 DEF Matching, MatchesInventory, MatchesEnquiry, Unfiltered, Tables
  <2> QED BY <2>1, <2>2
<1> QED BY <1>2, <1>3, <1>4

LEMMA StatusesHold ==
  HeldFits => \A t \in DOMAIN StatusCodes, i \in Stock :
                i \in Live(t) => listed[i].status \in StatusCodes[t]
BY DEF HeldFits, IsHeld, Live

LEMMA CatalogueHolds == CatalogueInv => CatalogueSound /\ ChartsSound
BY PagesHold, CardsHold, ChartsHold, StatusesHold DEF CatalogueInv, CatalogueSound

----------------------------------------
(***************************************************************************)
(* The cards and the badge of the agreements count the rows their lists    *)
(* show, and no status comes back (agreementCompute.js); the grid offers   *)
(* what a booking accepts, but for the last slot of a day                  *)
(* (appointmentSlots.js); of the land records a removed one is written by  *)
(* nobody, an answer is no older than its save, and a list that nobody     *)
(* wrote under has the rows of its page (land_records.js); and the lists   *)
(* read page by page repeat nothing while nothing enters them, in any of   *)
(* the orders their statements admit, the cards count what the lists show, *)
(* the charts show each row of their window in one bar, and similar        *)
(* listings are none twice and never the listing itself                    *)
(* (db/queries/*_properties.js, crm.js, dashboard.js).                     *)
(***************************************************************************)
THEOREM FiguresAreSound == DeskSpec => []FiguresSound
<1> DEFINE Inv == LeasesFit /\ GridInv /\ LandInv /\ CatalogueInv
<1>1. DeskInit => Inv
  <2>1. DeskInit => AgreementsInit /\ GridInit /\ LandInit /\ CatalogueInit
    BY DEF DeskInit
  <2> QED BY <2>1, AgreementsStart, GridStarts, LandStarts, CatalogueStarts, HeldStarts
          DEF CatalogueInv
<1>2. Inv /\ [DeskNext]_deskVars => Inv'
  <2>1. [DeskNext]_deskVars => AgreementsNext \/ UNCHANGED agreementVars
    BY DEF DeskNext, deskVars
  <2>2. [DeskNext]_deskVars => GridNext \/ UNCHANGED gridVars
    BY DEF DeskNext, deskVars
  <2>3. [DeskNext]_deskVars => LandNext \/ UNCHANGED landVars
    BY DEF DeskNext, deskVars
  <2>4. [DeskNext]_deskVars => CatalogueNext \/ UNCHANGED catalogueVars
    BY DEF DeskNext, deskVars
  <2> QED BY <2>1, <2>2, <2>3, <2>4, AgreementsStep, GridSteps, LandSteps, CatalogueSteps
<1>3. Inv => FiguresSound
  BY AgreementsHold, GridHolds, LandHolds, CatalogueHolds DEF FiguresSound
<1> QED BY <1>1, <1>2, <1>3, PTL DEF DeskSpec
=============================================================================
