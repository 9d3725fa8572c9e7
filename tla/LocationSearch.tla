--------------------------- MODULE LocationSearch ---------------------------
(***************************************************************************)
(* The typed search for a place (routes/public/locations.js, GET /search): *)
(* a cache in the process in front of two services abroad, India Post for  *)
(* pincodes and Nominatim for anything else, each with four seconds to     *)
(* answer.  The cache is a Map: its keys stand in the order of insertion,  *)
(* and a key that is set again keeps its place.  A search reads the cache  *)
(* before it asks, and writes it after the answer, when others have.       *)
(***************************************************************************)
EXTENDS Integers, Sequences, FiniteSets, SequencesExt

CONSTANTS Seekers,      \* searches that may run at once
          SearchKeys,   \* texts with their limit, in lower case
          Pincodes,     \* those that are six digits
          CacheMax,     \* CACHE_MAX
          CacheTtl,     \* CACHE_TTL_MS, in ticks
          MaxSearches, MaxTicks   \* bounds: searches, ticks of the clock

ASSUME SearchAssumption == CacheMax \in Nat \ {0} /\ CacheTtl \in Nat

VARIABLES cache,        \* entries [key, from, expiresAt, used, again], oldest first
          seeker,       \* what each search is at
          tick,         \* the clock
          uses,         \* history: hits and writes of the cache, counted
          searches

searchVars == <<cache, seeker, tick, uses, searches>>

\* An answer stands for a list of places: who gave it, or nobody (the empty list).
Nowhere == "nowhere"
NotAsking == [step |-> "done", key |-> Nowhere, places |-> Nowhere, cached |-> FALSE, since |-> 0]

SearchInit ==
  /\ cache = << >> /\ seeker = [s \in Seekers |-> NotAsking]
  /\ tick = 0 /\ uses = 0 /\ searches = 0

At(key) == {i \in DOMAIN cache : cache[i].key = key}

-----------------------------------------------------------------------------
\* cacheGet: a miss, an entry past its time, or a hit, which moves to the end.
\* "used" and "again" are history: when an entry was last used, and that it was
\* set by two searches at once.
StartSearch(s, key) ==
  /\ seeker[s].step = "done" /\ searches < MaxSearches /\ searches' = searches + 1
  /\ LET next == IF key \in Pincodes THEN "post" ELSE "map"
         ask == [NotAsking EXCEPT !.step = next, !.key = key, !.since = tick]
     IN \/ At(key) = {} /\ seeker' = [seeker EXCEPT ![s] = ask] /\ UNCHANGED <<cache, uses>>
        \/ \E i \in At(key) :
             IF cache[i].expiresAt < tick
             THEN /\ cache' = RemoveAt(cache, i)
                  /\ seeker' = [seeker EXCEPT ![s] = ask]
                  /\ UNCHANGED uses
             ELSE /\ cache' = Append(RemoveAt(cache, i),
                                     [cache[i] EXCEPT !.used = uses, !.again = FALSE])
                  /\ seeker' = [seeker EXCEPT ![s] = [ask EXCEPT !.step = "done", !.cached = TRUE,
                                                                 !.places = cache[i].from]]
                  /\ uses' = uses + 1
  /\ UNCHANGED tick

Kept(places) == places # Nowhere

MutRoom == IF Len(cache) > CacheMax THEN Tail(cache) ELSE cache   \* mutant: one entry too many

\* the least recently used entry goes, whether or not the key needs its room
Room == IF Len(cache) >= CacheMax THEN Tail(cache) ELSE cache

cacheSet(key, places) ==
  IF ~Kept(places) THEN UNCHANGED <<cache, uses>>
  ELSE LET there == {i \in DOMAIN Room : Room[i].key = key}
           new == [key |-> key, from |-> places, expiresAt |-> tick + CacheTtl,
                   used |-> uses, again |-> there # {}]
       IN /\ cache' = IF there = {} THEN Append(Room, new)
                      ELSE [i \in DOMAIN Room |-> IF i \in there THEN new ELSE Room[i]]
          /\ uses' = uses + 1

\* res.json: what was fetched is shown, and the search is over
Answer(s) == seeker' = [seeker EXCEPT ![s] = NotAsking]

\* lookupByPincode: a list, empty too when the answer is not ok, ends the search
AskPost(s, places) ==
  /\ seeker[s].step = "post"
  /\ cacheSet(seeker[s].key, places) /\ Answer(s)
  /\ UNCHANGED <<tick, searches>>

\* ... but when the call throws or runs out of time, Nominatim is asked
PostFails(s) ==
  /\ seeker[s].step = "post" /\ seeker' = [seeker EXCEPT ![s].step = "map"]
  /\ UNCHANGED <<cache, tick, uses, searches>>

AskMap(s, places) ==
  /\ seeker[s].step = "map"
  /\ cacheSet(seeker[s].key, places) /\ Answer(s)
  /\ UNCHANGED <<tick, searches>>

\* not ok, out of time, or an error: an answer without places, and the cache is left
MapFails(s) ==
  /\ seeker[s].step = "map" /\ Answer(s)
  /\ UNCHANGED <<cache, tick, uses, searches>>

\* A tick is far longer than the eight seconds a search may take.
SearchTick ==
  /\ tick < MaxTicks /\ tick' = tick + 1
  /\ \A s \in Seekers : seeker[s].step # "done" => seeker[s].since = tick
  /\ UNCHANGED <<cache, seeker, uses, searches>>

SearchRestart ==
  /\ cache' = << >> /\ seeker' = [s \in Seekers |-> NotAsking]
  /\ UNCHANGED <<tick, uses, searches>>

SearchNext ==
  \/ \E s \in Seekers :
       \/ \E key \in SearchKeys : StartSearch(s, key)
       \/ \E places \in {"post", Nowhere} : AskPost(s, places)
       \/ \E places \in {"map", Nowhere} : AskMap(s, places)
       \/ PostFails(s) \/ MapFails(s)
  \/ SearchTick \/ SearchRestart

SearchSpec == SearchInit /\ [][SearchNext]_searchVars

-----------------------------------------------------------------------------
SearchTypeOK ==
  /\ \A i \in DOMAIN cache : cache[i].key \in SearchKeys /\ cache[i].from \in {"post", "map"}
  /\ \A s \in Seekers : seeker[s].step \in {"post", "map", "done"}

\* However searches of one text overlap, the cache keeps one answer of each text,
\* never more than CACHE_MAX, never an empty one ("don't cache empty results",
\* locations.js:41-43), and none whose hour lies further ahead than a full one.
CacheBounded ==
  /\ Len(cache) <= CacheMax
  /\ \A i, j \in DOMAIN cache : cache[i].key = cache[j].key => i = j
  /\ \A i \in DOMAIN cache : cache[i].expiresAt <= tick + CacheTtl

\* "LRU" (locations.js:21): entries stand in the order of their last use, so that
\* the one to go is the one unused for longest - except that an entry two
\* searches fetched at once stays where the first one put it.
LeastRecentFirst ==
  \A i, j \in DOMAIN cache : i < j /\ ~cache[i].again => cache[i].used < cache[j].used

\* What is shown as cached is never the empty answer of a service that was down,
\* and India Post's only for a pincode.
HitsFit ==
  \A s \in Seekers :
    seeker[s].cached => /\ seeker[s].places # Nowhere
                        /\ seeker[s].places = "post" => seeker[s].key \in Pincodes

\* What the search of places and its cache promise.
SearchSound == SearchTypeOK /\ CacheBounded /\ LeastRecentFirst /\ HitsFit
=============================================================================
