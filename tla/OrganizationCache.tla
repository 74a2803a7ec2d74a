-------------------------- MODULE OrganizationCache --------------------------
(***************************************************************************)
(* The organizations of the directory as a network server knows them.       *)
(*                                                                         *)
(* OrganizationService.getOrganization is cached: an entry expires when it  *)
(* was not used for a while, and a lookup that failed is null, which is     *)
(* cached like an organization.  AppController keeps the server's own       *)
(* organization in a field that all threads share; the constructor looks it *)
(* up (before the cache works), and the page looks it up again while it is  *)
(* null.  Nothing locks: threads that miss an entry all ask the directory,  *)
(* whose answers come in any order.                                         *)
(***************************************************************************)
EXTENDS Naturals, FiniteSets

CONSTANTS
    Organization,  \* ids of organizations
    Local,         \* networkServer.id
    Thread,        \* threads that handle requests
    MaxEntries,    \* cache.manager.maximum.size
    Expire,        \* cache.manager.expire.time.minutes, in ticks
    MaxVersion     \* bound: versions of an organization at the directory

ASSUME CacheAssumption ==
    /\ Local \in Organization
    /\ MaxEntries \in Nat \ {0} /\ Expire \in Nat \ {0} /\ MaxVersion \in Nat \ {0}

VARIABLES
    directory,  \* the version of each organization at the directory
    cache,
    field,      \* AppController.organization
    thread,
    idle,       \* history: ticks since an organization was last used
    since       \* history: the version that it had when it was last unused

vars == <<directory, cache, field, thread, idle, since>>

Null == 0
Version == 1..MaxVersion
Value == {Null} \union Version

Entry == [cached : BOOLEAN, value : Value, age : 0..Expire]
NoEntry == [cached |-> FALSE, value |-> Null, age |-> 0]
ThreadState ==
    [pc : {"idle", "lookup", "asking", "answered", "found", "assigned", "checked"},
     page : BOOLEAN, organization : Organization, value : Value]
NoThread == [pc |-> "idle", page |-> FALSE, organization |-> Local, value |-> Null]

Entries == {o \in Organization : cache[o].cached}

(* The cache keeps to its size.                                             *)
TypeOK ==
    /\ directory \in [Organization -> Version]
    /\ cache \in [Organization -> Entry]
    /\ field \in Value
    /\ thread \in [Thread -> ThreadState]
    /\ idle \in [Organization -> 0..Expire]
    /\ since \in [Organization -> Version]
    /\ Cardinality(Entries) <= MaxEntries

(* The constructor has asked the directory, in vain or not.                 *)
Init ==
    /\ directory = [o \in Organization |-> 1]
    /\ cache = [o \in Organization |-> NoEntry]
    /\ field \in {Null, 1}
    /\ thread = [t \in Thread |-> NoThread]
    /\ idle = [o \in Organization |-> Expire]
    /\ since = directory

-----------------------------------------------------------------------------
(* Time, and the directory *)

UnderWay(o) ==
    \E t \in Thread :
        thread[t].pc \in {"lookup", "asking", "answered"} /\ thread[t].organization = o

Older(n) == IF n < Expire THEN n + 1 ELSE n

Tick ==
    /\ cache' = [o \in Organization |->
          IF cache[o].cached THEN [cache[o] EXCEPT !.age = Older(@)] ELSE NoEntry]
    /\ idle' = [o \in Organization |-> Older(idle[o])]
    /\ since' = [o \in Organization |->
          IF idle'[o] = Expire /\ ~UnderWay(o) THEN directory[o] ELSE since[o]]
    /\ UNCHANGED <<directory, field, thread>>

(* Somebody changes the organization.                                       *)
Change(o) ==
    /\ directory[o] < MaxVersion
    /\ directory' = [directory EXCEPT ![o] = @ + 1]
    /\ since' = IF idle[o] = Expire /\ ~UnderWay(o)
                THEN [since EXCEPT ![o] = directory'[o]] ELSE since
    /\ UNCHANGED <<cache, field, thread, idle>>

-----------------------------------------------------------------------------
(* The requests *)

Go(t, pc) == thread' = [thread EXCEPT ![t].pc = pc]

(* A document or a transcript request of an organization.                   *)
Request(t, o) ==
    /\ thread[t].pc = "idle"
    /\ thread' = [thread EXCEPT ![t] =
           [NoThread EXCEPT !.pc = "lookup", !.organization = o]]
    /\ idle' = [idle EXCEPT ![o] = 0]
    /\ UNCHANGED <<directory, cache, field, since>>

(* The page asks again, whether the organization is known or not.           *)
OpenPageAsking(t) ==
    /\ thread[t].pc = "idle"
    /\ thread' = [thread EXCEPT ![t] = [NoThread EXCEPT !.pc = "lookup", !.page = TRUE]]
    /\ idle' = [idle EXCEPT ![Local] = 0]
    /\ UNCHANGED <<directory, cache, field, since>>

(* getTransfersPage, and the first check of getOrganization.                *)
OpenPage(t) ==
    /\ thread[t].pc = "idle"
    /\ IF field = Null
       THEN /\ thread' = [thread EXCEPT ![t] =
                   [NoThread EXCEPT !.pc = "lookup", !.page = TRUE]]
            /\ idle' = [idle EXCEPT ![Local] = 0]
       ELSE /\ thread' = [thread EXCEPT ![t] =
                   [NoThread EXCEPT !.pc = "assigned", !.page = TRUE]]
            /\ UNCHANGED idle
    /\ UNCHANGED <<directory, cache, field, since>>

(* An entry that never expires.                                             *)
LiveForEver(o) == cache[o].cached

(* expireAfterAccess                                                        *)
Live(o) == cache[o].cached /\ cache[o].age < Expire

(* The cache has a value, and its use makes the entry young.                *)
Hit(t) ==
    LET o == thread[t].organization IN
    /\ thread[t].pc = "lookup" /\ Live(o)
    /\ thread' = [thread EXCEPT ![t].pc = "found", ![t].value = cache[o].value]
    /\ cache' = [cache EXCEPT ![o].age = 0]
    /\ idle' = [idle EXCEPT ![o] = 0]
    /\ UNCHANGED <<directory, field, since>>

Miss(t) ==
    /\ thread[t].pc = "lookup" /\ ~Live(thread[t].organization)
    /\ Go(t, "asking")
    /\ UNCHANGED <<directory, cache, field, idle, since>>

(* The directory answers, or every exception becomes null.                  *)
Answer(t) ==
    /\ thread[t].pc = "asking"
    /\ \E value \in {Null, directory[thread[t].organization]} :
          thread' = [thread EXCEPT ![t].pc = "answered", ![t].value = value]
    /\ UNCHANGED <<directory, cache, field, idle, since>>

(* A cache without a maximum size.                                          *)
PutUnbounded(t) ==
    LET o == thread[t].organization IN
    /\ thread[t].pc = "answered"
    /\ cache' = [cache EXCEPT ![o] =
           [cached |-> TRUE, value |-> thread[t].value, age |-> 0]]
    /\ Go(t, "found")
    /\ idle' = [idle EXCEPT ![o] = 0]
    /\ UNCHANGED <<directory, field, since>>

(* The answer is cached, null or not.  An entry goes if there are too many,  *)
(* or before: the library divides the size among segments of the cache.     *)
Put(t) ==
    LET o == thread[t].organization
        new == [cache EXCEPT ![o] =
                  [cached |-> TRUE, value |-> thread[t].value, age |-> 0]]
    IN  /\ thread[t].pc = "answered"
        /\ \/ /\ Cardinality(Entries \union {o}) <= MaxEntries
              /\ cache' = new
           \/ \E victim \in Entries \union {o} :
                 cache' = [new EXCEPT ![victim] = NoEntry]
        /\ Go(t, "found")
        /\ idle' = [idle EXCEPT ![o] = 0]
        /\ UNCHANGED <<directory, field, since>>

(* A request other than the page has its organization, or fails for it.     *)
Done(t) ==
    /\ thread[t].pc = "found" /\ ~thread[t].page
    /\ thread' = [thread EXCEPT ![t] = NoThread]
    /\ UNCHANGED <<directory, cache, field, idle, since>>

Assign(t) ==
    /\ thread[t].pc = "found" /\ thread[t].page
    /\ field' = thread[t].value
    /\ thread' = [thread EXCEPT ![t].pc = "assigned", ![t].value = Null]
    /\ UNCHANGED <<directory, cache, idle, since>>

(* The second check of getOrganization: null is an exception.               *)
Check(t) ==
    /\ thread[t].pc = "assigned"
    /\ IF field = Null
       THEN thread' = [thread EXCEPT ![t] = NoThread] ELSE Go(t, "checked")
    /\ UNCHANGED <<directory, cache, field, idle, since>>

(* The page reads the field: an exception if it is null by now.             *)
ShowPage(t) ==
    /\ thread[t].pc = "checked"
    /\ thread' = [thread EXCEPT ![t] = NoThread]
    /\ UNCHANGED <<directory, cache, field, idle, since>>

-----------------------------------------------------------------------------
Step(t) ==
    \/ Hit(t) \/ Miss(t) \/ Answer(t) \/ Put(t)
    \/ Done(t) \/ Assign(t) \/ Check(t) \/ ShowPage(t)

Next ==
    \/ Tick
    \/ \E o \in Organization : Change(o)
    \/ \E t \in Thread :
          \/ OpenPage(t) \/ \E o \in Organization : Request(t, o)
          \/ Step(t)

Spec == Init /\ [][Next]_vars

-----------------------------------------------------------------------------
(* Properties *)

(* CacheConfig: an organization that nobody used for the time of expiry is   *)
(* asked for again.  What the cache serves is never older than the version   *)
(* that the directory had when the organization was last unused, although    *)
(* answers may be slow and put their value after newer ones.                *)
ServesRecent ==
    \A o \in Organization :
        Live(o) /\ cache[o].value # Null => cache[o].value >= since[o]

(* An entry is not younger than the last use, so nothing is served when      *)
(* since moves; an answer on its way keeps since where it is.               *)
EntriesAreUsed == \A o \in Organization : cache[o].cached => idle[o] <= cache[o].age
SinceIsPast == \A o \in Organization : since[o] <= directory[o]
AnswersAreRecent ==
    \A t \in Thread :
        thread[t].pc = "answered" /\ thread[t].value # Null =>
            thread[t].value >= since[thread[t].organization]

(* The invariant that the proofs rest on.                                   *)
CacheInv ==
    /\ TypeOK /\ IsFiniteSet(Entries)
    /\ EntriesAreUsed /\ SinceIsPast /\ AnswersAreRecent /\ ServesRecent

Looking(t) == thread[t].page /\ thread[t].pc \in {"lookup", "asking", "answered", "found"}

(* AppController.getOrganization: once the organization is known and no      *)
(* thread is on its way to assign it, the pages are independent of the      *)
(* directory and of the cache: it stays known.                              *)
Settled == field # Null /\ \A t \in Thread : ~Looking(t)
KnownStaysKnown == [][Settled => Settled']_vars

(* The check of AppController.getOrganization, "Failed to retrieve           *)
(* organization info from directory", is there so that a page that passed    *)
(* it has an organization.                                                  *)
PageHasOrganization ==
    \A t \in Thread : thread[t].pc = "checked" => field # Null
=============================================================================
