------------------------ MODULE OrganizationCacheProofs ------------------------
(* Theorems about OrganizationCache, for every number of organizations,      *)
(* threads, entries, ticks and versions.                                    *)
EXTENDS OrganizationCache, FiniteSetTheorems, TLAPS

-----------------------------------------------------------------------------
(* Facts about the parts of the state *)

LEMMA EmptyTypes == NoEntry \in Entry /\ NoThread \in ThreadState
  BY CacheAssumption DEF NoEntry, Entry, NoThread, ThreadState, Value

LEMMA PartTypes ==
    ASSUME TypeOK
    PROVE  /\ \A o \in Organization :
                 /\ cache[o] \in Entry
                 /\ cache[o].age \in Nat /\ cache[o].age <= Expire
                 /\ cache[o].value \in Nat
                 /\ idle[o] \in Nat /\ idle[o] <= Expire
                 /\ directory[o] \in Nat /\ since[o] \in Nat
           /\ \A t \in Thread :
                 /\ thread[t] \in ThreadState
                 /\ thread[t].organization \in Organization
                 /\ thread[t].value \in Nat
           /\ Expire \in Nat
  BY CacheAssumption DEF TypeOK, Entry, ThreadState, Value, Version, Null

(* A step that leaves the cache, the directory and the history alone.       *)
LEMMA ThreadOnly ==
    ASSUME CacheInv, NEW t \in Thread, NEW new \in ThreadState,
           thread' = [thread EXCEPT ![t] = new],
           UNCHANGED <<directory, cache, since>>, field' \in Value,
           idle' = idle \/ \E o \in Organization : idle' = [idle EXCEPT ![o] = 0],
           new.pc = "answered" /\ new.value # Null =>
               new.value >= since[new.organization]
    PROVE  CacheInv'
  <1>1. TypeOK /\ idle \in [Organization -> 0..Expire]
    BY DEF CacheInv, TypeOK
  <1>2. thread' \in [Thread -> ThreadState] /\ idle' \in [Organization -> 0..Expire]
    BY <1>1, CacheAssumption DEF TypeOK
  <1>3. Entries' = Entries
    BY DEF Entries
  <1>4. TypeOK' /\ IsFiniteSet(Entries)'
    BY <1>1, <1>2, <1>3 DEF TypeOK, CacheInv
  <1>5. \A o \in Organization : idle'[o] <= idle[o]
    BY <1>1, PartTypes
  <1>6. EntriesAreUsed'
    <2> SUFFICES ASSUME NEW o \in Organization, cache[o].cached
                 PROVE  idle'[o] <= cache[o].age
      BY DEF EntriesAreUsed
    <2>1. idle'[o] \in Nat /\ idle[o] \in Nat /\ cache[o].age \in Nat
      BY <1>1, <1>2, PartTypes
    <2>2. QED
      BY <1>5, <2>1 DEF CacheInv, EntriesAreUsed
  <1>7. SinceIsPast' /\ ServesRecent'
    BY DEF CacheInv, SinceIsPast, ServesRecent, Live
  <1>8. AnswersAreRecent'
    BY <1>1 DEF CacheInv, AnswersAreRecent, TypeOK
  <1>9. QED
    BY <1>4, <1>6, <1>7, <1>8 DEF CacheInv

-----------------------------------------------------------------------------
(* Each action keeps the invariant *)

LEMMA TickStep == CacheInv /\ Tick => CacheInv'
  <1> SUFFICES ASSUME CacheInv, Tick PROVE CacheInv'
    OBVIOUS
  <1>1. /\ TypeOK /\ UNCHANGED <<directory, field, thread>>
        /\ cache' = [o \in Organization |->
               IF cache[o].cached THEN [cache[o] EXCEPT !.age = Older(@)] ELSE NoEntry]
        /\ idle' = [o \in Organization |-> Older(idle[o])]
        /\ since' = [o \in Organization |->
               IF idle'[o] = Expire /\ ~UnderWay(o) THEN directory[o] ELSE since[o]]
    BY DEF CacheInv, Tick
  <1>2. ASSUME NEW o \in Organization
        PROVE  /\ cache'[o] \in Entry
               /\ cache'[o].cached <=> cache[o].cached
               /\ cache[o].cached => /\ cache'[o].value = cache[o].value
                                     /\ cache'[o].age = Older(cache[o].age)
               /\ idle'[o] = Older(idle[o])
    <2>1. Older(cache[o].age) \in 0..Expire /\ Older(idle[o]) \in 0..Expire
      BY <1>1, PartTypes DEF Older
    <2>2. CASE cache[o].cached
      BY <1>1, <2>1, <2>2, PartTypes DEF Entry
    <2>3. CASE ~cache[o].cached
      BY <1>1, <2>1, <2>3, EmptyTypes DEF NoEntry
    <2>4. QED
      BY <2>2, <2>3
  <1>3. cache' \in [Organization -> Entry]
    <2>1. cache' = [o \in Organization |-> cache'[o]]
      BY <1>1
    <2>2. QED
      BY <1>2, <2>1
  <1>4. idle' \in [Organization -> 0..Expire]
    BY <1>1, PartTypes DEF Older
  <1>5. since' \in [Organization -> Version]
    BY <1>1 DEF TypeOK
  <1>6. Entries' = Entries
    BY <1>2 DEF Entries
  <1>7. TypeOK' /\ IsFiniteSet(Entries)'
    BY <1>1, <1>3, <1>4, <1>5, <1>6 DEF TypeOK, CacheInv
  <1>8. EntriesAreUsed'
    <2> SUFFICES ASSUME NEW o \in Organization, cache'[o].cached
                 PROVE  idle'[o] <= cache'[o].age
      BY DEF EntriesAreUsed
    <2>1. /\ cache'[o].age = Older(cache[o].age) /\ idle'[o] = Older(idle[o])
          /\ idle[o] <= cache[o].age
      BY <1>2 DEF CacheInv, EntriesAreUsed
    <2>2. /\ idle[o] \in Nat /\ cache[o].age \in Nat /\ Expire \in Nat
          /\ cache[o].age <= Expire
      BY <1>1, PartTypes
    <2>3. QED
      BY <2>1, <2>2 DEF Older
  <1>9. SinceIsPast'
    BY <1>1, PartTypes DEF CacheInv, SinceIsPast
  <1>10. AnswersAreRecent'
    <2> SUFFICES ASSUME NEW t \in Thread, thread[t].pc = "answered", thread[t].value # Null
                 PROVE  thread[t].value >= since'[thread[t].organization]
      BY <1>1 DEF AnswersAreRecent
    <2>1. thread[t].organization \in Organization /\ UnderWay(thread[t].organization)
      BY <1>1, PartTypes DEF UnderWay
    <2>2. QED
      BY <1>1, <2>1 DEF CacheInv, AnswersAreRecent
  <1>11. ServesRecent'
    <2> SUFFICES ASSUME NEW o \in Organization, cache'[o].cached,
                        cache'[o].age < Expire, cache'[o].value # Null
                 PROVE  cache'[o].value >= since'[o]
      BY DEF ServesRecent, Live
    <2>1. cache[o].cached /\ cache[o].age < Expire /\ cache'[o].value = cache[o].value
      BY <1>1, <1>2, PartTypes DEF Older
    <2>2. idle'[o] < Expire
      BY <1>1, <1>2, <2>1, PartTypes DEF CacheInv, EntriesAreUsed, Older
    <2>3. since'[o] = since[o]
      BY <1>1, <2>2, PartTypes
    <2>4. QED
      BY <2>1, <2>3 DEF CacheInv, ServesRecent, Live
  <1>12. QED
    BY <1>7, <1>8, <1>9, <1>10, <1>11 DEF CacheInv

LEMMA ChangeStep == ASSUME CacheInv, NEW o \in Organization, Change(o) PROVE CacheInv'
  <1>1. /\ TypeOK /\ UNCHANGED <<cache, field, thread, idle>>
        /\ directory[o] < MaxVersion
        /\ directory' = [directory EXCEPT ![o] = @ + 1]
        /\ since' = since \/ /\ idle[o] = Expire /\ ~UnderWay(o)
                             /\ since' = [since EXCEPT ![o] = directory'[o]]
    BY DEF CacheInv, Change
  <1>2. /\ directory \in [Organization -> Version] /\ since \in [Organization -> Version]
        /\ MaxVersion \in Nat
    BY <1>1, CacheAssumption DEF TypeOK
  <1>3. directory' \in [Organization -> Version] /\ directory'[o] = directory[o] + 1
    BY <1>1, <1>2 DEF Version
  <1>4. since' \in [Organization -> Version]
    BY <1>1, <1>2, <1>3
  <1>5. Entries' = Entries
    BY <1>1 DEF Entries
  <1>6. TypeOK' /\ IsFiniteSet(Entries)'
    BY <1>1, <1>3, <1>4, <1>5 DEF TypeOK, CacheInv
  <1>7. EntriesAreUsed'
    BY <1>1 DEF CacheInv, EntriesAreUsed
  <1>8. SinceIsPast'
    BY <1>1, <1>2, PartTypes DEF CacheInv, SinceIsPast
  <1>9. ASSUME NEW p \in Organization, since'[p] # since[p]
        PROVE  p = o /\ idle[o] = Expire /\ ~UnderWay(o)
    BY <1>1, <1>2, <1>9
  <1>10. AnswersAreRecent'
    <2> SUFFICES ASSUME NEW t \in Thread, thread[t].pc = "answered", thread[t].value # Null
                 PROVE  thread[t].value >= since'[thread[t].organization]
      BY <1>1 DEF AnswersAreRecent
    <2>1. thread[t].organization \in Organization /\ UnderWay(thread[t].organization)
      BY <1>1, PartTypes DEF UnderWay
    <2>2. QED
      BY <1>9, <2>1 DEF CacheInv, AnswersAreRecent
  <1>11. ServesRecent'
    <2> SUFFICES ASSUME NEW p \in Organization, Live(p), cache[p].value # Null
                 PROVE  cache[p].value >= since'[p]
      BY <1>1 DEF ServesRecent, Live
    <2>1. idle[p] < Expire
      BY <1>1, PartTypes DEF CacheInv, EntriesAreUsed, Live
    <2>2. since'[p] = since[p]
      BY <1>1, <1>9, <2>1, PartTypes
    <2>3. QED
      BY <2>2 DEF CacheInv, ServesRecent
  <1>12. QED
    BY <1>6, <1>7, <1>8, <1>10, <1>11 DEF CacheInv

LEMMA HitStep == ASSUME CacheInv, NEW t \in Thread, Hit(t) PROVE CacheInv'
  <1> DEFINE o == thread[t].organization
             new == [thread[t] EXCEPT !.pc = "found", !.value = cache[o].value]
             entry == [cache[o] EXCEPT !.age = 0]
  <1>1. /\ TypeOK /\ o \in Organization /\ Live(o)
        /\ UNCHANGED <<directory, field, since>>
        /\ cache \in [Organization -> Entry] /\ thread \in [Thread -> ThreadState]
        /\ cache[o] \in Entry /\ thread[t] \in ThreadState
        /\ idle \in [Organization -> 0..Expire]
        /\ idle' = [idle EXCEPT ![o] = 0]
    BY PartTypes DEF CacheInv, Hit, TypeOK
  <1>2. thread' = [thread EXCEPT ![t] = new] /\ cache' = [cache EXCEPT ![o] = entry]
    BY <1>1 DEF Hit
  <1>3. new \in ThreadState /\ new.pc = "found"
    BY <1>1 DEF ThreadState, Entry
  <1>4. /\ entry \in Entry /\ entry.cached = cache[o].cached
        /\ entry.value = cache[o].value /\ entry.age = 0
    BY <1>1, CacheAssumption DEF Entry
  <1> HIDE DEF new, entry
  <1>5. /\ cache' \in [Organization -> Entry] /\ cache'[o] = entry
        /\ \A p \in Organization \ {o} : cache'[p] = cache[p]
    BY <1>1, <1>2, <1>4
  <1>6. /\ thread' \in [Thread -> ThreadState] /\ thread'[t].pc = "found"
        /\ \A s \in Thread \ {t} : thread'[s] = thread[s]
    BY <1>1, <1>2, <1>3
  <1>7. /\ idle' \in [Organization -> 0..Expire] /\ idle'[o] = 0
        /\ \A p \in Organization \ {o} : idle'[p] = idle[p]
    BY <1>1, CacheAssumption
  <1> HIDE DEF o
  <1>8. Entries' = Entries
    BY <1>1, <1>4, <1>5 DEF Entries
  <1>9. TypeOK' /\ IsFiniteSet(Entries)'
    BY <1>1, <1>5, <1>6, <1>7, <1>8 DEF TypeOK, CacheInv
  <1>10. EntriesAreUsed'
    BY <1>4, <1>5, <1>7 DEF CacheInv, EntriesAreUsed
  <1>11. SinceIsPast' /\ AnswersAreRecent'
    BY <1>1, <1>6 DEF CacheInv, SinceIsPast, AnswersAreRecent
  <1>12. ServesRecent'
    BY <1>1, <1>4, <1>5 DEF CacheInv, ServesRecent, Live
  <1>13. QED
    BY <1>9, <1>10, <1>11, <1>12 DEF CacheInv

(* The cache after the answer of t was put into it.                         *)
LEMMA PutCache ==
    ASSUME TypeOK, IsFiniteSet(Entries), NEW t \in Thread, Put(t)
    PROVE  /\ cache' \in [Organization -> Entry]
           /\ IsFiniteSet(Entries)' /\ (Cardinality(Entries) <= MaxEntries)'
           /\ \A p \in Organization :
                 \/ cache'[p] = cache[p]
                 \/ cache'[p] = NoEntry
                 \/ /\ p = thread[t].organization
                    /\ cache'[p].value = thread[t].value /\ cache'[p].age = 0
  <1> DEFINE o == thread[t].organization
             entry == [cached |-> TRUE, value |-> thread[t].value, age |-> 0]
             new == [cache EXCEPT ![o] = entry]
  <1>1. /\ o \in Organization /\ thread[t] \in ThreadState
        /\ cache \in [Organization -> Entry]
        /\ MaxEntries \in Nat /\ Cardinality(Entries) <= MaxEntries
    BY PartTypes, CacheAssumption DEF TypeOK
  <1>2. /\ entry \in Entry /\ entry.cached
        /\ entry.value = thread[t].value /\ entry.age = 0
    BY <1>1, CacheAssumption DEF Entry, ThreadState
  <1>3. NoEntry \in Entry /\ ~NoEntry.cached
    BY EmptyTypes DEF NoEntry
  <1> HIDE DEF entry, o
  <1>4. new \in [Organization -> Entry] /\ new[o] = entry
        /\ \A p \in Organization \ {o} : new[p] = cache[p]
    BY <1>1, <1>2
  <1>5. /\ IsFiniteSet(Entries \union {o})
        /\ Cardinality(Entries) \in Nat
        /\ Cardinality(Entries \union {o}) \in Nat
        /\ Cardinality(Entries \union {o}) <= Cardinality(Entries) + 1
    BY FS_AddElement, FS_CardinalityType
  <1> HIDE DEF new, NoEntry
  <1>6. CASE Cardinality(Entries \union {o}) <= MaxEntries /\ cache' = new
    <2>1. cache' = new
      BY <1>6
    <2>2. Entries' = Entries \union {o}
      BY <1>1, <1>2, <1>4, <2>1 DEF Entries
    <2>3. IsFiniteSet(Entries)' /\ (Cardinality(Entries) <= MaxEntries)'
      BY <1>1, <1>5, <1>6, <2>2
    <2>4. QED
      BY <1>2, <1>4, <2>1, <2>3 DEF o
  <1>7. CASE \E victim \in Entries \union {o} : cache' = [new EXCEPT ![victim] = NoEntry]
    <2>1. PICK victim \in Entries \union {o} : cache' = [new EXCEPT ![victim] = NoEntry]
      BY <1>7
    <2>2. victim \in Organization
      BY <1>1, <2>1 DEF Entries
    <2>3. cache' \in [Organization -> Entry] /\ cache'[victim] = NoEntry
          /\ \A p \in Organization \ {victim} : cache'[p] = new[p]
      BY <1>3, <1>4, <2>1, <2>2
    <2>4. Entries' = (Entries \union {o}) \ {victim}
      BY <1>1, <1>2, <1>3, <1>4, <2>2, <2>3 DEF Entries
    <2>5. /\ IsFiniteSet((Entries \union {o}) \ {victim})
          /\ Cardinality((Entries \union {o}) \ {victim})
                = Cardinality(Entries \union {o}) - 1
      BY <1>5, <2>1, FS_RemoveElement
    <2>6. IsFiniteSet(Entries)' /\ (Cardinality(Entries) <= MaxEntries)'
      BY <1>1, <1>5, <2>4, <2>5
    <2>7. QED
      BY <1>2, <1>4, <2>3, <2>6 DEF o
  <1>8. QED
    BY <1>6, <1>7 DEF Put, new, entry, o

LEMMA PutStep == ASSUME CacheInv, NEW t \in Thread, Put(t) PROVE CacheInv'
  <1> DEFINE o == thread[t].organization
             done == [thread[t] EXCEPT !.pc = "found"]
  <1>1. /\ TypeOK /\ thread[t] \in ThreadState /\ o \in Organization
        /\ UNCHANGED <<directory, field, since>>
        /\ thread \in [Thread -> ThreadState] /\ idle \in [Organization -> 0..Expire]
        /\ thread[t].pc = "answered"
        /\ thread' = [thread EXCEPT ![t] = done] /\ idle' = [idle EXCEPT ![o] = 0]
    BY PartTypes DEF CacheInv, Put, Go, TypeOK
  <1>2. /\ cache' \in [Organization -> Entry]
        /\ IsFiniteSet(Entries)' /\ (Cardinality(Entries) <= MaxEntries)'
        /\ \A p \in Organization :
              \/ cache'[p] = cache[p]
              \/ cache'[p] = NoEntry
              \/ p = o /\ cache'[p].value = thread[t].value /\ cache'[p].age = 0
    BY PutCache DEF CacheInv
  <1>3. done \in ThreadState /\ done.pc = "found"
    BY <1>1 DEF ThreadState
  <1>4. ~NoEntry.cached
    BY DEF NoEntry
  <1> HIDE DEF o, done, NoEntry
  <1>5. /\ thread' \in [Thread -> ThreadState] /\ thread'[t].pc = "found"
        /\ \A s \in Thread \ {t} : thread'[s] = thread[s]
    BY <1>1, <1>3
  <1>6. /\ idle' \in [Organization -> 0..Expire] /\ idle'[o] = 0
        /\ \A p \in Organization \ {o} : idle'[p] = idle[p]
    BY <1>1, CacheAssumption
  <1>7. TypeOK' /\ IsFiniteSet(Entries)'
    BY <1>1, <1>2, <1>5, <1>6 DEF TypeOK
  <1>8. EntriesAreUsed'
    <2> SUFFICES ASSUME NEW p \in Organization, cache'[p].cached
                 PROVE  idle'[p] <= cache'[p].age
      BY DEF EntriesAreUsed
    <2>1. cache[p].age \in Nat
      BY <1>1, PartTypes
    <2>2. QED
      BY <1>2, <1>4, <1>6, <2>1 DEF CacheInv, EntriesAreUsed
  <1>9. SinceIsPast' /\ AnswersAreRecent'
    BY <1>1, <1>5 DEF CacheInv, SinceIsPast, AnswersAreRecent
  <1>10. ServesRecent'
    <2> SUFFICES ASSUME NEW p \in Organization, cache'[p].cached,
                        cache'[p].age < Expire, cache'[p].value # Null
                 PROVE  cache'[p].value >= since[p]
      BY <1>1 DEF ServesRecent, Live
    <2>1. CASE cache'[p] = cache[p]
      BY <2>1 DEF CacheInv, ServesRecent, Live
    <2>2. CASE p = o /\ cache'[p].value = thread[t].value
      BY <1>1, <2>2 DEF CacheInv, AnswersAreRecent, o
    <2>3. QED
      BY <1>2, <1>4, <2>1, <2>2
  <1>11. QED
    BY <1>7, <1>8, <1>9, <1>10 DEF CacheInv

LEMMA ThreadStep ==
    ASSUME CacheInv, NEW t \in Thread,
           \/ OpenPage(t) \/ (\E o \in Organization : Request(t, o))
           \/ Miss(t) \/ Answer(t) \/ Done(t) \/ Assign(t) \/ Check(t) \/ ShowPage(t)
    PROVE  CacheInv'
  <1>1. /\ TypeOK /\ thread[t] \in ThreadState /\ field \in Value
        /\ NoThread \in ThreadState /\ Null \in Value
        /\ thread[t].organization \in Organization
        /\ directory[thread[t].organization] \in Version
    BY PartTypes, EmptyTypes DEF CacheInv, TypeOK, Value
  <1>2. CASE OpenPage(t)
    <2>1. \E new \in {[NoThread EXCEPT !.pc = "lookup", !.page = TRUE],
                      [NoThread EXCEPT !.pc = "assigned", !.page = TRUE]} :
              thread' = [thread EXCEPT ![t] = new]
      BY <1>2 DEF OpenPage
    <2>2. \A new \in {[NoThread EXCEPT !.pc = "lookup", !.page = TRUE],
                      [NoThread EXCEPT !.pc = "assigned", !.page = TRUE]} :
              new \in ThreadState /\ new.pc # "answered"
      BY <1>1 DEF ThreadState
    <2>3. /\ UNCHANGED <<directory, cache, since>> /\ field' \in Value
          /\ idle' = idle \/ \E o \in Organization : idle' = [idle EXCEPT ![o] = 0]
      BY <1>1, <1>2, CacheAssumption DEF OpenPage
    <2>4. QED
      BY <2>1, <2>2, <2>3, ThreadOnly
  <1>3. CASE \E o \in Organization : Request(t, o)
    <2>1. PICK o \in Organization : Request(t, o)
      BY <1>3
    <2> DEFINE new == [NoThread EXCEPT !.pc = "lookup", !.organization = o]
    <2>2. new \in ThreadState /\ new.pc # "answered"
      BY <1>1 DEF ThreadState
    <2>3. thread' = [thread EXCEPT ![t] = new]
      BY <2>1 DEF Request
    <2> HIDE DEF new
    <2>4. QED
      BY <1>1, <2>1, <2>2, <2>3, ThreadOnly DEF Request
  <1>4. CASE Miss(t) \/ Check(t) \/ Done(t) \/ ShowPage(t)
    <2>1. /\ UNCHANGED <<directory, cache, field, idle, since>>
          /\ \/ thread' = [thread EXCEPT ![t] = NoThread]
             \/ thread' = [thread EXCEPT ![t] = [thread[t] EXCEPT !.pc = "asking"]]
             \/ thread' = [thread EXCEPT ![t] = [thread[t] EXCEPT !.pc = "checked"]]
      BY <1>4 DEF Miss, Check, Done, ShowPage, Go
    <2>2. \A new \in {NoThread, [thread[t] EXCEPT !.pc = "asking"],
                      [thread[t] EXCEPT !.pc = "checked"]} :
              new \in ThreadState /\ new.pc # "answered"
      BY <1>1 DEF ThreadState, NoThread
    <2>3. QED
      BY <1>1, <2>1, <2>2, ThreadOnly
  <1>5. CASE Answer(t)
    <2>1. PICK value \in {Null, directory[thread[t].organization]} :
              thread' = [thread EXCEPT ![t].pc = "answered", ![t].value = value]
      BY <1>5 DEF Answer
    <2> DEFINE new == [thread[t] EXCEPT !.pc = "answered", !.value = value]
    <2>2. value \in Value
      BY <1>1, <2>1 DEF Value
    <2>3. /\ new \in ThreadState /\ new.value = value
          /\ new.organization = thread[t].organization
      BY <1>1, <2>2 DEF ThreadState
    <2>4. thread' = [thread EXCEPT ![t] = new]
      BY <1>1, <2>1 DEF TypeOK
    <2> HIDE DEF new
    <2>5. new.value # Null => new.value >= since[new.organization]
      BY <1>1, <2>1, <2>3, PartTypes DEF CacheInv, SinceIsPast
    <2>6. QED
      BY <1>1, <1>5, <2>3, <2>4, <2>5, ThreadOnly DEF Answer
  <1>6. CASE Assign(t)
    <2> DEFINE new == [thread[t] EXCEPT !.pc = "assigned", !.value = Null]
    <2>1. /\ new \in ThreadState /\ new.pc # "answered" /\ thread[t].value \in Value
      BY <1>1 DEF ThreadState
    <2>2. thread' = [thread EXCEPT ![t] = new]
      BY <1>1, <1>6 DEF Assign, TypeOK
    <2> HIDE DEF new
    <2>3. QED
      BY <1>6, <2>1, <2>2, ThreadOnly DEF Assign
  <1>7. QED
    BY <1>2, <1>3, <1>4, <1>5, <1>6

-----------------------------------------------------------------------------
(* The theorems *)

LEMMA InitInv == Init => CacheInv
  <1> SUFFICES ASSUME Init PROVE CacheInv
    OBVIOUS
  <1>1. /\ directory = [o \in Organization |-> 1] /\ since = directory
        /\ cache = [o \in Organization |-> NoEntry]
        /\ field \in {Null, 1}
        /\ thread = [t \in Thread |-> NoThread]
        /\ idle = [o \in Organization |-> Expire]
    BY DEF Init
  <1>2. 1 \in Version /\ Expire \in 0..Expire
    BY CacheAssumption DEF Version
  <1>3. \A o \in Organization : ~cache[o].cached
    BY <1>1 DEF NoEntry
  <1>4. Entries = {}
    BY <1>3 DEF Entries
  <1>5. IsFiniteSet(Entries) /\ Cardinality(Entries) <= MaxEntries
    BY <1>4, FS_EmptySet, CacheAssumption
  <1>6. TypeOK
    BY <1>1, <1>2, <1>5, EmptyTypes DEF TypeOK, Value
  <1>7. \A t \in Thread : thread[t].pc = "idle"
    BY <1>1 DEF NoThread
  <1>8. QED
    BY <1>1, <1>3, <1>5, <1>6, <1>7
       DEF CacheInv, EntriesAreUsed, SinceIsPast, AnswersAreRecent, ServesRecent, Live

LEMMA NextInv == CacheInv /\ [Next]_vars => CacheInv'
  <1> SUFFICES ASSUME CacheInv, [Next]_vars PROVE CacheInv'
    OBVIOUS
  <1>1. CASE UNCHANGED vars
    BY <1>1 DEF vars, CacheInv, TypeOK, Entries, EntriesAreUsed, SinceIsPast,
                AnswersAreRecent, ServesRecent, Live
  <1>2. ASSUME NEW t \in Thread,
               OpenPage(t) \/ (\E o \in Organization : Request(t, o)) \/ Step(t)
        PROVE  CacheInv'
    BY <1>2, HitStep, PutStep, ThreadStep DEF Step
  <1>3. QED
    BY <1>1, <1>2, TickStep, ChangeStep DEF Next

(* The inductive invariant of the cache: an entry is never younger than the *)
(* last use of its organization.                                            *)
THEOREM CacheInvariance == Spec => []CacheInv
  BY InitInv, NextInv, PTL DEF Spec

(* The cache keeps to cache.manager.maximum.size, whatever the threads that *)
(* miss the same entries put into it.                                       *)
THEOREM CacheKeepsItsSize == Spec => []TypeOK
  <1>1. CacheInv => TypeOK
    BY DEF CacheInv
  <1>2. QED
    BY <1>1, CacheInvariance, PTL

(* What getOrganization serves from the cache is no older than the version  *)
(* of the time when the organization was last unused: late answers that are *)
(* put after newer ones keep to that, too.                                  *)
THEOREM CacheServesRecent == Spec => []ServesRecent
  <1>1. CacheInv => ServesRecent
    BY DEF CacheInv
  <1>2. QED
    BY <1>1, CacheInvariance, PTL

LEMMA SettledStep ==
    ASSUME TypeOK, [Next]_vars, Settled
    PROVE  Settled'
  <1>1. thread \in [Thread -> ThreadState] /\ \A t \in Thread : thread[t] \in ThreadState
    BY DEF TypeOK
  <1>2. field # Null /\ \A t \in Thread : ~Looking(t)
    BY DEF Settled
  <1>3. CASE \/ Tick \/ (\E o \in Organization : Change(o)) \/ UNCHANGED vars
    BY <1>3 DEF Tick, Change, vars, Settled, Looking
  <1>4. ASSUME NEW t \in Thread,
               \/ Hit(t) \/ Miss(t) \/ Answer(t) \/ Put(t) \/ Done(t) \/ Assign(t)
               \/ Check(t) \/ ShowPage(t) \/ OpenPage(t)
               \/ \E o \in Organization : Request(t, o)
        PROVE  Settled'
    <2>1. field' = field
      BY <1>2, <1>4 DEF Hit, Miss, Answer, Put, Done, Assign, Check, ShowPage, OpenPage,
                        Request, Looking
    <2>2. \A s \in Thread \ {t} : thread'[s] = thread[s]
      BY <1>1, <1>4 DEF Hit, Miss, Answer, Put, Done, Assign, Check, ShowPage, OpenPage,
                        Request, Go
    <2>3. ~Looking(t)'
      <3>1. CASE Hit(t) \/ Miss(t) \/ Answer(t) \/ Put(t)
        <4>1. thread'[t].page = thread[t].page /\ ~thread[t].page
          BY <1>1, <1>2, <3>1 DEF Hit, Miss, Answer, Put, Go, ThreadState, Looking
        <4>2. QED
          BY <4>1 DEF Looking
      <3>2. CASE Done(t) \/ ShowPage(t)
        BY <1>1, <3>2 DEF Done, ShowPage, NoThread, Looking
      <3>3. CASE Check(t)
        BY <1>1, <1>2, <3>3 DEF Check, Go, ThreadState, Looking
      <3>4. CASE Assign(t)
        BY <1>2, <3>4 DEF Assign, Looking
      <3>5. CASE OpenPage(t)
        <4>1. thread' = [thread EXCEPT ![t] =
                            [NoThread EXCEPT !.pc = "assigned", !.page = TRUE]]
          BY <1>2, <3>5 DEF OpenPage
        <4>2. thread'[t].pc = "assigned"
          BY <1>1, <4>1 DEF NoThread
        <4>3. QED
          BY <4>2 DEF Looking
      <3>6. CASE \E o \in Organization : Request(t, o)
        BY <1>1, <3>6 DEF Request, NoThread, Looking
      <3>7. QED
        BY <1>4, <3>1, <3>2, <3>3, <3>4, <3>5, <3>6
    <2>4. QED
      BY <1>2, <2>1, <2>2, <2>3 DEF Settled, Looking
  <1>5. QED
    BY <1>3, <1>4 DEF Next, Step

(* Once the organization of the server is known and no thread is on its way *)
(* to assign it, nothing that happens to the cache or the directory makes   *)
(* it unknown again.                                                        *)
THEOREM OrganizationStaysKnown == Spec => KnownStaysKnown
  <1>1. TypeOK /\ [Next]_vars => [Settled => Settled']_vars
    BY SettledStep
  <1>2. QED
    BY <1>1, CacheKeepsItsSize, PTL DEF Spec, KnownStaysKnown
================================================================================
