-------------------------- MODULE TitleFetchesProofs --------------------------
(***************************************************************************)
(* The pool of title fetches keeps its invariant: every step of a fetch    *)
(* goroutine, of Wait and of startTitleFetch preserves the typing of the   *)
(* pool and PoolInv.  The counters are related to sets of goroutines by    *)
(* cardinality, so each step names how the sets Holding and Active change. *)
(* Before that, what the two writes of LinkStore do to each row.           *)
(***************************************************************************)
EXTENDS TitleFetches, SequenceTheorems, FiniteSetTheorems, TLAPS

\* INSERT appends one row and touches no other (Store.Insert).
LEMMA InsertEffect ==
    ASSUME StoreTypeOK, NEW link \in Link, Insert(link)
    PROVE  /\ StoreTypeOK'
           /\ DOMAIN links = 1 .. Len(links)
           /\ DOMAIN links' = 1 .. Len(links) + 1
           /\ Len(links) \in Nat
           /\ \A i \in DOMAIN links : links'[i] = links[i]
           /\ links'[Len(links) + 1] = link
           /\ ~UniqueViolation(link)
           /\ storeOpen' = storeOpen
<1>1. links \in Seq(Link) /\ storeOpen \in BOOLEAN
  BY DEF StoreTypeOK
<1>2. /\ ~UniqueViolation(link)
      /\ links' = Append(links, link)
      /\ storeOpen' = storeOpen
  BY DEF Insert
<1>3. /\ links' \in Seq(Link)
      /\ Len(links') = Len(links) + 1
      /\ \A i \in 1 .. Len(links) : links'[i] = links[i]
      /\ links'[Len(links) + 1] = link
  BY <1>1, <1>2, AppendProperties
<1>4. /\ Len(links) \in Nat
      /\ DOMAIN links = 1 .. Len(links)
      /\ DOMAIN links' = 1 .. Len(links')
  BY <1>1, <1>3, LenProperties
<1> QED
  BY <1>1, <1>2, <1>3, <1>4 DEF StoreTypeOK

\* The UPDATE changes nothing but the empty title of the row with that code
\* (Store.SetTitleIfEmpty).
LEMMA SetTitleEffect ==
    ASSUME StoreTypeOK, NEW code, NEW title \in StoredTitle,
           SetTitleIfEmpty(code, title)
    PROVE  /\ StoreTypeOK'
           /\ DOMAIN links' = DOMAIN links
           /\ \A i \in DOMAIN links :
                 /\ links'[i].code = links[i].code
                 /\ links'[i].user = links[i].user
                 /\ links'[i].url = links[i].url
                 /\ IF links[i].code = code /\ links[i].title = NoTitle
                    THEN links'[i].title = title
                    ELSE links'[i] = links[i]
           /\ storeOpen' = storeOpen
<1> DEFINE row(i) == IF links[i].code = code /\ links[i].title = NoTitle
                     THEN [links[i] EXCEPT !.title = title]
                     ELSE links[i]
<1>1. /\ links \in Seq(Link) /\ storeOpen \in BOOLEAN
      /\ Len(links) \in Nat
      /\ DOMAIN links = 1 .. Len(links)
      /\ \A i \in DOMAIN links : links[i] \in Link
  BY LenProperties, ElementOfSeq DEF StoreTypeOK
<1>2. links' = [i \in DOMAIN links |-> row(i)] /\ storeOpen' = storeOpen
  BY DEF SetTitleIfEmpty
<1>3. ASSUME NEW i \in DOMAIN links
      PROVE  /\ row(i) \in Link
             /\ row(i).code = links[i].code
             /\ row(i).user = links[i].user
             /\ row(i).url = links[i].url
             /\ IF links[i].code = code /\ links[i].title = NoTitle
                THEN row(i).title = title
                ELSE row(i) = links[i]
  BY <1>1 DEF Link
<1>4. links' \in [1 .. Len(links) -> Link]
  BY <1>1, <1>2, <1>3
<1>5. links' \in Seq(Link)
  BY <1>1, <1>4, SeqDef
<1> QED
  BY <1>1, <1>2, <1>3, <1>5 DEF StoreTypeOK

-----------------------------------------------------------------------------

HoldingPc == {"fetching", "storing", "releasing"}

\* Holding and Active are finite, and their cardinalities are numbers.
LEMMA PoolFinite ==
    /\ Holding \subseteq Active /\ Active \subseteq Codes
    /\ IsFiniteSet(Holding) /\ IsFiniteSet(Active)
    /\ Cardinality(Holding) \in Nat /\ Cardinality(Active) \in Nat
<1>1. Holding \subseteq Active /\ Active \subseteq Codes
  BY DEF Holding, Active
<1>2. IsFiniteSet(Active) /\ IsFiniteSet(Holding)
  BY <1>1, FetchAssumption, FS_Subset
<1> QED
  BY <1>1, <1>2, FS_CardinalityType

\* A step of a goroutine that keeps its slot, the counters and the queue:
\* FetchNothing, FetchTitle, StoreTitle and StoreTitleFails are such steps.
LEMMA HolderStep ==
    ASSUME FetchTypeOK, PoolInv, NEW code \in Codes, NEW g \in Goroutine,
           fetch[code].pc \in HoldingPc, g.pc \in HoldingPc,
           fetch' = [fetch EXCEPT ![code] = g],
           UNCHANGED <<fetchSem, semQueue, fetchWG, closed, wait>>
    PROVE  FetchTypeOK' /\ PoolInv'
<1>1. /\ fetch \in [Codes -> Goroutine]
      /\ fetch' \in [Codes -> Goroutine]
      /\ \A c \in Codes : fetch'[c] = IF c = code THEN g ELSE fetch[c]
  BY DEF FetchTypeOK
<1>2. FetchTypeOK'
  BY <1>1 DEF FetchTypeOK
<1>3. Holding' = Holding /\ Active' = Active
  BY <1>1 DEF Holding, Active, HoldingPc
<1>4. \A c \in Codes : fetch'[c].pc = "parked" <=> fetch[c].pc = "parked"
  BY <1>1 DEF HoldingPc
<1>5. ParkedForAReason'
  <2>1. semQueue \in Seq(Codes) /\ \A i \in DOMAIN semQueue : semQueue[i] \in Codes
    BY ElementOfSeq, LenProperties DEF FetchTypeOK
  <2> QED
    BY <1>4, <2>1 DEF PoolInv, ParkedForAReason
<1>6. SlotsMatchHolders' /\ GroupMatchesActive' /\ WaitInv'
  BY <1>3 DEF PoolInv, SlotsMatchHolders, GroupMatchesActive, WaitInv
<1> QED
  BY <1>2, <1>5, <1>6 DEF PoolInv

\* A step of another part of the program.
LEMMA PoolUnchanged ==
    ASSUME FetchTypeOK, PoolInv, UNCHANGED fetchVars
    PROVE  FetchTypeOK' /\ PoolInv'
<1>1. Holding' = Holding /\ Active' = Active
  BY DEF Holding, Active, fetchVars
<1>2. FetchTypeOK'
  BY DEF FetchTypeOK, fetchVars
<1>3. ParkedForAReason'
  BY DEF PoolInv, ParkedForAReason, fetchVars
<1>4. SlotsMatchHolders' /\ GroupMatchesActive' /\ WaitInv'
  BY <1>1 DEF PoolInv, SlotsMatchHolders, GroupMatchesActive, WaitInv, fetchVars
<1> QED
  BY <1>2, <1>3, <1>4 DEF PoolInv

\* startTitleFetch, called for a code that has no goroutine.
LEMMA StartStep ==
    ASSUME FetchTypeOK, PoolInv, NEW code \in Codes, NEW url \in URLs,
           fetch[code].pc = "none", startTitleFetch(code, url)
    PROVE  FetchTypeOK' /\ PoolInv'
<1> USE DEF startTitleFetch
<1>1. CASE ~TitlesEnabled \/ closed
  <2>1. UNCHANGED fetchVars
    BY <1>1 DEF fetchVars
  <2> QED
    BY <2>1, PoolUnchanged
<1>2. CASE ~(~TitlesEnabled \/ closed)
  <2> DEFINE g == [pc |-> "spawned", url |-> url, title |-> NoTitle]
  <2>1. /\ fetch \in [Codes -> Goroutine]
        /\ fetch' \in [Codes -> Goroutine]
        /\ \A c \in Codes : fetch'[c] = IF c = code THEN g ELSE fetch[c]
        /\ fetchWG \in Nat /\ fetchWG' = fetchWG + 1
    BY <1>2 DEF FetchTypeOK, Goroutine, FetchPc
  <2>2. FetchTypeOK'
    BY <1>2, <2>1 DEF FetchTypeOK
  <2>3. Holding' = Holding /\ Active' = Active \cup {code} /\ code \notin Active
    BY <2>1 DEF Holding, Active
  <2>4. Cardinality(Active') = Cardinality(Active) + 1
    BY <2>3, PoolFinite, FS_AddElement
  <2>5. \A c \in Codes : fetch'[c].pc = "parked" <=> fetch[c].pc = "parked"
    BY <2>1
  <2>6. ParkedForAReason'
    <3>1. semQueue \in Seq(Codes) /\ \A i \in DOMAIN semQueue : semQueue[i] \in Codes
      BY ElementOfSeq, LenProperties DEF FetchTypeOK
    <3> QED
      BY <2>5, <3>1, <1>2 DEF PoolInv, ParkedForAReason
  <2>7. WaitInv'
    BY <1>2, <2>3 DEF PoolInv, WaitInv
  <2>8. SlotsMatchHolders' /\ GroupMatchesActive'
    BY <1>2, <2>1, <2>3, <2>4 DEF PoolInv, SlotsMatchHolders, GroupMatchesActive
  <2> QED
    BY <2>2, <2>6, <2>7, <2>8 DEF PoolInv
<1> QED
  BY <1>1, <1>2

\* case s.fetchSem <- struct{}{} with a free slot.
LEMMA AcquireStep ==
    ASSUME FetchTypeOK, PoolInv, NEW code \in Codes, AcquireSlot(code)
    PROVE  FetchTypeOK' /\ PoolInv'
<1> DEFINE g == [fetch[code] EXCEPT !.pc = "fetching"]
<1>1. /\ fetch \in [Codes -> Goroutine] /\ g \in Goroutine
      /\ fetch' = [fetch EXCEPT ![code] = g]
      /\ fetch[code].pc = "spawned" /\ g.pc = "fetching"
  BY DEF AcquireSlot, Goto, FetchTypeOK, Goroutine, FetchPc
<1>2. /\ fetchSem \in 0 .. MaxTitleFetches /\ MaxTitleFetches \in Nat
      /\ fetchSem < MaxTitleFetches /\ fetchSem' = fetchSem + 1
      /\ UNCHANGED <<semQueue, fetchWG, closed, wait>>
  BY FetchAssumption DEF AcquireSlot, FetchTypeOK
<1>3. /\ fetch' \in [Codes -> Goroutine]
      /\ \A c \in Codes : fetch'[c] = IF c = code THEN g ELSE fetch[c]
  BY <1>1
<1>4. fetchSem' \in 0 .. MaxTitleFetches
  BY <1>2
<1>5. FetchTypeOK'
  BY <1>2, <1>3, <1>4 DEF FetchTypeOK
<1>6. /\ Holding' = Holding \cup {code} /\ code \notin Holding
      /\ Active' = Active
  BY <1>1, <1>3 DEF Holding, Active
<1>7. Cardinality(Holding') = Cardinality(Holding) + 1
  BY <1>6, PoolFinite, FS_AddElement
<1>8. \A c \in Codes : fetch[c].pc # "parked" /\ fetch'[c].pc # "parked"
  BY <1>1, <1>2, <1>3 DEF PoolInv, ParkedForAReason
<1>9. ParkedForAReason'
  <2>1. semQueue \in Seq(Codes) /\ \A i \in DOMAIN semQueue : semQueue[i] \in Codes
    BY ElementOfSeq, LenProperties DEF FetchTypeOK
  <2> QED
    BY <1>2, <1>8, <2>1 DEF PoolInv, ParkedForAReason
<1>10. SlotsMatchHolders' /\ GroupMatchesActive' /\ WaitInv'
  BY <1>2, <1>6, <1>7
  DEF PoolInv, SlotsMatchHolders, GroupMatchesActive, WaitInv
<1> QED
  BY <1>5, <1>9, <1>10 DEF PoolInv

\* case <-s.fetchDone on a closed service.
LEMMA DismissStep ==
    ASSUME FetchTypeOK, PoolInv, NEW code \in Codes, Dismiss(code)
    PROVE  FetchTypeOK' /\ PoolInv'
<1> DEFINE g == [fetch[code] EXCEPT !.pc = "exiting"]
<1>1. /\ fetch \in [Codes -> Goroutine] /\ g \in Goroutine
      /\ fetch' = [fetch EXCEPT ![code] = g]
      /\ fetch[code].pc = "spawned" /\ g.pc = "exiting"
      /\ UNCHANGED <<fetchSem, semQueue, fetchWG, closed, wait>>
  BY DEF Dismiss, Goto, FetchTypeOK, Goroutine, FetchPc
<1>2. /\ fetch' \in [Codes -> Goroutine]
      /\ \A c \in Codes : fetch'[c] = IF c = code THEN g ELSE fetch[c]
  BY <1>1
<1>3. FetchTypeOK'
  BY <1>1, <1>2 DEF FetchTypeOK
<1>4. Holding' = Holding /\ Active' = Active
  BY <1>1, <1>2 DEF Holding, Active
<1>5. \A c \in Codes : fetch'[c].pc = "parked" <=> fetch[c].pc = "parked"
  BY <1>1, <1>2
<1>6. ParkedForAReason'
  <2>1. semQueue \in Seq(Codes) /\ \A i \in DOMAIN semQueue : semQueue[i] \in Codes
    BY ElementOfSeq, LenProperties DEF FetchTypeOK
  <2> QED
    BY <1>1, <1>5, <2>1 DEF PoolInv, ParkedForAReason
<1>7. SlotsMatchHolders' /\ GroupMatchesActive' /\ WaitInv'
  BY <1>1, <1>4 DEF PoolInv, SlotsMatchHolders, GroupMatchesActive, WaitInv
<1> QED
  BY <1>3, <1>6, <1>7 DEF PoolInv

\* The select blocks: every slot is taken and the service is open.
LEMMA ParkStep ==
    ASSUME FetchTypeOK, PoolInv, NEW code \in Codes, Park(code)
    PROVE  FetchTypeOK' /\ PoolInv'
<1> DEFINE g == [fetch[code] EXCEPT !.pc = "parked"]
<1>1. /\ fetch \in [Codes -> Goroutine] /\ g \in Goroutine
      /\ fetch' = [fetch EXCEPT ![code] = g]
      /\ fetch[code].pc = "spawned" /\ g.pc = "parked"
      /\ fetchSem = MaxTitleFetches /\ ~closed
      /\ semQueue' = Append(semQueue, code)
      /\ UNCHANGED <<fetchSem, fetchWG, closed, wait>>
  BY DEF Park, Goto, FetchTypeOK, Goroutine, FetchPc
<1>2. /\ fetch' \in [Codes -> Goroutine]
      /\ \A c \in Codes : fetch'[c] = IF c = code THEN g ELSE fetch[c]
  BY <1>1
<1>3. /\ semQueue \in Seq(Codes) /\ semQueue' \in Seq(Codes)
      /\ Len(semQueue) \in Nat
      /\ DOMAIN semQueue = 1 .. Len(semQueue)
      /\ DOMAIN semQueue' = 1 .. Len(semQueue) + 1
      /\ \A i \in 1 .. Len(semQueue) : semQueue'[i] = semQueue[i]
      /\ \A i \in 1 .. Len(semQueue) : semQueue[i] \in Codes
      /\ semQueue'[Len(semQueue) + 1] = code
  BY <1>1, AppendProperties, LenProperties, ElementOfSeq DEF FetchTypeOK
<1>4. FetchTypeOK'
  BY <1>1, <1>2, <1>3 DEF FetchTypeOK
<1>5. Holding' = Holding /\ Active' = Active
  BY <1>1, <1>2 DEF Holding, Active
<1>6. ParkedForAReason'
  <2>1. \A i \in 1 .. Len(semQueue) : semQueue[i] # code
    BY <1>1, <1>3 DEF PoolInv, ParkedForAReason
  <2>2. ASSUME NEW c \in Codes, fetch'[c].pc = "parked"
        PROVE  \E i \in DOMAIN semQueue' : semQueue'[i] = c
    <3>1. CASE c = code
      BY <3>1, <1>3
    <3>2. CASE c # code
      BY <3>2, <2>2, <1>2, <1>3 DEF PoolInv, ParkedForAReason
    <3> QED
      BY <3>1, <3>2
  <2>3. ASSUME NEW i \in DOMAIN semQueue', NEW j \in DOMAIN semQueue'
        PROVE  /\ fetch'[semQueue'[i]].pc = "parked"
               /\ i # j => semQueue'[i] # semQueue'[j]
    BY <1>1, <1>2, <1>3, <2>1 DEF PoolInv, ParkedForAReason
  <2> QED
    BY <1>1, <2>2, <2>3 DEF ParkedForAReason
<1>7. SlotsMatchHolders' /\ GroupMatchesActive' /\ WaitInv'
  BY <1>1, <1>5 DEF PoolInv, SlotsMatchHolders, GroupMatchesActive, WaitInv
<1> QED
  BY <1>4, <1>6, <1>7 DEF PoolInv

\* defer func() { <-s.fetchSem }() with nobody parked: the slot becomes free.
LEMMA FreeSlotStep ==
    ASSUME FetchTypeOK, PoolInv, NEW code \in Codes, ReleaseSlot(code),
           semQueue = <<>>
    PROVE  FetchTypeOK' /\ PoolInv'
<1> DEFINE g == [fetch[code] EXCEPT !.pc = "exiting"]
<1>1. /\ fetch \in [Codes -> Goroutine] /\ g \in Goroutine
      /\ fetch' = [fetch EXCEPT ![code] = g]
      /\ fetch[code].pc = "releasing" /\ g.pc = "exiting"
      /\ fetchSem' = fetchSem - 1
      /\ UNCHANGED <<semQueue, fetchWG, closed, wait>>
  BY DEF ReleaseSlot, Goto, FetchTypeOK, Goroutine, FetchPc
<1>2. /\ fetch' \in [Codes -> Goroutine]
      /\ \A c \in Codes : fetch'[c] = IF c = code THEN g ELSE fetch[c]
  BY <1>1
<1>3. /\ Holding' = Holding \ {code} /\ code \in Holding
      /\ Active' = Active
  BY <1>1, <1>2 DEF Holding, Active
<1>4. Cardinality(Holding') = Cardinality(Holding) - 1
  BY <1>3, PoolFinite, FS_RemoveElement
<1>5. /\ fetchSem = Cardinality(Holding)
      /\ Cardinality(Holding') \in Nat
  <2>1. IsFiniteSet(Holding')
    BY <1>3, PoolFinite, FS_Subset
  <2> QED
    BY <2>1, FS_CardinalityType DEF PoolInv, SlotsMatchHolders
<1>6. fetchSem' \in 0 .. MaxTitleFetches
  BY <1>1, <1>4, <1>5, FetchAssumption DEF FetchTypeOK
<1>7. FetchTypeOK'
  BY <1>1, <1>2, <1>6 DEF FetchTypeOK
<1>8. \A c \in Codes : fetch[c].pc # "parked" /\ fetch'[c].pc # "parked"
  BY <1>1, <1>2, EmptySeq DEF PoolInv, ParkedForAReason
<1>9. ParkedForAReason'
  BY <1>1, <1>8, EmptySeq DEF ParkedForAReason
<1>10. SlotsMatchHolders' /\ GroupMatchesActive' /\ WaitInv'
  BY <1>1, <1>3, <1>4, <1>5
  DEF PoolInv, SlotsMatchHolders, GroupMatchesActive, WaitInv
<1> QED
  BY <1>7, <1>9, <1>10 DEF PoolInv

\* The same receive with a goroutine parked: the slot passes to the first one.
LEMMA HandOffStep ==
    ASSUME FetchTypeOK, PoolInv, NEW code \in Codes, ReleaseSlot(code),
           semQueue # <<>>
    PROVE  FetchTypeOK' /\ PoolInv'
<1> DEFINE next == Head(semQueue)
           g == [fetch[code] EXCEPT !.pc = "exiting"]
           h == [fetch[next] EXCEPT !.pc = "fetching"]
<1>1. /\ semQueue \in Seq(Codes) /\ semQueue' \in Seq(Codes)
      /\ semQueue' = Tail(semQueue)
      /\ Len(semQueue) \in Nat \ {0}
      /\ next = semQueue[1] /\ next \in Codes
      /\ DOMAIN semQueue = 1 .. Len(semQueue)
      /\ DOMAIN semQueue' = 1 .. Len(semQueue) - 1
      /\ \A i \in 1 .. Len(semQueue) - 1 : semQueue'[i] = semQueue[i + 1]
      /\ \A i \in 1 .. Len(semQueue) : semQueue[i] \in Codes
  <2>1. semQueue \in Seq(Codes) /\ semQueue' = Tail(semQueue)
    BY DEF ReleaseSlot, FetchTypeOK
  <2>2. /\ Len(semQueue) \in Nat \ {0}
        /\ DOMAIN semQueue = 1 .. Len(semQueue)
        /\ \A i \in 1 .. Len(semQueue) : semQueue[i] \in Codes
    BY <2>1, LenProperties, EmptySeq, ElementOfSeq
  <2>3. /\ semQueue' \in Seq(Codes) /\ Len(semQueue') = Len(semQueue) - 1
        /\ \A i \in 1 .. Len(semQueue') : semQueue'[i] = semQueue[i + 1]
        /\ next \in Codes
    BY <2>1, HeadTailProperties
  <2>4. DOMAIN semQueue' = 1 .. Len(semQueue')
    BY <2>3, LenProperties
  <2>5. next = semQueue[1]
    BY <2>1, <2>2
  <2> QED
    BY <2>1, <2>2, <2>3, <2>4, <2>5
<1>2. /\ \A i, j \in DOMAIN semQueue : i # j => semQueue[i] # semQueue[j]
      /\ \A i \in DOMAIN semQueue : fetch[semQueue[i]].pc = "parked"
      /\ fetch[next].pc = "parked" /\ fetch[code].pc = "releasing"
      /\ next # code
      /\ fetchSem = MaxTitleFetches /\ ~closed
  BY <1>1 DEF PoolInv, ParkedForAReason, ReleaseSlot
<1>3. /\ fetch \in [Codes -> Goroutine] /\ g \in Goroutine /\ h \in Goroutine
      /\ g.pc = "exiting" /\ h.pc = "fetching"
  BY <1>1 DEF FetchTypeOK, Goroutine, FetchPc
<1>4. /\ fetch' \in [Codes -> Goroutine]
      /\ \A c \in Codes : fetch'[c] = IF c = next THEN h
                                      ELSE IF c = code THEN g ELSE fetch[c]
      /\ UNCHANGED <<fetchSem, fetchWG, closed, wait>>
  BY <1>1, <1>2, <1>3 DEF ReleaseSlot
<1>5. FetchTypeOK'
  BY <1>1, <1>4 DEF FetchTypeOK
<1>6. /\ Holding' = (Holding \ {code}) \cup {next}
      /\ code \in Holding /\ next \notin Holding
      /\ Active' = Active
  <2>1. code \in Holding /\ next \notin Holding /\ next \in Codes
    BY <1>1, <1>2 DEF Holding
  <2> HIDE DEF next, g, h
  <2>2. Holding' = (Holding \ {code}) \cup {next}
    BY <1>2, <1>3, <1>4, <2>1 DEF Holding
  <2>3. Active' = Active
    BY <1>2, <1>3, <1>4, <2>1 DEF Active
  <2> QED
    BY <2>1, <2>2, <2>3
<1>7. Cardinality(Holding') = Cardinality(Holding)
  <2>1. /\ IsFiniteSet(Holding \ {code})
        /\ Cardinality(Holding \ {code}) = Cardinality(Holding) - 1
    BY <1>6, PoolFinite, FS_RemoveElement
  <2>2. Cardinality(Holding') = Cardinality(Holding \ {code}) + 1
    BY <1>6, <2>1, FS_AddElement
  <2> QED
    BY <2>1, <2>2, PoolFinite
<1>8. ParkedForAReason'
  <2>1. ASSUME NEW c \in Codes, fetch'[c].pc = "parked"
        PROVE  \E i \in DOMAIN semQueue' : semQueue'[i] = c
    <3>1. c # next /\ fetch[c].pc = "parked"
      BY <2>1, <1>3, <1>4
    <3>2. PICK i \in DOMAIN semQueue : semQueue[i] = c
      BY <3>1 DEF PoolInv, ParkedForAReason
    <3>3. i # 1 /\ i - 1 \in DOMAIN semQueue'
      BY <1>1, <3>1, <3>2
    <3> QED
      BY <1>1, <3>2, <3>3
  <2>2. ASSUME NEW i \in DOMAIN semQueue', NEW j \in DOMAIN semQueue'
        PROVE  /\ fetch'[semQueue'[i]].pc = "parked"
               /\ i # j => semQueue'[i] # semQueue'[j]
    <3>1. /\ i + 1 \in DOMAIN semQueue /\ semQueue'[i] = semQueue[i + 1]
          /\ j + 1 \in DOMAIN semQueue /\ semQueue'[j] = semQueue[j + 1]
          /\ i + 1 # 1 /\ 1 \in DOMAIN semQueue
          /\ i # j => i + 1 # j + 1
      BY <1>1
    <3>2. /\ semQueue[i + 1] \in Codes
          /\ semQueue[i + 1] # next /\ semQueue[i + 1] # code
          /\ fetch[semQueue[i + 1]].pc = "parked"
      BY <1>1, <1>2, <3>1
    <3>3. fetch'[semQueue[i + 1]].pc = "parked"
      BY <1>4, <3>2
    <3> QED
      BY <1>2, <3>1, <3>3
  <2> QED
    BY <1>2, <1>4, <2>1, <2>2 DEF ParkedForAReason
<1>9. SlotsMatchHolders' /\ GroupMatchesActive' /\ WaitInv'
  BY <1>4, <1>6, <1>7
  DEF PoolInv, SlotsMatchHolders, GroupMatchesActive, WaitInv
<1> QED
  BY <1>5, <1>8, <1>9 DEF PoolInv

\* defer s.fetchWG.Done()
LEMMA DoneStep ==
    ASSUME FetchTypeOK, PoolInv, NEW code \in Codes, FetchDone(code)
    PROVE  FetchTypeOK' /\ PoolInv'
<1>1. /\ fetch \in [Codes -> Goroutine]
      /\ fetch' = [fetch EXCEPT ![code] = NoGoroutine]
      /\ fetch[code].pc = "exiting" /\ NoGoroutine.pc = "none"
      /\ NoGoroutine \in Goroutine
      /\ fetchWG' = fetchWG - 1
      /\ UNCHANGED <<fetchSem, semQueue, closed, wait>>
  BY DEF FetchDone, FetchTypeOK, Goroutine, FetchPc, NoGoroutine
<1>2. /\ fetch' \in [Codes -> Goroutine]
      /\ \A c \in Codes : fetch'[c] = IF c = code THEN NoGoroutine ELSE fetch[c]
  BY <1>1
<1>3. /\ Active' = Active \ {code} /\ code \in Active
      /\ Holding' = Holding
  BY <1>1, <1>2 DEF Holding, Active
<1>4. /\ Cardinality(Active') = Cardinality(Active) - 1
      /\ fetchWG = Cardinality(Active)
      /\ Cardinality(Active') \in Nat
  <2>1. IsFiniteSet(Active')
    BY <1>3, PoolFinite, FS_Subset
  <2> QED
    BY <2>1, <1>3, PoolFinite, FS_RemoveElement, FS_CardinalityType
    DEF PoolInv, GroupMatchesActive
<1>5. FetchTypeOK'
  BY <1>1, <1>2, <1>4 DEF FetchTypeOK
<1>6. \A c \in Codes : fetch'[c].pc = "parked" <=> fetch[c].pc = "parked"
  BY <1>1, <1>2
<1>7. ParkedForAReason'
  <2>1. semQueue \in Seq(Codes) /\ \A i \in DOMAIN semQueue : semQueue[i] \in Codes
    BY ElementOfSeq, LenProperties DEF FetchTypeOK
  <2> QED
    BY <1>1, <1>6, <2>1 DEF PoolInv, ParkedForAReason
<1>8. SlotsMatchHolders' /\ GroupMatchesActive'
  BY <1>1, <1>3, <1>4 DEF PoolInv, SlotsMatchHolders, GroupMatchesActive
<1>9. WaitInv'
  BY <1>1, <1>3 DEF PoolInv, WaitInv
<1> QED
  BY <1>5, <1>7, <1>8, <1>9 DEF PoolInv

\* Wait's critical section: the parked goroutines are dismissed, once.
LEMMA WaitClosesStep ==
    ASSUME FetchTypeOK, PoolInv, NEW w \in Waiters, WaitCloses(w)
    PROVE  FetchTypeOK' /\ PoolInv'
<1>1. /\ wait \in [Waiters -> {"idle", "waiting", "returned"}]
      /\ wait' \in [Waiters -> {"idle", "waiting", "returned"}]
      /\ wait'[w] = "waiting"
      /\ \A v \in Waiters : v # w => wait'[v] = wait[v]
      /\ closed' = TRUE
      /\ UNCHANGED <<fetchSem, fetchWG>>
  BY DEF WaitCloses, FetchTypeOK
<1>2. CASE closed
  <2>1. UNCHANGED <<fetch, semQueue>>
    BY <1>2 DEF WaitCloses
  <2>2. Holding' = Holding /\ Active' = Active
    BY <2>1 DEF Holding, Active
  <2>3. FetchTypeOK'
    BY <1>1, <2>1 DEF FetchTypeOK
  <2>4. /\ \A c \in Codes : fetch[c].pc # "parked"
        /\ \A i \in DOMAIN semQueue : FALSE
    <3>1. \A i \in DOMAIN semQueue : semQueue[i] \in Codes
      BY ElementOfSeq, LenProperties DEF FetchTypeOK
    <3> QED
      BY <1>2, <3>1 DEF PoolInv, ParkedForAReason
  <2>5. ParkedForAReason'
    BY <2>1, <2>4 DEF ParkedForAReason
  <2>6. SlotsMatchHolders' /\ GroupMatchesActive'
    BY <1>1, <2>2 DEF PoolInv, SlotsMatchHolders, GroupMatchesActive
  <2>7. WaitInv'
    BY <1>1, <2>2 DEF PoolInv, WaitInv
  <2> QED
    BY <2>3, <2>5, <2>6, <2>7 DEF PoolInv
<1>3. CASE ~closed
  <2>1. /\ fetch \in [Codes -> Goroutine]
        /\ fetch' \in [Codes -> Goroutine]
        /\ \A c \in Codes : IF fetch[c].pc = "parked"
                             THEN fetch'[c].pc = "exiting"
                             ELSE fetch'[c] = fetch[c]
        /\ semQueue' = <<>>
    BY <1>3 DEF WaitCloses, FetchTypeOK, Goroutine, FetchPc
  <2>2. FetchTypeOK'
    BY <1>1, <2>1, EmptySeq DEF FetchTypeOK
  <2>3. Holding' = Holding /\ Active' = Active
    BY <2>1 DEF Holding, Active
  <2>4. ParkedForAReason'
    BY <2>1 DEF ParkedForAReason
  <2>5. SlotsMatchHolders' /\ GroupMatchesActive'
    BY <1>1, <2>3 DEF PoolInv, SlotsMatchHolders, GroupMatchesActive
  <2>6. WaitInv'
    BY <1>1, <1>3, <2>3 DEF PoolInv, WaitInv
  <2> QED
    BY <2>2, <2>4, <2>5, <2>6 DEF PoolInv
<1> QED
  BY <1>2, <1>3

\* fetchWG.Wait returns: the counter is zero, so no goroutine is left.
LEMMA WaitReturnsStep ==
    ASSUME FetchTypeOK, PoolInv, NEW w \in Waiters, WaitReturns(w)
    PROVE  FetchTypeOK' /\ PoolInv'
<1>1. /\ wait \in [Waiters -> {"idle", "waiting", "returned"}]
      /\ wait' \in [Waiters -> {"idle", "waiting", "returned"}]
      /\ wait[w] = "waiting"
      /\ \A v \in Waiters : wait'[v] # "idle" => wait[v] # "idle"
      /\ fetchWG = 0
      /\ UNCHANGED <<fetch, fetchSem, semQueue, fetchWG, closed>>
  BY DEF WaitReturns, FetchTypeOK
<1>2. Holding' = Holding /\ Active' = Active
  BY <1>1 DEF Holding, Active
<1>3. Active = {}
  BY <1>1, PoolFinite, FS_EmptySet DEF PoolInv, GroupMatchesActive
<1>4. FetchTypeOK'
  BY <1>1 DEF FetchTypeOK
<1>5. ParkedForAReason'
  BY <1>1 DEF PoolInv, ParkedForAReason
<1>6. SlotsMatchHolders' /\ GroupMatchesActive'
  BY <1>1, <1>2 DEF PoolInv, SlotsMatchHolders, GroupMatchesActive
<1>7. WaitInv'
  BY <1>1, <1>2, <1>3 DEF PoolInv, WaitInv
<1> QED
  BY <1>4, <1>5, <1>6, <1>7 DEF PoolInv

\* Every step of a fetch goroutine preserves the typing of the pool and PoolInv.
LEMMA FetchStepPreserves ==
    ASSUME FetchTypeOK, PoolInv, NEW code \in Codes, FetchStep(code),
           fetch[code].pc = "storing" => fetch[code].title \in StoredTitle,
           fetch[code].pc = "fetching" => fetch[code].url \in URLs
    PROVE  FetchTypeOK' /\ PoolInv'
<1>0. fetch \in [Codes -> Goroutine] /\ fetch[code] \in Goroutine
  BY DEF FetchTypeOK
<1>1. CASE AcquireSlot(code)
  BY <1>1, AcquireStep
<1>2. CASE Dismiss(code)
  BY <1>2, DismissStep
<1>3. CASE Park(code)
  BY <1>3, ParkStep
<1>4. CASE FetchNothing(code) \/ StoreTitle(code) \/ StoreTitleFails(code)
  <2> DEFINE g == [fetch[code] EXCEPT !.pc = "releasing"]
  <2>1. /\ g \in Goroutine /\ g.pc \in HoldingPc /\ fetch[code].pc \in HoldingPc
        /\ fetch' = [fetch EXCEPT ![code] = g]
        /\ UNCHANGED <<fetchSem, semQueue, fetchWG, closed, wait>>
    BY <1>0, <1>4
    DEF FetchNothing, StoreTitle, StoreTitleFails, Goto, Goroutine, FetchPc, HoldingPc
  <2> QED
    BY <2>1, HolderStep
<1>5. CASE FetchTitle(code)
  <2>1. PICK pageTitle \in PageTitles :
           fetch' = [fetch EXCEPT
              ![code].pc = "storing",
              ![code].title = TitleFor(pageTitle, fetch[code].url)]
    BY <1>5 DEF FetchTitle
  <2> DEFINE g == [fetch[code] EXCEPT
                      !.pc = "storing",
                      !.title = TitleFor(pageTitle, fetch[code].url)]
  <2>2. fetch[code].pc = "fetching" /\ fetch[code].url \in URLs
    BY <1>5 DEF FetchTitle
  <2>3. TitleFor(pageTitle, fetch[code].url) \in StoredTitle
    BY <2>2 DEF TitleFor, StoredTitle
  <2>4. g \in Goroutine /\ g.pc = "storing"
    BY <1>0, <2>3 DEF Goroutine, FetchPc
  <2>5. /\ fetch' = [fetch EXCEPT ![code] = g]
        /\ UNCHANGED <<fetchSem, semQueue, fetchWG, closed, wait>>
    BY <1>0, <1>5, <2>1 DEF FetchTitle
  <2> QED
    BY <2>2, <2>4, <2>5, HolderStep DEF HoldingPc
<1>6. CASE ReleaseSlot(code)
  BY <1>6, FreeSlotStep, HandOffStep
<1>7. CASE FetchDone(code)
  BY <1>7, DoneStep
<1> QED
  BY <1>1, <1>2, <1>3, <1>4, <1>5, <1>6, <1>7 DEF FetchStep

\* What a step of one goroutine does to all of them: none appears, a URL never
\* changes, and a title to be stored comes from the goroutine's own URL.
LEMMA FetchFrame ==
    ASSUME FetchTypeOK, PoolInv, NEW code \in Codes, FetchStep(code),
           fetch[code].pc # "none" => fetch[code].url \in URLs,
           NEW k \in Codes
    PROVE  /\ fetch[k].pc = "none" => fetch'[k].pc = "none"
           /\ fetch'[k].pc # "none" => fetch'[k].url = fetch[k].url
           /\ fetch'[k].pc = "storing" =>
                 \/ fetch'[k] = fetch[k]
                 \/ /\ fetch'[k].title \in StoredTitle
                    /\ fetch'[k].title.page = fetch[k].url
<1>1. fetch \in [Codes -> Goroutine]
  BY DEF FetchTypeOK
<1>2. CASE AcquireSlot(code) \/ Dismiss(code) \/ Park(code)
  BY <1>1, <1>2 DEF AcquireSlot, Dismiss, Park, Goto, Goroutine
<1>3. CASE FetchNothing(code) \/ StoreTitle(code) \/ StoreTitleFails(code)
  BY <1>1, <1>3 DEF FetchNothing, StoreTitle, StoreTitleFails, Goto, Goroutine
<1>4. CASE FetchTitle(code)
  <2>1. PICK pageTitle \in PageTitles :
           fetch' = [fetch EXCEPT
              ![code].pc = "storing",
              ![code].title = TitleFor(pageTitle, fetch[code].url)]
    BY <1>4 DEF FetchTitle
  <2>2. fetch[code].pc = "fetching" /\ fetch[code].url \in URLs
    BY <1>4 DEF FetchTitle
  <2>3. /\ TitleFor(pageTitle, fetch[code].url) \in StoredTitle
        /\ TitleFor(pageTitle, fetch[code].url).page = fetch[code].url
    BY <2>2 DEF TitleFor, StoredTitle
  <2> QED
    BY <1>1, <2>1, <2>2, <2>3 DEF Goroutine
<1>5. CASE ReleaseSlot(code)
  <2>1. CASE semQueue = <<>>
    BY <1>1, <1>5, <2>1 DEF ReleaseSlot, Goto, Goroutine
  <2>2. CASE semQueue # <<>>
    <3>1. /\ Head(semQueue) \in Codes
          /\ fetch[Head(semQueue)].pc = "parked"
      <4>1. /\ semQueue \in Seq(Codes) /\ 1 \in DOMAIN semQueue
            /\ Head(semQueue) = semQueue[1] /\ semQueue[1] \in Codes
        BY <2>2, LenProperties, EmptySeq, ElementOfSeq DEF FetchTypeOK
      <4> QED
        BY <4>1 DEF PoolInv, ParkedForAReason
    <3>2. fetch[code].pc = "releasing"
          /\ fetch' = [fetch EXCEPT ![code].pc = "exiting",
                                    ![Head(semQueue)].pc = "fetching"]
      BY <1>5, <2>2 DEF ReleaseSlot
    <3> QED
      BY <1>1, <3>1, <3>2 DEF Goroutine
  <2> QED
    BY <2>1, <2>2
<1>6. CASE FetchDone(code)
  BY <1>1, <1>6 DEF FetchDone, NoGoroutine
<1> QED
  BY <1>2, <1>3, <1>4, <1>5, <1>6 DEF FetchStep

\* What a step of one goroutine does to the table.
LEMMA FetchStepOnStore ==
    ASSUME NEW code \in Codes, FetchStep(code)
    PROVE  \/ UNCHANGED storeVars
           \/ /\ fetch[code].pc = "storing"
              /\ SetTitleIfEmpty(code, fetch[code].title)
BY DEF FetchStep, AcquireSlot, Dismiss, Park, FetchNothing, FetchTitle,
       StoreTitle, StoreTitleFails, ReleaseSlot, FetchDone

=============================================================================
