--------------------------- MODULE ShortenerProofs ---------------------------
(***************************************************************************)
(* Theorems about Shortener for every number of callers, users, URLs,      *)
(* codes, fetch slots and attempts.  IInv is inductive: one lemma for each *)
(* group of actions shows that it is kept, and the theorems follow.        *)
(***************************************************************************)
EXTENDS Shortener, TitleFetchesProofs

LEMMA InitIInv == Init => IInv
<1> SUFFICES ASSUME Init PROVE IInv
  OBVIOUS
<1> USE DEF Init, FetchInit
<1>1. Holding = {} /\ Active = {}
  BY DEF Holding, Active, NoGoroutine
<1>2. StoreTypeOK
  BY EmptySeq DEF StoreTypeOK
<1>3. FetchTypeOK
  <2>1. NoGoroutine \in Goroutine
    BY DEF Goroutine, NoGoroutine, FetchPc
  <2>2. fetchSem \in 0 .. MaxTitleFetches /\ fetchWG \in Nat
    BY FetchAssumption
  <2>3. semQueue \in Seq(Codes)
    BY EmptySeq
  <2> QED
    BY <2>1, <2>2, <2>3 DEF FetchTypeOK
<1>4. CallTypeOK
  BY ShortenerAssumption DEF CallTypeOK, Call, CallPc, Idle
<1>5. PoolInv
  BY <1>1, FS_EmptySet DEF PoolInv, SlotsMatchHolders, ParkedForAReason,
                           GroupMatchesActive, WaitInv, NoGoroutine
<1>6. MutexInv /\ CallInv
  BY ShortenerAssumption DEF MutexInv, CallInv, Idle
<1>7. FetchRowInv /\ TableInv /\ IssuedStored /\ LifeInv
  BY DEF FetchRowInv, TableInv, IssuedStored, LifeInv, NoGoroutine
<1> QED
  BY <1>2, <1>3, <1>4, <1>5, <1>6, <1>7 DEF IInv, TypeOK

\* What a step that touches neither the store nor the pool keeps.
LEMMA OnlyCallsChange ==
    ASSUME IInv, UNCHANGED <<storeVars, fetchVars, up>>
    PROVE  /\ StoreTypeOK' /\ FetchTypeOK' /\ PoolInv'
           /\ FetchRowInv' /\ TableInv' /\ LifeInv'
<1>1. StoreTypeOK'
  BY DEF IInv, TypeOK, StoreTypeOK, storeVars
<1>2. FetchTypeOK' /\ PoolInv'
  BY PoolUnchanged DEF IInv, TypeOK
<1>3. FetchRowInv'
  BY DEF IInv, FetchRowInv, storeVars, fetchVars
<1>4. TableInv'
  BY DEF IInv, TableInv, storeVars
<1>5. LifeInv'
  BY DEF IInv, LifeInv, storeVars, fetchVars
<1> QED
  BY <1>1, <1>2, <1>3, <1>4, <1>5

\* Shorten, Lock, Find without a row and Generate: one call moves on.
LEMMA CallMoves ==
    ASSUME IInv, NEW c \in Callers, NEW r \in Call,
           UNCHANGED <<storeVars, fetchVars, up, issued>>,
           call' = [call EXCEPT ![c] = r],
           writeMu' \in Callers \cup {Nobody},
           MutexInv',
           r.pc # "idle" => r.user \in Users /\ r.url \in URLs,
           r.pc \in {"generate", "insert"} =>
              \A i \in DOMAIN links :
                 ~(links[i].user = r.user /\ links[i].url = r.url),
           r.pc = "insert" =>
              r.code \in Codes /\ \A i \in DOMAIN links : links[i].code # r.code,
           r.pc # "start"
    PROVE  IInv'
<1>1. /\ call \in [Callers -> Call]
      /\ call' \in [Callers -> Call]
      /\ \A d \in Callers : call'[d] = IF d = c THEN r ELSE call[d]
  BY DEF IInv, TypeOK, CallTypeOK
<1>2. CallTypeOK'
  BY <1>1 DEF IInv, TypeOK, CallTypeOK
<1>3. CallInv'
  <2> SUFFICES ASSUME NEW d \in Callers
               PROVE  CallInv!(d)'
    BY DEF CallInv
  <2>1. UNCHANGED <<links, fetch>>
    BY DEF storeVars, fetchVars
  <2>2. CASE d = c
    BY <1>1, <2>1, <2>2
  <2>3. CASE d # c
    BY <1>1, <2>1, <2>3 DEF IInv, CallInv, NewLink
  <2> QED
    BY <2>2, <2>3
<1>4. IssuedStored'
  BY DEF IInv, IssuedStored, storeVars
<1> QED
  BY <1>2, <1>3, <1>4, OnlyCallsChange DEF IInv, TypeOK

\* Every error return of Shorten: Exhausted and StatementFails.
LEMMA CallFails ==
    ASSUME IInv, NEW c \in Callers, writeMu = c, ReturnError(c),
           UNCHANGED <<storeVars, fetchVars>>
    PROVE  IInv'
<1>1. Idle \in Call /\ Idle.pc = "idle"
  BY ShortenerAssumption DEF Call, CallPc, Idle
<1>2. MutexInv'
  BY <1>1, ShortenerAssumption
  DEF IInv, TypeOK, CallTypeOK, MutexInv, ReturnError
<1> QED
  BY <1>1, <1>2, CallMoves DEF ReturnError

\* A link is returned whose row is in the table: Find and StartFetch.
LEMMA LinkReturned ==
    ASSUME IInv, NEW c \in Callers, NEW code \in Codes,
           writeMu = c, ReturnLink(c, code), UNCHANGED storeVars,
           \E i \in DOMAIN links : /\ links[i].code = code
                                  /\ links[i].user = call[c].user
                                  /\ links[i].url = call[c].url,
           \A d \in Callers : d # c /\ call[d].pc = "start" =>
               fetch'[call[d].code].pc = fetch[call[d].code].pc
    PROVE  CallTypeOK' /\ MutexInv' /\ CallInv' /\ IssuedStored'
<1>1. /\ Idle \in Call /\ Idle.pc = "idle"
      /\ call \in [Callers -> Call]
      /\ call' \in [Callers -> Call]
      /\ \A d \in Callers : call'[d] = IF d = c THEN Idle ELSE call[d]
      /\ links' = links
  BY ShortenerAssumption
  DEF IInv, TypeOK, CallTypeOK, Call, CallPc, Idle, ReturnLink, storeVars
<1>2. call[c].user \in Users /\ call[c].url \in URLs
  BY DEF IInv, MutexInv, CallInv
<1>3. CallTypeOK'
  BY <1>1, <1>2 DEF IInv, TypeOK, CallTypeOK, ReturnLink, Binding
<1>4. MutexInv'
  BY <1>1, ShortenerAssumption DEF IInv, MutexInv, ReturnLink
<1>5. CallInv'
  <2> SUFFICES ASSUME NEW d \in Callers
               PROVE  CallInv!(d)'
    BY DEF CallInv
  <2>1. CASE d = c
    BY <1>1, <2>1
  <2>2. CASE d # c
    BY <1>1, <2>2 DEF IInv, CallInv, NewLink
  <2> QED
    BY <2>1, <2>2
<1>6. IssuedStored'
  BY <1>1 DEF IInv, IssuedStored, ReturnLink
<1> QED
  BY <1>3, <1>4, <1>5, <1>6

\* ValidateURL and the wait for the mutex.
LEMMA ShortenStep ==
    ASSUME IInv, NEW c \in Callers, Shorten(c)
    PROVE  IInv'
<1> USE DEF Shorten
<1>1. CASE call' = call
  <2>1. CallTypeOK' /\ MutexInv' /\ CallInv' /\ IssuedStored'
    BY <1>1 DEF IInv, TypeOK, CallTypeOK, MutexInv, CallInv, IssuedStored,
                NewLink, storeVars, fetchVars
  <2> QED
    BY <2>1, OnlyCallsChange DEF IInv, TypeOK
<1>2. CASE call' # call
  <2>1. PICK user \in Users, raw \in RawURLs :
           /\ ValidateURL[raw] # ErrInvalidURL
           /\ call' = [call EXCEPT ![c] =
                  [Idle EXCEPT !.pc = "lock", !.user = user,
                               !.url = ValidateURL[raw]]]
    BY <1>2
  <2> DEFINE r == [Idle EXCEPT !.pc = "lock", !.user = user,
                               !.url = ValidateURL[raw]]
  <2>2. /\ r \in Call /\ r.pc = "lock" /\ r.user \in Users /\ r.url \in URLs
        /\ call' = [call EXCEPT ![c] = r]
    <3>1. ValidateURL[raw] \in URLs
      BY <2>1, ShortenerAssumption
    <3>2. 0 \in 0 .. MaxCodeAttempts
      BY ShortenerAssumption
    <3> QED
      BY <2>1, <3>1, <3>2 DEF Call, CallPc, Idle
  <2>3. MutexInv'
    BY <2>2 DEF IInv, TypeOK, CallTypeOK, MutexInv
  <2> HIDE DEF r
  <2> QED
    BY <2>2, <2>3, CallMoves DEF IInv, TypeOK, CallTypeOK
<1> QED
  BY <1>1, <1>2

LEMMA LockStep ==
    ASSUME IInv, NEW c \in Callers, Lock(c)
    PROVE  IInv'
<1> DEFINE r == [call[c] EXCEPT !.pc = "find"]
<1>1. /\ call \in [Callers -> Call] /\ r \in Call /\ r.pc = "find"
      /\ r.user = call[c].user /\ r.url = call[c].url
      /\ call' = [call EXCEPT ![c] = r]
      /\ call[c].pc = "lock" /\ writeMu = Nobody /\ writeMu' = c
  BY DEF Lock, IInv, TypeOK, CallTypeOK, Call, CallPc
<1>2. r.user \in Users /\ r.url \in URLs
  BY <1>1 DEF IInv, CallInv
<1>3. MutexInv'
  BY <1>1, ShortenerAssumption DEF IInv, MutexInv
<1> HIDE DEF r
<1> QED
  BY <1>1, <1>2, <1>3, CallMoves DEF Lock

LEMMA FindStep ==
    ASSUME IInv, NEW c \in Callers, Find(c)
    PROVE  IInv'
<1>1. /\ call[c].pc = "find" /\ writeMu = c
      /\ call[c].user \in Users /\ call[c].url \in URLs
      /\ UNCHANGED <<fetchVars, storeVars>>
  BY DEF Find, IInv, MutexInv, CallInv
<1>2. CASE \E i \in FindUserURL(call[c].user, call[c].url) :
              ReturnLink(c, links[i].code)
  <2>1. PICK i \in DOMAIN links : /\ links[i].user = call[c].user
                                  /\ links[i].url = call[c].url
                                  /\ ReturnLink(c, links[i].code)
    BY <1>2 DEF FindUserURL
  <2>2. links[i].code \in Codes
    <3>1. links \in Seq(Link)
      BY DEF IInv, TypeOK, StoreTypeOK
    <3>2. links[i] \in Link
      BY <3>1, ElementOfSeq, LenProperties
    <3> QED
      BY <3>2 DEF Link
  <2>3. up' = up /\ fetch' = fetch
    BY <1>1, <2>1 DEF ReturnLink, fetchVars
  <2>4. CallTypeOK' /\ MutexInv' /\ CallInv' /\ IssuedStored'
    BY <1>1, <2>1, <2>2, <2>3, LinkReturned
  <2> QED
    BY <1>1, <2>3, <2>4, OnlyCallsChange DEF IInv, TypeOK
<1>3. CASE /\ FindUserURL(call[c].user, call[c].url) = {}
           /\ call' = [call EXCEPT ![c].pc = "generate"]
           /\ UNCHANGED <<up, writeMu, issued>>
  <2> DEFINE r == [call[c] EXCEPT !.pc = "generate"]
  <2>1. /\ call \in [Callers -> Call] /\ r \in Call /\ r.pc = "generate"
        /\ r.user = call[c].user /\ r.url = call[c].url
        /\ call' = [call EXCEPT ![c] = r]
        /\ writeMu' \in Callers \cup {Nobody}
    BY <1>3 DEF IInv, TypeOK, CallTypeOK, Call, CallPc
  <2>2. MutexInv'
    BY <1>1, <1>3, <2>1 DEF IInv, MutexInv
  <2>3. \A i \in DOMAIN links :
            ~(links[i].user = r.user /\ links[i].url = r.url)
    BY <1>3, <2>1 DEF FindUserURL
  <2> HIDE DEF r
  <2> QED
    BY <1>1, <1>3, <2>1, <2>2, <2>3, CallMoves
<1> QED
  BY <1>2, <1>3 DEF Find

LEMMA GenerateStep ==
    ASSUME IInv, NEW c \in Callers, Generate(c)
    PROVE  IInv'
<1>1. /\ call[c].pc = "generate" /\ writeMu = c
      /\ call \in [Callers -> Call]
      /\ call[c].user \in Users /\ call[c].url \in URLs
      /\ call[c].attempt \in 0 .. MaxCodeAttempts
      /\ call[c].attempt < MaxCodeAttempts
      /\ \A i \in DOMAIN links :
             ~(links[i].user = call[c].user /\ links[i].url = call[c].url)
  BY DEF Generate, IInv, TypeOK, CallTypeOK, MutexInv, CallInv, Call
<1>2. PICK code \in Codes :
         call' = IF CodeExists(code)
                 THEN [call EXCEPT ![c].attempt = @ + 1]
                 ELSE [call EXCEPT ![c].pc = "insert", ![c].code = code]
  BY DEF Generate
<1> DEFINE r == IF CodeExists(code)
                THEN [call[c] EXCEPT !.attempt = @ + 1]
                ELSE [call[c] EXCEPT !.pc = "insert", !.code = code]
<1>3. call' = [call EXCEPT ![c] = r]
  BY <1>1, <1>2
<1>4. /\ r \in Call /\ r.user = call[c].user /\ r.url = call[c].url
      /\ r.pc \in {"generate", "insert"}
      /\ r.pc = "insert" => r.code = code /\ ~CodeExists(code)
  <2>1. CASE CodeExists(code)
    <3>1. call[c].attempt + 1 \in 0 .. MaxCodeAttempts
      BY <1>1, ShortenerAssumption
    <3> QED
      BY <1>1, <2>1, <3>1 DEF Call, CallPc
  <2>2. CASE ~CodeExists(code)
    BY <1>1, <2>2 DEF Call, CallPc
  <2> QED
    BY <2>1, <2>2
<1>5. MutexInv'
  BY <1>1, <1>3, <1>4 DEF IInv, TypeOK, CallTypeOK, MutexInv, Generate
<1>6. /\ UNCHANGED <<storeVars, fetchVars, up, issued>>
      /\ writeMu' \in Callers \cup {Nobody}
  BY DEF Generate, IInv, TypeOK, CallTypeOK
<1>7. r.pc = "insert" =>
         r.code \in Codes /\ \A i \in DOMAIN links : links[i].code # r.code
  BY <1>4 DEF CodeExists
<1> HIDE DEF r
<1> QED
  BY <1>1, <1>3, <1>4, <1>5, <1>6, <1>7, CallMoves

LEMMA FailureStep ==
    ASSUME IInv, NEW c \in Callers, Exhausted(c) \/ StatementFails(c)
    PROVE  IInv'
<1>1. writeMu = c /\ ReturnError(c) /\ UNCHANGED <<storeVars, fetchVars>>
  BY DEF Exhausted, StatementFails, IInv, MutexInv
<1> QED
  BY <1>1, CallFails

\* The owner of writeMu is alone past Lock.
LEMMA OthersOutside ==
    ASSUME IInv, NEW c \in Callers, NEW d \in Callers, writeMu = c, d # c
    PROVE  call[d].pc \in {"idle", "lock"}
BY DEF IInv, MutexInv

\* The row of a new link: it conflicts with no row, and every row stays.
LEMMA RowInserted ==
    ASSUME IInv, NEW c \in Callers, call[c].pc = "insert", Insert(NewLink(c)),
           UNCHANGED <<fetchVars, up, issued>>
    PROVE  /\ StoreTypeOK' /\ FetchTypeOK' /\ PoolInv' /\ FetchRowInv'
           /\ TableInv' /\ IssuedStored' /\ LifeInv'
           /\ \E i \in DOMAIN links' : links'[i] = NewLink(c)
           /\ fetch'[call[c].code].pc = "none"
<1>1. /\ call[c].code \in Codes /\ call[c].user \in Users /\ call[c].url \in URLs
      /\ NewLink(c) \in Link
      /\ NewLink(c).code = call[c].code /\ NewLink(c).user = call[c].user
      /\ NewLink(c).url = call[c].url /\ NewLink(c).title = NoTitle
  BY DEF IInv, CallInv, NewLink, Link
<1>2. /\ StoreTypeOK'
      /\ Len(links) \in Nat
      /\ DOMAIN links = 1 .. Len(links)
      /\ DOMAIN links' = 1 .. Len(links) + 1
      /\ \A i \in DOMAIN links : links'[i] = links[i]
      /\ links'[Len(links) + 1] = NewLink(c)
      /\ ~UniqueViolation(NewLink(c))
      /\ storeOpen' = storeOpen
  BY <1>1, InsertEffect DEF IInv, TypeOK
<1>3. \A i \in DOMAIN links : i \in DOMAIN links' /\ links'[i] = links[i]
  BY <1>2
<1>4. \A i \in DOMAIN links' : i \in DOMAIN links \/ i = Len(links) + 1
  BY <1>2
<1>5. FetchTypeOK' /\ PoolInv'
  BY PoolUnchanged DEF IInv, TypeOK
<1>6. FetchRowInv'
  BY <1>3 DEF IInv, FetchRowInv, fetchVars
<1>7. IssuedStored'
  BY <1>3 DEF IInv, IssuedStored
<1>8. TableInv'
  BY <1>1, <1>2, <1>3, <1>4 DEF IInv, TableInv, UniqueViolation
<1>9. LifeInv'
  BY <1>2 DEF IInv, LifeInv, fetchVars
<1>10. \E i \in DOMAIN links' : links'[i] = NewLink(c)
  BY <1>2
<1>11. fetch'[call[c].code].pc = "none"
  BY <1>1, <1>2 DEF IInv, FetchRowInv, UniqueViolation, fetchVars
<1> QED
  BY <1>2, <1>5, <1>6, <1>7, <1>8, <1>9, <1>10, <1>11

LEMMA InsertStep ==
    ASSUME IInv, NEW c \in Callers, InsertLink(c)
    PROVE  IInv'
<1> DEFINE r == [call[c] EXCEPT !.pc = "start"]
<1>1. /\ call \in [Callers -> Call] /\ r \in Call /\ r.pc = "start"
      /\ r.user = call[c].user /\ r.url = call[c].url /\ r.code = call[c].code
      /\ call' = [call EXCEPT ![c] = r]
      /\ call[c].pc = "insert" /\ writeMu = c /\ Insert(NewLink(c))
      /\ UNCHANGED <<up, writeMu, issued, fetchVars>>
  BY DEF InsertLink, IInv, TypeOK, CallTypeOK, MutexInv, Call, CallPc
<1>2. /\ StoreTypeOK' /\ FetchTypeOK' /\ PoolInv' /\ FetchRowInv'
      /\ TableInv' /\ IssuedStored' /\ LifeInv'
      /\ \E i \in DOMAIN links' : links'[i] = NewLink(c)
      /\ fetch'[call[c].code].pc = "none"
  BY <1>1, RowInserted
<1>3. CallTypeOK'
  BY <1>1 DEF IInv, TypeOK, CallTypeOK
<1>4. MutexInv'
  BY <1>1 DEF IInv, MutexInv
<1>5. CallInv'
  <2> SUFFICES ASSUME NEW d \in Callers
               PROVE  CallInv!(d)'
    BY DEF CallInv
  <2>1. CASE d = c
    BY <1>1, <1>2, <2>1 DEF IInv, CallInv, NewLink
  <2>2. CASE d # c
    BY <1>1, <2>2, OthersOutside DEF IInv, CallInv
  <2> QED
    BY <2>1, <2>2
<1> QED
  BY <1>2, <1>3, <1>4, <1>5 DEF IInv, TypeOK

LEMMA InsertInterruptedStep ==
    ASSUME IInv, NEW c \in Callers, InsertInterrupted(c)
    PROVE  IInv'
<1>1. /\ call \in [Callers -> Call] /\ Idle \in Call /\ Idle.pc = "idle"
      /\ call' = [call EXCEPT ![c] = Idle]
      /\ call[c].pc = "insert" /\ writeMu = c /\ Insert(NewLink(c))
      /\ writeMu' = Nobody
      /\ UNCHANGED <<up, issued, fetchVars>>
  BY ShortenerAssumption
  DEF InsertInterrupted, ReturnError, IInv, TypeOK, CallTypeOK, MutexInv,
      Call, CallPc, Idle
<1>2. /\ StoreTypeOK' /\ FetchTypeOK' /\ PoolInv' /\ FetchRowInv'
      /\ TableInv' /\ IssuedStored' /\ LifeInv'
  BY <1>1, RowInserted
<1>3. CallTypeOK'
  BY <1>1 DEF IInv, TypeOK, CallTypeOK
<1>4. MutexInv'
  BY <1>1, ShortenerAssumption DEF IInv, MutexInv
<1>5. CallInv'
  <2> SUFFICES ASSUME NEW d \in Callers
               PROVE  CallInv!(d)'
    BY DEF CallInv
  <2>1. CASE d = c
    BY <1>1, <2>1
  <2>2. CASE d # c
    BY <1>1, <2>2, OthersOutside DEF IInv, CallInv
  <2> QED
    BY <2>1, <2>2
<1> QED
  BY <1>2, <1>3, <1>4, <1>5 DEF IInv, TypeOK

\* The new row gets its fetch, and the caller its code.
LEMMA StartFetchStep ==
    ASSUME IInv, NEW c \in Callers, StartFetch(c)
    PROVE  IInv'
<1> DEFINE code == call[c].code
<1>1. /\ call[c].pc = "start" /\ writeMu = c
      /\ code \in Codes /\ call[c].url \in URLs
      /\ fetch[code].pc = "none"
      /\ startTitleFetch(code, call[c].url)
      /\ ReturnLink(c, code)
      /\ UNCHANGED storeVars
  BY DEF StartFetch, IInv, MutexInv, CallInv
<1>2. PICK i \in DOMAIN links : links[i] = NewLink(c)
  BY <1>1 DEF IInv, CallInv
<1>3. /\ links[i].code = code /\ links[i].user = call[c].user
      /\ links[i].url = call[c].url
  BY <1>2 DEF NewLink
<1>4. FetchTypeOK' /\ PoolInv'
  BY <1>1, StartStep DEF IInv, TypeOK
<1>5. \A k \in Codes : k # code => fetch'[k] = fetch[k]
  BY <1>1 DEF startTitleFetch, IInv, TypeOK, FetchTypeOK
<1>6. \A d \in Callers : d # c => call[d].pc # "start"
  BY <1>1, OthersOutside
<1>7. CallTypeOK' /\ MutexInv' /\ CallInv' /\ IssuedStored'
  BY <1>1, <1>3, <1>6, LinkReturned
<1>8. StoreTypeOK' /\ TableInv' /\ LifeInv'
  BY <1>1 DEF IInv, TypeOK, StoreTypeOK, TableInv, LifeInv, storeVars,
              ReturnLink, startTitleFetch
<1>9. FetchRowInv'
  <2> SUFFICES ASSUME NEW k \in Codes, fetch'[k].pc # "none"
               PROVE  FetchRowInv!(k)'
    BY DEF FetchRowInv
  <2>1. links' = links
    BY <1>1 DEF storeVars
  <2>2. CASE k # code
    BY <1>5, <2>1, <2>2 DEF IInv, FetchRowInv
  <2>3. CASE k = code
    <3>1. fetch'[k].url = call[c].url /\ fetch'[k].pc = "spawned"
      BY <1>1, <2>3 DEF startTitleFetch, IInv, TypeOK, FetchTypeOK
    <3> QED
      BY <1>3, <2>1, <2>3, <3>1
  <2> QED
    BY <2>2, <2>3
<1> QED
  BY <1>4, <1>7, <1>8, <1>9 DEF IInv, TypeOK

\* A fetch goroutine runs beside the calls.
LEMMA FetchStepKeeps ==
    ASSUME IInv, NEW code \in Codes, FetchStep(code), UNCHANGED callVars
    PROVE  IInv'
<1>1. /\ fetch[code].pc # "none" => fetch[code].url \in URLs
      /\ fetch[code].pc = "storing" =>
            /\ fetch[code].title \in StoredTitle
            /\ fetch[code].title.page = fetch[code].url
  <2>1. \A i \in DOMAIN links : links[i].url \in URLs
    <3>1. links \in Seq(Link)
      BY DEF IInv, TypeOK, StoreTypeOK
    <3>2. \A i \in DOMAIN links : links[i] \in Link
      BY <3>1, ElementOfSeq, LenProperties
    <3> QED
      BY <3>2 DEF Link
  <2> QED
    BY <2>1 DEF IInv, FetchRowInv
<1>2. FetchTypeOK' /\ PoolInv'
  BY <1>1, FetchStepPreserves DEF IInv, TypeOK
<1>3. \A k \in Codes :
        /\ fetch[k].pc = "none" => fetch'[k].pc = "none"
        /\ fetch'[k].pc # "none" => fetch'[k].url = fetch[k].url
        /\ fetch'[k].pc = "storing" =>
              \/ fetch'[k] = fetch[k]
              \/ /\ fetch'[k].title \in StoredTitle
                 /\ fetch'[k].title.page = fetch[k].url
  BY <1>1, FetchFrame DEF IInv, TypeOK
\* Rows keep their place, code, user and URL; a title appears only on the row
\* of this goroutine, and comes from the page of that row.
<1>4. /\ StoreTypeOK' /\ storeOpen' = storeOpen
      /\ DOMAIN links' = DOMAIN links
      /\ \A i \in DOMAIN links :
            /\ links'[i].code = links[i].code
            /\ links'[i].user = links[i].user
            /\ links'[i].url = links[i].url
            /\ \/ links'[i] = links[i]
               \/ /\ links[i].code = code /\ fetch[code].pc = "storing"
                  /\ links'[i].title.page = fetch[code].url
  <2>1. CASE UNCHANGED storeVars
    BY <2>1 DEF IInv, TypeOK, StoreTypeOK, storeVars
  <2>2. CASE fetch[code].pc = "storing" /\ SetTitleIfEmpty(code, fetch[code].title)
    BY <1>1, <2>2, SetTitleEffect DEF IInv, TypeOK
  <2> QED
    BY <2>1, <2>2, FetchStepOnStore
<1>5. CallTypeOK' /\ MutexInv'
  BY DEF IInv, TypeOK, CallTypeOK, MutexInv, callVars
<1>6. FetchRowInv'
  BY <1>3, <1>4 DEF IInv, FetchRowInv
<1>7. TableInv'
  <2>1. \A i, j \in DOMAIN links' : i # j =>
          /\ links'[i].code # links'[j].code
          /\ ~(links'[i].user = links'[j].user /\ links'[i].url = links'[j].url)
    BY <1>4 DEF IInv, TableInv
  <2>2. ASSUME NEW i \in DOMAIN links', links'[i].title # NoTitle
        PROVE  links'[i].title.page = links'[i].url
    <3>1. CASE links'[i] = links[i]
      BY <1>4, <2>2, <3>1 DEF IInv, TableInv
    <3>2. CASE links'[i] # links[i]
      <4>1. /\ links[i].code = code /\ fetch[code].pc = "storing"
            /\ links'[i].title.page = fetch[code].url
        BY <1>4, <3>2
      <4>2. PICK j \in DOMAIN links :
               links[j].code = code /\ links[j].url = fetch[code].url
        BY <4>1 DEF IInv, FetchRowInv
      <4>3. i = j
        BY <1>4, <4>1, <4>2 DEF IInv, TableInv
      <4> QED
        BY <1>4, <4>1, <4>2, <4>3
    <3> QED
      BY <3>1, <3>2
  <2> QED
    BY <2>1, <2>2 DEF TableInv
<1>8. CallInv'
  <2> SUFFICES ASSUME NEW d \in Callers
               PROVE  CallInv!(d)'
    BY DEF CallInv
  <2>1. call' = call
    BY DEF callVars
  <2>2. ASSUME call[d].pc = "start"
        PROVE  \E i \in DOMAIN links' : links'[i] = NewLink(d)'
    <3>1. PICK i \in DOMAIN links : links[i] = NewLink(d)
      BY <2>2 DEF IInv, CallInv
    <3>2. links[i].code # code \/ fetch[code].pc # "storing"
      BY <2>2, <3>1 DEF IInv, CallInv, NewLink
    <3>3. links'[i] = links[i]
      BY <1>4, <3>2
    <3> QED
      BY <1>4, <2>1, <3>1, <3>3 DEF NewLink
  <2> QED
    BY <1>3, <1>4, <2>1, <2>2 DEF IInv, CallInv
<1>9. IssuedStored'
  BY <1>4 DEF IInv, IssuedStored, callVars
<1>10. LifeInv'
  <2>1. wait' = wait
    BY DEF FetchStep, AcquireSlot, Dismiss, Park, FetchNothing, FetchTitle,
           StoreTitle, StoreTitleFails, ReleaseSlot, FetchDone
  <2> QED
    BY <1>4, <2>1 DEF IInv, LifeInv, callVars
<1> QED
  BY <1>2, <1>4, <1>5, <1>6, <1>7, <1>8, <1>9, <1>10 DEF IInv, TypeOK

\* Wait, called by any waiter.
LEMMA WaitStepKeeps ==
    ASSUME IInv, NEW w \in Waiters, WaitCloses(w) \/ WaitReturns(w),
           UNCHANGED callVars
    PROVE  IInv'
<1>1. FetchTypeOK' /\ PoolInv'
  BY WaitClosesStep, WaitReturnsStep DEF IInv, TypeOK
<1>2. \A k \in Codes :
        \/ fetch'[k] = fetch[k]
        \/ /\ fetch[k].pc = "parked"
           /\ fetch'[k] = [fetch[k] EXCEPT !.pc = "exiting"]
  BY DEF WaitCloses, WaitReturns, IInv, TypeOK, FetchTypeOK
<1>3. \A k \in Codes :
        /\ fetch[k].pc = "none" => fetch'[k].pc = "none"
        /\ fetch'[k].pc # "none" => fetch[k].pc # "none"
        /\ fetch'[k].url = fetch[k].url
        /\ fetch'[k].pc = "storing" => fetch'[k] = fetch[k]
  <2>1. \A k \in Codes : fetch[k] \in Goroutine
    BY DEF IInv, TypeOK, FetchTypeOK
  <2> QED
    BY <1>2, <2>1 DEF Goroutine
<1>4. links' = links /\ storeOpen' = storeOpen
  BY DEF WaitCloses, WaitReturns, storeVars
<1>5. StoreTypeOK' /\ CallTypeOK' /\ MutexInv' /\ TableInv' /\ IssuedStored'
  BY <1>4 DEF IInv, TypeOK, StoreTypeOK, CallTypeOK, MutexInv, TableInv,
              IssuedStored, callVars
<1>6. FetchRowInv'
  BY <1>3, <1>4 DEF IInv, FetchRowInv
<1>7. CallInv'
  BY <1>3, <1>4 DEF IInv, CallInv, NewLink, callVars
<1>8. LifeInv'
  BY <1>4, ShortenerAssumption
  DEF IInv, LifeInv, callVars, WaitCloses, WaitReturns, TypeOK, FetchTypeOK
<1> QED
  BY <1>1, <1>5, <1>6, <1>7, <1>8 DEF IInv, TypeOK

LEMMA CloseStoreStep ==
    ASSUME IInv, CloseStore
    PROVE  IInv'
<1>1. /\ wait[Main] = "returned" /\ links' = links /\ storeOpen' = FALSE
      /\ UNCHANGED <<fetchVars, callVars>>
  BY DEF CloseStore, Close
<1>2. FetchTypeOK' /\ PoolInv'
  BY <1>1, PoolUnchanged DEF IInv, TypeOK
<1>3. StoreTypeOK' /\ CallTypeOK' /\ MutexInv' /\ TableInv' /\ IssuedStored'
  <2>1. StoreTypeOK'
    BY <1>1 DEF IInv, TypeOK, StoreTypeOK
  <2>2. CallTypeOK' /\ MutexInv'
    BY <1>1 DEF IInv, TypeOK, CallTypeOK, MutexInv, callVars
  <2>3. TableInv' /\ IssuedStored'
    BY <1>1 DEF IInv, TableInv, IssuedStored, callVars
  <2> QED
    BY <2>1, <2>2, <2>3
<1>4. FetchRowInv' /\ CallInv' /\ LifeInv'
  BY <1>1 DEF IInv, FetchRowInv, CallInv, LifeInv, NewLink, callVars, fetchVars
<1> QED
  BY <1>2, <1>3, <1>4 DEF IInv, TypeOK

\* Exit and Crash: nothing volatile is left; the table and the answers are.
LEMMA StopStep ==
    ASSUME IInv, Stop
    PROVE  IInv'
<1> USE DEF Stop
<1>1. /\ links' = links /\ issued' = issued /\ up' = FALSE
      /\ \A k \in Codes : fetch'[k] = NoGoroutine
      /\ \A c \in Callers : call'[c] = Idle
      /\ NoGoroutine.pc = "none" /\ NoGoroutine \in Goroutine
      /\ Idle.pc = "idle" /\ Idle \in Call
  BY ShortenerAssumption
  DEF NoGoroutine, Goroutine, FetchPc, Idle, Call, CallPc
<1>2. Holding' = {} /\ Active' = {}
  BY <1>1 DEF Holding, Active
<1>3. FetchTypeOK'
  <2>1. fetchSem' \in 0 .. MaxTitleFetches /\ fetchWG' \in Nat
    BY FetchAssumption
  <2>2. semQueue' \in Seq(Codes)
    BY EmptySeq
  <2> QED
    BY <1>1, <2>1, <2>2 DEF FetchTypeOK
<1>4. PoolInv'
  <2>1. SlotsMatchHolders' /\ GroupMatchesActive'
    BY <1>2, FS_EmptySet DEF SlotsMatchHolders, GroupMatchesActive
  <2>2. ParkedForAReason' /\ WaitInv'
    BY <1>1, <1>2 DEF ParkedForAReason, WaitInv
  <2> QED
    BY <2>1, <2>2 DEF PoolInv
<1>5. StoreTypeOK' /\ CallTypeOK' /\ TableInv' /\ IssuedStored'
  <2>1. StoreTypeOK'
    BY <1>1 DEF IInv, TypeOK, StoreTypeOK
  <2>2. CallTypeOK'
    BY <1>1 DEF IInv, TypeOK, CallTypeOK
  <2>3. TableInv' /\ IssuedStored'
    BY <1>1 DEF IInv, TableInv, IssuedStored
  <2> QED
    BY <2>1, <2>2, <2>3
<1>6. MutexInv' /\ CallInv' /\ FetchRowInv' /\ LifeInv'
  BY <1>1, ShortenerAssumption DEF MutexInv, CallInv, FetchRowInv, LifeInv
<1> QED
  BY <1>3, <1>4, <1>5, <1>6 DEF IInv, TypeOK

LEMMA RestartStep ==
    ASSUME IInv, Restart
    PROVE  IInv'
<1>1. /\ links' = links /\ storeOpen' = TRUE
      /\ UNCHANGED <<call, writeMu, issued, fetchVars>>
      /\ up' = TRUE
  BY DEF Restart
<1>2. FetchTypeOK' /\ PoolInv'
  BY <1>1, PoolUnchanged DEF IInv, TypeOK
<1>3. StoreTypeOK' /\ CallTypeOK' /\ MutexInv' /\ TableInv' /\ IssuedStored'
  BY <1>1 DEF IInv, TypeOK, StoreTypeOK, CallTypeOK, MutexInv, TableInv, IssuedStored
<1>4. FetchRowInv' /\ CallInv' /\ LifeInv'
  BY <1>1 DEF IInv, FetchRowInv, CallInv, LifeInv, NewLink, fetchVars
<1> QED
  BY <1>2, <1>3, <1>4 DEF IInv, TypeOK

LEMMA StutterStep ==
    ASSUME IInv, UNCHANGED vars
    PROVE  IInv'
<1>1. UNCHANGED <<storeVars, fetchVars, up>> /\ UNCHANGED callVars
  BY DEF vars, callVars
<1>2. CallTypeOK' /\ MutexInv' /\ CallInv' /\ IssuedStored'
  BY <1>1 DEF IInv, TypeOK, CallTypeOK, MutexInv, CallInv, IssuedStored, NewLink,
              storeVars, fetchVars, callVars
<1> QED
  BY <1>1, <1>2, OnlyCallsChange DEF IInv, TypeOK

\* Every step of the service keeps the invariant.
LEMMA NextIInv == IInv /\ [Next]_vars => IInv'
<1> SUFFICES ASSUME IInv, [Next]_vars PROVE IInv'
  OBVIOUS
<1>1. ASSUME NEW c \in Callers, Shorten(c) \/ CallStep(c) PROVE IInv'
  BY <1>1, ShortenStep, LockStep, FindStep, GenerateStep, FailureStep, InsertStep,
     InsertInterruptedStep, StartFetchStep DEF CallStep
<1>2. ASSUME NEW code \in Codes, FetchStep(code), UNCHANGED callVars PROVE IInv'
  BY <1>2, FetchStepKeeps
<1>3. ASSUME NEW w \in Waiters, WaitCloses(w) \/ WaitReturns(w), UNCHANGED callVars
      PROVE  IInv'
  BY <1>3, WaitStepKeeps
<1>4. ASSUME CloseStore \/ Exit \/ Crash \/ Restart PROVE IInv'
  BY <1>4, CloseStoreStep, StopStep, RestartStep DEF Exit, Crash
<1>5. CASE UNCHANGED vars
  BY <1>5, StutterStep
<1> QED
  BY <1>1, <1>2, <1>3, <1>4, <1>5 DEF Next

\* The invariant holds throughout: Shortener keeps its types, its mutex, its
\* counters and its table in order, whatever is interleaved, fails or crashes.
THEOREM Invariance == Spec => []IInv
BY InitIInv, NextIInv, PTL DEF Spec

-----------------------------------------------------------------------------
(* What the invariant says, property by property.                          *)

\* Type correctness of the service: in particular no counter leaves its range
\* and no call makes more than MaxCodeAttempts attempts.
THEOREM TypeCorrect == Spec => []TypeOK
BY Invariance, PTL DEF IInv

\* writeMu keeps what FindUserURL and CodeExists found true until Insert runs.
THEOREM InsertNeverConflicts == Spec => []NoInsertConflict
<1>1. IInv => NoInsertConflict
  BY DEF IInv, CallInv, NoInsertConflict, UniqueViolation, NewLink
<1> QED
  BY <1>1, Invariance, PTL

\* A code that was told to a user is in the table for good, across failures,
\* crashes and restarts.
THEOREM IssuedDurable == Spec => []IssuedStored
BY Invariance, PTL DEF IInv

\* Shorten is idempotent over the life of the database file.
THEOREM Idempotent == Spec => []IssuedConsistent
<1>1. IInv => IssuedConsistent
  <2> SUFFICES ASSUME IInv, NEW a \in issued, NEW b \in issued
               PROVE  a.code = b.code <=> (a.user = b.user /\ a.url = b.url)
    BY DEF IssuedConsistent
  <2>1. PICK i \in DOMAIN links : /\ links[i].code = a.code
                                  /\ links[i].user = a.user
                                  /\ links[i].url = a.url
    BY DEF IInv, IssuedStored
  <2>2. PICK j \in DOMAIN links : /\ links[j].code = b.code
                                  /\ links[j].user = b.user
                                  /\ links[j].url = b.url
    BY DEF IInv, IssuedStored
  <2> QED
    BY <2>1, <2>2 DEF IInv, TableInv
<1> QED
  BY <1>1, Invariance, PTL

\* startTitleFetch finds no goroutine of its code and a row without a title.
THEOREM FetchStartsOnce == Spec => []OneFetchPerLink
<1>1. IInv => OneFetchPerLink
  <2> SUFFICES ASSUME IInv, NEW c \in Callers, call[c].pc = "start"
               PROVE  /\ fetch[call[c].code].pc = "none"
                      /\ \A i \in DOMAIN links :
                            links[i].code = call[c].code => links[i].title = NoTitle
    BY DEF OneFetchPerLink
  <2>1. PICK j \in DOMAIN links : links[j] = NewLink(c)
    BY DEF IInv, CallInv
  <2>2. links[j].code = call[c].code /\ links[j].title = NoTitle
    BY <2>1 DEF NewLink
  <2> QED
    BY <2>2 DEF IInv, CallInv, TableInv
<1> QED
  BY <1>1, Invariance, PTL

\* The semaphore is exact, so at most MaxTitleFetches downloads run at a time.
THEOREM SlotsExact == Spec => []SlotsMatchHolders
BY Invariance, PTL DEF IInv, PoolInv

\* No fetch is parked without a reason: no wakeup is lost.
THEOREM NoLostWakeup == Spec => []ParkedForAReason
BY Invariance, PTL DEF IInv, PoolInv

\* Wait drains the pool for good, so the store is closed after the last write.
THEOREM WaitDrains == Spec => []FetchesDrained
<1>1. IInv => FetchesDrained
  BY ShortenerAssumption DEF IInv, PoolInv, WaitInv, LifeInv, FetchesDrained
<1> QED
  BY <1>1, Invariance, PTL

-----------------------------------------------------------------------------
(* Nobody waits for nobody: what is safety in CallsReturn, FetchesEnd and  *)
(* ShutdownCompletes.                                                      *)

\* A call at writeMu.Lock waits for a call that is past it and takes no lock; a fetch
\* parked at the semaphore waits for one that holds a slot; a Wait waits for a fetch
\* that is not parked any longer.
SomeoneToWaitFor ==
    /\ \A c \in Callers : call[c].pc = "lock" /\ writeMu # Nobody =>
          writeMu \in Callers /\ call[writeMu].pc \in {"find", "generate", "insert", "start"}
    /\ \A code \in Codes : fetch[code].pc = "parked" =>
          \E other \in Codes : fetch[other].pc \in HoldingPc
    /\ \A w \in Waiters : wait[w] = "waiting" /\ fetchWG # 0 =>
          \E code \in Codes : fetch[code].pc \notin {"none", "parked"}

\* No call, fetch or Wait ever waits for something that has ended, so nothing the
\* service waits for can be missing: not a lost Unlock, slot, wakeup or Done.
THEOREM NoDeadlock == Spec => []SomeoneToWaitFor
<1>1. IInv => SomeoneToWaitFor
  <2> SUFFICES ASSUME IInv PROVE SomeoneToWaitFor
    OBVIOUS
  <2>1. ASSUME NEW c \in Callers, writeMu # Nobody
        PROVE  writeMu \in Callers /\ call[writeMu].pc \in {"find", "generate", "insert", "start"}
    <3>1. writeMu \in Callers
      BY <2>1 DEF IInv, TypeOK, CallTypeOK
    <3>2. call[writeMu].pc \in CallPc \ {"idle", "lock"}
      BY <3>1 DEF IInv, TypeOK, CallTypeOK, MutexInv, Call
    <3> QED
      BY <3>1, <3>2 DEF CallPc
  <2>2. ASSUME NEW code \in Codes, fetch[code].pc = "parked"
        PROVE  \E other \in Codes : fetch[other].pc \in HoldingPc
    <3>1. fetchSem = Cardinality(Holding) /\ fetchSem = MaxTitleFetches
      BY <2>2 DEF IInv, PoolInv, SlotsMatchHolders, ParkedForAReason
    <3>2. Holding # {}
      BY <3>1, FetchAssumption, FS_EmptySet
    <3> QED
      BY <3>2 DEF Holding, HoldingPc
  <2>3. ASSUME NEW w \in Waiters, wait[w] = "waiting", fetchWG # 0
        PROVE  \E code \in Codes : fetch[code].pc \notin {"none", "parked"}
    <3>1. closed /\ \A code \in Codes : fetch[code].pc # "parked"
      BY <2>3 DEF IInv, PoolInv, WaitInv, ParkedForAReason
    <3>2. Active # {}
      BY <2>3, FS_EmptySet DEF IInv, PoolInv, GroupMatchesActive
    <3> QED
      BY <3>1, <3>2 DEF Active
  <2> QED
    BY <2>1, <2>2, <2>3 DEF SomeoneToWaitFor
<1> QED
  BY <1>1, Invariance, PTL

-----------------------------------------------------------------------------
(* Nothing goes in circles: the variants behind CallsReturn and FetchesEnd. *)

\* The most steps a call still takes: MaxCodeAttempts turns of its loop, and five more.
CallSteps(k) ==
    CASE k.pc = "idle"     -> 0
      [] k.pc = "lock"     -> MaxCodeAttempts + 5
      [] k.pc = "find"     -> MaxCodeAttempts + 4
      [] k.pc = "generate" -> MaxCodeAttempts - k.attempt + 3
      [] k.pc = "insert"   -> 2
      [] k.pc = "start"    -> 1

FetchStage ==
    [none |-> 0, exiting |-> 1, releasing |-> 2, storing |-> 3, fetching |-> 4,
     parked |-> 5, spawned |-> 6]

\* No step of another call, of a fetch or of main sends a call of Shorten back.
CallsNearEnd ==
    \A c \in Callers : call[c].pc # "idle" =>
        /\ CallSteps(call'[c]) <= CallSteps(call[c])
        /\ CallStep(c) => CallSteps(call'[c]) < CallSteps(call[c])

\* A live fetch is never started again, and no step sends it back.
FetchesNearEnd ==
    \A code \in Codes : fetch[code].pc # "none" =>
        /\ FetchStage[fetch'[code].pc] <= FetchStage[fetch[code].pc]
        /\ FetchStep(code) => FetchStage[fetch'[code].pc] < FetchStage[fetch[code].pc]

\* Nobody overtakes a fetch that is parked at the semaphore: it never moves back in the
\* queue, and one that comes later does not take the slot before it.
QueueInOrder ==
    /\ \A i \in DOMAIN semQueue : fetch'[semQueue[i]].pc = "parked" =>
          \E j \in DOMAIN semQueue' : j <= i /\ semQueue'[j] = semQueue[i]
    /\ \A first, later \in Codes :
          fetch[first].pc = "parked" /\ fetch[later].pc = "spawned" =>
              fetch'[later].pc # "fetching"

\* A step of a call that has returned nothing yet: the others stay where they are.
LEMMA CallStepsFall ==
    ASSUME IInv, NEW c \in Callers, CallStep(c)
    PROVE  /\ \A d \in Callers : d # c => call'[d] = call[d]
           /\ CallSteps(call'[c]) < CallSteps(call[c])
<1>1. /\ call \in [Callers -> Call] /\ call[c] \in Call
      /\ call[c].attempt \in 0 .. MaxCodeAttempts /\ MaxCodeAttempts \in Nat \ {0}
  BY ShortenerAssumption DEF IInv, TypeOK, CallTypeOK, Call
<1> USE DEF CallSteps, Idle
<1>2. CASE Lock(c)
  BY <1>1, <1>2 DEF Lock, Call
<1>3. CASE Find(c)
  BY <1>1, <1>3 DEF Find, ReturnLink, Call
<1>4. CASE Generate(c)
  <2>1. PICK code \in Codes :
            call' = IF CodeExists(code)
                    THEN [call EXCEPT ![c].attempt = @ + 1]
                    ELSE [call EXCEPT ![c].pc = "insert", ![c].code = code]
    BY <1>4 DEF Generate
  <2>2. call[c].pc = "generate" /\ call[c].attempt < MaxCodeAttempts
    BY <1>4 DEF Generate
  <2>3. CASE CodeExists(code)
    BY <1>1, <2>1, <2>2, <2>3 DEF Call
  <2>4. CASE ~ CodeExists(code)
    BY <1>1, <2>1, <2>2, <2>4 DEF Call
  <2> QED
    BY <2>3, <2>4
<1>5. CASE Exhausted(c)
  BY <1>1, <1>5 DEF Exhausted, ReturnError, Call
<1>6. CASE InsertLink(c)
  BY <1>1, <1>6 DEF InsertLink, Call
<1>7. CASE InsertInterrupted(c)
  BY <1>1, <1>7 DEF InsertInterrupted, ReturnError, Call
<1>8. CASE StatementFails(c)
  BY <1>1, <1>8 DEF StatementFails, ReturnError, Call
<1>9. CASE StartFetch(c)
  BY <1>1, <1>9 DEF StartFetch, ReturnLink, Call
<1> QED
  BY <1>2, <1>3, <1>4, <1>5, <1>6, <1>7, <1>8, <1>9 DEF CallStep

LEMMA CallStepsNat ==
    ASSUME NEW k \in Call
    PROVE  CallSteps(k) \in 0 .. MaxCodeAttempts + 5
<1>1. k.pc \in CallPc /\ k.attempt \in 0 .. MaxCodeAttempts
  BY DEF Call
<1> QED
  BY <1>1, ShortenerAssumption DEF CallSteps, CallPc

\* A call of Shorten takes at most MaxCodeAttempts + 5 steps, and no other goroutine, no
\* end of the service and no restart adds one: the loop over taken codes always ends.
THEOREM CallsBounded ==
    Spec => /\ [](\A c \in Callers : CallSteps(call[c]) \in 0 .. MaxCodeAttempts + 5)
            /\ [][CallsNearEnd]_vars
<1>1. IInv /\ [Next]_vars => [CallsNearEnd]_vars
  <2> SUFFICES ASSUME IInv, [Next]_vars,
                      NEW c \in Callers, call[c].pc # "idle"
               PROVE  /\ CallSteps(call'[c]) <= CallSteps(call[c])
                      /\ CallStep(c) => CallSteps(call'[c]) < CallSteps(call[c])
    BY DEF CallsNearEnd
  <2>1. CallSteps(call[c]) \in Nat /\ CallSteps(call'[c]) \in Nat
    <3>1. IInv'
      BY NextIInv
    <3>2. call[c] \in Call /\ call'[c] \in Call
      BY <3>1 DEF IInv, TypeOK, CallTypeOK
    <3> QED
      BY <3>2, CallStepsNat, ShortenerAssumption
  <2>2. ASSUME NEW d \in Callers, Shorten(d) PROVE call'[c] = call[c]
    BY <2>2 DEF Shorten, IInv, TypeOK, CallTypeOK
  <2>3. ASSUME NEW d \in Callers, CallStep(d)
        PROVE  call'[c] = call[c] \/ CallSteps(call'[c]) < CallSteps(call[c])
    BY <2>3, CallStepsFall
  <2>4. ASSUME Exit \/ Crash
        PROVE  CallSteps(call'[c]) < CallSteps(call[c])
    <3>1. CallSteps(call'[c]) = 0
      BY <2>4 DEF Exit, Crash, Stop, CallSteps, Idle
    <3>2. CallSteps(call[c]) # 0
      <4>1. call[c].pc \in CallPc \ {"idle"} /\ call[c].attempt \in 0 .. MaxCodeAttempts
        BY DEF IInv, TypeOK, CallTypeOK, Call
      <4> QED
        BY <4>1, ShortenerAssumption DEF CallSteps, CallPc
    <3> QED
      BY <2>1, <3>1, <3>2
  <2>5. ASSUME UNCHANGED callVars \/ Restart \/ CloseStore \/ UNCHANGED vars
        PROVE  call' = call
    BY <2>5 DEF callVars, Restart, CloseStore, vars
  <2>6. call'[c] = call[c] \/ CallSteps(call'[c]) < CallSteps(call[c])
    BY <2>2, <2>3, <2>4, <2>5 DEF Next
  <2>7. CallStep(c) => CallSteps(call'[c]) < CallSteps(call[c])
    BY CallStepsFall
  <2> QED
    BY <2>1, <2>6, <2>7
<1>2. IInv => \A c \in Callers : CallSteps(call[c]) \in 0 .. MaxCodeAttempts + 5
  BY CallStepsNat DEF IInv, TypeOK, CallTypeOK
<1> QED
  BY Invariance, <1>1, <1>2, PTL DEF Spec

\* A fetch moves itself, and the parked one it hands its slot to.
LEMMA FetchStagesFall ==
    ASSUME IInv, NEW code \in Codes, FetchStep(code)
    PROVE  /\ FetchStage[fetch'[code].pc] < FetchStage[fetch[code].pc]
           /\ \A other \in Codes : other # code =>
                \/ fetch'[other] = fetch[other]
                \/ fetch[other].pc = "parked" /\ fetch'[other].pc = "fetching"
<1>1. fetch \in [Codes -> Goroutine] /\ semQueue \in Seq(Codes)
  BY DEF IInv, TypeOK, FetchTypeOK
<1> USE DEF FetchStage, Goroutine, Goto
<1>2. CASE AcquireSlot(code) \/ Dismiss(code) \/ Park(code)
  BY <1>1, <1>2 DEF AcquireSlot, Dismiss, Park
<1>3. CASE FetchNothing(code) \/ FetchTitle(code)
  BY <1>1, <1>3 DEF FetchNothing, FetchTitle
<1>4. CASE StoreTitle(code) \/ StoreTitleFails(code)
  BY <1>1, <1>4 DEF StoreTitle, StoreTitleFails
<1>5. CASE ReleaseSlot(code)
  <2>1. fetch[code].pc = "releasing"
    BY <1>5 DEF ReleaseSlot
  <2>2. CASE semQueue # <<>>
    <3>1. Head(semQueue) \in Codes /\ fetch[Head(semQueue)].pc = "parked"
      <4>1. 1 \in DOMAIN semQueue /\ Head(semQueue) = semQueue[1]
        BY <1>1, <2>2
      <4> QED
        BY <1>1, <4>1 DEF IInv, PoolInv, ParkedForAReason
    <3>2. fetch' = [fetch EXCEPT ![code].pc = "exiting", ![Head(semQueue)].pc = "fetching"]
      BY <1>5, <2>2 DEF ReleaseSlot
    <3> QED
      BY <1>1, <2>1, <3>1, <3>2
  <2>3. CASE semQueue = <<>>
    BY <1>1, <1>5, <2>3 DEF ReleaseSlot
  <2> QED
    BY <2>2, <2>3
<1>6. CASE FetchDone(code)
  BY <1>1, <1>6 DEF FetchDone, NoGoroutine
<1> QED
  BY <1>2, <1>3, <1>4, <1>5, <1>6 DEF FetchStep

\* The critical section of Wait dismisses the parked.
LEMMA WaitDismisses ==
    ASSUME IInv, NEW w \in Waiters, WaitCloses(w), NEW code \in Codes
    PROVE  \/ fetch'[code] = fetch[code]
           \/ fetch[code].pc = "parked" /\ fetch'[code].pc = "exiting"
  BY DEF WaitCloses, IInv, TypeOK, FetchTypeOK, Goroutine

\* A call starts a fetch only where there is none.
LEMMA CallLeavesFetches ==
    ASSUME IInv, NEW c \in Callers, Shorten(c) \/ CallStep(c)
    PROVE  /\ semQueue' = semQueue
           /\ \A code \in Codes :
                \/ fetch'[code] = fetch[code]
                \/ fetch[code].pc = "none" /\ fetch'[code].pc = "spawned"
<1>1. fetch \in [Codes -> Goroutine]
  BY DEF IInv, TypeOK, FetchTypeOK
<1>2. CASE StartFetch(c)
  <2>1. call[c].code \in Codes /\ fetch[call[c].code].pc = "none"
    BY <1>2 DEF StartFetch, IInv, CallInv
  <2>2. \/ fetch' = fetch
        \/ fetch' = [fetch EXCEPT ![call[c].code] =
                        [pc |-> "spawned", url |-> call[c].url, title |-> NoTitle]]
    BY <1>2 DEF StartFetch, startTitleFetch
  <2>3. semQueue' = semQueue
    BY <1>2 DEF StartFetch, startTitleFetch
  <2> QED
    BY <1>1, <2>1, <2>2, <2>3
<1>3. CASE ~ StartFetch(c)
  BY <1>3 DEF CallStep, Shorten, Lock, Find, Generate, Exhausted, InsertLink,
              InsertInterrupted, StatementFails, fetchVars
<1> QED
  BY <1>2, <1>3

LEMMA FetchStageNat ==
    ASSUME IInv, NEW code \in Codes
    PROVE  FetchStage[fetch[code].pc] \in 0 .. 6
<1>1. fetch[code].pc \in FetchPc
  BY DEF IInv, TypeOK, FetchTypeOK, Goroutine
<1> QED
  BY <1>1 DEF FetchPc, FetchStage

\* The goroutine of startTitleFetch takes at most six steps, and is started once: nothing
\* that callers, other fetches or Wait do adds one.
THEOREM FetchesBounded ==
    Spec => /\ [](\A code \in Codes : FetchStage[fetch[code].pc] \in 0 .. 6)
            /\ [][FetchesNearEnd]_vars
<1>1. IInv /\ [Next]_vars => [FetchesNearEnd]_vars
  <2> SUFFICES ASSUME IInv, [Next]_vars,
                      NEW code \in Codes, fetch[code].pc # "none"
               PROVE  /\ FetchStage[fetch'[code].pc] <= FetchStage[fetch[code].pc]
                      /\ FetchStep(code) =>
                            FetchStage[fetch'[code].pc] < FetchStage[fetch[code].pc]
    BY DEF FetchesNearEnd
  <2>1. fetch[code].pc \in FetchPc /\ fetch'[code].pc \in FetchPc
    <3>1. IInv'
      BY NextIInv
    <3> QED
      BY <3>1 DEF IInv, TypeOK, FetchTypeOK, Goroutine
  <2> DEFINE Nearer == \/ fetch'[code].pc = fetch[code].pc
                       \/ fetch'[code].pc = "none"
                       \/ fetch[code].pc = "parked" /\ fetch'[code].pc \in {"fetching", "exiting"}
  <2>2. ASSUME NEW other \in Codes, FetchStep(other), other # code PROVE Nearer
    BY <2>2, FetchStagesFall
  <2>3. ASSUME NEW w \in Waiters, WaitCloses(w) \/ WaitReturns(w) PROVE Nearer
    BY <2>3, WaitDismisses DEF WaitReturns
  <2>4. ASSUME NEW c \in Callers, Shorten(c) \/ CallStep(c) PROVE Nearer
    BY <2>4, CallLeavesFetches
  <2>5. ASSUME CloseStore \/ Exit \/ Crash \/ Restart \/ UNCHANGED vars PROVE Nearer
    BY <2>5 DEF CloseStore, Exit, Crash, Stop, Restart, vars, fetchVars, NoGoroutine
  <2>6. FetchStep(code) \/ Nearer
    BY <2>2, <2>3, <2>4, <2>5 DEF Next
  <2>7. CASE FetchStep(code)
    BY <2>1, <2>7, FetchStagesFall DEF FetchPc, FetchStage
  <2>8. CASE ~ FetchStep(code)
    BY <2>1, <2>6, <2>8 DEF FetchPc, FetchStage
  <2> QED
    BY <2>7, <2>8
<1>2. IInv => \A code \in Codes : FetchStage[fetch[code].pc] \in 0 .. 6
  BY FetchStageNat
<1> QED
  BY Invariance, <1>1, <1>2, PTL DEF Spec

\* Parking appends to the queue, and a slot that is handed over goes to its head.
LEMMA QueueMoves ==
    ASSUME IInv, NEW code \in Codes, FetchStep(code),
           NEW i \in DOMAIN semQueue, fetch'[semQueue[i]].pc = "parked"
    PROVE  \E j \in DOMAIN semQueue' : j <= i /\ semQueue'[j] = semQueue[i]
<1>1. semQueue \in Seq(Codes) /\ fetch \in [Codes -> Goroutine] /\ semQueue[i] \in Codes
  BY DEF IInv, TypeOK, FetchTypeOK
<1>2. CASE semQueue' = semQueue
  BY <1>1, <1>2
<1>3. CASE Park(code)
  <2>1. semQueue' = Append(semQueue, code)
    BY <1>3 DEF Park
  <2> QED
    BY <1>1, <2>1
<1>4. CASE ReleaseSlot(code) /\ semQueue # <<>>
  <2>1. /\ semQueue' = Tail(semQueue)
        /\ fetch' = [fetch EXCEPT ![code].pc = "exiting", ![Head(semQueue)].pc = "fetching"]
    BY <1>4 DEF ReleaseSlot
  <2>2. i # 1
    <3> SUFFICES ASSUME i = 1 PROVE FALSE
      OBVIOUS
    <3>1. semQueue[i] = Head(semQueue)
      BY <1>1
    <3>2. fetch'[semQueue[i]].pc = "fetching"
      BY <1>1, <2>1, <3>1 DEF Goroutine
    <3> QED
      BY <3>2
  <2>3. i - 1 \in DOMAIN Tail(semQueue) /\ Tail(semQueue)[i - 1] = semQueue[i]
    BY <1>1, <1>4, <2>2
  <2> QED
    BY <1>1, <2>1, <2>3
<1>5. \/ semQueue' = semQueue
      \/ Park(code)
      \/ ReleaseSlot(code) /\ semQueue # <<>>
  BY DEF FetchStep, AcquireSlot, Dismiss, FetchNothing, FetchTitle, StoreTitle,
         StoreTitleFails, ReleaseSlot, FetchDone
<1> QED
  BY <1>2, <1>3, <1>4, <1>5

\* The select serves the fetches in the order in which they were parked, so each gets
\* its turn after those before it, and a burst of new links starves nobody.
THEOREM FetchesInOrder == Spec => [][QueueInOrder]_vars
<1>1. IInv /\ [Next]_vars => [QueueInOrder]_vars
  <2> SUFFICES ASSUME IInv, [Next]_vars PROVE QueueInOrder
    OBVIOUS
  <2> USE DEF IInv, TypeOK, FetchTypeOK
  <2>1. ASSUME NEW i \in DOMAIN semQueue, fetch'[semQueue[i]].pc = "parked"
        PROVE  \E j \in DOMAIN semQueue' : j <= i /\ semQueue'[j] = semQueue[i]
    <3>1. semQueue[i] \in Codes /\ i \in Nat
      OBVIOUS
    <3>2. CASE semQueue' = semQueue
      BY <3>1, <3>2
    <3>3. ASSUME NEW w \in Waiters, WaitCloses(w), ~ closed PROVE FALSE
      <4>1. fetch[semQueue[i]].pc = "parked"
        BY DEF PoolInv, ParkedForAReason
      <4>2. fetch' = [c \in Codes |-> IF fetch[c].pc = "parked"
                                      THEN [fetch[c] EXCEPT !.pc = "exiting"]
                                      ELSE fetch[c]]
        BY <3>3 DEF WaitCloses
      <4> QED
        BY <2>1, <3>1, <4>1, <4>2 DEF Goroutine
    <3>4. ASSUME NEW w \in Waiters, WaitCloses(w) \/ WaitReturns(w)
          PROVE  semQueue' = semQueue
      BY <3>3, <3>4 DEF WaitCloses, WaitReturns
    <3>5. ASSUME Exit \/ Crash PROVE FALSE
      BY <2>1, <3>1, <3>5 DEF Exit, Crash, Stop, NoGoroutine
    <3>6. ASSUME NEW c \in Callers, Shorten(c) \/ CallStep(c) PROVE semQueue' = semQueue
      BY <3>6, CallLeavesFetches
    <3>7. ASSUME CloseStore \/ Restart \/ UNCHANGED vars PROVE semQueue' = semQueue
      BY <3>7 DEF CloseStore, Restart, vars, fetchVars
    <3> QED
      BY <2>1, <3>2, <3>4, <3>5, <3>6, <3>7, QueueMoves DEF Next
  <2>2. ASSUME NEW first \in Codes, NEW later \in Codes,
               fetch[first].pc = "parked", fetch[later].pc = "spawned",
               fetch'[later].pc = "fetching"
        PROVE  FALSE
    <3>1. fetchSem = MaxTitleFetches /\ MaxTitleFetches \in Nat
      BY <2>2, FetchAssumption DEF PoolInv, ParkedForAReason
    <3>2. ASSUME FetchStep(later) PROVE FALSE
      BY <2>2, <3>1, <3>2 DEF FetchStep, AcquireSlot, Dismiss, Park, FetchNothing, FetchTitle,
                StoreTitle, StoreTitleFails, ReleaseSlot, FetchDone, Goto, Goroutine
    <3>3. ASSUME NEW code \in Codes, code # later, FetchStep(code) PROVE FALSE
      BY <2>2, <3>3, FetchStagesFall
    <3>4. ASSUME NEW w \in Waiters, WaitCloses(w) \/ WaitReturns(w) PROVE FALSE
      BY <2>2, <3>4, WaitDismisses DEF WaitReturns
    <3>5. ASSUME NEW c \in Callers, Shorten(c) \/ CallStep(c) PROVE FALSE
      BY <2>2, <3>5, CallLeavesFetches
    <3>6. ASSUME CloseStore \/ Exit \/ Crash \/ Restart \/ UNCHANGED vars PROVE FALSE
      BY <2>2, <3>6 DEF CloseStore, Exit, Crash, Stop, Restart, vars, fetchVars, NoGoroutine
    <3> QED
      BY <3>2, <3>3, <3>4, <3>5, <3>6 DEF Next
  <2> QED
    BY <2>1, <2>2 DEF QueueInOrder
<1> QED
  BY Invariance, <1>1, PTL DEF Spec

-----------------------------------------------------------------------------
(* What a step can do to the table.                                        *)

\* No row is lost, moved or told apart from what it was, and a title is never replaced.
RowsKept ==
    \A i \in DOMAIN links :
        /\ i \in DOMAIN links'
        /\ links'[i].code = links[i].code
        /\ links'[i].user = links[i].user
        /\ links'[i].url = links[i].url
        /\ links[i].title # NoTitle => links'[i].title = links[i].title

\* Every step, a crash and a restart among them, is an INSERT at the end, an UPDATE of an
\* empty title, or nothing: ids, which /list pages by, codes and titles are for ever.
THEOREM TableOnlyGrows == Spec => [][RowsKept]_vars
<1>1. IInv /\ [Next]_vars => RowsKept
  <2> SUFFICES ASSUME IInv, [Next]_vars PROVE RowsKept
    OBVIOUS
  <2>0. links' = links => RowsKept
    BY DEF RowsKept
  <2>1. ASSUME NEW c \in Callers,
               Shorten(c) \/ Lock(c) \/ Find(c) \/ Generate(c) \/ Exhausted(c)
               \/ StatementFails(c) \/ StartFetch(c)
        PROVE  links' = links
    BY <2>1 DEF Shorten, Lock, Find, Generate, Exhausted, StatementFails, StartFetch,
                storeVars
  <2>2. ASSUME NEW c \in Callers, InsertLink(c) \/ InsertInterrupted(c)
        PROVE  RowsKept
    <3>1. NewLink(c) \in Link /\ Insert(NewLink(c))
      BY <2>2 DEF InsertLink, InsertInterrupted, IInv, CallInv, NewLink, Link
    <3> QED
      BY <3>1, InsertEffect DEF IInv, TypeOK, RowsKept
  <2>3. ASSUME NEW code \in Codes, FetchStep(code)
        PROVE  RowsKept
    <3>1. CASE links' = links
      BY <2>0, <3>1
    <3>2. CASE fetch[code].pc = "storing" /\ SetTitleIfEmpty(code, fetch[code].title)
      <4>1. fetch[code].title \in StoredTitle
        BY <3>2 DEF IInv, FetchRowInv
      <4>2. \A i \in DOMAIN links :
               /\ i \in DOMAIN links'
               /\ links'[i].code = links[i].code
               /\ links'[i].user = links[i].user
               /\ links'[i].url = links[i].url
               /\ links[i].title # NoTitle => links'[i] = links[i]
        BY <3>2, <4>1, SetTitleEffect DEF IInv, TypeOK
      <4> QED
        BY <4>2 DEF RowsKept
    <3> QED
      BY <2>3, <3>1, <3>2, FetchStepOnStore DEF storeVars
  <2>4. ASSUME NEW w \in Waiters, WaitCloses(w) \/ WaitReturns(w)
        PROVE  links' = links
    BY <2>4 DEF WaitCloses, WaitReturns, storeVars
  <2>5. ASSUME CloseStore \/ Exit \/ Crash \/ Restart
        PROVE  links' = links
    BY <2>5 DEF CloseStore, Close, Exit, Crash, Stop, Restart
  <2>6. CASE UNCHANGED vars
    BY <2>0, <2>6 DEF vars, storeVars
  <2> QED
    BY <2>0, <2>1, <2>2, <2>3, <2>4, <2>5, <2>6 DEF Next, CallStep
<1>2. IInv /\ [Next]_vars => [RowsKept]_vars
  BY <1>1
<1> QED
  BY <1>2, Invariance, PTL DEF Spec

-----------------------------------------------------------------------------
(* The service implements the registry.                                    *)

LEMMA InitRegistry == Init => Registry!Init
BY DEF Init, Registry!Init, Registered, Named

\* Inserting a row registers its link.
LEMMA InsertRegisters ==
    ASSUME IInv, NEW c \in Callers, call[c].pc = "insert", Insert(NewLink(c)),
           UNCHANGED issued
    PROVE  Registry!Next
<1> DEFINE new == [code |-> call[c].code, user |-> call[c].user,
                   url |-> call[c].url]
<1>1. /\ NewLink(c) \in Link /\ new \in Registry!Binding
      /\ NewLink(c).code = new.code /\ NewLink(c).user = new.user
      /\ NewLink(c).url = new.url /\ NewLink(c).title = NoTitle
  BY DEF IInv, CallInv, NewLink, Link, Registry!Binding
<1>2. /\ Len(links) \in Nat
      /\ DOMAIN links = 1 .. Len(links)
      /\ DOMAIN links' = 1 .. Len(links) + 1
      /\ \A i \in DOMAIN links : links'[i] = links[i]
      /\ links'[Len(links) + 1] = NewLink(c)
      /\ ~UniqueViolation(NewLink(c))
  BY <1>1, InsertEffect DEF IInv, TypeOK
<1>3. DOMAIN links' = DOMAIN links \cup {Len(links) + 1}
  BY <1>2
<1>4. Registered' = Registered \cup {new}
  BY <1>1, <1>2, <1>3 DEF Registered
<1>5. Named' = Named
  BY <1>1, <1>2, <1>3 DEF Named
<1>6. \A old \in Registered : ~Registry!Conflicts(old, new)
  BY <1>1, <1>2 DEF Registered, UniqueViolation, Registry!Conflicts
<1>7. Registry!Register(new)
  BY <1>4, <1>5, <1>6 DEF Registry!Register
<1> QED
  BY <1>1, <1>7 DEF Registry!Next

\* Returning a link issues it.
LEMMA ReturnIssues ==
    ASSUME IInv, NEW c \in Callers, NEW i \in DOMAIN links,
           links[i].user = call[c].user, links[i].url = call[c].url,
           ReturnLink(c, links[i].code), links' = links
    PROVE  Registry!Next
<1> DEFINE b == [code |-> links[i].code, user |-> call[c].user,
                 url |-> call[c].url]
<1>1. links[i] \in Link
  BY ElementOfSeq, LenProperties DEF IInv, TypeOK, StoreTypeOK
<1>2. b \in Registered /\ b \in Registry!Binding
  BY <1>1 DEF Registered, Link, Registry!Binding
<1>3. issued' = issued \cup {b}
  BY DEF ReturnLink
<1>4. Registered' = Registered /\ Named' = Named
  BY DEF Registered, Named
<1>5. Registry!Issue(b)
  BY <1>2, <1>3, <1>4 DEF Registry!Issue
<1> QED
  BY <1>2, <1>5 DEF Registry!Next

\* Storing a title names the link, or changes nothing.
LEMMA TitleNames ==
    ASSUME IInv, NEW code \in Codes, fetch[code].pc = "storing",
           SetTitleIfEmpty(code, fetch[code].title), UNCHANGED issued
    PROVE  Registry!Next \/ UNCHANGED <<Registered, issued, Named>>
<1> DEFINE t == fetch[code].title
<1>1. t \in StoredTitle /\ t.page = fetch[code].url /\ t # NoTitle
  BY StoreAssumption DEF IInv, FetchRowInv
<1>2. /\ DOMAIN links' = DOMAIN links
      /\ \A i \in DOMAIN links :
            /\ links'[i].code = links[i].code
            /\ links'[i].user = links[i].user
            /\ links'[i].url = links[i].url
            /\ IF links[i].code = code /\ links[i].title = NoTitle
               THEN links'[i].title = t
               ELSE links'[i] = links[i]
  BY <1>1, SetTitleEffect DEF IInv, TypeOK
<1>3. PICK k \in DOMAIN links :
         links[k].code = code /\ links[k].url = fetch[code].url
  BY DEF IInv, FetchRowInv
<1>4. \A i \in DOMAIN links : links[i].code = code => i = k
  BY <1>3 DEF IInv, TableInv
<1>5. Registered' = Registered
  BY <1>2 DEF Registered
<1>6. CASE links[k].title # NoTitle
  <2>1. \A i \in DOMAIN links : links'[i] = links[i]
    BY <1>2, <1>4, <1>6
  <2>2. Named' = Named
    BY <1>2, <2>1 DEF Named
  <2> QED
    BY <1>5, <2>2
<1>7. CASE links[k].title = NoTitle
  <2> DEFINE b == [code |-> links[k].code, user |-> links[k].user,
                   url |-> links[k].url]
             n == [code |-> code, title |-> t]
  <2>1. links[k] \in Link
    BY ElementOfSeq, LenProperties DEF IInv, TypeOK, StoreTypeOK
  <2>2. b \in Registered /\ b \in Registry!Binding
    BY <2>1 DEF Registered, Link, Registry!Binding
  <2>3. /\ links'[k].code = code /\ links'[k].title = t
        /\ \A i \in DOMAIN links : i # k => links'[i] = links[i]
    BY <1>2, <1>3, <1>4, <1>7
  <2>4. Named' = Named \cup {n}
    <3>1. ASSUME NEW x \in Named' PROVE x \in Named \cup {n}
      BY <1>2, <2>3 DEF Named
    <3>2. ASSUME NEW x \in Named PROVE x \in Named'
      BY <1>2, <1>7, <2>3 DEF Named
    <3>3. n \in Named'
      BY <1>1, <1>2, <2>3 DEF Named
    <3> QED
      BY <3>1, <3>2, <3>3
  <2>5. \A m \in Named : m.code # code
    BY <1>4, <1>7 DEF Named
  <2>6. Registry!Name(b, t)
    BY <1>1, <1>3, <1>5, <2>2, <2>4, <2>5 DEF Registry!Name
  <2> QED
    BY <1>1, <2>2, <2>6 DEF Registry!Next
<1> QED
  BY <1>6, <1>7

\* Every other step leaves the registry as it is.
LEMMA RegistryUnchanged ==
    ASSUME links' = links, issued' = issued
    PROVE  UNCHANGED Registry!registryVars
BY DEF Registry!registryVars, Registered, Named

\* Every step of the service is a step of the registry or a stuttering step.
LEMMA NextRegistry == IInv /\ [Next]_vars => [Registry!Next]_(Registry!registryVars)
<1> SUFFICES ASSUME IInv, [Next]_vars
             PROVE  [Registry!Next]_(Registry!registryVars)
  OBVIOUS
<1>1. ASSUME NEW c \in Callers,
             Shorten(c) \/ Lock(c) \/ Generate(c) \/ Exhausted(c) \/ StatementFails(c)
      PROVE  links' = links /\ issued' = issued
  BY <1>1 DEF Shorten, Lock, Generate, Exhausted, StatementFails, ReturnError,
              storeVars
<1>2. ASSUME NEW c \in Callers, Find(c)
      PROVE  Registry!Next \/ (links' = links /\ issued' = issued)
  <2>1. links' = links
    BY <1>2 DEF Find, storeVars
  <2>2. ASSUME NEW i \in FindUserURL(call[c].user, call[c].url),
               ReturnLink(c, links[i].code)
        PROVE  Registry!Next
    BY <2>1, <2>2, ReturnIssues DEF FindUserURL
  <2> QED
    BY <1>2, <2>1, <2>2 DEF Find
<1>3. ASSUME NEW c \in Callers, InsertLink(c) \/ InsertInterrupted(c)
      PROVE  Registry!Next
  BY <1>3, InsertRegisters DEF InsertLink, InsertInterrupted, ReturnError
<1>4. ASSUME NEW c \in Callers, StartFetch(c)
      PROVE  Registry!Next
  <2>1. /\ call[c].pc = "start" /\ ReturnLink(c, call[c].code) /\ links' = links
    BY <1>4 DEF StartFetch, storeVars
  <2>2. PICK i \in DOMAIN links : links[i] = NewLink(c)
    BY <2>1 DEF IInv, CallInv
  <2>3. /\ links[i].code = call[c].code /\ links[i].user = call[c].user
        /\ links[i].url = call[c].url
    BY <2>2 DEF NewLink
  <2> QED
    BY <2>1, <2>3, ReturnIssues
<1>5. ASSUME NEW code \in Codes, FetchStep(code), UNCHANGED callVars
      PROVE  \/ Registry!Next
             \/ UNCHANGED <<Registered, issued, Named>>
             \/ links' = links /\ issued' = issued
  BY <1>5, FetchStepOnStore, TitleNames DEF callVars, storeVars
<1>6. ASSUME NEW w \in Waiters, WaitCloses(w) \/ WaitReturns(w), UNCHANGED callVars
      PROVE  links' = links /\ issued' = issued
  BY <1>6 DEF WaitCloses, WaitReturns, callVars, storeVars
<1>7. ASSUME CloseStore \/ Exit \/ Crash \/ Restart
      PROVE  links' = links /\ issued' = issued
  BY <1>7 DEF CloseStore, Close, Exit, Crash, Stop, Restart, callVars
<1>8. CASE UNCHANGED vars
  BY <1>8, RegistryUnchanged DEF vars, storeVars, callVars
<1> QED
  BY <1>1, <1>2, <1>3, <1>4, <1>5, <1>6, <1>7, <1>8, RegistryUnchanged
  DEF Next, CallStep, Registry!registryVars

\* The service, with its goroutines, failures, crashes and restarts, implements
\* the registry: links are registered once, issued only when registered, and
\* named at most once after their own page.
THEOREM Refinement == Spec => ImplementsRegistry
BY InitRegistry, NextRegistry, Invariance, PTL DEF Spec, ImplementsRegistry, Registry!Spec

=============================================================================
