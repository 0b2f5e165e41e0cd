----------------------------- MODULE TitleFetches -----------------------------
(***************************************************************************)
(* The background title fetches of the service (startTitleFetch and Wait   *)
(* in internal/shortener/service.go): one goroutine per new link, at most  *)
(* MaxTitleFetches of them downloading at a time, all of them drained by   *)
(* Wait before the process may close the store.                            *)
(*                                                                         *)
(* The Go primitives are modelled by what they do:                         *)
(*  - fetchSem is a buffered channel used as a semaphore: fetchSem is the  *)
(*    number of values in its buffer, semQueue the goroutines parked in    *)
(*    the select, in the order the channel serves them.  A receive from a  *)
(*    full buffer with a parked sender hands the slot to that sender in    *)
(*    the same step;                                                       *)
(*  - close(fetchDone) wakes every goroutine parked in the select at once, *)
(*    and makes the second case of every later select ready;               *)
(*  - a select with both cases ready takes either of them.                 *)
(*                                                                         *)
(* The critical sections of fetchMu do not block, so each is one step.     *)
(***************************************************************************)
EXTENDS LinkStore, FiniteSets

CONSTANTS
    MaxTitleFetches,  \* the capacity of fetchSem (maxTitleFetches)
    TitlesEnabled,    \* FALSE when NewService was given no TitleFetcher
    Waiters,          \* the goroutines that call Wait
    NoURL             \* the URL of a goroutine that does not exist

ASSUME FetchAssumption ==
    /\ MaxTitleFetches \in Nat \ {0}
    /\ TitlesEnabled \in BOOLEAN
    /\ IsFiniteSet(Codes)

VARIABLES
    fetch,     \* the fetch goroutine of each code
    fetchSem,  \* the number of slots in use
    semQueue,  \* the codes of the goroutines parked in the select, in order
    fetchWG,   \* the counter of the WaitGroup
    closed,    \* Service.closed, and fetchDone is closed
    wait       \* how far each waiter is in Wait

fetchVars == <<fetch, fetchSem, semQueue, fetchWG, closed, wait>>

\* none: no goroutine.  spawned: before the select.  parked: blocked in it.
\* fetching: in Title.  storing: in SetTitleIfEmpty.  releasing: about to give
\* the slot back.  exiting: about to call Done.
FetchPc == {"none", "spawned", "parked", "fetching", "storing", "releasing",
            "exiting"}

Goroutine == [pc    : FetchPc,
              url   : URLs \cup {NoURL},
              title : StoredTitle \cup {NoTitle}]

NoGoroutine == [pc |-> "none", url |-> NoURL, title |-> NoTitle]

Holding  == {c \in Codes : fetch[c].pc \in {"fetching", "storing", "releasing"}}
Active   == {c \in Codes : fetch[c].pc # "none"}

FetchTypeOK ==
    /\ fetch \in [Codes -> Goroutine]
    /\ fetchSem \in 0 .. MaxTitleFetches
    /\ semQueue \in Seq(Codes)
    /\ fetchWG \in Nat
    /\ closed \in BOOLEAN
    /\ wait \in [Waiters -> {"idle", "waiting", "returned"}]

FetchInit ==
    /\ fetch = [c \in Codes |-> NoGoroutine]
    /\ fetchSem = 0
    /\ semQueue = <<>>
    /\ fetchWG = 0
    /\ closed = FALSE
    /\ wait = [w \in Waiters |-> "idle"]

Goto(code, pc) == fetch' = [fetch EXCEPT ![code].pc = pc]

-----------------------------------------------------------------------------
(* startTitleFetch: no goroutine when titles are off or the service is     *)
(* closed, else Add(1) and go.                                             *)

\* Mutated form: the closed flag is not consulted.
StartEvenIfClosed(code, url) ==
    /\ IF ~TitlesEnabled
       THEN UNCHANGED <<fetchWG, fetch>>
       ELSE /\ fetchWG' = fetchWG + 1
            /\ fetch' = [fetch EXCEPT ![code] =
                   [pc |-> "spawned", url |-> url, title |-> NoTitle]]
    /\ UNCHANGED <<fetchSem, semQueue, closed, wait>>

startTitleFetch(code, url) ==
    /\ IF ~TitlesEnabled \/ closed
       THEN UNCHANGED <<fetchWG, fetch>>
       ELSE /\ fetchWG' = fetchWG + 1
            /\ fetch' = [fetch EXCEPT ![code] =
                   [pc |-> "spawned", url |-> url, title |-> NoTitle]]
    /\ UNCHANGED <<fetchSem, semQueue, closed, wait>>

-----------------------------------------------------------------------------
(* The goroutine.                                                          *)

\* case s.fetchSem <- struct{}{}
AcquireSlot(code) ==
    /\ fetch[code].pc = "spawned"
    /\ fetchSem < MaxTitleFetches
    /\ fetchSem' = fetchSem + 1
    /\ Goto(code, "fetching")
    /\ UNCHANGED <<semQueue, fetchWG, closed, wait, storeVars>>

\* Mutated form: the early return skips fetchWG.Done.
DismissWithoutDone(code) ==
    /\ fetch[code].pc = "spawned"
    /\ closed
    /\ fetch' = [fetch EXCEPT ![code] = NoGoroutine]
    /\ UNCHANGED <<fetchSem, semQueue, fetchWG, closed, wait, storeVars>>

\* case <-s.fetchDone: return
Dismiss(code) ==
    /\ fetch[code].pc = "spawned"
    /\ closed
    /\ Goto(code, "exiting")
    /\ UNCHANGED <<fetchSem, semQueue, fetchWG, closed, wait, storeVars>>

\* Neither case is ready.
Park(code) ==
    /\ fetch[code].pc = "spawned"
    /\ fetchSem = MaxTitleFetches
    /\ ~closed
    /\ semQueue' = Append(semQueue, code)
    /\ Goto(code, "parked")
    /\ UNCHANGED <<fetchSem, fetchWG, closed, wait, storeVars>>

\* Title returns an error or "": the link keeps its empty title.
FetchNothing(code) ==
    /\ fetch[code].pc = "fetching"
    /\ Goto(code, "releasing")
    /\ UNCHANGED <<fetchSem, semQueue, fetchWG, closed, wait, storeVars>>

FetchTitle(code) ==
    /\ fetch[code].pc = "fetching"
    /\ \E pageTitle \in PageTitles :
          fetch' = [fetch EXCEPT
              ![code].pc = "storing",
              ![code].title = TitleFor(pageTitle, fetch[code].url)]
    /\ UNCHANGED <<fetchSem, semQueue, fetchWG, closed, wait, storeVars>>

StoreTitle(code) ==
    /\ fetch[code].pc = "storing"
    /\ SetTitleIfEmpty(code, fetch[code].title)
    /\ Goto(code, "releasing")
    /\ UNCHANGED <<fetchSem, semQueue, fetchWG, closed, wait>>

\* The UPDATE fails (busy for the whole budget, I/O, closed handle): logged.
StoreTitleFails(code) ==
    /\ fetch[code].pc = "storing"
    /\ Goto(code, "releasing")
    /\ UNCHANGED <<fetchSem, semQueue, fetchWG, closed, wait, storeVars>>

\* Mutated form: the slot is freed but no parked goroutine is woken.
ReleaseWithoutHandOff(code) ==
    /\ fetch[code].pc = "releasing"
    /\ fetchSem' = fetchSem - 1
    /\ Goto(code, "exiting")
    /\ UNCHANGED <<semQueue, fetchWG, closed, wait, storeVars>>

\* Mutated form: a hand-off also frees the slot.
ReleaseTwice(code) ==
    /\ fetch[code].pc = "releasing"
    /\ fetchSem' = fetchSem - 1
    /\ IF semQueue # <<>>
       THEN /\ fetch' = [fetch EXCEPT ![code].pc = "exiting",
                                      ![Head(semQueue)].pc = "fetching"]
            /\ semQueue' = Tail(semQueue)
       ELSE /\ Goto(code, "exiting")
            /\ UNCHANGED semQueue
    /\ UNCHANGED <<fetchWG, closed, wait, storeVars>>

\* defer func() { <-s.fetchSem }()
ReleaseSlot(code) ==
    /\ fetch[code].pc = "releasing"
    /\ IF semQueue # <<>>
       THEN /\ fetch' = [fetch EXCEPT ![code].pc = "exiting",
                                      ![Head(semQueue)].pc = "fetching"]
            /\ semQueue' = Tail(semQueue)
            /\ UNCHANGED fetchSem
       ELSE /\ fetchSem' = fetchSem - 1
            /\ Goto(code, "exiting")
            /\ UNCHANGED semQueue
    /\ UNCHANGED <<fetchWG, closed, wait, storeVars>>

\* defer s.fetchWG.Done()
FetchDone(code) ==
    /\ fetch[code].pc = "exiting"
    /\ fetchWG' = fetchWG - 1
    /\ fetch' = [fetch EXCEPT ![code] = NoGoroutine]
    /\ UNCHANGED <<fetchSem, semQueue, closed, wait, storeVars>>

FetchStep(code) ==
    \/ AcquireSlot(code) \/ Dismiss(code) \/ Park(code)
    \/ FetchNothing(code) \/ FetchTitle(code)
    \/ StoreTitle(code) \/ StoreTitleFails(code)
    \/ ReleaseSlot(code) \/ FetchDone(code)

-----------------------------------------------------------------------------
(* Wait.                                                                   *)

\* lock; closed = true and close(fetchDone), the first time; unlock
WaitCloses(w) ==
    /\ wait[w] = "idle"
    /\ wait' = [wait EXCEPT ![w] = "waiting"]
    /\ closed' = TRUE
    /\ IF closed
       THEN UNCHANGED <<fetch, semQueue>>
       ELSE /\ fetch' = [c \in Codes |->
                            IF fetch[c].pc = "parked"
                            THEN [fetch[c] EXCEPT !.pc = "exiting"]
                            ELSE fetch[c]]
            /\ semQueue' = <<>>
    /\ UNCHANGED <<fetchSem, fetchWG, storeVars>>

\* fetchWG.Wait() returns
WaitReturns(w) ==
    /\ wait[w] = "waiting"
    /\ fetchWG = 0
    /\ wait' = [wait EXCEPT ![w] = "returned"]
    /\ UNCHANGED <<fetch, fetchSem, semQueue, fetchWG, closed, storeVars>>

-----------------------------------------------------------------------------
(* What the pool of fetches keeps true.                                    *)

\* The semaphore counts exactly the goroutines that hold a slot, also across
\* the hand-off of a slot to a parked goroutine.
SlotsMatchHolders == fetchSem = Cardinality(Holding)

\* No lost wakeup: a goroutine is parked only while every slot is in use and
\* Wait has not closed the service, and the queue holds the parked ones, once.
ParkedForAReason ==
    /\ \A code \in Codes : fetch[code].pc = "parked" =>
          /\ fetchSem = MaxTitleFetches
          /\ ~closed
          /\ \E i \in DOMAIN semQueue : semQueue[i] = code
    /\ \A i, j \in DOMAIN semQueue :
          /\ fetch[semQueue[i]].pc = "parked"
          /\ i # j => semQueue[i] # semQueue[j]

\* The WaitGroup counts exactly the goroutines that have not called Done.
GroupMatchesActive == fetchWG = Cardinality(Active)

\* A Wait that has begun has closed the service, and when it has returned no
\* goroutine is left.
WaitInv ==
    \A w \in Waiters :
        /\ wait[w] # "idle" => closed
        /\ wait[w] = "returned" => Active = {}

PoolInv == SlotsMatchHolders /\ ParkedForAReason /\ GroupMatchesActive /\ WaitInv

=============================================================================
