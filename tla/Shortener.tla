------------------------------ MODULE Shortener ------------------------------
(***************************************************************************)
(* The shortener service of one process: concurrent calls of Shorten       *)
(* (internal/shortener/service.go) over the store (LinkStore), the title   *)
(* fetches they start (TitleFetches), and the life of the process: main's  *)
(* deferred svc.Wait and store.Close, the exit, a crash at any point and a *)
(* restart on the same database file.                                      *)
(*                                                                         *)
(* A caller is a goroutine of the Telegram library running a handler.  The *)
(* library does not wait for them when it stops, so calls can be at any    *)
(* point of Shorten, and can still arrive, while main waits and closes the *)
(* store.                                                                  *)
(***************************************************************************)
EXTENDS TitleFetches

CONSTANTS
    Callers,          \* handler goroutines, one call at a time each
    RawURLs,          \* the texts users send
    ValidateURL,      \* text -> its canonical URL, or ErrInvalidURL
    ErrInvalidURL,
    MaxCodeAttempts,  \* maxCodeAttempts
    NoUser, NoCode,   \* the fields of a call that is not running
    Nobody,           \* the owner of a free writeMu
    Main              \* the waiter that is main's deferred svc.Wait

ASSUME ShortenerAssumption ==
    /\ ValidateURL \in [RawURLs -> URLs \cup {ErrInvalidURL}]
    /\ ErrInvalidURL \notin URLs
    /\ MaxCodeAttempts \in Nat \ {0}
    /\ Nobody \notin Callers
    /\ Main \in Waiters

VARIABLES
    up,       \* the process is running
    call,     \* the call each caller is in
    writeMu,  \* the owner of writeMu
    issued    \* history: the links Shorten has returned to its callers

callVars == <<up, call, writeMu, issued>>
vars == <<storeVars, fetchVars, callVars>>

\* lock: at writeMu.Lock.  find: at FindUserURL.  generate: at the head of the
\* attempt loop.  insert: the code was free, at Insert.  start: inserted, at
\* startTitleFetch.
CallPc == {"idle", "lock", "find", "generate", "insert", "start"}

Call == [pc      : CallPc,
         user    : Users \cup {NoUser},
         url     : URLs \cup {NoURL},
         code    : Codes \cup {NoCode},
         attempt : 0 .. MaxCodeAttempts]

Idle == [pc |-> "idle", user |-> NoUser, url |-> NoURL, code |-> NoCode,
         attempt |-> 0]

Binding == [code : Codes, user : Users, url : URLs]

CallTypeOK ==
    /\ up \in BOOLEAN
    /\ call \in [Callers -> Call]
    /\ writeMu \in Callers \cup {Nobody}
    /\ issued \subseteq Binding

\* Type invariant of the whole service.
TypeOK == StoreTypeOK /\ FetchTypeOK /\ CallTypeOK

\* main: OpenStore on a new file, then NewService.
Init ==
    /\ links = <<>>
    /\ storeOpen = TRUE
    /\ FetchInit
    /\ up = TRUE
    /\ call = [c \in Callers |-> Idle]
    /\ writeMu = Nobody
    /\ issued = {}

-----------------------------------------------------------------------------
(* Shorten.                                                                *)

\* Mutated form: an error path without the Unlock.
ReturnErrorLocked(c) ==
    /\ call' = [call EXCEPT ![c] = Idle]
    /\ UNCHANGED <<up, writeMu, issued>>

\* The deferred Unlock, with no link to return.
ReturnError(c) ==
    /\ call' = [call EXCEPT ![c] = Idle]
    /\ writeMu' = Nobody
    /\ UNCHANGED <<up, issued>>

\* The deferred Unlock, with a link: the caller is told code for what it asked.
ReturnLink(c, code) ==
    /\ call' = [call EXCEPT ![c] = Idle]
    /\ writeMu' = Nobody
    /\ issued' = issued \cup
                     {[code |-> code, user |-> call[c].user, url |-> call[c].url]}
    /\ UNCHANGED up

\* ValidateURL, before the mutex; an invalid text is answered at once.
Shorten(c) ==
    /\ call[c].pc = "idle"
    /\ \E user \in Users, raw \in RawURLs :
          IF ValidateURL[raw] = ErrInvalidURL
          THEN UNCHANGED call
          ELSE call' = [call EXCEPT ![c] =
                   [Idle EXCEPT !.pc = "lock", !.user = user,
                                !.url = ValidateURL[raw]]]
    /\ UNCHANGED <<up, writeMu, issued, fetchVars, storeVars>>

\* Mutated form: no mutual exclusion.
LockWithoutMutex(c) ==
    /\ call[c].pc = "lock"
    /\ writeMu' = c
    /\ call' = [call EXCEPT ![c].pc = "find"]
    /\ UNCHANGED <<up, issued, fetchVars, storeVars>>

Lock(c) ==
    /\ call[c].pc = "lock"
    /\ writeMu = Nobody
    /\ writeMu' = c
    /\ call' = [call EXCEPT ![c].pc = "find"]
    /\ UNCHANGED <<up, issued, fetchVars, storeVars>>

Find(c) ==
    /\ call[c].pc = "find"
    /\ storeOpen
    /\ LET found == FindUserURL(call[c].user, call[c].url)
       IN \/ \E i \in found : ReturnLink(c, links[i].code)
          \/ /\ found = {}
             /\ call' = [call EXCEPT ![c].pc = "generate"]
             /\ UNCHANGED <<up, writeMu, issued>>
    /\ UNCHANGED <<fetchVars, storeVars>>

\* One turn of the attempt loop up to CodeExists: GenerateCode touches no
\* shared state, so it is one step with the statement that follows it.
Generate(c) ==
    /\ call[c].pc = "generate"
    /\ call[c].attempt < MaxCodeAttempts
    /\ storeOpen
    /\ \E code \in Codes :
          call' = IF CodeExists(code)
                  THEN [call EXCEPT ![c].attempt = @ + 1]
                  ELSE [call EXCEPT ![c].pc = "insert", ![c].code = code]
    /\ UNCHANGED <<up, writeMu, issued, fetchVars, storeVars>>

\* ErrCodeExhausted
Exhausted(c) ==
    /\ call[c].pc = "generate"
    /\ call[c].attempt = MaxCodeAttempts
    /\ ReturnError(c)
    /\ UNCHANGED <<fetchVars, storeVars>>

NewLink(c) == [code |-> call[c].code, user |-> call[c].user,
               url |-> call[c].url, title |-> NoTitle]

InsertLink(c) ==
    /\ call[c].pc = "insert"
    /\ Insert(NewLink(c))
    /\ call' = [call EXCEPT ![c].pc = "start"]
    /\ UNCHANGED <<up, writeMu, issued, fetchVars>>

\* Insert returned an error although the row was committed: the context was
\* cancelled, or the driver failed, after the commit.
InsertInterrupted(c) ==
    /\ call[c].pc = "insert"
    /\ Insert(NewLink(c))
    /\ ReturnError(c)
    /\ UNCHANGED fetchVars

\* Mutated form: the error of Insert is not checked.
StatementErrorIgnored(c) ==
    /\ \/ call[c].pc = "insert" /\ call' = [call EXCEPT ![c].pc = "start"]
       \/ call[c].pc = "generate" /\ call' = [call EXCEPT ![c] = Idle]
    /\ UNCHANGED <<up, writeMu, issued, fetchVars, storeVars>>

\* FindUserURL, CodeExists or Insert fails without effect (a closed handle, a
\* busy database, a UNIQUE constraint that refuses the row), or crypto/rand does.
StatementFails(c) ==
    /\ \/ call[c].pc \in {"find", "insert"}
       \/ call[c].pc = "generate" /\ call[c].attempt < MaxCodeAttempts
    /\ ReturnError(c)
    /\ UNCHANGED <<fetchVars, storeVars>>

StartFetch(c) ==
    /\ call[c].pc = "start"
    /\ startTitleFetch(call[c].code, call[c].url)
    /\ ReturnLink(c, call[c].code)
    /\ UNCHANGED storeVars

CallStep(c) ==
    \/ Lock(c) \/ Find(c) \/ Generate(c) \/ Exhausted(c)
    \/ InsertLink(c) \/ InsertInterrupted(c) \/ StatementFails(c)
    \/ StartFetch(c)

-----------------------------------------------------------------------------
(* The life of the process.                                                *)

\* main's deferred store.Close, which runs after its deferred svc.Wait.
CloseStore ==
    /\ wait[Main] = "returned"
    /\ Close
    /\ UNCHANGED <<fetchVars, callVars>>

\* The process is gone: only the database file and what users were told remain.
Stop ==
    /\ up' = FALSE
    /\ storeOpen' = FALSE
    /\ fetch' = [c \in Codes |-> NoGoroutine]
    /\ fetchSem' = 0
    /\ semQueue' = <<>>
    /\ fetchWG' = 0
    /\ closed' = FALSE
    /\ wait' = [w \in Waiters |-> "idle"]
    /\ call' = [c \in Callers |-> Idle]
    /\ writeMu' = Nobody
    /\ UNCHANGED <<links, issued>>

\* main returns after store.Close; the goroutines still running die with it.
Exit == wait[Main] = "returned" /\ ~storeOpen /\ Stop

Crash == Stop

\* A new process on the same file: OpenStore, NewService.
Restart ==
    /\ ~up
    /\ up' = TRUE
    /\ storeOpen' = TRUE
    /\ UNCHANGED <<links, call, writeMu, issued, fetchVars>>

Next ==
    \/ /\ up
       /\ \/ \E c \in Callers : Shorten(c) \/ CallStep(c)
          \/ \E code \in Codes : FetchStep(code) /\ UNCHANGED callVars
          \/ \E w \in Waiters : /\ WaitCloses(w) \/ WaitReturns(w)
                                /\ UNCHANGED callVars
          \/ CloseStore \/ Exit \/ Crash
    \/ Restart

Spec == Init /\ [][Next]_vars

-----------------------------------------------------------------------------
(* Fairness.  Statements return: the store sets busy_timeout and handlers  *)
(* and fetches carry a context; Title must respect the context of its 5 s  *)
(* budget.  sync.Mutex passes the lock to a caller that has waited too     *)
(* long, so Lock is strongly fair.  Nothing makes a user send a message,   *)
(* the process stop, crash or restart.                                     *)

Fairness ==
    /\ \A c \in Callers : /\ WF_vars(up /\ CallStep(c))
                          /\ SF_vars(up /\ Lock(c))
    /\ \A code \in Codes : WF_vars(up /\ FetchStep(code) /\ UNCHANGED callVars)
    /\ \A w \in Waiters : WF_vars(up /\ WaitReturns(w) /\ UNCHANGED callVars)
    /\ WF_vars(up /\ CloseStore)
    /\ WF_vars(up /\ Exit)

FairSpec == Spec /\ Fairness

-----------------------------------------------------------------------------
(* Safety.                                                                 *)

\* Between FindUserURL or CodeExists and Insert other statements run; writeMu
\* must keep what they found true.  When a caller reaches Insert, no row has
\* its code and no row is its user's link to that URL, so in one process the
\* UNIQUE constraints never refuse a Shorten.
NoInsertConflict ==
    \A c \in Callers : call[c].pc = "insert" => ~UniqueViolation(NewLink(c))

\* A user who was told a code keeps it: the row with that code, user and URL is
\* in the table, whatever failed, crashed or restarted since.
IssuedStored ==
    \A b \in issued : \E i \in DOMAIN links :
        links[i].code = b.code /\ links[i].user = b.user /\ links[i].url = b.url

\* Shorten is idempotent over the whole life of the file: two answers for one
\* user and URL name one code, and one code was never told for two links.
IssuedConsistent ==
    \A a, b \in issued : a.code = b.code <=> (a.user = b.user /\ a.url = b.url)

\* startTitleFetch is called at most once for a link: when a caller is about to
\* call it no fetch of that code is running and the row has no title.
OneFetchPerLink ==
    \A c \in Callers : call[c].pc = "start" =>
        /\ fetch[call[c].code].pc = "none"
        /\ \A i \in DOMAIN links :
               links[i].code = call[c].code => links[i].title = NoTitle

\* Once a Wait has returned no fetch is left and none starts, so the store is
\* never closed under a title write, although calls of Shorten still run.
FetchesDrained ==
    /\ \A w \in Waiters : wait[w] = "returned" => Active = {}
    /\ up /\ ~storeOpen => Active = {}

(* The invariant the proofs of ShortenerProofs carry through every step.   *)

\* Only the owner of writeMu is past Lock, and every return path releases it.
MutexInv ==
    \A c \in Callers : writeMu = c <=> call[c].pc \notin {"idle", "lock"}

\* What a call has established by the time it reaches each point.
CallInv ==
    \A c \in Callers :
        /\ call[c].pc # "idle" => call[c].user \in Users /\ call[c].url \in URLs
        /\ call[c].pc \in {"generate", "insert"} =>
              \A i \in DOMAIN links :
                 ~(links[i].user = call[c].user /\ links[i].url = call[c].url)
        /\ call[c].pc = "insert" =>
              /\ call[c].code \in Codes
              /\ \A i \in DOMAIN links : links[i].code # call[c].code
        /\ call[c].pc = "start" =>
              /\ call[c].code \in Codes
              /\ fetch[call[c].code].pc = "none"
              /\ \E i \in DOMAIN links : links[i] = NewLink(c)

\* A running fetch belongs to a row, and carries the URL of that row.
FetchRowInv ==
    \A code \in Codes : fetch[code].pc # "none" =>
        /\ \E i \in DOMAIN links :
              links[i].code = code /\ links[i].url = fetch[code].url
        /\ fetch[code].pc = "storing" =>
              /\ fetch[code].title \in StoredTitle
              /\ fetch[code].title.page = fetch[code].url

\* The UNIQUE constraints, and titles that come from the page of the row.
TableInv ==
    /\ \A i, j \in DOMAIN links : i # j =>
          /\ links[i].code # links[j].code
          /\ ~(links[i].user = links[j].user /\ links[i].url = links[j].url)
    /\ \A i \in DOMAIN links :
          links[i].title # NoTitle => links[i].title.page = links[i].url

LifeInv == up /\ ~storeOpen => wait[Main] = "returned"

IInv == /\ TypeOK /\ PoolInv /\ MutexInv /\ CallInv /\ FetchRowInv /\ TableInv
        /\ IssuedStored /\ LifeInv

-----------------------------------------------------------------------------
(* What a comment of the code says, and the code does not do.              *)

\* service.go says of Wait that it forbids the start of new background fetches
\* and dismisses those that wait for the semaphore: once the service is closed,
\* no goroutine that has not started its download starts it.
NoFetchStartsAfterClose ==
    [][closed => \A code \in Codes :
          fetch'[code].pc = "fetching" => fetch[code].pc = "fetching"]_vars

-----------------------------------------------------------------------------
(* Liveness.                                                               *)

\* Every call of Shorten returns (or dies with the process).
CallsReturn == \A c \in Callers : call[c].pc # "idle" ~> call[c].pc = "idle"

\* Every fetch goroutine ends, the parked ones too.
FetchesEnd == \A code \in Codes : fetch[code].pc # "none" ~> fetch[code].pc = "none"

\* Every Wait returns, and once main's has been called the process exits.
ShutdownCompletes ==
    /\ \A w \in Waiters : wait[w] = "waiting" ~> wait[w] # "waiting"
    /\ wait[Main] = "waiting" ~> ~up

-----------------------------------------------------------------------------
(* The service implements the registry it promises.                        *)

Registered ==
    {[code |-> links[i].code, user |-> links[i].user, url |-> links[i].url] :
        i \in DOMAIN links}

Named ==
    {[code |-> links[i].code, title |-> links[i].title] :
        i \in {j \in DOMAIN links : links[j].title # NoTitle}}

Registry == INSTANCE LinkRegistry WITH registry <- Registered, named <- Named

\* Every step of the service is a step of the registry or leaves it unchanged.
ImplementsRegistry == Registry!Spec

=============================================================================
