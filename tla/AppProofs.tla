------------------------------- MODULE AppProofs -------------------------------
(***************************************************************************)
(* The process does with the service only what Shortener allows, so what   *)
(* ShortenerProofs proves of Spec holds of AppSpec; and the order in which *)
(* the parts, the fetches and the store end.                               *)
(***************************************************************************)
EXTENDS App, ShortenerProofs

\* The steps of the parts leave the service alone, and the steps of the service
\* and of main are steps of Shortener.
LEMMA AppStep == [AppNext]_appVars => [Next]_vars
<1> SUFFICES ASSUME [AppNext]_appVars PROVE [Next]_vars
  OBVIOUS
<1>1. CASE UNCHANGED appVars
  BY <1>1 DEF appVars
<1>2. CASE up /\ Signal
  BY <1>2 DEF Signal
<1>3. CASE up /\ BotNext
  <2>1. ASSUME BotFails \/ BotStarts \/ BotStops \/ BotReports
        PROVE  UNCHANGED vars
    BY <2>1 DEF BotFails, BotStarts, BotStops, BotReports, Record
  <2>2. ASSUME NEW c \in Callers, Dispatch(c)
        PROVE  UNCHANGED vars
    BY <2>2 DEF Dispatch
  <2>3. ASSUME NEW c \in Callers, HandlerShortens(c)
        PROVE  Next
    BY <1>3, <2>3 DEF HandlerShortens, Next
  <2> QED
    BY <1>3, <2>1, <2>2, <2>3 DEF BotNext
<1>4. CASE up /\ HttpNext
  <2>1. ASSUME \/ Listen \/ ListenerFails \/ BeginShutdown \/ ShutdownReturns
               \/ ShutdownTimesOut \/ ServeFails \/ RedirectReports
        PROVE  UNCHANGED vars
    BY <2>1 DEF Listen, ListenerFails, BeginShutdown, ShutdownReturns,
                ShutdownTimesOut, ServeFails, RedirectReports, Record
  <2>2. ASSUME NEW n \in Connections,
               Connect(n) \/ Disconnect(n) \/ Request(n) \/ Respond(n)
        PROVE  UNCHANGED vars
    BY <2>2 DEF Connect, Disconnect, Request, Respond
  <2> QED
    BY <1>4, <2>1, <2>2 DEF HttpNext
<1>5. CASE up /\ ServiceNext
  BY <1>5 DEF ServiceNext, Next
<1>6. CASE up /\ MainNext
  <2>1. Main \in Waiters
    BY ShortenerAssumption
  <2>2. CASE MainWaits
    BY <1>6, <2>1, <2>2 DEF MainWaits, Next
  <2>3. CASE MainDrained
    BY <1>6, <2>1, <2>3 DEF MainDrained, Next
  <2>4. CASE MainCloses \/ MainExits \/ AppCrash
    BY <1>6, <2>4 DEF MainCloses, MainExits, AppCrash, Next
  <2> QED
    BY <1>6, <2>2, <2>3, <2>4 DEF MainNext
<1>7. CASE AppRestart
  BY <1>7 DEF AppRestart, Next
<1> QED
  BY <1>1, <1>2, <1>3, <1>4, <1>5, <1>6, <1>7 DEF AppNext

\* The process implements Shortener (main.run, telegram.Run and redirect.Run
\* around the Service).
THEOREM AppRefinement == AppSpec => ImplementsShortener
<1>1. AppInit => Init
  BY DEF AppInit
<1> QED
  BY <1>1, AppStep, PTL DEF AppSpec, ImplementsShortener, Spec

\* So the invariant of the service holds in every process.
LEMMA ServiceInvariance == AppSpec => []IInv
BY AppRefinement, Invariance, PTL DEF ImplementsShortener

\* One row has the code of an issued link, so Resolve finds it and no other.
LEMMA IssuedResolves ==
    ASSUME IInv, NEW b \in issued
    PROVE  \E i \in DOMAIN links : Resolve(b.code) = {i} /\ links[i].url = b.url
<1>1. PICK i \in DOMAIN links : links[i].code = b.code /\ links[i].url = b.url
  BY DEF IInv, IssuedStored
<1>2. \A j \in DOMAIN links : links[j].code = b.code => j = i
  BY <1>1 DEF IInv, TableInv
<1> QED
  BY <1>1, <1>2 DEF Resolve

\* A short link that a user was given redirects to what the user sent, for ever
\* (NewHandler's GET /{code} over Shorten's promise).
THEOREM RedirectsIssued == AppSpec => []IssuedRedirects
<1>1. IInv => IssuedRedirects
  <2> SUFFICES ASSUME IInv, NEW b \in issued, b.code # Healthz
               PROVE  Get(b.code) \ {InternalError} =
                          IF storeOpen THEN {Found(b.url)} ELSE {}
    BY DEF IssuedRedirects
  <2>1. PICK i \in DOMAIN links : Resolve(b.code) = {i} /\ links[i].url = b.url
    BY IssuedResolves
  <2>2. Found(b.url) # InternalError
    BY DEF Found, InternalError
  <2>3. {Found(links[j].url) : j \in Resolve(b.code)} = {Found(b.url)}
    BY <2>1
  <2> QED
    BY <2>1, <2>2, <2>3 DEF Get
<1> QED
  BY <1>1, ServiceInvariance, PTL

-----------------------------------------------------------------------------
(* The order of the shutdown.                                              *)

\* What the parts have established when they end, and main before it waits.
StopInv ==
    /\ inShutdown => listener # "open"
    /\ redirect = "shutdown" => inShutdown
    /\ redirect = "stopped" => inShutdown /\ \A n \in Connections : conn[n] = "none"
    /\ up /\ wait[Main] # "idle" => Ended(telegram) /\ Ended(redirect)
    /\ ~up => wait[Main] = "idle"

\* Why a status of 0 means a signal.
ExitInv ==
    /\ ctxDone => signalled \/ firstErr # NoError
    /\ Ended(telegram) => ctxDone
    /\ telegram = "reported" => firstErr # NoError
    /\ exit = "clean" => signalled

\* Calls and fetches do not decide when the process ends.
LEMMA ServiceKeepsLife ==
    ASSUME ServiceNext
    PROVE  up' = up /\ wait' = wait /\ UNCHANGED partVars
<1>1. ASSUME NEW c \in Callers, CallStep(c)
      PROVE  up' = up /\ wait' = wait
  BY <1>1 DEF CallStep, Lock, Find, Generate, Exhausted, InsertLink,
              InsertInterrupted, StatementFails, StartFetch, ReturnError,
              ReturnLink, startTitleFetch, fetchVars
<1>2. ASSUME NEW code \in Codes, FetchStep(code), UNCHANGED callVars
      PROVE  up' = up /\ wait' = wait
  BY <1>2 DEF FetchStep, AcquireSlot, Dismiss, Park, FetchNothing, FetchTitle,
              StoreTitle, StoreTitleFails, ReleaseSlot, FetchDone, callVars
<1> QED
  BY <1>1, <1>2 DEF ServiceNext

LEMMA InitStopInv == AppInit => StopInv /\ ExitInv
BY ShortenerAssumption DEF AppInit, StopInv, ExitInv, Init, FetchInit, Ended

\* Every step keeps the order of the shutdown.
LEMMA NextStopInv == StopInv /\ ExitInv /\ [AppNext]_appVars => StopInv' /\ ExitInv'
<1> SUFFICES ASSUME StopInv, ExitInv, [AppNext]_appVars
             PROVE  StopInv' /\ ExitInv'
  OBVIOUS
<1> USE DEF StopInv, ExitInv, Ended
<1>1. CASE UNCHANGED appVars
  BY <1>1 DEF appVars, vars, fetchVars, callVars, partVars, lifeVars, botVars, httpVars
<1>2. CASE up /\ Signal
  BY <1>2 DEF Signal, vars, fetchVars, callVars, botVars, httpVars
<1>3. CASE up /\ BotNext
  <2>1. ASSUME BotFails \/ BotStarts \/ BotStops PROVE StopInv' /\ ExitInv'
    <3>1. /\ telegram \in {"starting", "polling"}
          /\ \/ telegram' \in {"failed", "polling"}
             \/ telegram' = "stopped" /\ ctxDone
          /\ UNCHANGED <<up, wait, lifeVars, httpVars>>
      BY <2>1 DEF BotFails, BotStarts, BotStops, vars, fetchVars, callVars
    <3> QED
      BY <1>3, <3>1 DEF lifeVars, httpVars
  <2>2. CASE BotReports
    <3>1. /\ telegram = "failed" /\ telegram' = "reported"
          /\ UNCHANGED <<signalled, exit, up, wait, httpVars>>
      BY <2>2 DEF BotReports, Record, vars, fetchVars, callVars
    <3>2. ctxDone' /\ firstErr' # NoError
      BY <2>2, AppAssumption DEF BotReports, Record
    <3> QED
      BY <1>3, <3>1, <3>2 DEF httpVars
  <2>3. ASSUME NEW c \in Callers, Dispatch(c) PROVE StopInv' /\ ExitInv'
    BY <1>3, <2>3 DEF Dispatch, vars, fetchVars, callVars, lifeVars, httpVars
  <2>4. ASSUME NEW c \in Callers, HandlerShortens(c) PROVE StopInv' /\ ExitInv'
    BY <1>3, <2>4 DEF HandlerShortens, Shorten, fetchVars, lifeVars, httpVars
  <2> QED
    BY <1>3, <2>1, <2>2, <2>3, <2>4 DEF BotNext
<1>4. CASE up /\ HttpNext
  <2> USE DEF vars, fetchVars, callVars, lifeVars, botVars
  <2>1. CASE Listen
    BY <1>4, <2>1 DEF Listen
  <2>2. CASE ListenerFails
    BY <1>4, <2>2 DEF ListenerFails
  <2>3. ASSUME NEW n \in Connections,
               Connect(n) \/ Disconnect(n) \/ Request(n) \/ Respond(n)
        PROVE  StopInv' /\ ExitInv'
    <3>1. redirect # "stopped"
      BY <2>3 DEF Connect, Disconnect, Request, Respond
    <3>2. UNCHANGED <<up, wait, redirect, listener, inShutdown, lifeVars, botVars>>
      BY <2>3 DEF Connect, Disconnect, Request, Respond
    <3> QED
      BY <3>1, <3>2
  <2>4. CASE BeginShutdown
    BY <1>4, <2>4 DEF BeginShutdown
  <2>5. CASE ShutdownReturns
    BY <1>4, <2>5 DEF ShutdownReturns
  <2>6. CASE ShutdownTimesOut \/ ServeFails
    <3>1. /\ redirect \in {"serving", "shutdown"} /\ redirect' = "failed"
          /\ UNCHANGED <<up, wait, listener, inShutdown, lifeVars, botVars>>
      BY <2>6 DEF ShutdownTimesOut, ServeFails
    <3> QED
      BY <1>4, <3>1
  <2>7. CASE RedirectReports
    BY <1>4, <2>7, AppAssumption DEF RedirectReports, Record
  <2> QED
    BY <1>4, <2>1, <2>2, <2>3, <2>4, <2>5, <2>6, <2>7 DEF HttpNext
<1>5. CASE up /\ ServiceNext
  BY <1>5, ServiceKeepsLife DEF partVars, lifeVars, botVars, httpVars
<1>6. CASE up /\ MainNext
  <2> USE DEF partVars, lifeVars, botVars, httpVars, callVars
  <2>1. CASE MainWaits
    BY <1>6, <2>1 DEF MainWaits
  <2>2. CASE MainDrained
    BY <1>6, <2>2 DEF MainDrained, WaitReturns
  <2>3. CASE MainCloses
    BY <1>6, <2>3 DEF MainCloses, CloseStore, fetchVars
  <2>4. CASE MainExits
    BY <1>6, <2>4, ShortenerAssumption DEF MainExits, Exit, Stop, PartsGone
  <2>5. CASE AppCrash
    BY <1>6, <2>5, ShortenerAssumption DEF AppCrash, Crash, Stop, PartsGone
  <2> QED
    BY <1>6, <2>1, <2>2, <2>3, <2>4, <2>5 DEF MainNext
<1>7. CASE AppRestart
  BY <1>7 DEF AppRestart, Restart, fetchVars
<1> QED
  BY <1>1, <1>2, <1>3, <1>4, <1>5, <1>6, <1>7 DEF AppNext

LEMMA StopInvariance == AppSpec => [](StopInv /\ ExitInv)
BY InitStopInv, NextStopInv, PTL DEF AppSpec

\* No request is left on a closed store unless redirect.Run gave up on it.
THEOREM RequestsServed == AppSpec => []RequestsBeforeClose
<1>1. IInv /\ StopInv /\ ExitInv => RequestsBeforeClose
  BY DEF IInv, LifeInv, StopInv, Ended, RequestsBeforeClose
<1> QED
  BY <1>1, ServiceInvariance, StopInvariance, PTL

\* Status 0 means that the process was told to end.
THEOREM CleanExit == AppSpec => []CleanExitAfterSignal
<1>1. ExitInv => CleanExitAfterSignal
  BY DEF ExitInv, CleanExitAfterSignal
<1> QED
  BY <1>1, StopInvariance, PTL

-----------------------------------------------------------------------------
(* The types of the process.                                               *)

LEMMA InitPartsTypeOK == AppInit => PartsTypeOK
BY DEF AppInit, PartsTypeOK, TelegramPc, RedirectPc

\* Launch keeps the types of what it records.
LEMMA RecordKeepsTypes ==
    ASSUME PartsTypeOK, NEW part \in {"telegram", "redirect"}, Record(part)
    PROVE  /\ firstErr' \in {NoError, "telegram", "redirect"}
           /\ ctxDone' \in BOOLEAN
           /\ signalled' = signalled /\ exit' = exit
BY DEF PartsTypeOK, Record

LEMMA NextPartsTypeOK == PartsTypeOK /\ [AppNext]_appVars => PartsTypeOK'
<1> SUFFICES ASSUME PartsTypeOK, [AppNext]_appVars PROVE PartsTypeOK'
  OBVIOUS
<1> USE DEF PartsTypeOK, TelegramPc, RedirectPc, lifeVars, botVars, httpVars
<1>1. CASE UNCHANGED appVars
  BY <1>1 DEF appVars, partVars
<1>2. CASE up /\ Signal
  BY <1>2 DEF Signal
<1>3. CASE up /\ BotNext
  <2>1. ASSUME BotFails \/ BotStarts \/ BotStops PROVE PartsTypeOK'
    BY <2>1 DEF BotFails, BotStarts, BotStops
  <2>2. CASE BotReports
    <3>1. Record("telegram") /\ telegram' = "reported" /\ UNCHANGED <<dispatched, httpVars>>
      BY <2>2 DEF BotReports
    <3> QED
      BY <3>1, RecordKeepsTypes
  <2>3. ASSUME NEW c \in Callers, Dispatch(c) PROVE PartsTypeOK'
    BY <2>3 DEF Dispatch
  <2>4. ASSUME NEW c \in Callers, HandlerShortens(c) PROVE PartsTypeOK'
    BY <2>4 DEF HandlerShortens
  <2> QED
    BY <1>3, <2>1, <2>2, <2>3, <2>4 DEF BotNext
<1>4. CASE up /\ HttpNext
  <2>1. ASSUME Listen \/ ListenerFails \/ BeginShutdown PROVE PartsTypeOK'
    BY <2>1 DEF Listen, ListenerFails, BeginShutdown
  <2>2. ASSUME ShutdownReturns \/ ShutdownTimesOut \/ ServeFails PROVE PartsTypeOK'
    BY <2>2 DEF ShutdownReturns, ShutdownTimesOut, ServeFails
  <2>3. ASSUME NEW n \in Connections,
               Connect(n) \/ Disconnect(n) \/ Request(n) \/ Respond(n)
        PROVE  PartsTypeOK'
    BY <2>3 DEF Connect, Disconnect, Request, Respond
  <2>4. CASE RedirectReports
    <3>1. /\ Record("redirect") /\ redirect' = "reported"
          /\ UNCHANGED <<listener, inShutdown, conn, botVars>>
      BY <2>4 DEF RedirectReports
    <3> QED
      BY <3>1, RecordKeepsTypes
  <2> QED
    BY <1>4, <2>1, <2>2, <2>3, <2>4 DEF HttpNext
<1>5. CASE up /\ ServiceNext
  BY <1>5 DEF ServiceNext, partVars
<1>6. CASE up /\ MainNext
  <2>1. ASSUME MainWaits \/ MainDrained \/ MainCloses PROVE PartsTypeOK'
    BY <2>1 DEF MainWaits, MainDrained, MainCloses, partVars
  <2>2. CASE MainExits
    BY <2>2 DEF MainExits, PartsGone
  <2>3. CASE AppCrash
    BY <2>3 DEF AppCrash, PartsGone
  <2> QED
    BY <1>6, <2>1, <2>2, <2>3 DEF MainNext
<1>7. CASE AppRestart
  BY <1>7 DEF AppRestart
<1> QED
  BY <1>1, <1>2, <1>3, <1>4, <1>5, <1>6, <1>7 DEF AppNext

\* The variables of the process and of its service keep their types.
THEOREM AppTypeCorrect == AppSpec => []AppTypeOK
<1>1. AppSpec => []PartsTypeOK
  BY InitPartsTypeOK, NextPartsTypeOK, PTL DEF AppSpec
<1>2. IInv => TypeOK
  BY DEF IInv
<1> QED
  BY <1>1, <1>2, ServiceInvariance, PTL DEF AppTypeOK

-----------------------------------------------------------------------------
(* What Shortener's theorems promise holds in the process that main runs.  *)

\* The registry of links that the documentation describes is what the whole process
\* provides, whatever the parts, the signals and the crashes do.
THEOREM AppImplementsRegistry == AppSpec => ImplementsRegistry
BY AppRefinement, Refinement, PTL DEF ImplementsShortener

\* In the process, too, nobody waits for nobody, and rows stay what they are.
THEOREM AppNoDeadlock == AppSpec => []SomeoneToWaitFor
BY AppRefinement, NoDeadlock, PTL DEF ImplementsShortener

-----------------------------------------------------------------------------
(* What is safety in StopsTogether: the shutdown never stands still, and it *)
(* never goes back.                                                         *)

\* A part of the server that is on its way out has a reason that reaches the bot too.
CancelInv ==
    /\ inShutdown => ctxDone
    /\ Ended(redirect) => ctxDone

LEMMA InitCancelInv == AppInit => CancelInv
BY DEF AppInit, CancelInv, Ended

LEMMA NextCancelInv == StopInv /\ CancelInv /\ [AppNext]_appVars => CancelInv'
<1> SUFFICES ASSUME StopInv, CancelInv, [AppNext]_appVars PROVE CancelInv'
  OBVIOUS
<1> USE DEF StopInv, CancelInv, Ended, lifeVars, botVars, httpVars
<1>1. CASE UNCHANGED appVars
  BY <1>1 DEF appVars, partVars
<1>2. CASE up /\ Signal
  BY <1>2 DEF Signal
<1>3. CASE up /\ BotNext
  BY <1>3 DEF BotNext, BotFails, BotStarts, BotStops, BotReports, Record, Dispatch,
              HandlerShortens
<1>4. CASE up /\ HttpNext
  <2>1. CASE BeginShutdown \/ ShutdownReturns
    BY <2>1 DEF BeginShutdown, ShutdownReturns
  <2>2. CASE Listen \/ ListenerFails \/ ShutdownTimesOut \/ ServeFails
    BY <2>2 DEF Listen, ListenerFails, ShutdownTimesOut, ServeFails
  <2>3. ASSUME NEW n \in Connections,
               Connect(n) \/ Disconnect(n) \/ Request(n) \/ Respond(n)
        PROVE  CancelInv'
    BY <2>3 DEF Connect, Disconnect, Request, Respond
  <2>4. CASE RedirectReports
    BY <2>4 DEF RedirectReports, Record
  <2> QED
    BY <1>4, <2>1, <2>2, <2>3, <2>4 DEF HttpNext
<1>5. CASE up /\ ServiceNext
  BY <1>5 DEF ServiceNext, partVars
<1>6. CASE up /\ MainNext
  BY <1>6 DEF MainNext, MainWaits, MainDrained, MainCloses, MainExits, AppCrash, PartsGone,
              partVars
<1>7. CASE AppRestart
  BY <1>7 DEF AppRestart
<1> QED
  BY <1>1, <1>2, <1>3, <1>4, <1>5, <1>6, <1>7 DEF AppNext

\* What the shutdown waits for: a part whose next step needs nobody else, or, when both
\* have ended, main, which waits at most for fetches that are not parked.
ShutdownGoesOn ==
    up /\ (ctxDone \/ telegram = "failed" \/ redirect = "failed" \/ listener = "failed") =>
        \/ telegram \in {"starting", "failed"}
        \/ telegram = "polling" /\ ctxDone
        \/ redirect \in {"shutdown", "failed"}
        \/ redirect = "serving" /\ (ctxDone \/ listener = "failed")
        \/ /\ Ended(telegram) /\ Ended(redirect)
           /\ wait[Main] = "waiting" /\ fetchWG # 0 =>
                 \E code \in Codes : fetch[code].pc \notin {"none", "parked"}

\* A part that fails or a signal never leaves the process half stopped, with one part
\* gone and nothing to end the other.
THEOREM ShutdownNeverStuck == AppSpec => []ShutdownGoesOn
<1>1. PartsTypeOK /\ IInv /\ SomeoneToWaitFor /\ ExitInv /\ CancelInv => ShutdownGoesOn
  BY ShortenerAssumption DEF PartsTypeOK, TelegramPc, RedirectPc, SomeoneToWaitFor, ExitInv,
         CancelInv, Ended, ShutdownGoesOn
<1>2. AppSpec => []CancelInv
  BY InitCancelInv, NextCancelInv, StopInvariance, PTL DEF AppSpec
<1>3. AppSpec => []PartsTypeOK
  BY InitPartsTypeOK, NextPartsTypeOK, PTL DEF AppSpec
<1> QED
  BY <1>1, <1>2, <1>3, ServiceInvariance, AppNoDeadlock, StopInvariance, PTL

TelegramStage == [starting |-> 3, polling |-> 2, failed |-> 1, stopped |-> 0, reported |-> 0]
RedirectStage == [serving |-> 3, shutdown |-> 2, failed |-> 1, stopped |-> 0, reported |-> 0]
ConnStage == [idle |-> 2, active |-> 1, none |-> 0]
WaitStage == [idle |-> 2, waiting |-> 1, returned |-> 0]

\* While the process runs a part never goes back, a cancelled context stays cancelled,
\* and a server in shutdown takes no connection and no second request on one.
ShutdownNearsEnd ==
    up /\ up' =>
        /\ ctxDone => ctxDone'
        /\ TelegramStage[telegram'] <= TelegramStage[telegram]
        /\ RedirectStage[redirect'] <= RedirectStage[redirect]
        /\ WaitStage[wait'[Main]] <= WaitStage[wait[Main]]
        /\ inShutdown => inShutdown' /\ \A n \in Connections :
                            ConnStage[conn'[n]] <= ConnStage[conn[n]]

\* Once it has begun the shutdown is a bounded number of steps, however many clients
\* connect and users write meanwhile: srv.Shutdown waits only for requests that it has.
THEOREM ShutdownBounded == AppSpec => [][ShutdownNearsEnd]_appVars
<1>1. PartsTypeOK /\ IInv /\ StopInv /\ [AppNext]_appVars => [ShutdownNearsEnd]_appVars
  <2> SUFFICES ASSUME PartsTypeOK, IInv, StopInv, [AppNext]_appVars, up, up'
               PROVE  /\ ctxDone => ctxDone'
                      /\ TelegramStage[telegram'] <= TelegramStage[telegram]
                      /\ RedirectStage[redirect'] <= RedirectStage[redirect]
                      /\ WaitStage[wait'[Main]] <= WaitStage[wait[Main]]
                      /\ inShutdown => inShutdown' /\ \A n \in Connections :
                                          ConnStage[conn'[n]] <= ConnStage[conn[n]]
    BY DEF ShutdownNearsEnd
  <2>0. /\ telegram \in TelegramPc /\ redirect \in RedirectPc
        /\ conn \in [Connections -> {"none", "idle", "active"}]
        /\ wait \in [Waiters -> {"idle", "waiting", "returned"}] /\ Main \in Waiters
    BY ShortenerAssumption DEF PartsTypeOK, IInv, TypeOK, FetchTypeOK
  <2> USE <2>0 DEF TelegramPc, RedirectPc, TelegramStage, RedirectStage, ConnStage, WaitStage,
                   lifeVars, botVars, httpVars, vars, fetchVars
  <2>1. CASE UNCHANGED appVars
    BY <2>1 DEF appVars, partVars
  <2>2. CASE Signal
    BY <2>2 DEF Signal
  <2>3. CASE BotNext
    <3>1. ASSUME NEW c \in Callers, Dispatch(c) \/ HandlerShortens(c)
          PROVE  UNCHANGED <<ctxDone, telegram, redirect, wait, inShutdown, conn>>
      BY <3>1 DEF Dispatch, HandlerShortens, Shorten
    <3>2. CASE BotFails \/ BotStarts \/ BotStops
      BY <3>2 DEF BotFails, BotStarts, BotStops
    <3>3. CASE BotReports
      BY <3>3 DEF BotReports, Record
    <3> QED
      BY <2>3, <3>1, <3>2, <3>3 DEF BotNext
  <2>4. CASE HttpNext
    <3>1. CASE BeginShutdown \/ ShutdownReturns
      BY <3>1 DEF BeginShutdown, ShutdownReturns
    <3>2. CASE Listen \/ ListenerFails \/ ShutdownTimesOut \/ ServeFails
      BY <3>2 DEF Listen, ListenerFails, ShutdownTimesOut, ServeFails
    <3>3. ASSUME NEW n \in Connections, Connect(n)
          PROVE  ~ inShutdown /\ UNCHANGED <<ctxDone, telegram, redirect, wait>>
      BY <3>3 DEF Connect, StopInv
    <3>4. ASSUME NEW n \in Connections, Disconnect(n) \/ Request(n) \/ Respond(n)
          PROVE  /\ UNCHANGED <<ctxDone, telegram, redirect, wait, inShutdown>>
                 /\ inShutdown => \A m \in Connections :
                                    ConnStage[conn'[m]] <= ConnStage[conn[m]]
      BY <3>4 DEF Disconnect, Request, Respond
    <3>5. CASE RedirectReports
      BY <3>5 DEF RedirectReports, Record
    <3> QED
      BY <2>4, <3>1, <3>2, <3>3, <3>4, <3>5 DEF HttpNext
  <2>5. CASE ServiceNext
    BY <2>5, ServiceKeepsLife DEF partVars
  <2>6. CASE MainNext
    <3>1. CASE MainWaits \/ MainDrained \/ MainCloses
      BY <3>1 DEF MainWaits, WaitCloses, MainDrained, WaitReturns, MainCloses, CloseStore,
                  partVars
    <3>2. ASSUME MainExits \/ AppCrash PROVE FALSE
      BY <3>2 DEF MainExits, AppCrash, Exit, Crash, Stop
    <3> QED
      BY <2>6, <3>1, <3>2 DEF MainNext
  <2>7. CASE AppRestart
    BY <2>7 DEF AppRestart, Restart
  <2> QED
    BY <2>1, <2>2, <2>3, <2>4, <2>5, <2>6, <2>7 DEF AppNext
<1>2. AppSpec => []PartsTypeOK
  BY InitPartsTypeOK, NextPartsTypeOK, PTL DEF AppSpec
<1> QED
  BY <1>1, <1>2, ServiceInvariance, StopInvariance, PTL DEF AppSpec

=============================================================================
