--------------------------------- MODULE App ---------------------------------
(***************************************************************************)
(* The process around the service: main.run starts the Telegram bot        *)
(* (telegram.Run) and the HTTP server (redirect.Run) on one context, waits *)
(* for both, then drains the title fetches and closes the store            *)
(* (Shortener).  A signal or the failure of one part cancels the context.  *)
(*                                                                         *)
(* Two libraries are modelled from how the code uses them:                 *)
(*  - go-telegram/bot starts a goroutine per update and does not wait for  *)
(*    it when Start returns, so a handler can run after that;              *)
(*  - net/http serves a connection until it is closed: Shutdown closes the *)
(*    idle ones and waits for the active ones; a listener that fails on    *)
(*    its own closes none of them.                                         *)
(***************************************************************************)
EXTENDS Redirect

CONSTANTS
    Connections,   \* client connections of the HTTP server
    NoError        \* firstErr while it is nil

ASSUME AppAssumption == NoError \notin {"telegram", "redirect"}

VARIABLES
    signalled,   \* history: SIGINT or SIGTERM was received
    ctxDone,     \* the context the parts run on is cancelled
    telegram,    \* how far telegram.Run is
    redirect,    \* how far redirect.Run is
    listener,    \* the listening socket of the HTTP server
    inShutdown,  \* srv.Shutdown was called
    conn,        \* the client connections
    dispatched,  \* the handler goroutines the bot has started
    firstErr,    \* the part whose error run returns
    exit         \* history: how the process ended

lifeVars == <<signalled, ctxDone, firstErr, exit>>
botVars  == <<telegram, dispatched>>
httpVars == <<redirect, listener, inShutdown, conn>>
partVars == <<lifeVars, botVars, httpVars>>
appVars  == <<vars, partVars>>

\* starting: tgbot.New, SetMyCommands.  polling: in Start.  failed: about to
\* report an error.  stopped: returned nil.  reported: returned an error.
TelegramPc == {"starting", "polling", "failed", "stopped", "reported"}

\* serving: in the select.  shutdown: in srv.Shutdown.
RedirectPc == {"serving", "shutdown", "failed", "stopped", "reported"}

PartsTypeOK ==
    /\ signalled \in BOOLEAN
    /\ ctxDone \in BOOLEAN
    /\ telegram \in TelegramPc
    /\ redirect \in RedirectPc
    /\ listener \in {"starting", "open", "failed", "closed"}
    /\ inShutdown \in BOOLEAN
    /\ conn \in [Connections -> {"none", "idle", "active"}]
    /\ dispatched \subseteq Callers
    /\ firstErr \in {NoError, "telegram", "redirect"}
    /\ exit \in {"none", "clean", "error", "crash"}

AppInit ==
    /\ Init
    /\ signalled = FALSE
    /\ ctxDone = FALSE
    /\ telegram = "starting"
    /\ redirect = "serving"
    /\ listener = "starting"
    /\ inShutdown = FALSE
    /\ conn = [n \in Connections |-> "none"]
    /\ dispatched = {}
    /\ firstErr = NoError
    /\ exit = "none"

Ended(part) == part \in {"stopped", "reported"}

-----------------------------------------------------------------------------
(* The context, and launch: a part that returns an error records it if it  *)
(* is the first, and cancels the context of both.                          *)

Signal ==
    /\ ~signalled
    /\ signalled' = TRUE
    /\ ctxDone' = TRUE
    /\ UNCHANGED <<firstErr, exit, botVars, httpVars, vars>>

\* Mutated form: the error is recorded but the context is not cancelled.
RecordOnly(part) ==
    /\ firstErr' = IF firstErr = NoError THEN part ELSE firstErr
    /\ UNCHANGED <<signalled, ctxDone, exit, vars>>

\* Mutated form: the error is dropped.
CancelOnly(part) ==
    /\ ctxDone' = TRUE
    /\ UNCHANGED <<signalled, firstErr, exit, vars>>

Record(part) ==
    /\ firstErr' = IF firstErr = NoError THEN part ELSE firstErr
    /\ ctxDone' = TRUE
    /\ UNCHANGED <<signalled, exit, vars>>

-----------------------------------------------------------------------------
(* telegram.Run.                                                           *)

\* tgbot.New checks the token, for 5 s at most and not under ctx.
BotFails ==
    /\ telegram = "starting"
    /\ telegram' = "failed"
    /\ UNCHANGED <<dispatched, lifeVars, httpVars, vars>>

BotStarts ==
    /\ telegram = "starting"
    /\ telegram' = "polling"
    /\ UNCHANGED <<dispatched, lifeVars, httpVars, vars>>

\* The bot starts the goroutine of a handler.
Dispatch(c) ==
    /\ telegram = "polling"
    /\ c \notin dispatched
    /\ call[c].pc = "idle"
    /\ dispatched' = dispatched \cup {c}
    /\ UNCHANGED <<telegram, lifeVars, httpVars, vars>>

\* The handler gets to Shorten, now or after everything has stopped.
HandlerShortens(c) ==
    /\ c \in dispatched
    /\ Shorten(c)
    /\ dispatched' = dispatched \ {c}
    /\ UNCHANGED <<telegram, lifeVars, httpVars>>

\* Start returns when ctx is cancelled.
BotStops ==
    /\ telegram = "polling"
    /\ ctxDone
    /\ telegram' = "stopped"
    /\ UNCHANGED <<dispatched, lifeVars, httpVars, vars>>

BotReports ==
    /\ telegram = "failed"
    /\ telegram' = "reported"
    /\ Record("telegram")
    /\ UNCHANGED <<dispatched, httpVars>>

-----------------------------------------------------------------------------
(* redirect.Run and the server it runs.                                    *)

\* net.Listen succeeds, and Serve begins unless Shutdown was called before it.
Listen ==
    /\ listener = "starting"
    /\ listener' = IF inShutdown THEN "closed" ELSE "open"
    /\ UNCHANGED <<redirect, inShutdown, conn, lifeVars, botVars, vars>>

\* net.Listen, the certificates, or a later Accept fails: errCh <- err.
ListenerFails ==
    /\ listener \in {"starting", "open"}
    /\ listener' = "failed"
    /\ UNCHANGED <<redirect, inShutdown, conn, lifeVars, botVars, vars>>

Connect(n) ==
    /\ listener = "open"
    /\ conn[n] = "none"
    /\ conn' = [conn EXCEPT ![n] = "idle"]
    /\ UNCHANGED <<redirect, listener, inShutdown, lifeVars, botVars, vars>>

\* By the client, an idle timeout, or Shutdown.
Disconnect(n) ==
    /\ conn[n] = "idle"
    /\ conn' = [conn EXCEPT ![n] = "none"]
    /\ UNCHANGED <<redirect, listener, inShutdown, lifeVars, botVars, vars>>

\* A request arrives on an open connection: its handler is about to run Resolve.
Request(n) ==
    /\ conn[n] = "idle"
    /\ conn' = [conn EXCEPT ![n] = "active"]
    /\ UNCHANGED <<redirect, listener, inShutdown, lifeVars, botVars, vars>>

\* The answer is written; a server in shutdown does not keep the connection.
Respond(n) ==
    /\ conn[n] = "active"
    /\ conn' = [conn EXCEPT ![n] = IF inShutdown THEN "none" ELSE "idle"]
    /\ UNCHANGED <<redirect, listener, inShutdown, lifeVars, botVars, vars>>

\* case <-ctx.Done(): srv.Shutdown closes the listener.
BeginShutdown ==
    /\ redirect = "serving"
    /\ ctxDone
    /\ redirect' = "shutdown"
    /\ inShutdown' = TRUE
    /\ listener' = IF listener = "open" THEN "closed" ELSE listener
    /\ UNCHANGED <<conn, lifeVars, botVars, vars>>

\* Mutated form: Run returns without waiting for the connections.
ShutdownAtOnce ==
    /\ redirect = "shutdown"
    /\ redirect' = "stopped"
    /\ UNCHANGED <<listener, inShutdown, conn, lifeVars, botVars, vars>>

ShutdownReturns ==
    /\ redirect = "shutdown"
    /\ \A n \in Connections : conn[n] = "none"
    /\ redirect' = "stopped"
    /\ UNCHANGED <<listener, inShutdown, conn, lifeVars, botVars, vars>>

\* shutdownTimeout has passed and a connection is still active.
ShutdownTimesOut ==
    /\ redirect = "shutdown"
    /\ \E n \in Connections : conn[n] = "active"
    /\ redirect' = "failed"
    /\ UNCHANGED <<listener, inShutdown, conn, lifeVars, botVars, vars>>

\* case err := <-errCh, with the error of the listener; with ctx done too the
\* select takes either case.
ServeFails ==
    /\ redirect = "serving"
    /\ listener = "failed"
    /\ redirect' = "failed"
    /\ UNCHANGED <<listener, inShutdown, conn, lifeVars, botVars, vars>>

RedirectReports ==
    /\ redirect = "failed"
    /\ redirect' = "reported"
    /\ Record("redirect")
    /\ UNCHANGED <<listener, inShutdown, conn, botVars>>

-----------------------------------------------------------------------------
(* main.                                                                   *)

\* Mutated form: wg.Wait waits for the bot only.
MainWaitsForBot ==
    /\ Ended(telegram)
    /\ WaitCloses(Main)
    /\ UNCHANGED <<callVars, partVars>>

\* wg.Wait has returned: the deferred calls begin with svc.Wait.
MainWaits ==
    /\ Ended(telegram)
    /\ Ended(redirect)
    /\ WaitCloses(Main)
    /\ UNCHANGED <<callVars, partVars>>

MainDrained == WaitReturns(Main) /\ UNCHANGED <<callVars, partVars>>

\* Mutated form: the store is closed before svc.Wait has returned.
MainClosesEarly ==
    /\ wait[Main] = "waiting"
    /\ Close
    /\ UNCHANGED <<fetchVars, callVars, partVars>>

MainCloses == CloseStore /\ UNCHANGED partVars

\* What the end of the process leaves of the parts, and of their history.
PartsGone ==
    /\ dispatched' = {}
    /\ conn' = [n \in Connections |-> "none"]
    /\ UNCHANGED <<signalled, ctxDone, telegram, redirect, listener, inShutdown,
                   firstErr>>

\* main exits with status 1 when run returned an error.
MainExits ==
    /\ Exit
    /\ exit' = IF firstErr = NoError THEN "clean" ELSE "error"
    /\ PartsGone

AppCrash == Crash /\ exit' = "crash" /\ PartsGone

AppRestart ==
    /\ Restart
    /\ signalled' = FALSE
    /\ ctxDone' = FALSE
    /\ telegram' = "starting"
    /\ redirect' = "serving"
    /\ listener' = "starting"
    /\ inShutdown' = FALSE
    /\ conn' = [n \in Connections |-> "none"]
    /\ dispatched' = {}
    /\ firstErr' = NoError
    /\ exit' = "none"

-----------------------------------------------------------------------------

BotNext ==
    \/ BotFails \/ BotStarts \/ BotStops \/ BotReports
    \/ \E c \in Callers : Dispatch(c) \/ HandlerShortens(c)

HttpNext ==
    \/ Listen \/ ListenerFails
    \/ \E n \in Connections : Connect(n) \/ Disconnect(n) \/ Request(n) \/ Respond(n)
    \/ BeginShutdown \/ ShutdownReturns \/ ShutdownTimesOut
    \/ ServeFails \/ RedirectReports

ServiceNext ==
    /\ \/ \E c \in Callers : CallStep(c)
       \/ \E code \in Codes : FetchStep(code) /\ UNCHANGED callVars
    /\ UNCHANGED partVars

MainNext == MainWaits \/ MainDrained \/ MainCloses \/ MainExits \/ AppCrash

AppNext ==
    \/ up /\ (Signal \/ BotNext \/ HttpNext \/ ServiceNext \/ MainNext)
    \/ AppRestart

AppSpec == AppInit /\ [][AppNext]_appVars

(* Fairness.  tgbot.New has a timeout of its own; a select with a ready    *)
(* case takes one; Shutdown closes idle connections until none is left or  *)
(* its 10 s are over; the fetches and main's deferred calls are those of   *)
(* Shortener.  Clients, users, signals and failures owe nothing.           *)

AppFairness ==
    /\ WF_appVars(up /\ (BotFails \/ BotStarts))
    /\ WF_appVars(up /\ BotStops)
    /\ WF_appVars(up /\ BotReports)
    /\ WF_appVars(up /\ (BeginShutdown \/ ServeFails))
    /\ \A n \in Connections : WF_appVars(up /\ inShutdown /\ Disconnect(n))
    /\ WF_appVars(up /\ (ShutdownReturns \/ ShutdownTimesOut))
    /\ WF_appVars(up /\ RedirectReports)
    /\ \A code \in Codes :
          WF_appVars(up /\ FetchStep(code) /\ UNCHANGED <<callVars, partVars>>)
    /\ WF_appVars(up /\ MainWaits)
    /\ WF_appVars(up /\ MainDrained)
    /\ WF_appVars(up /\ MainCloses)
    /\ WF_appVars(up /\ MainExits)

FairAppSpec == AppSpec /\ AppFairness

-----------------------------------------------------------------------------

\* The type invariant of the process.
AppTypeOK == TypeOK /\ PartsTypeOK

\* No HTTP request is left on a closed store, unless redirect.Run had to give
\* up on it: its 10 s for a graceful shutdown passed, or its listener failed.
RequestsBeforeClose ==
    up /\ ~storeOpen =>
        \/ redirect = "reported"
        \/ redirect = "stopped" /\ \A n \in Connections : conn[n] # "active"

\* The process ends with status 0 only when it was told to end: a part that
\* fails, in whatever order with the other and with a signal, makes it 1.
CleanExitAfterSignal == exit = "clean" => signalled

\* The parts stop together: once the context is cancelled or a part has failed,
\* whatever requests, handlers and fetches are under way, the process ends.
StopsTogether ==
    (ctxDone \/ telegram = "failed" \/ redirect = "failed" \/ listener = "failed")
        ~> ~up

\* Inside the process the service does only what Shortener allows: main calls
\* Wait once, closes the store after it, and the bot's handlers call Shorten.
ImplementsShortener == Spec

=============================================================================
