------------------------------- MODULE Redirect -------------------------------
(***************************************************************************)
(* The HTTP routes of internal/redirect/server.go over the store of the    *)
(* running process: GET /healthz and GET /{code}.  The handler keeps no    *)
(* state of its own, so it is the set of answers a path can get in a state *)
(* of Shortener; Resolve is the one statement it runs.                     *)
(***************************************************************************)
EXTENDS Shortener

CONSTANT Healthz   \* the path of the health check

OK            == [status |-> 200]
InternalError == [status |-> 500]
NotFound      == [status |-> 404]
Found(url)    == [status |-> 302, location |-> url]

\* Mutated form: the redirect is not limited to the row of the code.
GetAny(path) ==
    IF path = Healthz THEN {OK}
    ELSE {InternalError} \cup
         (IF ~storeOpen THEN {}
          ELSE IF Resolve(path) = {} THEN {NotFound}
          ELSE {Found(links[i].url) : i \in DOMAIN links})

\* A literal pattern of http.ServeMux wins over a wildcard, so the health check
\* takes its path whatever the table holds.  Resolve can fail at any time, and
\* always fails on a closed handle.
Get(path) ==
    IF path = Healthz THEN {OK}
    ELSE {InternalError} \cup
         (IF ~storeOpen THEN {}
          ELSE IF Resolve(path) = {} THEN {NotFound}
          ELSE {Found(links[i].url) : i \in Resolve(path)})

-----------------------------------------------------------------------------

\* A short link that a user was given redirects to the URL the user sent, for
\* ever: no other answer than a server error, across failures and restarts.
IssuedRedirects ==
    \A b \in issued : b.code # Healthz =>
        Get(b.code) \ {InternalError} = IF storeOpen THEN {Found(b.url)} ELSE {}

\* server.go says that GET /{code} is a redirect: so is that of every code given
\* to a user.
EveryIssuedRedirects ==
    \A b \in issued : storeOpen => Found(b.url) \in Get(b.code)

=============================================================================
