---------------------------- MODULE NativeCommand ----------------------------
(***************************************************************************)
(* What a scan may rely on when it runs a native command, without pipes,   *)
(* signals, deadlines or exceptions: a command runs with whatever it has   *)
(* forked and prints until its call has an outcome.  When the call accepts *)
(* the command has ended, and the output is all that was or will be        *)
(* printed; when it rejects the command has ended too.  A child may go on  *)
(* after any outcome, which is why Ratchet has orphans, but none forks or  *)
(* prints after the group was killed, and none prints into accepted output.*)
(***************************************************************************)
EXTENDS Naturals

CONSTANTS Leader, Children, MaxOutput

VARIABLES
    started,  \* the command was launched
    running,  \* the processes of its group that have not ended
    killed,   \* the group was killed
    printed,  \* how much was printed
    outcome,  \* "pending", then "accepted", "rejected" or "raised"
    output    \* how much of it the caller is given

commandVars == <<started, running, killed, printed, outcome, output>>

Pending == outcome = "pending"

Init ==
    /\ started = FALSE /\ running = {} /\ killed = FALSE
    /\ printed = 0
    /\ outcome = "pending" /\ output = 0

Launch ==
    /\ Pending /\ ~ started
    /\ started' = TRUE /\ running' = {Leader}
    /\ UNCHANGED <<killed, printed, outcome, output>>

\* A fork by one that runs; before the group was killed, if it was.
Fork(child) ==
    /\ running # {} /\ ~ killed
    /\ running' = running \cup {child}
    /\ UNCHANGED <<started, killed, printed, outcome, output>>

End(process) ==
    /\ process \in running
    /\ running' = running \ {process}
    /\ UNCHANGED <<started, killed, printed, outcome, output>>

Emit ==
    /\ running # {} /\ ~ killed
    /\ outcome # "accepted"
    /\ printed' = printed + 1
    /\ UNCHANGED <<started, running, killed, outcome, output>>

Kill ==
    /\ Pending /\ started
    /\ killed' = TRUE
    /\ UNCHANGED <<started, running, printed, outcome, output>>

Accept ==
    /\ Pending /\ started /\ Leader \notin running
    /\ printed <= MaxOutput
    /\ outcome' = "accepted" /\ output' = printed
    /\ UNCHANGED <<started, running, killed, printed>>

Reject ==
    /\ Pending /\ Leader \notin running
    /\ outcome' = "rejected"
    /\ UNCHANGED <<started, running, killed, printed, output>>

\* An interrupt, or a command that not even SIGKILL ends in time.
Raise ==
    /\ Pending /\ started
    /\ outcome' = "raised"
    /\ UNCHANGED <<started, running, killed, printed, output>>

Next ==
    \/ Launch \/ Emit \/ Kill \/ Accept \/ Reject \/ Raise
    \/ \E child \in Children : Fork(child)
    \/ \E process \in {Leader} \cup Children : End(process)

Spec == Init /\ [][Next]_commandVars
=============================================================================
