--------------------------- MODULE BoundedProcess ---------------------------
(***************************************************************************)
(* How the ratchet runs a command: _run_bounded_process starts it in a     *)
(* session of its own, reads what it prints up to a limit and a deadline,  *)
(* and _terminate_process_group stops it and the processes it has started. *)
(* The command, its children, the clock and the interrupt are the          *)
(* environment: processes print, close their output, ignore SIGTERM, fork  *)
(* and exit as they like.  Output is counted in chunks; a read takes some. *)
(***************************************************************************)
EXTENDS Integers

CONSTANTS
    Leader,      \* the process that is started
    Children,    \* processes that it or its children fork into its group
    MaxOutput,   \* max_output_bytes
    Capacity,    \* chunks that the pipe holds
    NoCode       \* the exit code of a process that has not ended

Group == {Leader} \cup Children
ExitCodes == {"success", "failure"}

ASSUME BoundedProcessAssumption ==
    /\ Leader \notin Children
    /\ MaxOutput \in Nat /\ Capacity \in Nat \ {0}
    /\ NoCode \notin ExitCodes

VARIABLES
    proc,      \* each process: "none", "running", "dying" of SIGKILL, or "gone"
    exitCode,  \* of the leader
    writers,   \* the processes that have the write end of the pipe open
    pipe,      \* chunks in the pipe
    written,   \* chunks ever printed
    expired,   \* the deadline has passed
    pc,        \* how far the call is
    closed,    \* the finally clause has closed the read end of the pipe
    reaped,    \* the leader was waited for: its pid may name another process
    size,      \* output_size
    kept,      \* len(output)
    timedOut,
    overflow,
    raising,   \* an exception is on its way out
    killed     \* history: SIGKILL was sent to the group

command == <<proc, exitCode, writers, pipe, written>>
call == <<pc, closed, reaped, raising>>
result == <<size, kept, timedOut, overflow>>
vars == <<command, call, result, expired, killed>>

Running(m) == proc[m] = "running"
Ended == pc \in {"accepted", "rejected", "raised"}

Init ==
    /\ proc = [m \in Group |-> "none"] /\ exitCode = NoCode
    /\ writers = {} /\ pipe = 0 /\ written = 0
    /\ expired = FALSE
    /\ pc = "spawn" /\ closed = FALSE /\ reaped = FALSE /\ raising = FALSE
    /\ size = 0 /\ kept = 0 /\ timedOut = FALSE /\ overflow = FALSE
    /\ killed = FALSE

-----------------------------------------------------------------------------
(* The command and its children.                                           *)

\* A child has the files and the group of its parent.
Fork(m, child) ==
    /\ Running(m) /\ proc[child] = "none"
    /\ proc' = [proc EXCEPT ![child] = "running"]
    /\ writers' = writers \cup (IF m \in writers THEN {child} ELSE {})
    /\ UNCHANGED <<exitCode, pipe, written, call, result, expired, killed>>

CloseOutput(m) ==
    /\ Running(m) /\ m \in writers
    /\ writers' = writers \ {m}
    /\ UNCHANGED <<proc, exitCode, pipe, written, call, result, expired, killed>>

\* A writer blocks while the pipe is full, and cannot write once nobody reads.
Emit(m) ==
    /\ Running(m) /\ m \in writers
    /\ ~ closed /\ pipe < Capacity
    /\ pipe' = pipe + 1 /\ written' = written + 1
    /\ UNCHANGED <<proc, exitCode, writers, call, result, expired, killed>>

\* On its own, of a signal it does not ignore, or, some time later, of SIGKILL.
Exit(m) ==
    /\ proc[m] \in {"running", "dying"}
    /\ proc' = [proc EXCEPT ![m] = "gone"]
    /\ writers' = writers \ {m}
    /\ \/ m = Leader /\ exitCode' = "failure"
       \/ m = Leader /\ Running(m) /\ exitCode' = "success"
       \/ m # Leader /\ UNCHANGED exitCode
    /\ UNCHANGED <<pipe, written, call, result, expired, killed>>

Expire ==
    /\ ~ expired /\ pc # "spawn"
    /\ expired' = TRUE
    /\ UNCHANGED <<command, call, result, killed>>

-----------------------------------------------------------------------------
(* _run_bounded_process: the loop over the output.                         *)

Spawn ==
    /\ pc = "spawn"
    /\ proc' = [proc EXCEPT ![Leader] = "running"]
    /\ writers' = {Leader}
    /\ pc' = "loop"
    /\ UNCHANGED <<exitCode, pipe, written, closed, reaped, raising, result, expired, killed>>

\* OSError: the result says launch_failed.
LaunchFails ==
    /\ pc = "spawn"
    /\ pc' = "rejected"
    /\ UNCHANGED <<command, closed, reaped, raising, result, expired, killed>>

TimeRemains ==
    /\ pc = "loop" /\ ~ expired
    /\ pc' = "select"
    /\ UNCHANGED <<command, closed, reaped, raising, result, expired, killed>>

TimeOut ==
    /\ pc = "loop" /\ expired
    /\ timedOut' = TRUE
    /\ pc' = "term"
    /\ UNCHANGED <<command, closed, reaped, raising, size, kept, overflow, expired, killed>>

\* Mutated form: select waits until there is something to read.
SelectForEver == FALSE /\ UNCHANGED vars

\* select waits no longer than 0.1 s or until the deadline.
SelectNothing ==
    /\ pc = "select" /\ pipe = 0 /\ writers # {}
    /\ pc' = "loop"
    /\ UNCHANGED <<command, closed, reaped, raising, result, expired, killed>>

\* Mutated form: the limit is compared with what was kept.
KeptTooLong(total, length) == length > MaxOutput

TooLong(total, length) == total > MaxOutput

\* Mutated form: a chunk is kept whole while there is room.
Uncut(chunk, room) == IF room > 0 THEN chunk ELSE 0

Cut(chunk, room) == IF chunk <= room THEN chunk ELSE room

Read ==
    /\ pc = "select"
    /\ \E chunk \in 1 .. pipe :
        /\ pipe' = pipe - chunk
        /\ size' = size + chunk
        /\ kept' = kept + Cut(chunk, MaxOutput - kept)
    /\ overflow' = TooLong(size', kept')
    /\ pc' = IF overflow' THEN "term" ELSE "loop"
    /\ UNCHANGED <<proc, exitCode, writers, written, closed, reaped, raising, timedOut, expired, killed>>

ReadEnd ==
    /\ pc = "select" /\ pipe = 0 /\ writers = {}
    /\ pc' = "finally"
    /\ UNCHANGED <<command, closed, reaped, raising, result, expired, killed>>

-----------------------------------------------------------------------------
(* _terminate_process_group.                                               *)

\* Where the end of the termination leads: the loop's to the finally clause, that of
\* the finally clause to the result.
Return == IF ~ closed THEN "finally" ELSE IF raising THEN "raised" ELSE "result"

\* wait(timeout): the leader is reaped, or still there when the grace is over.
Wait(at, otherwise) ==
    /\ pc = at
    /\ \/ /\ proc[Leader] = "gone"
          /\ reaped' = TRUE /\ pc' = Return
       \/ /\ proc[Leader] # "gone"
          /\ pc' = otherwise /\ UNCHANGED reaped
    /\ UNCHANGED <<command, closed, raising, result, expired, killed>>

\* Who does not ignore the signal exits, some time later.
SendTerm ==
    /\ pc = "term"
    /\ pc' = "waitTerm"
    /\ UNCHANGED <<command, closed, reaped, raising, result, expired, killed>>

\* Mutated form: who ignores SIGTERM is left alone.
WaitTermOnly == Wait("waitTerm", Return)

WaitTerm == Wait("waitTerm", "kill")

\* Mutated form: process.kill() instead of os.killpg().
SendKillToLeader ==
    /\ pc = "kill"
    /\ proc' = [proc EXCEPT ![Leader] = IF Running(Leader) THEN "dying" ELSE @]
    /\ killed' = TRUE
    /\ pc' = "waitKill"
    /\ UNCHANGED <<exitCode, writers, pipe, written, closed, reaped, raising, result, expired>>

SendKill ==
    /\ pc = "kill"
    /\ proc' = [m \in Group |-> IF Running(m) THEN "dying" ELSE proc[m]]
    /\ killed' = TRUE
    /\ pc' = "waitKill"
    /\ UNCHANGED <<exitCode, writers, pipe, written, closed, reaped, raising, result, expired>>

\* process.kill() then sends the leader what it has been sent before.
WaitKill == Wait("waitKill", "waitLeader")

WaitLeader ==
    /\ proc[Leader] = "gone"
    /\ Wait("waitLeader", Return)

\* TimeoutExpired leaves the function.
GiveUp ==
    /\ pc = "waitLeader" /\ proc[Leader] # "gone"
    /\ raising' = TRUE
    /\ pc' = IF closed THEN "raised" ELSE "finally"
    /\ UNCHANGED <<command, closed, reaped, result, expired, killed>>

-----------------------------------------------------------------------------
(* The finally clause and the result.                                      *)

\* Mutated form: the group is terminated whether or not the leader has ended.
TerminateAnyway ==
    /\ pc = "finally"
    /\ closed' = TRUE
    /\ reaped' = (proc[Leader] = "gone")
    /\ pc' = "term"
    /\ UNCHANGED <<command, raising, result, expired, killed>>

Finally ==
    /\ pc = "finally"
    /\ closed' = TRUE
    /\ reaped' = (proc[Leader] = "gone")
    /\ pc' = IF ~ reaped' THEN "waitEnd" ELSE IF raising THEN "raised" ELSE "result"
    /\ UNCHANGED <<command, raising, result, expired, killed>>

WaitEnd == Wait("waitEnd", "term")

\* _run_process_bytes and _run_native_slopo: everything else is an error.
Accepts == ~ overflow /\ ~ timedOut /\ exitCode = "success"

Result ==
    /\ pc = "result"
    /\ pc' = IF Accepts THEN "accepted" ELSE "rejected"
    /\ UNCHANGED <<command, closed, reaped, raising, result, expired, killed>>

\* KeyboardInterrupt: the wait it cuts short may have reaped the leader.
Interrupt ==
    /\ ~ Ended /\ pc \notin {"spawn", "result"}
    /\ raising' = TRUE
    /\ pc' = IF closed THEN "raised" ELSE "finally"
    /\ reaped' \in {reaped, proc[Leader] = "gone"}
    /\ UNCHANGED <<command, closed, result, expired, killed>>

CallStep ==
    \/ Spawn \/ LaunchFails
    \/ TimeRemains \/ TimeOut \/ SelectNothing \/ Read \/ ReadEnd
    \/ SendTerm \/ WaitTerm \/ SendKill \/ WaitKill \/ WaitLeader \/ GiveUp
    \/ Finally \/ WaitEnd \/ Result

Next ==
    \/ CallStep
    \/ \E m \in Group : CloseOutput(m) \/ Emit(m) \/ Exit(m)
    \/ \E m \in Group, child \in Children : Fork(m, child)
    \/ Expire \/ Interrupt

Spec == Init /\ [][Next]_vars

\* The ratchet and the clock go on.  Nothing makes a process print, close its output,
\* or exit, not even of SIGKILL.
FairSpec == Spec /\ WF_vars(CallStep) /\ WF_vars(Expire)

-----------------------------------------------------------------------------
(* Properties.                                                             *)

Pc == {"spawn", "loop", "select", "term", "waitTerm", "kill", "waitKill", "waitLeader",
       "finally", "waitEnd", "result", "accepted", "rejected", "raised"}

TypeOK ==
    /\ proc \in [Group -> {"none", "running", "dying", "gone"}]
    /\ exitCode \in ExitCodes \cup {NoCode}
    /\ writers \subseteq Group
    /\ pipe \in 0 .. Capacity /\ written \in Nat
    /\ pc \in Pc
    /\ closed \in BOOLEAN /\ reaped \in BOOLEAN /\ raising \in BOOLEAN
    /\ size \in Nat /\ kept \in 0 .. MaxOutput
    /\ timedOut \in BOOLEAN /\ overflow \in BOOLEAN
    /\ expired \in BOOLEAN /\ killed \in BOOLEAN

\* Output that is accepted is all that the command and its children have printed and
\* will ever print, although it is cut at the limit and a child may outlive the leader.
AcceptedWhole ==
    pc = "accepted" => kept = written /\ writers = {}

\* A signal goes to the group of the command only while its leader has not been waited
\* for: afterwards the number can be the group of a stranger.
SignalsOwnGroup ==
    pc \in {"term", "kill"} => ~ reaped

\* A call with a result has ended its command, also one that ignores SIGTERM, or that
\* runs on after it has closed its output.  Where SIGTERM was not enough nothing of the
\* group runs on, not even what it forked meanwhile.
CommandStopped ==
    pc \in {"accepted", "rejected"} =>
        /\ proc[Leader] \in {"none", "gone"}
        /\ killed => \A m \in Group : ~ Running(m)

\* A call ends although nothing makes its command, or a child that holds the pipe, end.
CallReturns == <>Ended
-----------------------------------------------------------------------------
(* The call is the command that a scan relies on.                          *)

Started == proc[Leader] # "none"
Alive == {m \in Group : proc[m] \in {"running", "dying"}}
Outcome == IF Ended THEN pc ELSE "pending"

Native == INSTANCE NativeCommand
    WITH started <- Started, running <- Alive, printed <- written,
         outcome <- Outcome, output <- IF pc = "accepted" THEN kept ELSE 0

\* What a scan sees of a call: the command has ended before its output is accepted or
\* refused, accepted output is all there will ever be, though it is cut at the limit and
\* a child may outlive the leader, and a killed group neither forks nor prints.
ImplementsNativeCommand == Native!Spec
=============================================================================
