------------------------ MODULE BoundedProcessProofs ------------------------
(***************************************************************************)
(* The theorems about BoundedProcess: any number of children, any limit,   *)
(* any capacity of the pipe.                                               *)
(***************************************************************************)
EXTENDS BoundedProcess, TLAPS

\* The leader, its exit code, and who may still write.
ProcInv ==
    /\ exitCode # NoCode <=> proc[Leader] = "gone"
    /\ \A m \in writers : proc[m] \in {"running", "dying"}
    /\ reaped => proc[Leader] = "gone"
    /\ killed => \A m \in Group : ~ Running(m)
    /\ proc[Leader] = "none" =>
        /\ pc \in {"spawn", "rejected"} /\ ~ killed
        /\ \A m \in Group : proc[m] = "none"

\* Where the call may be with a leader that was waited for.
CallInv ==
    /\ pc \in {"term", "waitTerm", "kill", "waitKill", "waitLeader", "waitEnd"} /\ ~ raising
        => closed \/ timedOut \/ overflow
    /\ pc \in {"spawn", "loop", "select", "term", "waitTerm", "kill", "waitKill",
                "waitLeader", "waitEnd"} => ~ reaped
    /\ pc = "waitEnd" => closed
    /\ pc \in {"loop", "select", "finally"} => ~ closed
    /\ pc = "result" => closed /\ reaped /\ ~ raising
    /\ pc = "accepted" => reaped /\ ~ raising /\ closed
    /\ pc = "rejected" => proc[Leader] \in {"none", "gone"}
    /\ pc = "spawn" => ~ closed /\ ~ raising /\ proc[Leader] = "none"
    /\ pc \in {"loop", "select"} => ~ raising

\* Every chunk is in the pipe or was counted, and the output is cut only if it is said
\* to be too long.
OutputInv ==
    /\ size + pipe = written
    /\ size <= MaxOutput => kept = size
    /\ size > MaxOutput => overflow
    /\ (pc \in {"finally", "result", "waitEnd"} \/ closed) /\ ~ raising /\ ~ timedOut /\ ~ overflow
        /\ pc \notin {"rejected", "raised"}
        => pipe = 0 /\ writers = {}
    /\ pc = "accepted" => ~ timedOut /\ ~ overflow

IInv == TypeOK /\ ProcInv /\ CallInv /\ OutputInv
-----------------------------------------------------------------------------
LEMMA InitInv == Init => IInv
<1> SUFFICES ASSUME Init PROVE IInv
  OBVIOUS
<1>1. TypeOK
  <2>1. proc \in [Group -> {"none", "running", "dying", "gone"}]
    BY DEF Init
  <2>2. /\ exitCode \in ExitCodes \cup {NoCode} /\ writers \subseteq Group /\ pc \in Pc
        /\ pipe \in 0 .. Capacity /\ written \in Nat
        /\ size \in Nat /\ kept \in 0 .. MaxOutput
    BY BoundedProcessAssumption DEF Init, Pc
  <2> QED
    BY <2>1, <2>2 DEF Init, TypeOK
<1>2. ProcInv
  BY BoundedProcessAssumption DEF Init, ProcInv, Group, Running, ExitCodes
<1>3. CallInv
  BY DEF Init, CallInv, Group
<1>4. OutputInv
  BY BoundedProcessAssumption DEF Init, OutputInv
<1> QED
  BY <1>1, <1>2, <1>3, <1>4 DEF IInv

(* One lemma per part of the invariant; each takes the invariant before the step. *)
LEMMA TypeOKStep ==
    ASSUME IInv, [Next]_vars
    PROVE  TypeOK'
<1> USE BoundedProcessAssumption DEF IInv, TypeOK, ProcInv, CallInv, OutputInv, command, call, result, Group, Pc, ExitCodes, Running
<1>1. ASSUME NEW m \in Group, NEW child \in Children, Fork(m, child)
      PROVE  TypeOK'
  BY <1>1 DEF Fork
<1>2. ASSUME NEW m \in Group, CloseOutput(m)
      PROVE  TypeOK'
  BY <1>2 DEF CloseOutput
<1>3. ASSUME NEW m \in Group, Emit(m)
      PROVE  TypeOK'
  BY <1>3 DEF Emit
<1>4. ASSUME NEW m \in Group, Exit(m)
      PROVE  TypeOK'
  BY <1>4 DEF Exit
<1>5. CASE Spawn
  BY <1>5 DEF Spawn
<1>6. CASE LaunchFails
  BY <1>6 DEF LaunchFails
<1>7. CASE TimeRemains
  BY <1>7 DEF TimeRemains
<1>8. CASE TimeOut
  BY <1>8 DEF TimeOut
<1>9. CASE SelectNothing
  BY <1>9 DEF SelectNothing
<1>10. CASE Read
  BY <1>10 DEF Read, TooLong, Cut
<1>11. CASE ReadEnd
  BY <1>11 DEF ReadEnd
<1>12. CASE SendTerm
  BY <1>12 DEF SendTerm
<1>13. CASE WaitTerm
  BY <1>13 DEF WaitTerm, Wait, Return
<1>14. CASE SendKill
  BY <1>14 DEF SendKill
<1>15. CASE WaitKill
  BY <1>15 DEF WaitKill, Wait, Return
<1>16. CASE WaitLeader
  BY <1>16 DEF WaitLeader, Wait, Return
<1>17. CASE GiveUp
  BY <1>17 DEF GiveUp
<1>18. CASE Finally
  BY <1>18 DEF Finally
<1>19. CASE WaitEnd
  BY <1>19 DEF WaitEnd, Wait, Return
<1>20. CASE Result
  BY <1>20 DEF Result, Accepts
<1>21. CASE Expire
  BY <1>21 DEF Expire
<1>22. CASE Interrupt
  BY <1>22 DEF Interrupt, Ended
<1>23. CASE UNCHANGED vars
  BY <1>23 DEF vars
<1> QED
  BY <1>1, <1>2, <1>3, <1>4, <1>5, <1>6, <1>7, <1>8, <1>9, <1>10, <1>11, <1>12, <1>13, <1>14, <1>15, <1>16, <1>17, <1>18, <1>19, <1>20, <1>21, <1>22, <1>23 DEF Next, CallStep

LEMMA ProcInvStep ==
    ASSUME IInv, [Next]_vars
    PROVE  ProcInv'
<1> USE BoundedProcessAssumption DEF IInv, TypeOK, ProcInv, CallInv, OutputInv, command, call, result, Group, Pc, ExitCodes, Running
<1>1. ASSUME NEW m \in Group, NEW child \in Children, Fork(m, child)
      PROVE  ProcInv'
  BY <1>1 DEF Fork
<1>2. ASSUME NEW m \in Group, CloseOutput(m)
      PROVE  ProcInv'
  BY <1>2 DEF CloseOutput
<1>3. ASSUME NEW m \in Group, Emit(m)
      PROVE  ProcInv'
  BY <1>3 DEF Emit
<1>4. ASSUME NEW m \in Group, Exit(m)
      PROVE  ProcInv'
  BY <1>4 DEF Exit
<1>5. CASE Spawn
  BY <1>5 DEF Spawn
<1>6. CASE LaunchFails
  BY <1>6 DEF LaunchFails
<1>7. CASE TimeRemains
  BY <1>7 DEF TimeRemains
<1>8. CASE TimeOut
  BY <1>8 DEF TimeOut
<1>9. CASE SelectNothing
  BY <1>9 DEF SelectNothing
<1>10. CASE Read
  BY <1>10 DEF Read, TooLong, Cut
<1>11. CASE ReadEnd
  BY <1>11 DEF ReadEnd
<1>12. CASE SendTerm
  BY <1>12 DEF SendTerm
<1>13. CASE WaitTerm
  BY <1>13 DEF WaitTerm, Wait, Return
<1>14. CASE SendKill
  BY <1>14 DEF SendKill
<1>15. CASE WaitKill
  BY <1>15 DEF WaitKill, Wait, Return
<1>16. CASE WaitLeader
  BY <1>16 DEF WaitLeader, Wait, Return
<1>17. CASE GiveUp
  BY <1>17 DEF GiveUp
<1>18. CASE Finally
  BY <1>18 DEF Finally
<1>19. CASE WaitEnd
  BY <1>19 DEF WaitEnd, Wait, Return
<1>20. CASE Result
  BY <1>20 DEF Result, Accepts
<1>21. CASE Expire
  BY <1>21 DEF Expire
<1>22. CASE Interrupt
  BY <1>22 DEF Interrupt, Ended
<1>23. CASE UNCHANGED vars
  BY <1>23 DEF vars
<1> QED
  BY <1>1, <1>2, <1>3, <1>4, <1>5, <1>6, <1>7, <1>8, <1>9, <1>10, <1>11, <1>12, <1>13, <1>14, <1>15, <1>16, <1>17, <1>18, <1>19, <1>20, <1>21, <1>22, <1>23 DEF Next, CallStep

LEMMA CallInvStep ==
    ASSUME IInv, [Next]_vars
    PROVE  CallInv'
<1> USE BoundedProcessAssumption DEF IInv, TypeOK, ProcInv, CallInv, OutputInv, command, call, result, Group, Pc, ExitCodes, Running
<1>1. ASSUME NEW m \in Group, NEW child \in Children, Fork(m, child)
      PROVE  CallInv'
  BY <1>1 DEF Fork
<1>2. ASSUME NEW m \in Group, CloseOutput(m)
      PROVE  CallInv'
  BY <1>2 DEF CloseOutput
<1>3. ASSUME NEW m \in Group, Emit(m)
      PROVE  CallInv'
  BY <1>3 DEF Emit
<1>4. ASSUME NEW m \in Group, Exit(m)
      PROVE  CallInv'
  BY <1>4 DEF Exit
<1>5. CASE Spawn
  BY <1>5 DEF Spawn
<1>6. CASE LaunchFails
  BY <1>6 DEF LaunchFails
<1>7. CASE TimeRemains
  BY <1>7 DEF TimeRemains
<1>8. CASE TimeOut
  BY <1>8 DEF TimeOut
<1>9. CASE SelectNothing
  BY <1>9 DEF SelectNothing
<1>10. CASE Read
  <2>1. /\ pc = "select" /\ pc' = IF overflow' THEN "term" ELSE "loop"
        /\ UNCHANGED <<closed, reaped, raising, proc, timedOut>>
    BY <1>10 DEF Read
  <2> QED
    BY <2>1
<1>11. CASE ReadEnd
  BY <1>11 DEF ReadEnd
<1>12. CASE SendTerm
  BY <1>12 DEF SendTerm
<1>13. CASE WaitTerm
  BY <1>13 DEF WaitTerm, Wait, Return
<1>14. CASE SendKill
  BY <1>14 DEF SendKill
<1>15. CASE WaitKill
  BY <1>15 DEF WaitKill, Wait, Return
<1>16. CASE WaitLeader
  BY <1>16 DEF WaitLeader, Wait, Return
<1>17. CASE GiveUp
  BY <1>17 DEF GiveUp
<1>18. CASE Finally
  BY <1>18 DEF Finally
<1>19. CASE WaitEnd
  BY <1>19 DEF WaitEnd, Wait, Return
<1>20. CASE Result
  BY <1>20 DEF Result, Accepts
<1>21. CASE Expire
  BY <1>21 DEF Expire
<1>22. CASE Interrupt
  BY <1>22 DEF Interrupt, Ended
<1>23. CASE UNCHANGED vars
  BY <1>23 DEF vars
<1> QED
  BY <1>1, <1>2, <1>3, <1>4, <1>5, <1>6, <1>7, <1>8, <1>9, <1>10, <1>11, <1>12, <1>13, <1>14, <1>15, <1>16, <1>17, <1>18, <1>19, <1>20, <1>21, <1>22, <1>23 DEF Next, CallStep

LEMMA OutputInvStep ==
    ASSUME IInv, [Next]_vars
    PROVE  OutputInv'
<1> USE BoundedProcessAssumption DEF IInv, TypeOK, ProcInv, CallInv, OutputInv, command, call, result, Group, Pc, ExitCodes, Running
<1>1. ASSUME NEW m \in Group, NEW child \in Children, Fork(m, child)
      PROVE  OutputInv'
  BY <1>1 DEF Fork
<1>2. ASSUME NEW m \in Group, CloseOutput(m)
      PROVE  OutputInv'
  BY <1>2 DEF CloseOutput
<1>3. ASSUME NEW m \in Group, Emit(m)
      PROVE  OutputInv'
  BY <1>3 DEF Emit
<1>4. ASSUME NEW m \in Group, Exit(m)
      PROVE  OutputInv'
  BY <1>4 DEF Exit
<1>5. CASE Spawn
  BY <1>5 DEF Spawn
<1>6. CASE LaunchFails
  BY <1>6 DEF LaunchFails
<1>7. CASE TimeRemains
  BY <1>7 DEF TimeRemains
<1>8. CASE TimeOut
  BY <1>8 DEF TimeOut
<1>9. CASE SelectNothing
  BY <1>9 DEF SelectNothing
<1>10. CASE Read
  <2>1. PICK chunk \in 1 .. pipe :
            /\ pipe' = pipe - chunk
            /\ size' = size + chunk
            /\ kept' = kept + Cut(chunk, MaxOutput - kept)
    BY <1>10 DEF Read
  <2>2. /\ size' + pipe' = written'
        /\ size' <= MaxOutput => kept' = size'
    BY <1>10, <2>1 DEF Read, Cut
  <2>3. size' > MaxOutput => overflow'
    BY <1>10 DEF Read, TooLong
  <2>4. pc' \in {"term", "loop"} /\ ~ closed'
    BY <1>10 DEF Read
  <2> QED
    BY <2>2, <2>3, <2>4
<1>11. CASE ReadEnd
  BY <1>11 DEF ReadEnd
<1>12. CASE SendTerm
  BY <1>12 DEF SendTerm
<1>13. CASE WaitTerm
  BY <1>13 DEF WaitTerm, Wait, Return
<1>14. CASE SendKill
  BY <1>14 DEF SendKill
<1>15. CASE WaitKill
  BY <1>15 DEF WaitKill, Wait, Return
<1>16. CASE WaitLeader
  BY <1>16 DEF WaitLeader, Wait, Return
<1>17. CASE GiveUp
  BY <1>17 DEF GiveUp
<1>18. CASE Finally
  BY <1>18 DEF Finally
<1>19. CASE WaitEnd
  BY <1>19 DEF WaitEnd, Wait, Return
<1>20. CASE Result
  BY <1>20 DEF Result, Accepts
<1>21. CASE Expire
  BY <1>21 DEF Expire
<1>22. CASE Interrupt
  BY <1>22 DEF Interrupt, Ended
<1>23. CASE UNCHANGED vars
  BY <1>23 DEF vars
<1> QED
  BY <1>1, <1>2, <1>3, <1>4, <1>5, <1>6, <1>7, <1>8, <1>9, <1>10, <1>11, <1>12, <1>13, <1>14, <1>15, <1>16, <1>17, <1>18, <1>19, <1>20, <1>21, <1>22, <1>23 DEF Next, CallStep

LEMMA Invariance == Spec => []IInv
<1>1. IInv /\ [Next]_vars => IInv'
  BY TypeOKStep, ProcInvStep, CallInvStep, OutputInvStep DEF IInv
<1> QED
  BY InitInv, <1>1, PTL DEF Spec

\* Type correctness: the output that is kept never exceeds the limit, nor the pipe its
\* capacity.
THEOREM BoundedProcessTypeCorrect == Spec => []TypeOK
<1>1. IInv => TypeOK
  BY DEF IInv
<1> QED
  BY Invariance, <1>1, PTL

\* Output that _run_process_bytes accepts is complete.
THEOREM OutputComplete == Spec => []AcceptedWhole
<1>1. IInv => AcceptedWhole
  BY BoundedProcessAssumption DEF IInv, TypeOK, CallInv, OutputInv, AcceptedWhole
<1> QED
  BY Invariance, <1>1, PTL

\* _terminate_process_group never signals a group whose number may be given away.
THEOREM OwnGroupSignalled == Spec => []SignalsOwnGroup
<1>1. IInv => SignalsOwnGroup
  BY DEF IInv, CallInv, SignalsOwnGroup
<1> QED
  BY Invariance, <1>1, PTL

\* _run_bounded_process leaves no running command behind a result, and no running child
\* behind SIGKILL.
THEOREM CommandEnds == Spec => []CommandStopped
<1>1. IInv => CommandStopped
  BY DEF IInv, ProcInv, CallInv, CommandStopped
<1> QED
  BY Invariance, <1>1, PTL

-----------------------------------------------------------------------------
(* Why CallReturns needs nothing of the command: a variant of the call.  At *)
(* every stage before the end a step of the call is possible, whatever the  *)
(* processes do, so with the fairness of FairSpec the call ends.            *)

Stage ==
    [spawn |-> 9, select |-> 9, loop |-> 8, waitEnd |-> 7, term |-> 6, waitTerm |-> 5,
     kill |-> 4, waitKill |-> 3, waitLeader |-> 2, result |-> 1, finally |-> 0]

\* The most steps the call still takes once the deadline has passed; before the finally
\* clause a whole termination may come twice.
Remaining == IF Ended THEN 0 ELSE Stage[pc] + (IF closed THEN 0 ELSE 10)

\* After the deadline every step of the call brings its end nearer, and no step of the
\* command, of a child or of an interrupt takes it back: neither output without end nor
\* a child that holds the pipe keeps _run_bounded_process in its loop.
EndComesNearer ==
    expired => /\ Remaining' <= Remaining
               /\ CallStep => Remaining' < Remaining

LEMMA RemainingFalls ==
    ASSUME IInv, expired, CallStep
    PROVE  Remaining' < Remaining
<1> USE DEF IInv, TypeOK, CallInv, Pc, Ended, Stage, Remaining
<1>1. CASE Spawn
  BY <1>1 DEF Spawn
<1>2. CASE LaunchFails
  BY <1>2 DEF LaunchFails
<1>3. CASE TimeRemains
  BY <1>3 DEF TimeRemains
<1>4. CASE TimeOut
  BY <1>4 DEF TimeOut
<1>5. CASE SelectNothing
  BY <1>5 DEF SelectNothing
<1>6. CASE Read
  BY <1>6 DEF Read
<1>7. CASE ReadEnd
  BY <1>7 DEF ReadEnd
<1>8. CASE SendTerm
  BY <1>8 DEF SendTerm
<1>9. CASE WaitTerm
  BY <1>9 DEF WaitTerm, Wait, Return
<1>10. CASE SendKill
  BY <1>10 DEF SendKill
<1>11. CASE WaitKill
  BY <1>11 DEF WaitKill, Wait, Return
<1>12. CASE WaitLeader
  BY <1>12 DEF WaitLeader, Wait, Return
<1>13. CASE GiveUp
  BY <1>13 DEF GiveUp
<1>14. CASE Finally
  BY <1>14 DEF Finally
<1>15. CASE WaitEnd
  BY <1>15 DEF WaitEnd, Wait, Return
<1>16. CASE Result
  BY <1>16 DEF Result
<1> QED
  BY <1>1, <1>2, <1>3, <1>4, <1>5, <1>6, <1>7, <1>8, <1>9, <1>10, <1>11, <1>12, <1>13,
     <1>14, <1>15, <1>16 DEF CallStep

LEMMA RemainingIsNat == IInv => Remaining \in Nat
  BY DEF IInv, TypeOK, Pc, Ended, Stage, Remaining

\* A step of anything but the call leaves it where it is, or is an interrupt.
LEMMA RemainingStays ==
    ASSUME IInv, [Next]_vars, ~ CallStep
    PROVE  Remaining' <= Remaining
<1>1. CASE UNCHANGED <<pc, closed>>
  BY <1>1, RemainingIsNat DEF Remaining, Ended
<1>2. CASE Interrupt
  BY <1>2 DEF Interrupt, IInv, TypeOK, CallInv, Pc, Ended, Stage, Remaining
<1>3. \/ UNCHANGED <<pc, closed>>
      \/ Interrupt
  BY DEF Next, Fork, CloseOutput, Emit, Exit, Expire, vars, call
<1> QED
  BY <1>1, <1>2, <1>3

\* Once its deadline has passed, a call of _run_bounded_process is over after at most 19
\* steps of its own, whatever the command and its children do and however many there are.
THEOREM DeadlineBoundsCall ==
    Spec => [](Remaining \in Nat) /\ [][EndComesNearer]_vars
<1>1. IInv /\ [Next]_vars => [EndComesNearer]_vars
  <2> SUFFICES ASSUME IInv, [Next]_vars, expired
               PROVE  /\ Remaining' <= Remaining
                      /\ CallStep => Remaining' < Remaining
    BY DEF EndComesNearer
  <2>1. CASE CallStep
    <3>1. IInv'
      BY TypeOKStep, ProcInvStep, CallInvStep, OutputInvStep DEF IInv
    <3>2. Remaining' < Remaining /\ Remaining \in Nat /\ Remaining' \in Nat
      <4>1. Remaining' \in Nat
        BY <3>1 DEF IInv, TypeOK, Pc, Ended, Stage, Remaining
      <4> QED
        BY <2>1, <4>1, RemainingFalls, RemainingIsNat
    <3> QED
      BY <3>2
  <2>2. CASE ~ CallStep
    BY <2>2, RemainingStays
  <2> QED
    BY <2>1, <2>2
<1> QED
  BY Invariance, RemainingIsNat, <1>1, PTL DEF Spec

-----------------------------------------------------------------------------
(* The call is the command that a scan relies on.                          *)

LEMMA InitNative == Init => Native!Init
  BY BoundedProcessAssumption
     DEF Init, Native!Init, Started, Alive, Outcome, Ended, Group

\* Steps of the command and its children.
LEMMA GroupStepNative ==
    ASSUME IInv, IInv',
           \/ \E m \in Group : CloseOutput(m) \/ Emit(m) \/ Exit(m)
           \/ \E m \in Group, child \in Children : Fork(m, child)
    PROVE  [Native!Next]_(Native!commandVars)
<1> USE DEF Started, Alive, Outcome, Ended, call, result, Running
<1>1. proc \in [Group -> {"none", "running", "dying", "gone"}] /\ Leader \in Group
  BY DEF IInv, TypeOK, Group
<1>2. ASSUME NEW m \in Group, CloseOutput(m)
      PROVE  UNCHANGED Native!commandVars
  BY <1>2 DEF CloseOutput, Native!commandVars
<1>3. ASSUME NEW m \in Group, Emit(m)
      PROVE  Native!Emit
  <2>1. m \in Alive /\ ~ killed
    BY <1>3 DEF Emit, IInv, ProcInv
  <2>2. pc # "accepted"
    BY <1>3 DEF Emit, IInv, CallInv
  <2> QED
    BY <1>3, <2>1, <2>2 DEF Emit, Native!Emit
<1>4. ASSUME NEW m \in Group, Exit(m)
      PROVE  Native!End(m)
  <2>1. /\ m \in Alive /\ Alive' = Alive \ {m}
        /\ (proc[Leader] # "none") <=> (proc'[Leader] # "none")
    BY <1>1, <1>4 DEF Exit
  <2>2. UNCHANGED <<written, pc, kept, killed>>
    BY <1>4 DEF Exit
  <2> QED
    BY <2>1, <2>2 DEF Native!End
<1>5. ASSUME NEW m \in Group, NEW child \in Children, Fork(m, child)
      PROVE  Native!Fork(child)
  <2>1. m \in Alive /\ ~ killed /\ child \in Group /\ child # Leader
    BY <1>5, BoundedProcessAssumption DEF Fork, IInv, ProcInv, Group
  <2>2. /\ Alive' = Alive \cup {child}
        /\ (proc[Leader] # "none") <=> (proc'[Leader] # "none")
    BY <1>1, <1>5, <2>1 DEF Fork
  <2>3. UNCHANGED <<written, pc, kept, killed>>
    BY <1>5 DEF Fork
  <2> QED
    BY <2>1, <2>2, <2>3 DEF Native!Fork
<1> QED
  BY <1>2, <1>3, <1>4, <1>5 DEF Native!Next, Group

\* Steps of the call: they launch the command, kill its group, and give the outcome.
LEMMA CallStepNative ==
    ASSUME IInv, IInv', CallStep \/ Interrupt
    PROVE  [Native!Next]_(Native!commandVars)
<1> USE DEF Started, Alive, Outcome, Ended
<1>1. proc \in [Group -> {"none", "running", "dying", "gone"}] /\ Leader \in Group
  BY DEF IInv, TypeOK, Group
\* A step that only moves the call.
<1> DEFINE Moves == /\ UNCHANGED <<proc, written, killed>>
                    /\ ~ Ended /\ pc' \notin {"accepted", "rejected"}
<1>2. ASSUME Moves PROVE [Native!Next]_(Native!commandVars)
  <2>1. CASE pc' # "raised"
    BY <1>2, <2>1 DEF Native!commandVars
  <2>2. CASE pc' = "raised"
    <3>1. proc[Leader] # "none"
      BY <1>2, <2>2 DEF IInv, ProcInv
    <3> QED
      BY <1>2, <2>2, <3>1 DEF Native!Next, Native!Raise, Native!Pending
  <2> QED
    BY <2>1, <2>2
<1>3. CASE Spawn
  <2>1. Alive = {} /\ ~ Started
    BY <1>3 DEF Spawn, IInv, ProcInv, CallInv
  <2>2. Alive' = {Leader} /\ Started'
    BY <1>1, <1>3, <2>1 DEF Spawn
  <2> QED
    BY <1>3, <2>1, <2>2 DEF Spawn, result, Native!Next, Native!Launch, Native!Pending
<1>4. CASE LaunchFails
  <2>1. Leader \notin Alive
    BY <1>4 DEF LaunchFails, IInv, CallInv
  <2> QED
    BY <1>4, <2>1 DEF LaunchFails, command, result, Native!Next, Native!Reject, Native!Pending
<1>5. CASE TimeRemains \/ TimeOut \/ SelectNothing \/ Read \/ ReadEnd
  <2>1. Moves
    BY <1>5 DEF TimeRemains, TimeOut, SelectNothing, Read, ReadEnd, command
  <2> QED
    BY <1>2, <2>1
<1>6. CASE SendTerm \/ WaitTerm \/ WaitKill \/ WaitLeader \/ GiveUp \/ Finally \/ WaitEnd
  <2>1. Moves
    BY <1>6 DEF SendTerm, WaitTerm, WaitKill, WaitLeader, GiveUp, Finally, WaitEnd, Wait, Return,
                command
  <2> QED
    BY <1>2, <2>1
<1>7. CASE SendKill
  <2>1. Alive' = Alive /\ (proc[Leader] # "none") /\ (proc'[Leader] # "none")
    BY <1>1, <1>7 DEF SendKill, Running, IInv, ProcInv
  <2> QED
    BY <1>7, <2>1 DEF SendKill, result, Native!Next, Native!Kill, Native!Pending
<1>8. CASE Result
  <2>1. Leader \notin Alive /\ proc[Leader] # "none"
    BY <1>8 DEF Result, IInv, ProcInv, CallInv
  <2>2. CASE Accepts
    <3>1. kept = written /\ kept <= MaxOutput
      BY <1>8, <2>2, BoundedProcessAssumption
         DEF Result, Accepts, IInv, TypeOK, CallInv, OutputInv
    <3> QED
      BY <1>8, <2>1, <2>2, <3>1
         DEF Result, command, result, Native!Next, Native!Accept, Native!Pending
  <2>3. CASE ~ Accepts
    BY <1>8, <2>1, <2>3 DEF Result, command, result, Native!Next, Native!Reject, Native!Pending
  <2> QED
    BY <2>2, <2>3
<1>9. CASE Interrupt
  <2>1. Moves
    BY <1>9 DEF Interrupt, command
  <2> QED
    BY <1>2, <2>1
<1> QED
  BY <1>3, <1>4, <1>5, <1>6, <1>7, <1>8, <1>9 DEF CallStep

\* Everything that Ratchet assumes of a native command follows from
\* _run_bounded_process and _terminate_process_group.
THEOREM NativeRefinement == Spec => ImplementsNativeCommand
<1>1. IInv /\ IInv' /\ [Next]_vars => [Native!Next]_(Native!commandVars)
  <2> SUFFICES ASSUME IInv, IInv', [Next]_vars
               PROVE  [Native!Next]_(Native!commandVars)
    OBVIOUS
  <2>1. CASE UNCHANGED vars \/ Expire
    BY <2>1 DEF vars, Expire, command, call, result, Native!commandVars, Started, Alive, Outcome,
                Ended
  <2> QED
    BY <2>1, GroupStepNative, CallStepNative DEF Next
<1> QED
  BY InitNative, Invariance, <1>1, PTL DEF Spec, ImplementsNativeCommand, Native!Spec
=============================================================================
