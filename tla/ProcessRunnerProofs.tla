------------------------ MODULE ProcessRunnerProofs ------------------------
(***************************************************************************)
(* Proofs about ProcessRunner, for any number of descendants and streams   *)
(* and any sizes of pipes and captures.                                    *)
(***************************************************************************)
EXTENDS ProcessRunner, TLAPS

\* The steps at which the command may run without having been decided on,
\* and those that come after a SIGKILL if it still runs.
Deciding == {"poll", "decide"}
AfterKill == {"wait", "last", "drain", "render", "result", "ended"}

\* The leader is launched once, into its own group, and whatever still runs
\* after the grace period has been sent SIGKILL.
LifeInv ==
    /\ At("launch") => life[Leader] = "unborn" /\ signalled = {}
    /\ life[Leader] = "unborn" => pc \in {"launch", "ended"}
    /\ Running(Leader) => Leader \in group
    /\ At("join") => ~Running(Leader)
    /\ pc \in AfterKill /\ Running(Leader) => Leader \in killed

\* While nothing but the command itself has ended the loop, the leader has
\* not been signalled, nor can it be: it is gone.
BlameInv ==
    /\ category = "none" => Leader \notin signalled
    /\ category = "none" /\ Running(Leader) => pc \in Deciding \cup {"escaped"}
    /\ pc \in Deciding \cup {"launch"} => category = "none"
    /\ category # "NONZERO"
    /\ category = "TIMEOUT" => expired
    /\ category = "CANCELLED" => asked
    /\ expired => limited

\* There is a result exactly when the loop has ended, and it stays.
ResultInv ==
    /\ result # "none" <=> At("ended")
    /\ HasResult => verdict \in {category, "NONZERO"}
    /\ HasResult /\ verdict = "NONZERO" => category = "none"
    /\ result = "not launched" => ~Launched \/ category = "NO_THREADS"
    /\ call # "none" => Launched /\ category # "NO_THREADS"
    /\ ClosedIsClosed

\* A collector keeps what it has read up to the limit, and knows when there
\* was more; one that has ended has read all that can ever be written.
CaptureInv ==
    /\ pc \in {"join", "render"} => Launched /\ category # "NO_THREADS"
    /\ \A s \in Streams :
          /\ value[s] = IF taken[s] <= Limit THEN taken[s] ELSE Limit
          /\ s \in truncated <=> taken[s] > Limit
    /\ Launched /\ category # "NO_THREADS" =>
          \A s \in Streams \ reading : holding = {} /\ taken[s] = written[s]

IInv == TypeOK /\ LifeInv /\ BlameInv /\ ResultInv /\ CaptureInv

\* The initial states satisfy the invariant.
LEMMA Initially == Init => IInv
<1> SUFFICES ASSUME Init PROVE IInv
  OBVIOUS
<1> USE DEF Init
<1>1. FlagsType
  BY Zenon DEF FlagsType
<1>2. SystemType
  BY DEF SystemType, Running
<1>3. PipesType
  BY RunnerAssumptions DEF PipesType
<1>4. LoopType
  BY DEF LoopType, Labels, Categories
<1>5. LifeInv
  BY DEF LifeInv, Running, At, AfterKill, Procs
<1>6. BlameInv
  BY DEF BlameInv, Running, At, Deciding, Procs
<1>7. ResultInv
  BY DEF ResultInv, ClosedIsClosed, HasResult, At, Launched, Procs
<1>8. CaptureInv
  BY RunnerAssumptions DEF CaptureInv, At, Launched, Procs
<1> QED
  BY <1>1, <1>2, <1>3, <1>4, <1>5, <1>6, <1>7, <1>8 DEF IInv, TypeOK

\* The flags stay Booleans.
LEMMA FlagsTypesStep ==
    ASSUME IInv, [Next]_vars
    PROVE  FlagsType'
<1> USE RunnerAssumptions DEF IInv, TypeOK, FlagsType, LoopType, Labels, At,
    Goto
<1>1. CASE Launch
  BY <1>1, Zenon DEF Launch, system, others, pipes, plan, outcome, loop,
      requests, caller
<1>2. CASE Poll
  BY <1>2, Zenon DEF Poll, Reaped, system, others, pipes, plan, outcome, loop,
      requests, caller
<1>3. CASE Decide
  BY <1>3, Zenon DEF Decide, system, others, pipes, plan, outcome, loop,
      requests, caller
<1>4. CASE JoinCollectors
  BY <1>4, Zenon DEF JoinCollectors, system, others, pipes, plan, outcome,
      loop, requests, caller
<1>5. CASE Terminate
  BY <1>5, Zenon DEF Terminate, Signal, system, others, pipes, plan, outcome,
      loop, requests, caller
<1>6. CASE Grace
  BY <1>6, Zenon DEF Grace, Awaits, Reaped, Signal, system, others, pipes,
      plan, outcome, loop, requests, caller
<1>7. CASE AwaitExit
  BY <1>7, Zenon DEF AwaitExit, Awaits, Reaped, Signal, system, others, pipes,
      plan, outcome, loop, requests, caller
<1>8. CASE AwaitExitAgain
  BY <1>8, Zenon DEF AwaitExitAgain, Awaits, Reaped, Signal, system, others,
      pipes, plan, outcome, loop, requests, caller
<1>9. CASE DrainCollectors
  BY <1>9, Zenon DEF DrainCollectors, system, others, pipes, plan, outcome,
      loop, requests, caller
<1>10. CASE Render
  BY <1>10, Zenon DEF Render, Reaped, system, others, pipes, plan, outcome,
      loop, requests, caller
<1>11. CASE Finish
  BY <1>11, Zenon DEF Finish, Classify, system, others, pipes, plan, outcome,
      loop, requests, caller
<1>12. CASE Interrupt
  BY <1>12, Zenon DEF Interrupt, Launched, system, others, pipes, plan,
      outcome, loop, requests, caller
<1>13. CASE Expire
  BY <1>13, Zenon DEF Expire, system, others, pipes, plan, outcome, loop,
      requests, caller
<1>14. CASE Cancel
  BY <1>14, Zenon DEF Cancel, system, others, pipes, plan, outcome, loop,
      requests, caller
<1>15. CASE Wait
  BY <1>15, Zenon DEF Wait, Starts, Returns, Launched, system, others, pipes,
      plan, outcome, loop, requests, caller
<1>16. CASE Close
  BY <1>16, Zenon DEF Close, Starts, Returns, Reaped, Launched, system, others,
      pipes, plan, outcome, loop, requests, caller
<1>17. CASE WaitForOutput
  BY <1>17, Zenon DEF WaitForOutput, Starts, Returns, Reaped, Launched, system,
      others, pipes, plan, outcome, loop, requests, caller
<1>18. ASSUME NEW s \in Streams, Read(s)
      PROVE  FlagsType'
  BY <1>18, Zenon DEF Read, Kept, Pending, system, others, pipes, plan,
      outcome, loop, requests, caller
<1>19. ASSUME NEW s \in Streams, EndOfFile(s)
      PROVE  FlagsType'
  BY <1>19, Zenon DEF EndOfFile, Pending, system, others, pipes, plan, outcome,
      loop, requests, caller
<1>20. ASSUME NEW s \in Streams, NEW p \in Procs, Write(p, s)
      PROVE  FlagsType'
  BY <1>20, Zenon DEF Write, Pending, system, others, pipes, plan, outcome,
      loop, requests, caller
<1>21. ASSUME NEW p \in Procs, Exit(p)
      PROVE  FlagsType'
  BY <1>21, Zenon DEF Exit, system, others, pipes, plan, outcome, loop,
      requests, caller
<1>22. ASSUME NEW p \in Procs, NEW child \in Descendants, Fork(p, child)
      PROVE  FlagsType'
  BY <1>22, Zenon DEF Fork, system, others, pipes, plan, outcome, loop,
      requests, caller
<1>23. CASE UNCHANGED vars
  BY <1>23, Zenon DEF vars, system, others, pipes, plan, outcome, loop,
      requests, caller
<1> QED
  BY <1>1, <1>2, <1>3, <1>4, <1>5, <1>6, <1>7, <1>8, <1>9, <1>10, <1>11, <1>12,
      <1>13, <1>14, <1>15, <1>16, <1>17, <1>18, <1>19, <1>20, <1>21, <1>22,
      <1>23
  DEF Next, Loop, Method, Collect

\* Only members of the group are signalled, and only running processes hold
\* the pipes.
LEMMA SystemTypesStep ==
    ASSUME IInv, [Next]_vars
    PROVE  SystemType'
<1> USE RunnerAssumptions DEF IInv, TypeOK, FlagsType, SystemType, Procs,
    Running, At, Goto
<1>1. CASE Launch
  <2>1. signalled' = signalled /\ killed' = killed /\ exitcode' = exitcode
    BY <1>1 DEF Launch
  <2>2. CASE UNCHANGED <<life, group, holding>>
    BY <2>1, <2>2
  <2>3. CASE /\ life' = [life EXCEPT ![Leader] = "running"]
             /\ group' = {Leader} /\ holding' = {Leader}
    <3>1. signalled = {}
      BY <1>1 DEF Launch, LifeInv
    <3> QED
      BY <2>1, <2>3, <3>1
  <2> QED
    BY <1>1, <2>2, <2>3 DEF Launch
<1>2. CASE Poll
  BY <1>2 DEF Poll, Reaped, system, others, pipes, plan, outcome, loop,
      requests, caller
<1>3. CASE Decide
  BY <1>3 DEF Decide, system, others, pipes, plan, outcome, loop, requests,
      caller
<1>4. CASE JoinCollectors
  BY <1>4 DEF JoinCollectors, system, others, pipes, plan, outcome, loop,
      requests, caller
<1>5. CASE Terminate
  BY <1>5 DEF Terminate, Signal, system, others, pipes, plan, outcome, loop,
      requests, caller
<1>6. CASE Grace
  BY <1>6 DEF Grace, Awaits, Reaped, Signal, system, others, pipes, plan,
      outcome, loop, requests, caller
<1>7. CASE AwaitExit
  BY <1>7 DEF AwaitExit, Awaits, Reaped, Signal, system, others, pipes, plan,
      outcome, loop, requests, caller
<1>8. CASE AwaitExitAgain
  BY <1>8 DEF AwaitExitAgain, Awaits, Reaped, Signal, system, others, pipes,
      plan, outcome, loop, requests, caller
<1>9. CASE DrainCollectors
  BY <1>9 DEF DrainCollectors, system, others, pipes, plan, outcome, loop,
      requests, caller
<1>10. CASE Render
  BY <1>10 DEF Render, Reaped, system, others, pipes, plan, outcome, loop,
      requests, caller
<1>11. CASE Finish
  BY <1>11 DEF Finish, Classify, system, others, pipes, plan, outcome, loop,
      requests, caller
<1>12. CASE Interrupt
  BY <1>12 DEF Interrupt, Launched, system, others, pipes, plan, outcome, loop,
      requests, caller
<1>13. CASE Expire
  BY <1>13 DEF Expire, system, others, pipes, plan, outcome, loop, requests,
      caller
<1>14. CASE Cancel
  BY <1>14 DEF Cancel, system, others, pipes, plan, outcome, loop, requests,
      caller
<1>15. CASE Wait
  BY <1>15 DEF Wait, Starts, Returns, Launched, system, others, pipes, plan,
      outcome, loop, requests, caller
<1>16. CASE Close
  BY <1>16 DEF Close, Starts, Returns, Reaped, Launched, system, others, pipes,
      plan, outcome, loop, requests, caller
<1>17. CASE WaitForOutput
  BY <1>17 DEF WaitForOutput, Starts, Returns, Reaped, Launched, system,
      others, pipes, plan, outcome, loop, requests, caller
<1>18. ASSUME NEW s \in Streams, Read(s)
      PROVE  SystemType'
  BY <1>18 DEF Read, Kept, Pending, system, others, pipes, plan, outcome, loop,
      requests, caller
<1>19. ASSUME NEW s \in Streams, EndOfFile(s)
      PROVE  SystemType'
  BY <1>19 DEF EndOfFile, Pending, system, others, pipes, plan, outcome, loop,
      requests, caller
<1>20. ASSUME NEW s \in Streams, NEW p \in Procs, Write(p, s)
      PROVE  SystemType'
  BY <1>20 DEF Write, Pending, system, others, pipes, plan, outcome, loop,
      requests, caller
<1>21. ASSUME NEW p \in Procs, Exit(p)
      PROVE  SystemType'
  BY <1>21 DEF Exit, system, others, pipes, plan, outcome, loop, requests,
      caller
<1>22. ASSUME NEW p \in Procs, NEW child \in Descendants, Fork(p, child)
      PROVE  SystemType'
  BY <1>22 DEF Fork, system, others, pipes, plan, outcome, loop, requests,
      caller
<1>23. CASE UNCHANGED vars
  BY <1>23 DEF vars, system, others, pipes, plan, outcome, loop, requests,
      caller
<1> QED
  BY <1>1, <1>2, <1>3, <1>4, <1>5, <1>6, <1>7, <1>8, <1>9, <1>10, <1>11, <1>12,
      <1>13, <1>14, <1>15, <1>16, <1>17, <1>18, <1>19, <1>20, <1>21, <1>22,
      <1>23
  DEF Next, Loop, Method, Collect

\* A collector never reads what was not written and never keeps more than
\* the limit.
LEMMA PipesTypesStep ==
    ASSUME IInv, [Next]_vars
    PROVE  PipesType'
<1> USE RunnerAssumptions DEF IInv, TypeOK, FlagsType, SystemType, PipesType,
    Running, At, Goto
<1>1. CASE Launch
  BY <1>1 DEF Launch, system, others, pipes, plan, outcome, loop, requests,
      caller
<1>2. CASE Poll
  BY <1>2 DEF Poll, Reaped, system, others, pipes, plan, outcome, loop,
      requests, caller
<1>3. CASE Decide
  BY <1>3 DEF Decide, system, others, pipes, plan, outcome, loop, requests,
      caller
<1>4. CASE JoinCollectors
  BY <1>4 DEF JoinCollectors, system, others, pipes, plan, outcome, loop,
      requests, caller
<1>5. CASE Terminate
  BY <1>5 DEF Terminate, Signal, system, others, pipes, plan, outcome, loop,
      requests, caller
<1>6. CASE Grace
  BY <1>6 DEF Grace, Awaits, Reaped, Signal, system, others, pipes, plan,
      outcome, loop, requests, caller
<1>7. CASE AwaitExit
  BY <1>7 DEF AwaitExit, Awaits, Reaped, Signal, system, others, pipes, plan,
      outcome, loop, requests, caller
<1>8. CASE AwaitExitAgain
  BY <1>8 DEF AwaitExitAgain, Awaits, Reaped, Signal, system, others, pipes,
      plan, outcome, loop, requests, caller
<1>9. CASE DrainCollectors
  BY <1>9 DEF DrainCollectors, system, others, pipes, plan, outcome, loop,
      requests, caller
<1>10. CASE Render
  BY <1>10 DEF Render, Reaped, system, others, pipes, plan, outcome, loop,
      requests, caller
<1>11. CASE Finish
  BY <1>11 DEF Finish, Classify, system, others, pipes, plan, outcome, loop,
      requests, caller
<1>12. CASE Interrupt
  BY <1>12 DEF Interrupt, Launched, system, others, pipes, plan, outcome, loop,
      requests, caller
<1>13. CASE Expire
  BY <1>13 DEF Expire, system, others, pipes, plan, outcome, loop, requests,
      caller
<1>14. CASE Cancel
  BY <1>14 DEF Cancel, system, others, pipes, plan, outcome, loop, requests,
      caller
<1>15. CASE Wait
  BY <1>15 DEF Wait, Starts, Returns, Launched, system, others, pipes, plan,
      outcome, loop, requests, caller
<1>16. CASE Close
  BY <1>16 DEF Close, Starts, Returns, Reaped, Launched, system, others, pipes,
      plan, outcome, loop, requests, caller
<1>17. CASE WaitForOutput
  BY <1>17 DEF WaitForOutput, Starts, Returns, Reaped, Launched, system,
      others, pipes, plan, outcome, loop, requests, caller
<1>18. ASSUME NEW s \in Streams, Read(s)
      PROVE  PipesType'
  BY <1>18 DEF Read, Kept, Pending, system, others, pipes, plan, outcome, loop,
      requests, caller
<1>19. ASSUME NEW s \in Streams, EndOfFile(s)
      PROVE  PipesType'
  BY <1>19 DEF EndOfFile, Pending, system, others, pipes, plan, outcome, loop,
      requests, caller
<1>20. ASSUME NEW s \in Streams, NEW p \in Procs, Write(p, s)
      PROVE  PipesType'
  BY <1>20 DEF Write, Pending, system, others, pipes, plan, outcome, loop,
      requests, caller
<1>21. ASSUME NEW p \in Procs, Exit(p)
      PROVE  PipesType'
  BY <1>21 DEF Exit, system, others, pipes, plan, outcome, loop, requests,
      caller
<1>22. ASSUME NEW p \in Procs, NEW child \in Descendants, Fork(p, child)
      PROVE  PipesType'
  BY <1>22 DEF Fork, system, others, pipes, plan, outcome, loop, requests,
      caller
<1>23. CASE UNCHANGED vars
  BY <1>23 DEF vars, system, others, pipes, plan, outcome, loop, requests,
      caller
<1> QED
  BY <1>1, <1>2, <1>3, <1>4, <1>5, <1>6, <1>7, <1>8, <1>9, <1>10, <1>11, <1>12,
      <1>13, <1>14, <1>15, <1>16, <1>17, <1>18, <1>19, <1>20, <1>21, <1>22,
      <1>23
  DEF Next, Loop, Method, Collect

\* The loop and the methods keep to their labels; wait() finds a result.
LEMMA LoopTypesStep ==
    ASSUME IInv, [Next]_vars
    PROVE  LoopType'
<1> USE RunnerAssumptions DEF IInv, TypeOK, FlagsType, LoopType, LifeInv,
    ResultInv, At, Goto
<1>1. CASE Launch
  BY <1>1 DEF Labels, Categories, Launch, system, others, pipes, plan, outcome,
      loop, requests, caller
<1>2. CASE Poll
  BY <1>2 DEF Labels, Categories, Poll, Reaped, system, others, pipes, plan,
      outcome, loop, requests, caller
<1>3. CASE Decide
  BY <1>3 DEF Labels, Categories, Decide, system, others, pipes, plan, outcome,
      loop, requests, caller
<1>4. CASE JoinCollectors
  BY <1>4 DEF Labels, Categories, JoinCollectors, system, others, pipes, plan,
      outcome, loop, requests, caller
<1>5. CASE Terminate
  BY <1>5 DEF Labels, Categories, Terminate, Signal, system, others, pipes,
      plan, outcome, loop, requests, caller
<1>6. CASE Grace
  BY <1>6 DEF Labels, Categories, Grace, Awaits, Reaped, Signal, system,
      others, pipes, plan, outcome, loop, requests, caller
<1>7. CASE AwaitExit
  BY <1>7 DEF Labels, Categories, AwaitExit, Awaits, Reaped, Signal, system,
      others, pipes, plan, outcome, loop, requests, caller
<1>8. CASE AwaitExitAgain
  BY <1>8 DEF Labels, Categories, AwaitExitAgain, Awaits, Reaped, Signal,
      system, others, pipes, plan, outcome, loop, requests, caller
<1>9. CASE DrainCollectors
  BY <1>9 DEF Labels, Categories, DrainCollectors, system, others, pipes, plan,
      outcome, loop, requests, caller
<1>10. CASE Render
  BY <1>10 DEF Labels, Categories, Render, Reaped, system, others, pipes, plan,
      outcome, loop, requests, caller
<1>11. CASE Finish
  BY <1>11 DEF Labels, Categories, Finish, Classify, system, others, pipes,
      plan, outcome, loop, requests, caller
<1>12. CASE Interrupt
  BY <1>12 DEF Labels, Categories, Interrupt, Launched, system, others, pipes,
      plan, outcome, loop, requests, caller
<1>13. CASE Expire
  BY <1>13 DEF Expire, system, others, pipes, plan, outcome, loop, requests,
      caller
<1>14. CASE Cancel
  BY <1>14 DEF Cancel, system, others, pipes, plan, outcome, loop, requests,
      caller
<1>15. CASE Wait
  BY <1>15 DEF Wait, Starts, Returns, Launched, system, others, pipes, plan,
      outcome, loop, requests, caller
<1>16. CASE Close
  BY <1>16 DEF Close, Starts, Returns, Reaped, Launched, system, others, pipes,
      plan, outcome, loop, requests, caller
<1>17. CASE WaitForOutput
  BY <1>17 DEF WaitForOutput, Starts, Returns, Reaped, Launched, system,
      others, pipes, plan, outcome, loop, requests, caller
<1>18. ASSUME NEW s \in Streams, Read(s)
      PROVE  LoopType'
  BY <1>18 DEF Read, Kept, Pending, system, others, pipes, plan, outcome, loop,
      requests, caller
<1>19. ASSUME NEW s \in Streams, EndOfFile(s)
      PROVE  LoopType'
  BY <1>19 DEF EndOfFile, Pending, system, others, pipes, plan, outcome, loop,
      requests, caller
<1>20. ASSUME NEW s \in Streams, NEW p \in Procs, Write(p, s)
      PROVE  LoopType'
  BY <1>20 DEF Write, Pending, system, others, pipes, plan, outcome, loop,
      requests, caller
<1>21. ASSUME NEW p \in Procs, Exit(p)
      PROVE  LoopType'
  BY <1>21 DEF Exit, system, others, pipes, plan, outcome, loop, requests,
      caller
<1>22. ASSUME NEW p \in Procs, NEW child \in Descendants, Fork(p, child)
      PROVE  LoopType'
  BY <1>22 DEF Fork, system, others, pipes, plan, outcome, loop, requests,
      caller
<1>23. CASE UNCHANGED vars
  BY <1>23 DEF vars, system, others, pipes, plan, outcome, loop, requests,
      caller
<1> QED
  BY <1>1, <1>2, <1>3, <1>4, <1>5, <1>6, <1>7, <1>8, <1>9, <1>10, <1>11, <1>12,
      <1>13, <1>14, <1>15, <1>16, <1>17, <1>18, <1>19, <1>20, <1>21, <1>22,
      <1>23
  DEF Next, Loop, Method, Collect

\* Every step keeps LifeInv: only the end of the grace period leads to the
\* steps after SIGKILL.
LEMMA LifeStep ==
    ASSUME IInv, [Next]_vars
    PROVE  LifeInv'
<1> USE RunnerAssumptions DEF IInv, TypeOK, FlagsType, SystemType, LifeInv,
    Procs, Running, At, Goto, Deciding, AfterKill
<1>1. CASE Launch
  BY <1>1 DEF Launch, system, others, pipes, plan, outcome, loop, requests,
      caller
<1>2. CASE Poll
  BY <1>2 DEF Poll, Reaped, system, others, pipes, plan, outcome, loop,
      requests, caller
<1>3. CASE Decide
  BY <1>3 DEF Decide, system, others, pipes, plan, outcome, loop, requests,
      caller
<1>4. CASE JoinCollectors
  BY <1>4 DEF JoinCollectors, system, others, pipes, plan, outcome, loop,
      requests, caller
<1>5. CASE Terminate
  BY <1>5 DEF Terminate, Signal, system, others, pipes, plan, outcome, loop,
      requests, caller
<1>6. CASE Grace
  BY <1>6 DEF Grace, Awaits, Reaped, Signal, system, others, pipes, plan,
      outcome, loop, requests, caller
<1>7. CASE AwaitExit
  BY <1>7 DEF AwaitExit, Awaits, Reaped, Signal, system, others, pipes, plan,
      outcome, loop, requests, caller
<1>8. CASE AwaitExitAgain
  BY <1>8 DEF AwaitExitAgain, Awaits, Reaped, Signal, system, others, pipes,
      plan, outcome, loop, requests, caller
<1>9. CASE DrainCollectors
  BY <1>9 DEF DrainCollectors, system, others, pipes, plan, outcome, loop,
      requests, caller
<1>10. CASE Render
  BY <1>10 DEF Render, Reaped, system, others, pipes, plan, outcome, loop,
      requests, caller
<1>11. CASE Finish
  BY <1>11 DEF Finish, Classify, system, others, pipes, plan, outcome, loop,
      requests, caller
<1>12. CASE Interrupt
  BY <1>12 DEF Interrupt, Launched, system, others, pipes, plan, outcome, loop,
      requests, caller
<1>13. CASE Expire
  BY <1>13 DEF Expire, system, others, pipes, plan, outcome, loop, requests,
      caller
<1>14. CASE Cancel
  BY <1>14 DEF Cancel, system, others, pipes, plan, outcome, loop, requests,
      caller
<1>15. CASE Wait
  BY <1>15 DEF Wait, Starts, Returns, Launched, system, others, pipes, plan,
      outcome, loop, requests, caller
<1>16. CASE Close
  BY <1>16 DEF Close, Starts, Returns, Reaped, Launched, system, others, pipes,
      plan, outcome, loop, requests, caller
<1>17. CASE WaitForOutput
  BY <1>17 DEF WaitForOutput, Starts, Returns, Reaped, Launched, system,
      others, pipes, plan, outcome, loop, requests, caller
<1>18. ASSUME NEW s \in Streams, Read(s)
      PROVE  LifeInv'
  BY <1>18 DEF Read, Kept, Pending, system, others, pipes, plan, outcome, loop,
      requests, caller
<1>19. ASSUME NEW s \in Streams, EndOfFile(s)
      PROVE  LifeInv'
  BY <1>19 DEF EndOfFile, Pending, system, others, pipes, plan, outcome, loop,
      requests, caller
<1>20. ASSUME NEW s \in Streams, NEW p \in Procs, Write(p, s)
      PROVE  LifeInv'
  BY <1>20 DEF Write, Pending, system, others, pipes, plan, outcome, loop,
      requests, caller
<1>21. ASSUME NEW p \in Procs, Exit(p)
      PROVE  LifeInv'
  BY <1>21 DEF Exit, system, others, pipes, plan, outcome, loop, requests,
      caller
<1>22. ASSUME NEW p \in Procs, NEW child \in Descendants, Fork(p, child)
      PROVE  LifeInv'
  BY <1>22 DEF Fork, system, others, pipes, plan, outcome, loop, requests,
      caller
<1>23. CASE UNCHANGED vars
  BY <1>23 DEF vars, system, others, pipes, plan, outcome, loop, requests,
      caller
<1> QED
  BY <1>1, <1>2, <1>3, <1>4, <1>5, <1>6, <1>7, <1>8, <1>9, <1>10, <1>11, <1>12,
      <1>13, <1>14, <1>15, <1>16, <1>17, <1>18, <1>19, <1>20, <1>21, <1>22,
      <1>23
  DEF Next, Loop, Method, Collect

\* Every step keeps BlameInv: a signal is sent either after a decision or to
\* a group whose leader is gone.
LEMMA BlameStep ==
    ASSUME IInv, [Next]_vars
    PROVE  BlameInv'
<1> USE RunnerAssumptions DEF IInv, TypeOK, FlagsType, SystemType, LifeInv,
    BlameInv, Procs, Running, At, Goto, Deciding, AfterKill
<1>1. CASE Launch
  BY <1>1 DEF Launch, system, others, pipes, plan, outcome, loop, requests,
      caller
<1>2. CASE Poll
  BY <1>2 DEF Poll, Reaped, system, others, pipes, plan, outcome, loop,
      requests, caller
<1>3. CASE Decide
  BY <1>3 DEF Decide, system, others, pipes, plan, outcome, loop, requests,
      caller
<1>4. CASE JoinCollectors
  BY <1>4 DEF JoinCollectors, system, others, pipes, plan, outcome, loop,
      requests, caller
<1>5. CASE Terminate
  BY <1>5 DEF Terminate, Signal, system, others, pipes, plan, outcome, loop,
      requests, caller
<1>6. CASE Grace
  BY <1>6 DEF Grace, Awaits, Reaped, Signal, system, others, pipes, plan,
      outcome, loop, requests, caller
<1>7. CASE AwaitExit
  BY <1>7 DEF AwaitExit, Awaits, Reaped, Signal, system, others, pipes, plan,
      outcome, loop, requests, caller
<1>8. CASE AwaitExitAgain
  BY <1>8 DEF AwaitExitAgain, Awaits, Reaped, Signal, system, others, pipes,
      plan, outcome, loop, requests, caller
<1>9. CASE DrainCollectors
  BY <1>9 DEF DrainCollectors, system, others, pipes, plan, outcome, loop,
      requests, caller
<1>10. CASE Render
  BY <1>10 DEF Render, Reaped, system, others, pipes, plan, outcome, loop,
      requests, caller
<1>11. CASE Finish
  BY <1>11 DEF Finish, Classify, system, others, pipes, plan, outcome, loop,
      requests, caller
<1>12. CASE Interrupt
  BY <1>12 DEF Interrupt, Launched, system, others, pipes, plan, outcome, loop,
      requests, caller
<1>13. CASE Expire
  BY <1>13 DEF Expire, system, others, pipes, plan, outcome, loop, requests,
      caller
<1>14. CASE Cancel
  BY <1>14 DEF Cancel, system, others, pipes, plan, outcome, loop, requests,
      caller
<1>15. CASE Wait
  BY <1>15 DEF Wait, Starts, Returns, Launched, system, others, pipes, plan,
      outcome, loop, requests, caller
<1>16. CASE Close
  <2>1. CASE Starts("close") /\ asked' = TRUE
    BY <2>1 DEF Starts, system, others, pipes, plan, outcome, loop
  <2>2. CASE /\ UNCHANGED <<loop, requests>>
             /\ \/ UNCHANGED system
                \/ Reaped /\ UNCHANGED others
    BY <2>2 DEF Reaped, system, others, plan, outcome, loop, requests
  <2> QED
    BY <1>16, <2>1, <2>2 DEF Close, Returns, system, others, loop, plan,
        outcome, requests
<1>17. CASE WaitForOutput
  BY <1>17 DEF WaitForOutput, Starts, Returns, Reaped, Launched, system,
      others, pipes, plan, outcome, loop, requests, caller
<1>18. ASSUME NEW s \in Streams, Read(s)
      PROVE  BlameInv'
  BY <1>18 DEF Read, Kept, Pending, system, others, pipes, plan, outcome, loop,
      requests, caller
<1>19. ASSUME NEW s \in Streams, EndOfFile(s)
      PROVE  BlameInv'
  BY <1>19 DEF EndOfFile, Pending, system, others, pipes, plan, outcome, loop,
      requests, caller
<1>20. ASSUME NEW s \in Streams, NEW p \in Procs, Write(p, s)
      PROVE  BlameInv'
  BY <1>20 DEF Write, Pending, system, others, pipes, plan, outcome, loop,
      requests, caller
<1>21. ASSUME NEW p \in Procs, Exit(p)
      PROVE  BlameInv'
  BY <1>21 DEF Exit, system, others, pipes, plan, outcome, loop, requests,
      caller
<1>22. ASSUME NEW p \in Procs, NEW child \in Descendants, Fork(p, child)
      PROVE  BlameInv'
  BY <1>22 DEF Fork, system, others, pipes, plan, outcome, loop, requests,
      caller
<1>23. CASE UNCHANGED vars
  BY <1>23 DEF vars, system, others, pipes, plan, outcome, loop, requests,
      caller
<1> QED
  BY <1>1, <1>2, <1>3, <1>4, <1>5, <1>6, <1>7, <1>8, <1>9, <1>10, <1>11, <1>12,
      <1>13, <1>14, <1>15, <1>16, <1>17, <1>18, <1>19, <1>20, <1>21, <1>22,
      <1>23
  DEF Next, Loop, Method, Collect

\* Every step keeps ResultInv.
LEMMA ResultStep ==
    ASSUME IInv, [Next]_vars
    PROVE  ResultInv'
<1> USE RunnerAssumptions DEF IInv, TypeOK, FlagsType, SystemType, LifeInv,
    BlameInv, ResultInv, ClosedIsClosed, HasResult, Launched, Procs, Running,
    At, Goto, Deciding, AfterKill
<1>1. CASE Launch
  BY <1>1 DEF Launch, system, others, pipes, plan, outcome, loop, requests,
      caller
<1>2. CASE Poll
  BY <1>2 DEF Poll, Reaped, system, others, pipes, plan, outcome, loop,
      requests, caller
<1>3. CASE Decide
  BY <1>3 DEF Decide, system, others, pipes, plan, outcome, loop, requests,
      caller
<1>4. CASE JoinCollectors
  BY <1>4 DEF JoinCollectors, system, others, pipes, plan, outcome, loop,
      requests, caller
<1>5. CASE Terminate
  BY <1>5 DEF Terminate, Signal, system, others, pipes, plan, outcome, loop,
      requests, caller
<1>6. CASE Grace
  BY <1>6 DEF Grace, Awaits, Reaped, Signal, system, others, pipes, plan,
      outcome, loop, requests, caller
<1>7. CASE AwaitExit
  BY <1>7 DEF AwaitExit, Awaits, Reaped, Signal, system, others, pipes, plan,
      outcome, loop, requests, caller
<1>8. CASE AwaitExitAgain
  BY <1>8 DEF AwaitExitAgain, Awaits, Reaped, Signal, system, others, pipes,
      plan, outcome, loop, requests, caller
<1>9. CASE DrainCollectors
  BY <1>9 DEF DrainCollectors, system, others, pipes, plan, outcome, loop,
      requests, caller
<1>10. CASE Render
  BY <1>10 DEF Render, Reaped, system, others, pipes, plan, outcome, loop,
      requests, caller
<1>11. CASE Finish
  BY <1>11 DEF Finish, Classify, system, others, pipes, plan, outcome, loop,
      requests, caller
<1>12. CASE Interrupt
  BY <1>12 DEF Interrupt, Launched, system, others, pipes, plan, outcome, loop,
      requests, caller
<1>13. CASE Expire
  BY <1>13 DEF Expire, system, others, pipes, plan, outcome, loop, requests,
      caller
<1>14. CASE Cancel
  BY <1>14 DEF Cancel, system, others, pipes, plan, outcome, loop, requests,
      caller
<1>15. CASE Wait
  BY <1>15 DEF LoopType, Wait, Starts, Returns, Launched, system, others,
      pipes, plan, outcome, loop, requests, caller
<1>16. CASE Close
  BY <1>16 DEF LoopType, Close, Starts, Returns, Reaped, Launched, system,
      others, pipes, plan, outcome, loop, requests, caller
<1>17. CASE WaitForOutput
  BY <1>17 DEF WaitForOutput, Starts, Returns, Reaped, Launched, system,
      others, pipes, plan, outcome, loop, requests, caller
<1>18. ASSUME NEW s \in Streams, Read(s)
      PROVE  ResultInv'
  BY <1>18 DEF Read, Kept, Pending, system, others, pipes, plan, outcome, loop,
      requests, caller
<1>19. ASSUME NEW s \in Streams, EndOfFile(s)
      PROVE  ResultInv'
  BY <1>19 DEF EndOfFile, Pending, system, others, pipes, plan, outcome, loop,
      requests, caller
<1>20. ASSUME NEW s \in Streams, NEW p \in Procs, Write(p, s)
      PROVE  ResultInv'
  BY <1>20 DEF Write, Pending, system, others, pipes, plan, outcome, loop,
      requests, caller
<1>21. ASSUME NEW p \in Procs, Exit(p)
      PROVE  ResultInv'
  BY <1>21 DEF Exit, system, others, pipes, plan, outcome, loop, requests,
      caller
<1>22. ASSUME NEW p \in Procs, NEW child \in Descendants, Fork(p, child)
      PROVE  ResultInv'
  BY <1>22 DEF Fork, system, others, pipes, plan, outcome, loop, requests,
      caller
<1>23. CASE UNCHANGED vars
  BY <1>23 DEF vars, system, others, pipes, plan, outcome, loop, requests,
      caller
<1> QED
  BY <1>1, <1>2, <1>3, <1>4, <1>5, <1>6, <1>7, <1>8, <1>9, <1>10, <1>11, <1>12,
      <1>13, <1>14, <1>15, <1>16, <1>17, <1>18, <1>19, <1>20, <1>21, <1>22,
      <1>23
  DEF Next, Loop, Method, Collect

\* What has been written, read and kept is counted in natural numbers.
LEMMA StreamTypes ==
    ASSUME PipesType, NEW s \in Streams
    PROVE  /\ written[s] \in Nat /\ taken[s] \in Nat /\ value[s] \in Nat
           /\ Pending(s) \in Nat
           /\ DOMAIN taken = Streams /\ DOMAIN value = Streams
  BY RunnerAssumptions DEF PipesType, Pending

\* A chunk that is read goes into what is kept, up to the limit.
LEMMA ReadKeepsUpToTheLimit ==
    ASSUME PipesType, NEW s \in Streams, NEW chunk \in Nat \ {0},
           value[s] = (IF taken[s] <= Limit THEN taken[s] ELSE Limit)
    PROVE  LET total == taken[s] + chunk
           IN  /\ Kept(s, chunk) = (IF total <= Limit THEN total ELSE Limit)
               /\ value[s] + chunk > Limit <=> total > Limit
  BY RunnerAssumptions, StreamTypes DEF Kept

\* Every step keeps CaptureInv: only a process that holds a pipe writes to it
\* or passes it on, and a collector ends when there is none.
LEMMA CaptureStep ==
    ASSUME IInv, [Next]_vars
    PROVE  CaptureInv'
<1>a. \A s \in Streams :
         /\ written[s] \in Nat /\ taken[s] \in Nat /\ value[s] \in Nat
         /\ Pending(s) \in Nat
         /\ DOMAIN taken = Streams /\ DOMAIN value = Streams
  BY StreamTypes DEF IInv, TypeOK
<1>b. ASSUME NEW s \in Streams, NEW chunk \in Nat \ {0}
      PROVE  LET total == taken[s] + chunk
             IN  /\ Kept(s, chunk) = (IF total <= Limit THEN total ELSE Limit)
                 /\ value[s] + chunk > Limit <=> total > Limit
  BY <1>b, ReadKeepsUpToTheLimit DEF IInv, TypeOK, CaptureInv
<1> USE RunnerAssumptions DEF IInv, TypeOK, SystemType, PipesType, LifeInv,
    BlameInv, ResultInv, CaptureInv, Procs, Running, Launched, At, Goto,
    Deciding, AfterKill
<1>1. CASE Launch
  BY <1>1 DEF Launch, system, others, pipes, plan, outcome, loop, requests,
      caller
<1>2. CASE Poll
  BY <1>2 DEF Poll, Reaped, system, others, pipes, plan, outcome, loop,
      requests, caller
<1>3. CASE Decide
  BY <1>3 DEF Decide, system, others, pipes, plan, outcome, loop, requests,
      caller
<1>4. CASE JoinCollectors
  BY <1>4 DEF JoinCollectors, system, others, pipes, plan, outcome, loop,
      requests, caller
<1>5. CASE Terminate
  BY <1>5 DEF Terminate, Signal, system, others, pipes, plan, outcome, loop,
      requests, caller
<1>6. CASE Grace
  BY <1>6 DEF Grace, Awaits, Reaped, Signal, system, others, pipes, plan,
      outcome, loop, requests, caller
<1>7. CASE AwaitExit
  BY <1>7 DEF AwaitExit, Awaits, Reaped, Signal, system, others, pipes,
      plan, outcome, loop, requests, caller
<1>8. CASE AwaitExitAgain
  BY <1>8 DEF AwaitExitAgain, Awaits, Reaped, Signal, system, others, pipes,
      plan, outcome, loop, requests, caller
<1>9. CASE DrainCollectors
  BY <1>9 DEF DrainCollectors, system, others, pipes, plan, outcome, loop,
      requests, caller
<1>10. CASE Render
  BY <1>10 DEF Render, Reaped, system, others, pipes, plan, outcome, loop,
      requests, caller
<1>11. CASE Finish
  BY <1>11 DEF Finish, system, others, pipes, plan, outcome, loop, requests,
      caller
<1>12. CASE Interrupt
  BY <1>12 DEF Interrupt, system, others, pipes, plan, outcome, loop,
      requests, caller
<1>13. CASE Expire
  BY <1>13 DEF Expire, system, others, pipes, plan, outcome, loop, requests,
      caller
<1>14. CASE Cancel
  BY <1>14 DEF Cancel, system, others, pipes, plan, outcome, loop, requests,
      caller
<1>15. CASE Wait
  BY <1>15 DEF Wait, Starts, Returns, system, others, pipes, plan, outcome,
      loop, requests, caller
<1>16. CASE Close
  BY <1>16 DEF Close, Starts, Returns, Reaped, system, others, pipes, plan,
      outcome, loop, requests, caller
<1>17. CASE WaitForOutput
  BY <1>17 DEF WaitForOutput, Starts, Returns, Reaped, system, others,
      pipes, plan, outcome, loop, requests, caller
<1>18. ASSUME NEW s \in Streams, Read(s)
      PROVE  CaptureInv'
  <2>1. PICK chunk \in 1..Pending(s) :
           /\ taken' = [taken EXCEPT ![s] = @ + chunk]
           /\ value' = [value EXCEPT ![s] = Kept(s, chunk)]
           /\ truncated' = IF value[s] + chunk > Limit THEN truncated \cup {s}
                           ELSE truncated
    BY <1>18 DEF Read
  <2>2. /\ UNCHANGED <<life, holding, written, reading, pc, category>>
        /\ s \in reading
    BY <1>18 DEF Read, system, others, loop, plan
  <2>3. /\ DOMAIN taken = Streams /\ DOMAIN value = Streams
        /\ chunk \in Nat \ {0}
    <3> HIDE DEF IInv
    <3>1. /\ DOMAIN taken = Streams /\ DOMAIN value = Streams
          /\ Pending(s) \in Nat
      BY <1>18, <1>a
    <3> QED
      BY <3>1
  <2>4. LET total == taken[s] + chunk
        IN  /\ Kept(s, chunk) = (IF total <= Limit THEN total ELSE Limit)
            /\ value[s] + chunk > Limit <=> total > Limit
    BY <1>18, <2>3, <1>b
  <2>5. ASSUME NEW t \in Streams
        PROVE  /\ value'[t] = IF taken'[t] <= Limit THEN taken'[t] ELSE Limit
               /\ t \in truncated' <=> taken'[t] > Limit
    <3>1. CASE t = s
      <4>1. /\ taken'[t] = taken[s] + chunk /\ value'[t] = Kept(s, chunk)
            /\ t \in truncated' <=> t \in truncated \/ value[s] + chunk > Limit
        BY <1>18, <2>1, <2>3, <3>1
      <4>2. t \in truncated => value[s] + chunk > Limit
        <5>1. taken[s] \in Nat
          BY <1>18, <1>a
        <5>2. t \in truncated => taken[s] > Limit
          BY <1>18, <3>1
        <5> HIDE DEF IInv
        <5> QED
          BY <2>3, <2>4, <5>1, <5>2
      <4> HIDE DEF Kept
      <4> QED
        BY <1>a, <2>4, <4>1, <4>2
    <3>2. CASE t # s
      <4>1. /\ taken'[t] = taken[t] /\ value'[t] = value[t]
            /\ t \in truncated' <=> t \in truncated
        BY <2>1, <2>3, <2>5, <3>2
      <4> QED
        BY <2>5, <4>1
    <3> QED
      BY <3>1, <3>2
  <2>6. ASSUME NEW t \in Streams, t # s
        PROVE  taken'[t] = taken[t]
    BY <2>1, <2>3, <2>6
  <2> QED
    BY <2>2, <2>5, <2>6
<1>19. ASSUME NEW s \in Streams, EndOfFile(s)
      PROVE  CaptureInv'
  <2>1. /\ UNCHANGED <<life, holding, written, taken, value, truncated, pc,
                        category>>
        /\ reading' = reading \ {s} /\ holding = {} /\ Pending(s) = 0
    BY <1>19 DEF EndOfFile, system, others, loop, plan
  <2>2. written[s] - taken[s] = 0
    BY <2>1 DEF Pending
  <2>3. taken[s] = written[s]
    <3> HIDE DEF IInv
    <3>1. written[s] \in Nat /\ taken[s] \in Nat
      BY <1>19, <1>a
    <3> QED
      BY <2>2, <3>1
  <2> QED
    BY <2>1, <2>3
<1>20. ASSUME NEW s \in Streams, NEW p \in Procs, Write(p, s)
      PROVE  CaptureInv'
  BY <1>20 DEF Write, Pending, system, others, pipes, plan, outcome, loop,
      requests, caller
<1>21. ASSUME NEW p \in Procs, Exit(p)
      PROVE  CaptureInv'
  BY <1>21 DEF Exit, system, others, pipes, plan, outcome, loop, requests,
      caller
<1>22. ASSUME NEW p \in Procs, NEW child \in Descendants, Fork(p, child)
      PROVE  CaptureInv'
  BY <1>22 DEF Fork, system, others, pipes, plan, outcome, loop, requests,
      caller
<1>23. CASE UNCHANGED vars
  BY <1>23 DEF vars, system, others, pipes, plan, outcome, loop, requests,
      caller
<1> QED
  BY <1>1, <1>2, <1>3, <1>4, <1>5, <1>6, <1>7, <1>8, <1>9, <1>10, <1>11, <1>12,
      <1>13, <1>14, <1>15, <1>16, <1>17, <1>18, <1>19, <1>20, <1>21, <1>22,
      <1>23
  DEF Next, Loop, Method, Collect

\* The inductive invariant: types, the leader's life, who is to blame, the
\* result, and what the collectors have.
THEOREM Invariance == Spec => []IInv
<1>1. IInv /\ [Next]_vars => IInv'
  BY FlagsTypesStep, SystemTypesStep, PipesTypesStep, LoopTypesStep, LifeStep,
     BlameStep, ResultStep, CaptureStep
  DEF IInv, TypeOK
<1> QED
  BY Initially, <1>1, PTL DEF Spec

\* The variables keep their types, whatever the sizes of pipes and captures.
THEOREM TypeCorrect == Spec => []TypeOK
<1>1. IInv => TypeOK
  BY DEF IInv
<1> QED
  BY Invariance, <1>1, PTL

\* The result of a command says what the command did, or names the deadline
\* or the request that ended it, however signals, exits and forks interleave.
THEOREM OutcomeIsTrue == Spec => []OutcomeIsTheCommandsOwn
<1>1. IInv => OutcomeIsTheCommandsOwn
  BY DEF IInv, BlameInv, ResultInv, OutcomeIsTheCommandsOwn
<1> QED
  BY Invariance, <1>1, PTL

\* No invocation ends with its command running, unless SIGKILL could not end
\* it: deadline, request, failed threads and broken pipes included.
THEOREM NoCommandSurvives == Spec => []CommandNeverSurvives
<1>1. IInv => CommandNeverSurvives
  BY DEF IInv, LifeInv, CommandNeverSurvives, At, AfterKill
<1> QED
  BY Invariance, <1>1, PTL

\* A handle that was closed stays closed: the command is reaped and has its
\* result.
THEOREM ClosedStaysClosed == Spec => []ClosedIsClosed
<1>1. IInv => ClosedIsClosed
  BY DEF IInv, ResultInv
<1> QED
  BY Invariance, <1>1, PTL

\* When a result is rendered and every collector has come to the end of its
\* pipe, the result is all that was written up to the limit, and is marked
\* truncated exactly if there was more: however reads and writes interleave.
THEOREM ResultIsComplete == Spec => CaptureIsComplete
<1>1. ASSUME IInv, [Next]_vars
      PROVE  [\A s \in Streams :
                 At("render") /\ pc' = "result" /\ reading = {} =>
                     /\ captured'[s] =
                           IF written[s] <= Limit THEN written[s] ELSE Limit
                     /\ s \in truncated <=> written[s] > Limit]_vars
  <2>1. ASSUME NEW s \in Streams, At("render"), pc' = "result", reading = {}
        PROVE  captured' = value
    BY <1>1, <2>1
    DEF Next, Loop, Method, Collect, vars, system, others, pipes, plan, outcome,
        loop, requests, caller, Launch, Poll, Decide, JoinCollectors, Terminate,
        Grace, AwaitExit, AwaitExitAgain, Awaits, DrainCollectors, Render,
        Finish, Interrupt, Expire, Cancel, Wait, Close, WaitForOutput, Starts,
        Returns, Read, EndOfFile, Write, Exit, Fork, At, Goto
  <2>2. ASSUME NEW s \in Streams, At("render"), reading = {}
        PROVE  /\ value[s] = IF written[s] <= Limit THEN written[s] ELSE Limit
               /\ s \in truncated <=> written[s] > Limit
    <3>1. Launched /\ category # "NO_THREADS"
      BY <1>1, <2>2 DEF IInv, CaptureInv, At
    <3>2. taken[s] = written[s]
      BY <1>1, <2>2, <3>1 DEF IInv, CaptureInv
    <3> QED
      BY <1>1, <3>2 DEF IInv, CaptureInv
  <2> QED
    BY <2>1, <2>2
<1> QED
  BY Invariance, <1>1, PTL DEF Spec, CaptureIsComplete
=============================================================================
