--------------------------- MODULE ProcessRunner ---------------------------
(***************************************************************************)
(* One command under SafeProcessRunner (process_runner.py): the process    *)
(* and its descendants, the threads that drain its pipes, the loop that    *)
(* enforces cancellation and deadline, and the caller of a ManagedProcess. *)
(*                                                                         *)
(* run() executes the loop in the calling thread and start() in a monitor  *)
(* thread; it is the same loop.  Time only passes in the form of waits     *)
(* that end with or without what they waited for.  POSIX only: signals go  *)
(* to the process group.                                                   *)
(***************************************************************************)
EXTENDS Naturals

CONSTANTS
    Leader,         \* the process that is launched
    Descendants,    \* the processes that may come of it
    Streams,        \* its captured outputs
    Limit,          \* how much output a collector keeps
    PipeSize,       \* how much output fits into a pipe
    MaxOutput       \* bound on the output written to each pipe

Procs == {Leader} \cup Descendants

ASSUME RunnerAssumptions ==
    /\ Leader \notin Descendants
    /\ Limit \in Nat /\ PipeSize \in Nat \ {0} /\ MaxOutput \in Nat

VARIABLES
    managed,    \* started by start(), not by run()
    limited,    \* there is a deadline
    life,       \* the life of every process
    group,      \* members of the leader's process group
    holding,    \* running processes that hold the pipes open
    signalled,  \* processes that were running when they were sent a signal
    killed,     \* processes that were running when they were sent SIGKILL
    exitcode,   \* how the leader has exited
    written,    \* output written to each pipe
    taken,      \* output read from each pipe
    value,      \* output each collector has kept
    truncated,  \* collectors that have dropped output
    reading,    \* collectors whose thread is alive
    pc,         \* the next step of the loop
    category,   \* why the loop has ended
    asked,      \* a stop was requested or the token cancelled
    expired,    \* the deadline has passed
    captured,   \* the output rendered for the result
    result,     \* whether there is a ProcessResult, or why there is none
    verdict,    \* the error category of the ProcessResult
    call,       \* the method of the ManagedProcess that is executing
    answer      \* what the last method came to

others == <<group, holding, signalled, killed, exitcode>>
system == <<life, others>>
pipes == <<written, taken, value, truncated, reading>>
plan == <<managed, limited>>
outcome == <<captured, result, verdict>>
loop == <<plan, pc, category, outcome>>
requests == <<asked, expired>>
caller == <<call, answer>>
vars == <<system, pipes, loop, requests, caller>>

Running(p) == life[p] = "running"
Launched == life[Leader] # "unborn"
Pending(s) == written[s] - taken[s]
HasResult == result = "result"

Init ==
    /\ managed \in BOOLEAN /\ limited \in BOOLEAN
    /\ life = [p \in Procs |-> "unborn"]
    /\ group = {} /\ holding = {} /\ signalled = {} /\ killed = {}
    /\ exitcode = "none"
    /\ written = [s \in Streams |-> 0]
    /\ taken = [s \in Streams |-> 0]
    /\ value = [s \in Streams |-> 0]
    /\ truncated = {}
    /\ reading = {}
    /\ pc = "launch"
    /\ category = "none"
    /\ asked \in BOOLEAN /\ expired = FALSE
    /\ captured = [s \in Streams |-> 0]
    /\ result = "none" /\ verdict = "none"
    /\ call = "none" /\ answer = "none"

-----------------------------------------------------------------------------
(* The command and its descendants.  They may ignore SIGTERM, or hang in the *)
(* kernel: nothing makes them exit, a signal neither.                        *)

\* A descendant may leave the group with setsid() or redirect its output.
Fork(p, child) ==
    /\ Running(p) /\ life[child] = "unborn"
    /\ life' = [life EXCEPT ![child] = "running"]
    /\ group' \in {group} \cup (IF p \in group THEN {group \cup {child}} ELSE {})
    /\ holding' \in {holding} \cup (IF p \in holding THEN {holding \cup {child}} ELSE {})
    /\ UNCHANGED <<signalled, killed, exitcode, pipes, loop, requests, caller>>

Write(p, s) ==
    /\ p \in holding
    /\ written[s] < MaxOutput /\ Pending(s) < PipeSize
    /\ written' = [written EXCEPT ![s] = @ + 1]
    /\ UNCHANGED <<system, taken, value, truncated, reading, loop, requests, caller>>

\* The leader stays a zombie until somebody polls it.
Exit(p) ==
    /\ Running(p)
    /\ life' = [life EXCEPT ![p] = IF p = Leader THEN "zombie" ELSE "reaped"]
    /\ holding' = holding \ {p}
    /\ IF p = Leader
       THEN exitcode' \in IF p \in killed THEN {"nonzero"} ELSE {"zero", "nonzero"}
       ELSE UNCHANGED exitcode
    /\ UNCHANGED <<group, signalled, killed, pipes, loop, requests, caller>>

-----------------------------------------------------------------------------
(* _BoundedStream._read. *)

\* What is kept of a chunk.
Kept(s, chunk) ==
    IF value[s] + chunk <= Limit THEN value[s] + chunk ELSE Limit

\* Faulty variant: a collector that is full stops reading.
ReadUntilFull(s) ==
    /\ s \in reading
    /\ value[s] < Limit
    /\ \E chunk \in 1..Pending(s) :
          /\ taken' = [taken EXCEPT ![s] = @ + chunk]
          /\ value' = [value EXCEPT ![s] = Kept(s, chunk)]
          /\ truncated' = IF value[s] + chunk > Limit THEN truncated \cup {s}
                          ELSE truncated
    /\ UNCHANGED <<system, written, reading, loop, requests, caller>>

\* Faulty variant: the flag is set when the collector gets full.
ReadFlaggingEarly(s) ==
    /\ s \in reading
    /\ \E chunk \in 1..Pending(s) :
          /\ taken' = [taken EXCEPT ![s] = @ + chunk]
          /\ value' = [value EXCEPT ![s] = Kept(s, chunk)]
          /\ truncated' = IF value[s] + chunk >= Limit THEN truncated \cup {s}
                          ELSE truncated
    /\ UNCHANGED <<system, written, reading, loop, requests, caller>>

Read(s) ==
    /\ s \in reading
    /\ \E chunk \in 1..Pending(s) :
          /\ taken' = [taken EXCEPT ![s] = @ + chunk]
          /\ value' = [value EXCEPT ![s] = Kept(s, chunk)]
          /\ truncated' = IF value[s] + chunk > Limit THEN truncated \cup {s}
                          ELSE truncated
    /\ UNCHANGED <<system, written, reading, loop, requests, caller>>

\* The pipe is empty and nobody can write to it any more.
EndOfFile(s) ==
    /\ s \in reading /\ Pending(s) = 0 /\ holding = {}
    /\ reading' = reading \ {s}
    /\ UNCHANGED <<system, written, taken, value, truncated, loop, requests, caller>>

\* A join of the collectors ends: a collector that outlives it is one that
\* waits for output that a running process may still write.
Joined == \A s \in reading : Pending(s) = 0 /\ holding # {}

-----------------------------------------------------------------------------
(* The loop of run() and of ManagedProcess._monitor_process. *)

At(label) == pc = label
Goto(label) == pc' = label

\* Popen.poll and a successful Popen.wait reap the leader.
Reaped == life' = [life EXCEPT ![Leader] =
                      IF life[Leader] = "zombie" THEN "reaped" ELSE @]

\* killpg reaches the members that exist when it is called.
Signal(fatal) ==
    LET hit == {p \in group : Running(p)}
    IN  /\ signalled' = signalled \cup hit
        /\ killed' = IF fatal THEN killed \cup hit ELSE killed

\* Nothing is launched, the command starts, or start() cannot create its
\* threads and ends what it has launched.
Launch ==
    /\ At("launch")
    /\ \/ /\ Goto("ended")
          /\ result' = "not launched"
          /\ UNCHANGED <<life, group, holding, reading, category>>
       \/ /\ ~asked /\ ~expired
          /\ life' = [life EXCEPT ![Leader] = "running"]
          /\ group' = {Leader} /\ holding' = {Leader}
          /\ \/ /\ reading' = Streams
                /\ Goto("poll")
                /\ UNCHANGED category
             \/ /\ managed
                /\ reading' \in SUBSET Streams
                /\ category' = "NO_THREADS"
                /\ Goto("term")
          /\ UNCHANGED result
    /\ UNCHANGED <<signalled, killed, exitcode, written, taken, value,
                   truncated, plan, captured, verdict, requests, caller>>

Poll ==
    /\ At("poll")
    /\ Reaped
    /\ Goto(IF Running(Leader) THEN "decide" ELSE "join")
    /\ UNCHANGED <<others, pipes, plan, category, outcome, requests, caller>>

Decide ==
    /\ At("decide")
    /\ \/ asked /\ category' = "CANCELLED" /\ Goto("term")
       \/ ~asked /\ expired /\ category' = "TIMEOUT" /\ Goto("term")
       \/ ~asked /\ ~expired /\ Goto("poll") /\ UNCHANGED category
    /\ UNCHANGED <<system, pipes, plan, outcome, requests, caller>>

\* _join_collectors: a descendant that retains the pipes is terminated.
JoinCollectors ==
    /\ At("join") /\ Joined
    /\ Goto(IF reading = {} THEN "render" ELSE "term")
    /\ UNCHANGED <<system, pipes, plan, category, outcome, requests, caller>>

Terminate ==
    /\ At("term")
    /\ Signal(FALSE)
    /\ Goto("grace")
    /\ UNCHANGED <<life, group, holding, exitcode, pipes, plan, category,
                   outcome, requests, caller>>

\* A wait of _terminate ends with the leader's exit, or with its time and
\* the signal that comes next.
Awaits(label, late, signals, next) ==
    /\ At(label)
    /\ Reaped
    /\ IF Running(Leader)
       THEN /\ Goto(late)
            /\ signals
       ELSE Goto(next) /\ UNCHANGED <<signalled, killed>>
    /\ UNCHANGED <<group, holding, exitcode, pipes, plan, category, outcome,
                   requests, caller>>

\* Faulty variant: SIGTERM is all that is sent.
GraceOnly ==
    /\ At("grace")
    /\ Reaped
    /\ Goto("last")
    /\ UNCHANGED <<others, pipes, plan, category, outcome, requests, caller>>

Grace == Awaits("grace", "wait", Signal(TRUE), "wait")
AwaitExit == Awaits("wait", "last", Signal(TRUE), "drain")

\* Faulty variant: the last wait has no time limit.
AwaitExitForever ==
    ~Running(Leader) /\ Awaits("last", "drain", UNCHANGED <<signalled, killed>>, "drain")
AwaitExitAgain ==
    Awaits("last", "drain", UNCHANGED <<signalled, killed>>, "drain")

DrainCollectors ==
    /\ At("drain")
    /\ IF category = "NO_THREADS"
       THEN Goto("ended") /\ result' = "not launched"
       ELSE Joined /\ Goto("render") /\ UNCHANGED result
    /\ UNCHANGED <<system, pipes, plan, category, captured, verdict, requests,
                   caller>>

\* The return code is read and what was kept is rendered.
Render ==
    /\ At("render")
    /\ Reaped
    /\ captured' = value
    /\ Goto("result")
    /\ UNCHANGED <<others, pipes, plan, category, result, verdict, requests,
                   caller>>

\* Faulty variant: an exit code decides even when the command was stopped.
ClassifyByCode ==
    IF exitcode = "nonzero" THEN "NONZERO" ELSE category

\* The return code counts only if nothing else has ended the command.
Classify ==
    IF category = "none" /\ exitcode # "zero" THEN "NONZERO" ELSE category

\* Anything that rendering raises is kept for wait().
Finish ==
    /\ At("result")
    /\ \/ result' = "result" /\ verdict' = Classify
       \/ result' = "error" /\ UNCHANGED verdict
    /\ Goto("ended")
    /\ UNCHANGED <<system, pipes, plan, category, captured, requests, caller>>

\* A KeyboardInterrupt, or a thread that cannot be created, leaves run()
\* wherever it is; nothing is terminated.
Interrupt ==
    /\ ~managed
    /\ Launched /\ ~At("ended") /\ ~At("escaped")
    /\ Goto("escaped")
    /\ UNCHANGED <<system, pipes, plan, category, outcome, requests, caller>>

-----------------------------------------------------------------------------
(* The deadline, the token and the methods of a ManagedProcess. *)

Expire ==
    /\ limited /\ ~expired /\ ~At("ended") /\ ~At("escaped")
    /\ expired' = TRUE
    /\ UNCHANGED <<system, pipes, loop, asked, caller>>

Cancel ==
    /\ ~asked /\ ~At("ended") /\ ~At("escaped")
    /\ asked' = TRUE
    /\ UNCHANGED <<system, pipes, loop, expired, caller>>

Starts(method) ==
    /\ managed /\ Launched /\ category # "NO_THREADS"
    /\ call = "none"
    /\ call' = method /\ answer' = "none"
    /\ UNCHANGED <<system, pipes, loop, expired>>

Returns(what) == call' = "none" /\ answer' = what

\* wait() joins the monitor; only then is there a result.
Wait ==
    \/ Starts("wait") /\ UNCHANGED asked
    \/ /\ call = "wait"
       /\ \/ ~At("ended") /\ Returns("timeout")
          \/ At("ended") /\ Returns(result)
       /\ UNCHANGED <<system, pipes, loop, requests>>

Close ==
    \/ Starts("close") /\ asked' = TRUE
    \/ /\ call = "close"
       /\ \/ ~At("ended") /\ Returns("not closed") /\ UNCHANGED system
          \/ /\ At("ended")
             /\ Reaped
             /\ Returns(IF Running(Leader) THEN "not closed" ELSE "closed")
             /\ UNCHANGED others
       /\ UNCHANGED <<pipes, loop, requests>>

\* wait_for_output: a match counts only while the command is running, which
\* is asked after the output has been read.
WaitForOutput ==
    \/ Starts("observe") /\ UNCHANGED asked
    \/ /\ call = "observe"
       /\ \/ (\E s \in Streams : value[s] > 0) /\ call' = "match" /\ UNCHANGED answer
          \/ result # "none" /\ call' = "wait" /\ UNCHANGED answer
          \/ result = "none" /\ Returns("timeout")
       /\ UNCHANGED <<system, pipes, loop, requests>>
    \/ /\ call = "match"
       /\ Reaped
       /\ IF Running(Leader) /\ ~HasResult THEN Returns("matched")
          ELSE call' = "observe" /\ UNCHANGED answer
       /\ UNCHANGED <<others, pipes, loop, requests>>

-----------------------------------------------------------------------------
Loop ==
    \/ Launch \/ Poll \/ Decide \/ JoinCollectors
    \/ Terminate \/ Grace \/ AwaitExit \/ AwaitExitAgain \/ DrainCollectors
    \/ Render \/ Finish
Collect(s) == Read(s) \/ EndOfFile(s)
Method == Wait \/ Close \/ WaitForOutput

Next ==
    \/ Loop \/ Interrupt
    \/ Expire \/ Cancel
    \/ Method
    \/ \E s \in Streams : Collect(s) \/ \E p \in Procs : Write(p, s)
    \/ \E p \in Procs : Exit(p) \/ \E child \in Descendants : Fork(p, child)

Spec == Init /\ [][Next]_vars

\* Threads are scheduled and deadlines pass; a command need not do anything.
Fairness ==
    /\ WF_vars(Loop)
    /\ WF_vars(Expire)
    /\ \A s \in Streams : WF_vars(Collect(s))

FairSpec == Spec /\ Fairness

-----------------------------------------------------------------------------
Labels ==
    {"launch", "poll", "decide", "join", "term", "grace", "wait", "last", "drain",
     "render", "result", "ended", "escaped"}
Categories == {"none", "CANCELLED", "TIMEOUT", "NONZERO", "NO_THREADS"}

FlagsType ==
    managed \in BOOLEAN /\ limited \in BOOLEAN /\ asked \in BOOLEAN /\ expired \in BOOLEAN

SystemType ==
    /\ life \in [Procs -> {"unborn", "running", "zombie", "reaped"}]
    /\ group \subseteq Procs
    /\ holding \subseteq {p \in Procs : Running(p)}
    /\ killed \subseteq signalled /\ signalled \subseteq group
    /\ exitcode \in {"none", "zero", "nonzero"}

PipesType ==
    /\ written \in [Streams -> 0..MaxOutput]
    /\ taken \in [Streams -> 0..MaxOutput]
    /\ \A s \in Streams : taken[s] <= written[s]
    /\ value \in [Streams -> 0..Limit]
    /\ captured \in [Streams -> 0..Limit]
    /\ truncated \subseteq Streams /\ reading \subseteq Streams

LoopType ==
    /\ pc \in Labels
    /\ category \in Categories
    /\ result \in {"none", "not launched", "error", "result"}
    /\ verdict \in Categories
    /\ call \in {"none", "wait", "close", "observe", "match"}
    /\ answer \in {"none", "timeout", "error", "result", "not closed",
                   "closed", "matched"}

\* The values the variables range over; only a running process holds a pipe,
\* and only a member of the group is signalled.
TypeOK == FlagsType /\ SystemType /\ PipesType /\ LoopType

\* A result that is the command's own, its success or its exit code, is not
\* something the runner did to it; and one that blames the deadline or a
\* request is about a deadline that passed or a request that was made.
OutcomeIsTheCommandsOwn ==
    HasResult =>
        /\ verdict \in {"none", "NONZERO"} => Leader \notin signalled
        /\ verdict = "TIMEOUT" => expired /\ limited
        /\ verdict = "CANCELLED" => asked

\* An invocation never ends with its command still running, except for one
\* that not even SIGKILL has ended; an interrupted run() is another matter.
CommandNeverSurvives ==
    At("ended") /\ Running(Leader) => Leader \in killed

\* close() answers "closed" only for a command that is gone and reaped, with
\* its result in place.
ClosedIsClosed ==
    answer = "closed" => life[Leader] = "reaped" /\ result # "none"

\* Once every collector has come to the end of its pipe, the result holds
\* all that was written up to the limit, and says so if there was more.
CaptureIsComplete ==
    [][\A s \in Streams :
          At("render") /\ pc' = "result" /\ reading = {} =>
              /\ captured'[s] = IF written[s] <= Limit THEN written[s] ELSE Limit
              /\ s \in truncated <=> written[s] > Limit]_vars

\* A command is never blocked for good by what it writes, however much of it
\* is kept: a full pipe is drained.
OutputIsDrained ==
    \A s \in Streams :
        (s \in reading /\ Pending(s) = PipeSize) ~> (Pending(s) < PipeSize)

\* Deadlines and requests are enforced against commands that ignore SIGTERM,
\* that cannot be killed, and whose descendants hold the pipes.
InvocationEnds ==
    (Launched /\ (asked \/ expired)) ~> (At("ended") \/ At("escaped"))

\* Documented: a caller closes the handle "so the complete process group is
\* terminated and reaped"; so nothing of the group outlives a close that
\* succeeds, except what not even SIGKILL has ended.
GroupIsTerminated ==
    answer = "closed" => \A p \in group : Running(p) => p \in killed
=============================================================================
