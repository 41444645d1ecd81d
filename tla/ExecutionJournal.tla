-------------------------- MODULE ExecutionJournal --------------------------
(***************************************************************************)
(* The durable state journal of a run (execution_state.py) together with   *)
(* the progress writer that is its only client in an execution             *)
(* (_ExecutionProgress in execution.py).  A call of the writer is a short  *)
(* list of transitions; each of them is validated on a copy, written to    *)
(* state.json with one atomic replace, and only then adopted in memory.    *)
(* The timestamps are the wall clock's, which may step backwards, and the  *)
(* process may die between any two transitions.                            *)
(***************************************************************************)
EXTENDS Naturals, Sequences

CONSTANT MaxClock   \* bound on the wall clock readings

ASSUME MaxClockAssumption == MaxClock \in Nat

VARIABLES
    machine,    \* the transitions in memory
    disk,       \* the transitions in state.json, <<>> while there is no file
    clock,      \* the wall clock
    running,    \* the writing process is up
    pending,    \* the states the current call has yet to append
    heldAttested    \* _ExecutionProgress._attested

journalVars == <<machine, disk, clock, running, pending, heldAttested>>

-----------------------------------------------------------------------------
\* The keys of _LINEAR_NEXT in order, and its last value.
Linear ==
    <<"planned", "validated", "building", "built", "pushing",
      "digest_resolved", "cluster_preparing", "applying", "waiting_ready",
      "smoke_testing", "attesting", "collecting_evidence", "succeeded">>

LinearStates ==
    {"planned", "validated", "building", "built", "pushing",
     "digest_resolved", "cluster_preparing", "applying", "waiting_ready",
     "smoke_testing", "attesting", "collecting_evidence", "succeeded"}

States == LinearStates \cup {"failed", "cleaned"}

\* The states complete_kubernetes and kubernetes_event append at most once.
KubernetesStates ==
    {"cluster_preparing", "applying", "waiting_ready", "smoke_testing",
     "attesting", "collecting_evidence"}

Times == 0..MaxClock
Transition == [state : States, at : Times]

\* ExecutionStateMachine.current_state.
Current(journal) ==
    IF journal = <<>> THEN "none" ELSE journal[Len(journal)].state

Recorded(journal, s) == \E i \in DOMAIN journal : journal[i].state = s

\* Faulty variant: a run that was decided can still fail.
AllowedFailedAnywhere(current, s) ==
    \/ current = "none" /\ s = "planned"
    \/ \E i \in 1..12 : current = Linear[i] /\ s = Linear[i + 1]
    \/ current # "none" /\ s = "failed"
    \/ current \in {"succeeded", "failed"} /\ s = "cleaned"

\* Which state append lets follow which.
Allowed(current, s) ==
    \/ current = "none" /\ s = "planned"
    \/ \E i \in 1..12 :
          /\ current = Linear[i]
          /\ s \in {Linear[i + 1], "failed"}
    \/ current \in {"succeeded", "failed"} /\ s = "cleaned"

\* ExecutionStateMachine.append does not raise: the writer stamps a
\* transition with one clock reading, which must not precede the last one.
Accepts(journal, t) ==
    /\ Allowed(Current(journal), t.state)
    /\ journal # <<>> => journal[Len(journal)].at <= t.at

\* from_dict replays every transition through append.
ReplayAccepts(journal) ==
    \A i \in DOMAIN journal : Accepts(SubSeq(journal, 1, i - 1), journal[i])

-----------------------------------------------------------------------------
JournalInit ==
    /\ machine = <<>>
    /\ disk = <<>>
    /\ clock = 0
    /\ running = TRUE
    /\ pending = <<>>
    /\ heldAttested = FALSE

\* A call of the progress writer while no other call is in progress.
BeginCall(states) ==
    /\ running
    /\ pending = <<>>
    /\ pending' = states
    /\ UNCHANGED <<machine, disk, clock, running>>

Start          == BeginCall(<<"planned", "validated">>) /\ UNCHANGED heldAttested
Building       == BeginCall(<<"building">>) /\ UNCHANGED heldAttested
BuiltAndPushed == BeginCall(<<"built", "pushing">>) /\ UNCHANGED heldAttested
DigestResolved == BeginCall(<<"digest_resolved">>) /\ UNCHANGED heldAttested
Succeeded      == BeginCall(<<"succeeded">>) /\ UNCHANGED heldAttested

\* The events of the Kubernetes executor; "attested" is only remembered
\* until the smoke test has been reported.
KubernetesEvent ==
    \/ /\ \E s \in {"cluster_preparing", "applying", "waiting_ready",
                    "collecting_evidence"} : BeginCall(<<s>>)
       /\ UNCHANGED heldAttested
    \/ BeginCall(<<>>) /\ heldAttested' = TRUE
    \/ /\ BeginCall(IF heldAttested THEN <<"smoke_testing", "attesting">>
                ELSE <<"smoke_testing">>)
       /\ UNCHANGED heldAttested

CompleteKubernetes == BeginCall(SubSeq(Linear, 7, 12)) /\ UNCHANGED heldAttested

\* fail() says nothing of a run that has already failed or is cleaned.
Fail ==
    /\ Current(machine) \notin {"failed", "cleaned"}
    /\ BeginCall(<<"failed">>)
    /\ UNCHANGED heldAttested

\* cleaned() says nothing of a run that is not decided.
Cleaned ==
    /\ Current(machine) \in {"succeeded", "failed"}
    /\ BeginCall(<<"cleaned">>)
    /\ UNCHANGED heldAttested

Call ==
    \/ Start \/ Building \/ BuiltAndPushed \/ DigestResolved
    \/ KubernetesEvent \/ CompleteKubernetes
    \/ Fail \/ Succeeded \/ Cleaned

\* _append_if_next finds the state recorded already.
AlreadyAppended(s) == s \in KubernetesStates /\ Recorded(machine, s)

Skip ==
    /\ running
    /\ pending # <<>>
    /\ AlreadyAppended(Head(pending))
    /\ pending' = Tail(pending)
    /\ UNCHANGED <<machine, disk, clock, running, heldAttested>>

\* Faulty variant: the candidate is written without being validated.
AppendNextUnvalidated ==
    /\ running
    /\ pending # <<>>
    /\ ~AlreadyAppended(Head(pending))
    /\ machine' = Append(machine, [state |-> Head(pending), at |-> clock])
    /\ disk' = machine'
    /\ pending' = Tail(pending)
    /\ UNCHANGED <<clock, running, heldAttested>>

\* A candidate that append accepts replaces state.json, then the memory.
AppendNext ==
    /\ running
    /\ pending # <<>>
    /\ ~AlreadyAppended(Head(pending))
    /\ LET transition == [state |-> Head(pending), at |-> clock]
       IN  /\ Accepts(machine, transition)
           /\ machine' = Append(machine, transition)
           /\ disk' = machine'
    /\ pending' = Tail(pending)
    /\ UNCHANGED <<clock, running, heldAttested>>

\* The candidate is refused, or state.json cannot be replaced: the exception
\* ends the call, and neither the file nor the memory has changed.
Raise ==
    /\ running
    /\ pending # <<>>
    /\ ~AlreadyAppended(Head(pending))
    /\ pending' = <<>>
    /\ UNCHANGED <<machine, disk, clock, running, heldAttested>>

\* Time passes, or the wall clock is set back.
ClockStep ==
    /\ clock' \in Times \ {clock}
    /\ UNCHANGED <<machine, disk, running, pending, heldAttested>>

\* The process dies; only the file survives.
Crash ==
    /\ running
    /\ running' = FALSE
    /\ machine' = <<>>
    /\ pending' = <<>>
    /\ heldAttested' = FALSE
    /\ UNCHANGED <<disk, clock>>

\* ExecutionJournal.open in a new process; a missing file or a journal that
\* does not replay raises.
Open ==
    /\ ~running
    /\ disk # <<>>
    /\ ReplayAccepts(disk)
    /\ machine' = disk
    /\ running' = TRUE
    /\ UNCHANGED <<disk, clock, pending, heldAttested>>

JournalNext == Call \/ Skip \/ AppendNext \/ Raise \/ ClockStep \/ Crash \/ Open

JournalSpec == JournalInit /\ [][JournalNext]_journalVars

-----------------------------------------------------------------------------
\* The values the variables range over.
JournalTypeOK ==
    /\ machine \in Seq(Transition)
    /\ disk \in Seq(Transition)
    /\ clock \in Times
    /\ running \in BOOLEAN
    /\ pending \in Seq(States)
    /\ heldAttested \in BOOLEAN

\* While the process is up its memory and state.json agree, whatever write
\* has failed before (the order of validation, replace and adoption in
\* ExecutionJournal.append).
DiskAgrees == running => machine = disk

\* The history as a whole is a prefix of the documented order, cut short by
\* at most one failure, with "cleaned" only after a decision: append looks
\* one step back only and must not let calls in any order produce another.
IsHistory(journal) ==
    \E n \in 0..13 :
        /\ n <= Len(journal)
        /\ \A i \in 1..n : journal[i].state = Linear[i]
        /\ \/ Len(journal) = n
           \/ /\ n \in 1..12
              /\ Len(journal) \in {n + 1, n + 2}
              /\ journal[n + 1].state = "failed"
              /\ Len(journal) = n + 2 => journal[n + 2].state = "cleaned"
           \/ /\ n = 13
              /\ Len(journal) = 14
              /\ journal[14].state = "cleaned"

LegalHistory == IsHistory(disk)

\* Timestamps in the journal never go back, although the clock does and the
\* process that continues a journal may not be the one that began it.
TimesNeverGoBack ==
    \A i, j \in DOMAIN disk : i <= j => disk[i].at <= disk[j].at

\* A journal left by a crash at any point can be opened again: what append
\* wrote, from_dict accepts.
Reopenable == disk # <<>> => ReplayAccepts(disk)

\* state.json only grows: no write, crash or reopening loses a transition
\* that was durable once.
AppendOnly ==
    [][ /\ Len(disk) <= Len(disk')
        /\ disk = SubSeq(disk', 1, Len(disk)) ]_disk

\* The journal read as an abstract lifecycle.
Phase ==
    CASE disk = <<>> -> "absent"
      [] Current(disk) = "cleaned" -> "cleaned"
      [] Current(disk) \in {"succeeded", "failed"} -> "decided"
      [] OTHER -> "running"

Outcome ==
    IF Recorded(disk, "failed") THEN "failed"
    ELSE IF Recorded(disk, "succeeded") THEN "succeeded" ELSE "none"

Lifecycle == INSTANCE RunLifecycle WITH phase <- Phase, outcome <- Outcome

\* The durable journal implements the abstract lifecycle: one outcome, never
\* changed, not even by a cleanup, a crash or a clock set back.
ImplementsLifecycle == Lifecycle!Spec
=============================================================================
