--------------------------- MODULE ExecutionProofs ---------------------------
(***************************************************************************)
(* Proofs about the journal, ExecutionJournal, for every bound on the      *)
(* clock and calls in any order, and about a run, ExecutionRun, for any    *)
(* profiles and options.  The journal of a run is an instance of           *)
(* ExecutionJournal whose calls are those of execute.                      *)
(***************************************************************************)
EXTENDS ExecutionJournal, ExecutionRun, SequenceTheorems, WellFoundedInduction, TLAPS

-----------------------------------------------------------------------------
(* The journal. *)

\* The documented order lists thirteen different states.
LEMMA DocumentedOrder ==
    /\ Len(Linear) = 13
    /\ Linear \in Seq(LinearStates)
    /\ \A i, j \in 1..13 : Linear[i] = Linear[j] => i = j
    /\ \A i \in 1..13 : Linear[i] \notin {"none", "failed", "cleaned"}
    /\ \A i \in 1..13 : Linear[i] = "succeeded" <=> i = 13
    /\ \A i \in 1..13 : Linear[i] = "planned" <=> i = 1
BY SMTT(60) DEF Linear, LinearStates

\* append keeps the history legal although it looks at the last state only.
LEMMA AppendKeepsHistory ==
    ASSUME NEW log \in Seq(Transition), NEW t \in Transition,
           IsHistory(log), Allowed(Current(log), t.state)
    PROVE  IsHistory(Append(log, t))
<1> DEFINE longer == Append(log, t)
<1>1. /\ Len(longer) = Len(log) + 1
      /\ \A i \in 1..Len(log) : longer[i] = log[i]
      /\ longer[Len(log) + 1] = t
      /\ Len(log) \in Nat
  OBVIOUS
<1>2. PICK n \in 0..13 :
        /\ n <= Len(log)
        /\ \A i \in 1..n : log[i].state = Linear[i]
        /\ \/ Len(log) = n
           \/ /\ n \in 1..12
              /\ Len(log) \in {n + 1, n + 2}
              /\ log[n + 1].state = "failed"
              /\ Len(log) = n + 2 => log[n + 2].state = "cleaned"
           \/ /\ n = 13
              /\ Len(log) = 14
              /\ log[14].state = "cleaned"
  BY DEF IsHistory
<1>3. CASE Len(log) = 0
  <2>1. t.state = "planned"
    BY <1>3, DocumentedOrder DEF Current, Allowed
  <2>2. Len(longer) = 1 /\ longer[1].state = Linear[1]
    BY <1>1, <1>3, <2>1, DocumentedOrder
  <2> QED
    BY <2>2 DEF IsHistory
<1>4. CASE Len(log) = n /\ n > 0
  <2>1. Current(log) = Linear[n]
    BY <1>2, <1>4 DEF Current
  <2>2. \/ n \in 1..12 /\ t.state \in {Linear[n + 1], "failed"}
        \/ n = 13 /\ t.state = "cleaned"
    BY <1>4, <2>1, DocumentedOrder DEF Allowed
  <2>3. CASE n \in 1..12 /\ t.state = Linear[n + 1]
    <3>1. \A i \in 1..(n + 1) : longer[i].state = Linear[i]
      BY <1>1, <1>2, <1>4, <2>3
    <3> QED
      BY <1>1, <1>4, <2>3, <3>1 DEF IsHistory
  <2>4. CASE n \in 1..12 /\ t.state = "failed"
    <3>1. \A i \in 1..n : longer[i].state = Linear[i]
      BY <1>1, <1>2, <1>4
    <3>2. longer[n + 1].state = "failed"
      BY <1>1, <1>4, <2>4
    <3> QED
      BY <1>1, <1>4, <2>4, <3>1, <3>2 DEF IsHistory
  <2>5. CASE n = 13 /\ t.state = "cleaned"
    <3>1. \A i \in 1..13 : longer[i].state = Linear[i]
      BY <1>1, <1>2, <1>4, <2>5
    <3> QED
      BY <1>1, <1>4, <2>5, <3>1 DEF IsHistory
  <2> QED
    BY <2>2, <2>3, <2>4, <2>5
<1>5. CASE n \in 1..12 /\ Len(log) = n + 1 /\ log[n + 1].state = "failed"
  <2>1. t.state = "cleaned"
    BY <1>5, DocumentedOrder DEF Current, Allowed
  <2>2. \A i \in 1..n : longer[i].state = Linear[i]
    BY <1>1, <1>2, <1>5
  <2>3. longer[n + 1].state = "failed" /\ longer[n + 2].state = "cleaned"
    BY <1>1, <1>5, <2>1
  <2> QED
    BY <1>1, <1>5, <2>2, <2>3 DEF IsHistory
<1>6. CASE Len(log) > 0 /\ log[Len(log)].state = "cleaned"
  BY <1>6, DocumentedOrder DEF Current, Allowed
<1>7. \/ Len(log) = 0
      \/ Len(log) = n /\ n > 0
      \/ n \in 1..12 /\ Len(log) = n + 1 /\ log[n + 1].state = "failed"
      \/ Len(log) > 0 /\ log[Len(log)].state = "cleaned"
  <2>1. CASE Len(log) = n
    BY <2>1
  <2>2. CASE n \in 1..12 /\ Len(log) = n + 1
    BY <1>2, <2>2
  <2>3. CASE n \in 1..12 /\ Len(log) = n + 2
    BY <1>2, <2>3
  <2>4. CASE Len(log) = 14 /\ log[14].state = "cleaned"
    BY <2>4
  <2> QED
    BY <1>2, <2>1, <2>2, <2>3, <2>4
<1> HIDE DEF longer
<1> QED
  BY <1>3, <1>4, <1>5, <1>6, <1>7 DEF longer

\* What Accepts checks of the time keeps all timestamps in order.
LEMMA AppendKeepsTimes ==
    ASSUME NEW log \in Seq(Transition), NEW t \in Transition,
           \A i, j \in DOMAIN log : i <= j => log[i].at <= log[j].at,
           log # <<>> => log[Len(log)].at <= t.at
    PROVE  LET longer == Append(log, t)
           IN  \A i, j \in DOMAIN longer : i <= j => longer[i].at <= longer[j].at
<1> DEFINE longer == Append(log, t)
<1>1. /\ Len(longer) = Len(log) + 1
      /\ \A i \in 1..Len(log) : longer[i] = log[i]
      /\ longer[Len(log) + 1] = t
      /\ DOMAIN longer = 1..(Len(log) + 1)
      /\ Len(log) \in Nat
  OBVIOUS
<1>2. \A i \in 1..Len(log) : log[i].at \in Nat
  <2>1. \A i \in 1..Len(log) : log[i] \in Transition
    BY ElementOfSeq
  <2> QED
    BY <2>1, MaxClockAssumption DEF Transition, Times
<1>3. t.at \in Nat
  BY MaxClockAssumption DEF Transition, Times
<1>4. \A i \in 1..Len(log) : log[i].at <= t.at
  <2> TAKE i \in 1..Len(log)
  <2>1. log # <<>> /\ i <= Len(log) /\ Len(log) \in DOMAIN log
    OBVIOUS
  <2>2. log[i].at <= log[Len(log)].at
    BY <2>1
  <2> QED
    BY <1>2, <1>3, <2>1, <2>2
<1>5. ASSUME NEW i \in DOMAIN longer, NEW j \in DOMAIN longer, i <= j
      PROVE  longer[i].at <= longer[j].at
  <2>1. CASE j <= Len(log)
    BY <1>1, <1>5, <2>1
  <2>2. CASE j = Len(log) + 1
    BY <1>1, <1>3, <1>4, <1>5, <2>2
  <2> QED
    BY <1>1, <2>1, <2>2
<1> QED
  BY <1>5

-----------------------------------------------------------------------------
\* The inductive invariant: the memory has to agree with the file for an
\* append to extend the durable history and not another one.
JournalInv == JournalTypeOK /\ DiskAgrees /\ LegalHistory /\ TimesNeverGoBack

LEMMA InitJournalInv == JournalInit => JournalInv
<1> SUFFICES ASSUME JournalInit PROVE JournalInv
  OBVIOUS
<1>1. /\ <<>> \in Seq(Transition)
      /\ <<>> \in Seq(States)
  OBVIOUS
<1>2. JournalTypeOK
  <2>1. clock \in Times
    BY MaxClockAssumption DEF JournalInit, Times
  <2>2. running \in BOOLEAN /\ heldAttested \in BOOLEAN
    BY Zenon DEF JournalInit
  <2> QED
    BY <1>1, <2>1, <2>2 DEF JournalInit, JournalTypeOK
<1>3. DiskAgrees /\ TimesNeverGoBack
  BY DEF JournalInit, DiskAgrees, TimesNeverGoBack
<1>4. LegalHistory
  BY DEF JournalInit, LegalHistory, IsHistory
<1> QED
  BY <1>2, <1>3, <1>4 DEF JournalInv

\* A call only queues states: it leaves journal, memory and clock alone.
LEMMA BeginKeepsJournalInv ==
    ASSUME JournalInv, NEW states \in Seq(States), BeginCall(states), heldAttested' \in BOOLEAN
    PROVE  JournalInv'
BY DEF JournalInv, JournalTypeOK, BeginCall, DiskAgrees, LegalHistory, TimesNeverGoBack

LEMMA CallKeepsJournalInv == ASSUME JournalInv, Call PROVE JournalInv'
<1>1. SubSeq(Linear, 7, 12) \in Seq(States)
  <2>1. \A i \in 7..12 : Linear[i] \in States
    BY DEF Linear, States, LinearStates
  <2> QED
    BY <2>1, SubSeqProperties
<1>2. /\ <<"planned", "validated">> \in Seq(States)
      /\ <<"building">> \in Seq(States)
      /\ <<"built", "pushing">> \in Seq(States)
      /\ <<"digest_resolved">> \in Seq(States)
      /\ <<"succeeded">> \in Seq(States)
      /\ <<"failed">> \in Seq(States)
      /\ <<"cleaned">> \in Seq(States)
  BY DEF States, LinearStates
<1>3. /\ <<>> \in Seq(States)
      /\ <<"smoke_testing">> \in Seq(States)
      /\ <<"smoke_testing", "attesting">> \in Seq(States)
      /\ \A s \in {"cluster_preparing", "applying", "waiting_ready",
                   "collecting_evidence"} : <<s>> \in Seq(States)
  BY DEF States, LinearStates
<1>4. heldAttested \in BOOLEAN
  BY DEF JournalInv, JournalTypeOK
<1>5. CASE Start
  BY <1>2, <1>4, <1>5, BeginKeepsJournalInv DEF Start
<1>6. CASE Building
  BY <1>2, <1>4, <1>6, BeginKeepsJournalInv DEF Building
<1>7. CASE BuiltAndPushed
  BY <1>2, <1>4, <1>7, BeginKeepsJournalInv DEF BuiltAndPushed
<1>8. CASE DigestResolved
  BY <1>2, <1>4, <1>8, BeginKeepsJournalInv DEF DigestResolved
<1>9. CASE KubernetesEvent
  <2>1. PICK states \in Seq(States) : BeginCall(states)
    BY <1>3, <1>9 DEF KubernetesEvent
  <2>2. heldAttested' \in BOOLEAN
    BY <1>4, <1>9 DEF KubernetesEvent
  <2> QED
    BY <2>1, <2>2, BeginKeepsJournalInv
<1>10. CASE CompleteKubernetes
  BY <1>1, <1>4, <1>10, BeginKeepsJournalInv DEF CompleteKubernetes
<1>11. CASE Fail
  BY <1>2, <1>4, <1>11, BeginKeepsJournalInv DEF Fail
<1>12. CASE Succeeded
  BY <1>2, <1>4, <1>12, BeginKeepsJournalInv DEF Succeeded
<1>13. CASE Cleaned
  BY <1>2, <1>4, <1>13, BeginKeepsJournalInv DEF Cleaned
<1> QED
  BY <1>5, <1>6, <1>7, <1>8, <1>9, <1>10, <1>11, <1>12, <1>13 DEF Call

\* The only step that changes the file: what it writes is the file's own
\* history with one accepted transition more.
LEMMA AppendKeepsJournalInv == ASSUME JournalInv, AppendNext PROVE JournalInv'
<1> DEFINE t == [state |-> Head(pending), at |-> clock]
<1>1. /\ Head(pending) \in States
      /\ Tail(pending) \in Seq(States)
  BY HeadTailProperties DEF JournalInv, JournalTypeOK, AppendNext
<1>2. t \in Transition
  BY <1>1 DEF JournalInv, JournalTypeOK, Transition
<1>3. machine = disk /\ running
  BY DEF JournalInv, DiskAgrees, AppendNext
<1>4. /\ machine' = Append(disk, t)
      /\ disk' = Append(disk, t)
      /\ Accepts(disk, t)
      /\ pending' = Tail(pending)
      /\ UNCHANGED <<clock, running, heldAttested>>
  BY <1>3 DEF AppendNext
<1>5. disk \in Seq(Transition)
  BY DEF JournalInv, JournalTypeOK
<1>6. JournalTypeOK'
  <2>1. Append(disk, t) \in Seq(Transition)
    BY <1>2, <1>5, AppendProperties
  <2> QED
    BY <1>1, <1>4, <2>1 DEF JournalInv, JournalTypeOK
<1>7. DiskAgrees'
  BY <1>4 DEF DiskAgrees
<1> HIDE DEF t
<1>8. LegalHistory'
  <2>1. IsHistory(disk) /\ Allowed(Current(disk), t.state)
    BY <1>4 DEF JournalInv, LegalHistory, Accepts
  <2> QED
    BY <1>2, <1>4, <1>5, <2>1, AppendKeepsHistory DEF LegalHistory
<1>9. TimesNeverGoBack'
  <2>1. disk # <<>> => disk[Len(disk)].at <= t.at
    BY <1>4 DEF Accepts
  <2>2. \A i, j \in DOMAIN disk : i <= j => disk[i].at <= disk[j].at
    BY DEF JournalInv, TimesNeverGoBack
  <2> QED
    BY <1>2, <1>4, <1>5, <2>1, <2>2, AppendKeepsTimes DEF TimesNeverGoBack
<1> QED
  BY <1>6, <1>7, <1>8, <1>9 DEF JournalInv

LEMMA NextKeepsJournalInv == JournalInv /\ [JournalNext]_journalVars => JournalInv'
<1> SUFFICES ASSUME JournalInv, [JournalNext]_journalVars PROVE JournalInv'
  OBVIOUS
<1> USE DEF JournalInv
<1>1. CASE Call
  BY <1>1, CallKeepsJournalInv
<1>2. CASE Skip
  <2>1. Tail(pending) \in Seq(States)
    BY <1>2, HeadTailProperties DEF JournalTypeOK, Skip
  <2> QED
    BY <1>2, <2>1 DEF Skip, JournalTypeOK, DiskAgrees, LegalHistory, TimesNeverGoBack
<1>3. CASE AppendNext
  BY <1>3, AppendKeepsJournalInv
<1>4. CASE Raise
  <2>1. <<>> \in Seq(States)
    OBVIOUS
  <2> QED
    BY <1>4, <2>1 DEF Raise, JournalTypeOK, DiskAgrees, LegalHistory, TimesNeverGoBack
<1>5. CASE ClockStep
  BY <1>5 DEF ClockStep, JournalTypeOK, DiskAgrees, LegalHistory, TimesNeverGoBack
<1>6. CASE Crash
  <2>1. <<>> \in Seq(States) /\ <<>> \in Seq(Transition)
    OBVIOUS
  <2> QED
    BY <1>6, <2>1 DEF Crash, JournalTypeOK, DiskAgrees, LegalHistory, TimesNeverGoBack
<1>7. CASE Open
  BY <1>7 DEF Open, JournalTypeOK, DiskAgrees, LegalHistory, TimesNeverGoBack
<1>8. CASE UNCHANGED journalVars
  BY <1>8 DEF journalVars, JournalTypeOK, DiskAgrees, LegalHistory, TimesNeverGoBack
<1> QED
  BY <1>1, <1>2, <1>3, <1>4, <1>5, <1>6, <1>7, <1>8 DEF JournalNext

\* A transition that append accepted after a journal is accepted again when
\* the file is replayed: the replay meets the same predecessor.
LEMMA AppendKeepsReopenable ==
    ASSUME JournalInv, Reopenable, AppendNext
    PROVE  Reopenable'
<1> DEFINE t == [state |-> Head(pending), at |-> clock]
<1>1. /\ disk' = Append(disk, t)
      /\ Accepts(disk, t)
      /\ disk \in Seq(Transition)
  BY DEF JournalInv, DiskAgrees, JournalTypeOK, AppendNext
<1> HIDE DEF t
<1>2. /\ DOMAIN disk' = 1..(Len(disk) + 1)
      /\ Len(disk) \in Nat
      /\ DOMAIN disk = 1..Len(disk)
      /\ disk'[Len(disk) + 1] = t
      /\ \A i \in 1..Len(disk) : disk'[i] = disk[i]
  BY <1>1
<1>3. ASSUME NEW i \in DOMAIN disk'
      PROVE  Accepts(SubSeq(disk', 1, i - 1), disk'[i])
  <2>1. CASE i = Len(disk) + 1
    <3>1. SubSeq(disk', 1, i - 1) = disk
      BY <1>1, <1>2, <2>1
    <3> QED
      BY <1>1, <1>2, <2>1, <3>1
  <2>2. CASE i \in 1..Len(disk)
    <3>1. SubSeq(disk', 1, i - 1) = SubSeq(disk, 1, i - 1)
      BY <1>1, <1>2, <2>2
    <3>2. disk # <<>>
      BY <1>2, <2>2
    <3> QED
      BY <1>2, <2>2, <3>1, <3>2 DEF Reopenable, ReplayAccepts
  <2> QED
    BY <1>2, <2>1, <2>2
<1> QED
  BY <1>3 DEF Reopenable, ReplayAccepts

\* Every step but an accepted append leaves the file alone.
LEMMA OthersKeepDisk ==
    ASSUME [JournalNext]_journalVars, ~AppendNext
    PROVE  disk' = disk
BY DEF JournalNext, journalVars, Call, BeginCall, Start, Building, BuiltAndPushed,
   DigestResolved, Succeeded, KubernetesEvent, CompleteKubernetes, Fail,
   Cleaned, Skip, Raise, ClockStep, Crash, Open

\* An accepted append is a step of the abstract lifecycle or a stutter.
LEMMA AppendImplements ==
    ASSUME JournalInv, AppendNext
    PROVE  [Lifecycle!Next]_(Lifecycle!vars)
<1> DEFINE t == [state |-> Head(pending), at |-> clock]
<1>1. /\ disk' = Append(disk, t)
      /\ Accepts(disk, t)
      /\ disk \in Seq(Transition)
  BY DEF JournalInv, DiskAgrees, JournalTypeOK, AppendNext
<1> HIDE DEF t
<1>2. /\ disk' # <<>>
      /\ Current(disk') = t.state
      /\ \A s : Recorded(disk', s) <=> Recorded(disk, s) \/ s = t.state
  <2>1. /\ DOMAIN disk' = 1..(Len(disk) + 1)
        /\ Len(disk') = Len(disk) + 1
        /\ Len(disk) \in Nat
        /\ DOMAIN disk = 1..Len(disk)
        /\ disk'[Len(disk) + 1] = t
        /\ \A i \in 1..Len(disk) : disk'[i] = disk[i]
    BY <1>1
  <2>2. disk' # <<>> /\ Current(disk') = t.state
    BY <2>1 DEF Current
  <2>3. ASSUME NEW s
        PROVE  Recorded(disk', s) <=> Recorded(disk, s) \/ s = t.state
    BY <2>1 DEF Recorded
  <2> QED
    BY <2>2, <2>3
<1>3. CASE t.state = "planned" /\ disk = <<>>
  <2>1. Phase = "absent" /\ Phase' = "running"
    BY <1>2, <1>3 DEF Phase, Current
  <2>2. Outcome' = Outcome
    BY <1>2, <1>3 DEF Outcome
  <2> QED
    BY <2>1, <2>2 DEF Lifecycle!Next, Lifecycle!Begin
<1>4. CASE /\ Current(disk) \notin {"none", "succeeded", "failed", "cleaned"}
           /\ t.state \notin {"none", "succeeded", "failed", "cleaned"}
  <2>1. Phase = "running" /\ Phase' = "running"
    BY <1>2, <1>4 DEF Phase, Current
  <2>2. Outcome' = Outcome
    BY <1>2, <1>4 DEF Outcome
  <2> QED
    BY <2>1, <2>2 DEF Lifecycle!vars
<1>5. CASE /\ Current(disk) \notin {"none", "succeeded", "failed", "cleaned"}
           /\ t.state \in {"succeeded", "failed"}
  <2>1. Phase = "running" /\ Phase' = "decided"
    BY <1>2, <1>5 DEF Phase, Current
  <2>2. Outcome' \in {"succeeded", "failed"}
    BY <1>2, <1>5 DEF Outcome
  <2> QED
    BY <2>1, <2>2 DEF Lifecycle!Next, Lifecycle!Decide, Lifecycle!Outcomes
<1>6. CASE Current(disk) \in {"succeeded", "failed"} /\ t.state = "cleaned"
  <2>1. Phase = "decided" /\ Phase' = "cleaned"
    BY <1>2, <1>6 DEF Phase, Current
  <2>2. Outcome' = Outcome
    BY <1>2, <1>6 DEF Outcome
  <2> QED
    BY <2>1, <2>2 DEF Lifecycle!Next, Lifecycle!Clean
<1>7. Allowed(Current(disk), t.state)
  BY <1>1 DEF Accepts
<1>8. Current(disk) = "none" => disk = <<>>
  <2>1. \A i \in 1..Len(disk) : disk[i] \in Transition
    BY <1>1, ElementOfSeq
  <2>2. disk # <<>> => Len(disk) \in 1..Len(disk)
    BY <1>1
  <2>3. "none" \notin States
    BY DEF States, LinearStates
  <2> QED
    BY <2>1, <2>2, <2>3 DEF Current, Transition
<1>9. CASE /\ Current(disk) \notin {"none", "succeeded", "failed", "cleaned"}
           /\ t.state # "none"
           /\ t.state # "cleaned"
  BY <1>4, <1>5, <1>9
<1>10. \/ Current(disk) = "none" /\ t.state = "planned"
       \/ /\ Current(disk) \notin {"none", "succeeded", "failed", "cleaned"}
          /\ t.state # "none"
          /\ t.state # "cleaned"
       \/ Current(disk) \in {"succeeded", "failed"} /\ t.state = "cleaned"
  BY <1>7, DocumentedOrder DEF Allowed
<1> QED
  BY <1>3, <1>6, <1>8, <1>9, <1>10

-----------------------------------------------------------------------------
\* The inductive invariant holds in every state of every run, whatever the
\* order of the calls, the failures of writes, the clock and the crashes.
THEOREM JournalInvariance == JournalSpec => []JournalInv
BY InitJournalInv, NextKeepsJournalInv, PTL DEF JournalSpec

\* The journal's variables keep their types.
THEOREM JournalTypeCorrect == JournalSpec => []JournalTypeOK
BY JournalInvariance, PTL DEF JournalInv

\* Memory and state.json agree while the process is up.
THEOREM MemoryAgrees == JournalSpec => []DiskAgrees
BY JournalInvariance, PTL DEF JournalInv

\* The durable history has the documented shape as a whole, although append
\* only ever compares two neighbouring states.
THEOREM HistoryIsLegal == JournalSpec => []LegalHistory
BY JournalInvariance, PTL DEF JournalInv

\* The durable timestamps are ordered, although the clock is not.
THEOREM TimesAreOrdered == JournalSpec => []TimesNeverGoBack
BY JournalInvariance, PTL DEF JournalInv

\* A journal left by a crash at any point is accepted by from_dict.
THEOREM JournalReopens == JournalSpec => []Reopenable
<1>1. JournalInit => Reopenable
  BY DEF JournalInit, Reopenable
<1>2. JournalInv /\ Reopenable /\ [JournalNext]_journalVars => Reopenable'
  <2> SUFFICES ASSUME JournalInv, Reopenable, [JournalNext]_journalVars PROVE Reopenable'
    OBVIOUS
  <2>1. CASE AppendNext
    BY <2>1, AppendKeepsReopenable
  <2>2. CASE ~AppendNext
    BY <2>2, OthersKeepDisk DEF Reopenable
  <2> QED
    BY <2>1, <2>2
<1> QED
  BY <1>1, <1>2, JournalInvariance, PTL DEF JournalSpec

\* The journal implements the abstract lifecycle: one outcome, for good.
THEOREM ImplementsRunLifecycle == JournalSpec => ImplementsLifecycle
<1>1. JournalInit => Lifecycle!Init
  BY DEF JournalInit, Lifecycle!Init, Phase, Outcome, Recorded, Current
<1>2. JournalInv /\ [JournalNext]_journalVars => [Lifecycle!Next]_(Lifecycle!vars)
  <2> SUFFICES ASSUME JournalInv, [JournalNext]_journalVars
               PROVE  [Lifecycle!Next]_(Lifecycle!vars)
    OBVIOUS
  <2>1. CASE AppendNext
    BY <2>1, AppendImplements
  <2>2. CASE ~AppendNext
    BY <2>2, OthersKeepDisk DEF Lifecycle!vars, Phase, Outcome, Current, Recorded
  <2> QED
    BY <2>1, <2>2
<1> QED
  BY <1>1, <1>2, JournalInvariance, PTL DEF JournalSpec, ImplementsLifecycle, Lifecycle!Spec

\* state.json only ever grows by a suffix.
THEOREM FileOnlyGrows == JournalSpec => AppendOnly
<1>1. JournalInv /\ [JournalNext]_journalVars =>
        [/\ Len(disk) <= Len(disk')
         /\ disk = SubSeq(disk', 1, Len(disk))]_disk
  <2> SUFFICES ASSUME JournalInv, AppendNext
               PROVE  /\ Len(disk) <= Len(disk')
                      /\ disk = SubSeq(disk', 1, Len(disk))
    BY DEF JournalNext, journalVars, Call, BeginCall, Start, Building, BuiltAndPushed,
       DigestResolved, Succeeded, KubernetesEvent, CompleteKubernetes, Fail,
       Cleaned, Skip, Raise, ClockStep, Crash, Open
  <2> DEFINE t == [state |-> Head(pending), at |-> clock]
  <2>1. disk' = Append(disk, t) /\ disk \in Seq(Transition)
    BY DEF JournalInv, DiskAgrees, JournalTypeOK, AppendNext
  <2> HIDE DEF t
  <2>2. Len(disk') = Len(disk) + 1 /\ Len(disk) \in Nat
    BY <2>1
  <2>3. disk = SubSeq(disk', 1, Len(disk))
    BY <2>1, <2>2
  <2> QED
    BY <2>2, <2>3
<1> QED
  BY <1>1, JournalInvariance, PTL DEF JournalSpec, AppendOnly

-----------------------------------------------------------------------------
(* The inductive invariant of a run. *)

\* All stages, in the order in which a release plans them.
All == StagesOf("release")
Status(i) == results[All[i]]
\* The last stage before the cleanup.
Most == CASE profile = "static" -> 4
          [] profile = "supply-chain" -> 11
          [] OTHER -> 19

\* The steps before the cleanup, and what a run without an error has behind it
\* when it comes to each of them: the stages that have passed, and the states
\* of a journal that has been begun.
Early == {"static", "registry", "record", "begin"}
Deploying ==
    {"cluster", "dry-run", "namespace", "apply", "rollout", "applied",
     "runtime-attestation", "smoke", "rollback", "deployed"}
Going ==
    Early \cup Deploying \cup {"announce", "build", "resolve", "supply", "contract", "schema"}
Behind(label) ==
    CASE label = "static" -> 0
      [] label \in {"registry", "record", "begin", "announce"} -> 4
      [] label = "build" -> 5
      [] label = "resolve" -> 6
      [] label = "supply" -> 7
      [] label = "contract" -> 10
      [] label = "schema" -> 11
      [] label \in Deploying -> 12
Written(label) ==
    CASE label = "announce" -> 2
      [] label = "build" -> 3
      [] label = "resolve" -> 5
      [] label \in {"supply", "contract", "schema", "cluster", "dry-run"} -> 6
      [] label \in {"namespace", "apply"} -> 7
      [] label = "rollout" -> 8
      [] label \in {"applied", "runtime-attestation", "smoke"} -> 9
      [] label = "rollback" -> 11
      [] label = "deployed" -> 12
      [] OTHER -> 0

\* The journal holds the first n states of the documented order and nothing
\* else, or a failure after them.
Reaches(history, n) ==
    /\ history \in Seq(Journal!Transition)
    /\ Len(history) = n
    /\ \A i \in 1..n : history[i].state = Journal!Linear[i]
Breaks(history, n) ==
    /\ n # 0
    /\ history \in Seq(Journal!Transition)
    /\ Len(history) = n + 1
    /\ \A i \in 1..n : history[i].state = Journal!Linear[i]
    /\ history[n + 1].state = "failed"

\* With n stages passed, the journal has at least the states they leave.
Seen(n, reached) ==
    /\ n >= 13 => reached >= 7
    /\ n >= 14 => reached >= 8
    /\ n >= 15 => reached >= 9
    /\ n >= 17 => reached >= 10
    /\ n >= 19 => reached = 12

\* A run that has met no error and comes to the step label.
GoingAt(label) ==
    /\ ~failed /\ ~escaping /\ ~cleaned /\ ~retained
    /\ blamed = "none" /\ unknown = {} /\ existing = objects
    /\ \A i \in 1..25 : Status(i) = IF i <= Behind(label) THEN "PASSED" ELSE "NONE"
    /\ started <=> Canonical /\ label \notin Early
    /\ Reaches(journal, IF started THEN Written(label) ELSE 0)
    /\ attested <=> label \in {"smoke", "rollback", "deployed"}
    /\ profile = "static" => label \in {"static", "begin"}
    /\ profile = "static" \/ label = "static" => objects = {}
    /\ options.missing => label \in Early
    /\ label \in Deploying \cup {"schema"} => Canonical
GoingInv == pc \in Going => GoingAt(pc)

\* All stages before the cleanup have passed.
Whole ==
    /\ \A i \in 1..Most : Status(i) = "PASSED"
    /\ started <=> Canonical
    /\ Reaches(journal, IF Canonical THEN 12 ELSE 0)
    /\ blamed = "none"

\* A stage before the cleanup has failed, or the journal call after it.  The
\* stages up to it have passed and were seen; it is the one the journal
\* blames, unless a write has failed.
BreaksAt(n, reached) ==
    /\ \A i \in 1..n : Status(i) = "PASSED"
    /\ \/ Status(n + 1) \in {"FAILED", "BLOCKED"}
       \/ Status(n + 1) = "NONE" /\ WritesMayFail
    /\ \/ /\ started /\ ~escaping /\ Breaks(journal, reached)
          /\ Status(n + 1) # "NONE" => blamed = All[n + 1]
       \/ /\ started /\ escaping /\ WritesMayFail
          /\ Reaches(journal, reached)
       \/ ~started /\ ~escaping /\ journal = <<>>
    /\ started => Seen(n, reached)
Broken == \E n \in 0..18, reached \in 0..12 : BreaksAt(n, reached)

\* An error of the executor is lost in its handler: nothing says that the run
\* has failed.
Lost ==
    /\ escaping /\ started /\ Canonical
    /\ \E n \in 7..12 : Reaches(journal, n)

\* What a run comes to its cleanup with, and what it leaves it with.
CleanupInv ==
    pc = "cleanup" =>
        /\ ~cleaned /\ ~retained
        /\ \A i \in 20..25 : Status(i) = "NONE"
        /\ profile = "static" => objects = {}
        /\ IF failed THEN Broken ELSE unknown = {} /\ (Lost \/ (Whole /\ ~escaping))

Succeeds ==
    /\ ~failed
    /\ Whole
    /\ IF retained
       THEN profile \notin {"static", "release"} /\ Status(20) = "NOT_APPLICABLE"
       ELSE existing = {} /\ (profile # "static" => Status(20) = "PASSED" /\ cleaned)
    /\ pc = "release" => ~retained
    /\ pc = "finish" /\ profile = "release" => \A i \in 21..25 : Status(i) = "PASSED"

CleanupFails ==
    failed /\ Whole /\ Status(20) = "FAILED" /\ stage = "cleanup"

GateFails ==
    /\ failed /\ profile = "release" /\ started
    /\ \E n \in 20..24 :
          /\ \A i \in 1..n : Status(i) = "PASSED"
          /\ Status(n + 1) = "FAILED"
          /\ blamed = All[n + 1]
    /\ Breaks(journal, 12)

FinishInv ==
    pc \in {"release", "finish"} =>
        /\ ~escaping
        /\ profile = "release" => ~retained \/ failed
        /\ pc = "release" => Succeeds /\ profile = "release"
        /\ pc = "finish" => Succeeds \/ CleanupFails \/ GateFails \/ (failed /\ Broken)

\* The report of a run that names the first n stages as passed and, if there
\* is one, the last one as what it is.
Reported(n, last) ==
    /\ Len(report) = IF last = "none" THEN n ELSE n + 1
    /\ \A i \in 1..n : report[i] = [stage |-> All[i], status |-> "PASSED"]
    /\ last # "none" => report[n + 1] = [stage |-> All[n + 1], status |-> last]

ClosesPassed ==
    /\ final = "PASSED" /\ ~failed /\ cleaned
    /\ Reported(Len(StagesOf(profile)), "none")
    /\ Reaches(journal, 12) /\ started

ClosesFailed ==
    /\ final \in {"FAILED", "BLOCKED"}
    /\ \E n \in 0..24 :
          /\ n < Len(StagesOf(profile))
          /\ Reported(n, final)
          /\ \/ \E reached \in 0..12 :
                   /\ Breaks(journal, reached) /\ Seen(n, reached) /\ started
                   /\ blamed = All[n + 1]
             \/ Reaches(journal, 12) /\ n = 19 /\ stage = "cleanup" /\ started
             \/ ~started /\ journal = <<>>

\* The report blames no stage, and will be refused.
ClosesSilent ==
    /\ final = "FAILED"
    /\ \A i \in DOMAIN report : report[i].status \in {"PASSED", "NOT_APPLICABLE"}
    /\ \/ WritesMayFail
       \/ retained /\ RequiredStageFailures(profile, report) = {"cleanup"}
    /\ \/ \E reached \in 0..12 : Breaks(journal, reached) \/ Reaches(journal, reached)
       \/ ~started /\ journal = <<>>

CloseInv ==
    pc = "close" =>
        /\ failed <=> final # "PASSED"
        /\ IF Canonical THEN ClosesPassed \/ (failed /\ (ClosesFailed \/ ClosesSilent))
           ELSE journal = <<>> /\ ~started
        /\ final = "PASSED" => /\ RequiredStageFailures(profile, report) = {}
                               /\ existing = {} /\ ~retained

LeftInv ==
    pc \in {"release", "finish", "close", "done"} =>
        Retains \/ Status(20) = "FAILED" \/ existing \subseteq unknown

EndInv ==
    /\ options.keep \/ options.keepOnFailure => profile # "release"
    /\ started => Canonical
    /\ Canonical \/ journal = <<>>
    /\ pc # "done" => outcome = "running"
    /\ pc \notin {"close", "done"} => report = <<>> /\ final = "none"

DoneInv ==
    pc = "done" =>
        /\ SuccessIsEarned /\ StartedRunCloses /\ PassedStagesWereSeen
        /\ JournalTellsTheOutcome

IInv ==
    /\ StateOK /\ EndInv /\ GoingInv /\ CleanupInv /\ FinishInv /\ CloseInv /\ LeftInv
    /\ DoneInv

\* The steps that come after the artifact has been resolved, and those that
\* come after its supply-chain evidence has been accepted.
Accepted == Deploying \cup {"contract", "schema"}
Resolved == Accepted \cup {"supply"}

\* All the evidence that a successful run of the profile has to show.
Complete ==
    /\ profile # "static" => evidence.artifact # "none" /\ evidence.supply = "passed"
    /\ Canonical => evidence.deployment

\* The evidence a run has at hand is evidence of one image, and is gathered in
\* an order: a failed run has the first pieces of it, a run that has met no
\* error has all of it when it comes to its cleanup.
EvidenceInv ==
    /\ evidence \in Evidence
    /\ evidence.artifact # "index"
    /\ evidence.supply # "none" => evidence.artifact # "none"
    /\ evidence.deployment => evidence.supply = "passed" /\ Canonical
    /\ profile = "static" => evidence.artifact = "none"
    /\ pc \in Going => ~evidence.deployment
    /\ pc \in Going \ Resolved => evidence.supply = "none"
    /\ pc \in Resolved => evidence.artifact # "none"
    /\ pc \in Accepted => evidence.supply = "passed"
    /\ pc \notin Going /\ ~failed /\ ~escaping => Complete
    /\ final = "PASSED" => Complete

Inv == IInv /\ EvidenceInv

-----------------------------------------------------------------------------
(* The stages of the profiles. *)

LEMMA StageNames ==
    /\ Len(All) = 25 /\ DOMAIN All = 1..25
    /\ /\ All[1] = "config-schema" /\ All[2] = "template-lock"
       /\ All[3] = "adapter-contracts" /\ All[4] = "generated-files"
       /\ All[5] = "registry-lifecycle" /\ All[6] = "build-once"
       /\ All[7] = "resolve-digest" /\ All[8] = "sbom"
       /\ All[9] = "vulnerability-scan" /\ All[10] = "provenance"
       /\ All[11] = "artifact-contract" /\ All[12] = "kubernetes-schema"
       /\ All[13] = "server-side-dry-run" /\ All[14] = "deployment"
       /\ All[15] = "rollout" /\ All[16] = "pod-image" /\ All[17] = "health"
       /\ All[18] = "readiness" /\ All[19] = "rollback" /\ All[20] = "cleanup"
       /\ All[21] = "package" /\ All[22] = "release-assets"
       /\ All[23] = "release-download-verification" /\ All[24] = "working-tree"
       /\ All[25] = "tag-commit"
BY SMTT(60) DEF All, StagesOf, KindStages, SupplyChainCoreStages, StaticStages, ClusterStages,
       ReleaseGates

LEMMA StageOrder ==
    /\ \A i, j \in 1..25 : All[i] = All[j] => i = j
    /\ StageIds = {All[i] : i \in 1..25}
    /\ \A i \in 1..25 : All[i] \in StageIds
<1>1. \A i, j \in 1..25 : All[i] = All[j] => i = j
  BY SMTT(60), StageNames
<1>2. StageIds = {All[i] : i \in 1..25}
  BY StageNames DEF StageIds, All
<1> QED BY <1>1, <1>2

LEMMA PlannedStages ==
    /\ Len(StagesOf("static")) = 4
    /\ Len(StagesOf("supply-chain")) = 12
    /\ Len(StagesOf("kind-e2e")) = 20
    /\ \A i \in 1..4 : StagesOf("static")[i] = All[i]
    /\ \A i \in 1..11 : StagesOf("supply-chain")[i] = All[i]
    /\ StagesOf("supply-chain")[12] = All[20]
    /\ \A i \in 1..20 : StagesOf("kind-e2e")[i] = All[i]
    /\ \A p \in Profiles : DOMAIN StagesOf(p) = 1..Len(StagesOf(p))
BY SMTT(60) DEF All, StagesOf, KindStages, SupplyChainCoreStages, StaticStages, ClusterStages,
       ReleaseGates, Profiles

-----------------------------------------------------------------------------
(* Calls of the progress writer. *)

LEMMA Smallest ==
    ASSUME NEW S, S \subseteq Nat, S # {}
    PROVE  \E x \in S : \A y \in S : x <= y
<1>1. PICK x \in S : \A y \in S : ~(<<y, x>> \in OpToRel(<, Nat))
  BY NatLessThanWellFounded, WFMin
<1>2. \A y \in S : ~(y < x)
  BY <1>1 DEF OpToRel
<1>3. \A y \in S : y \in Int
  OBVIOUS
<1>4. \A y \in S : x <= y
  BY <1>2, <1>3
<1> QED BY <1>4

\* f holds what a call has done after each of its first n states.
Follows(f, n, history, states) ==
    f = [i \in 0..n |-> IF i = 0 THEN [history |-> history, ok |-> TRUE]
                        ELSE Continued(f[i - 1], states[i])]

LEMMA CallsFollow ==
    ASSUME NEW history, NEW states, Len(states) \in Nat, NEW k \in 0..Len(states)
    PROVE  \E f : Follows(f, k, history, states)
<1> DEFINE bad == {n \in 0..Len(states) : ~\E f : Follows(f, n, history, states)}
<1> SUFFICES ASSUME bad # {} PROVE FALSE
  OBVIOUS
<1>1. PICK n \in bad : \A m \in bad : n <= m
  <2>1. bad \subseteq Nat
    OBVIOUS
  <2> HIDE DEF bad
  <2> QED BY <2>1, Smallest
<1>2. n \in 0..Len(states) /\ ~\E f : Follows(f, n, history, states)
  BY <1>1
<1>3. CASE n = 0
  <2>1. PICK f : f = [i \in 0..0 |-> [history |-> history, ok |-> TRUE]]
    OBVIOUS
  <2>2. Follows(f, 0, history, states)
    BY <2>1 DEF Follows
  <2> QED BY <1>2, <1>3, <2>2
<1>4. CASE n # 0
  <2>1. n - 1 \in 0..Len(states) /\ ~(n <= n - 1) /\ n \in Nat
    BY <1>2, <1>4
  <2>2. PICK f : Follows(f, n - 1, history, states)
    BY <1>1, <2>1
  <2>3. PICK g : g = [i \in 0..n |-> IF i = n THEN Continued(f[n - 1], states[n]) ELSE f[i]]
    OBVIOUS
  <2>4. ASSUME NEW i \in 0..n - 1
        PROVE  g[i] = f[i] /\ f[i] = IF i = 0 THEN [history |-> history, ok |-> TRUE]
                                     ELSE Continued(f[i - 1], states[i])
    <3>1. i \in 0..n /\ i # n
      BY <2>1
    <3> QED BY <2>2, <2>3, <3>1 DEF Follows
  <2>5. ASSUME NEW i \in 0..n
        PROVE  g[i] = IF i = 0 THEN [history |-> history, ok |-> TRUE]
                      ELSE Continued(g[i - 1], states[i])
    <3>1. CASE i = n
      BY <1>4, <2>1, <2>3, <2>4, <3>1
    <3>2. CASE i # n
      <4>1. i \in 0..n - 1 /\ (i # 0 => i - 1 \in 0..n - 1)
        BY <2>1, <3>2
      <4> QED BY <2>4, <4>1
    <3> QED BY <3>1, <3>2
  <2>6. g = [i \in 0..n |-> IF i = 0 THEN [history |-> history, ok |-> TRUE]
                            ELSE Continued(g[i - 1], states[i])]
    BY <2>3, <2>5
  <2> QED BY <1>2, <2>6 DEF Follows
<1> QED BY <1>3, <1>4

\* What After computes.
LEMMA AfterIs ==
    ASSUME NEW history, NEW states, Len(states) \in Nat
    PROVE  /\ After(history, states)[0] = [history |-> history, ok |-> TRUE]
           /\ \A n \in 1..Len(states) :
                 After(history, states)[n] =
                     Continued(After(history, states)[n - 1], states[n])
<1> DEFINE Computed == CHOOSE f : f = [i \in 0..Len(states) |->
                      IF i = 0 THEN [history |-> history, ok |-> TRUE]
                      ELSE Continued(f[i - 1], states[i])]
<1>1. \E f : Follows(f, Len(states), history, states)
  <2>1. Len(states) \in 0..Len(states)
    OBVIOUS
  <2> QED BY <2>1, CallsFollow
<1>2. Follows(Computed, Len(states), history, states)
  BY <1>1 DEF Follows
<1>3. After(history, states) = Computed
  BY DEF After
<1> HIDE DEF Computed
<1>4. \A n \in 0..Len(states) :
        Computed[n] = IF n = 0 THEN [history |-> history, ok |-> TRUE]
                  ELSE Continued(Computed[n - 1], states[n])
  BY <1>2 DEF Follows
<1>5. 0 \in 0..Len(states) /\ \A n \in 1..Len(states) : n \in 0..Len(states) /\ n # 0
  OBVIOUS
<1> QED BY <1>3, <1>4, <1>5

\* The documented order lists thirteen different states.
LEMMA LinearOrder ==
    /\ Len(Journal!Linear) = 13
    /\ \A i \in 1..13 : Journal!Linear[i] \in Journal!LinearStates
    /\ \A i, j \in 1..13 : Journal!Linear[i] = Journal!Linear[j] => i = j
    /\ \A i \in 1..13 : Journal!Linear[i] \notin {"none", "failed", "cleaned"}
    /\ \A i \in 1..13 : Journal!Linear[i] = "succeeded" <=> i = 13
    /\ \A i \in 1..13 : Journal!Linear[i] = "planned" <=> i = 1
    /\ \A i \in 1..13 : Journal!Linear[i] \in Journal!KubernetesStates <=> i \in 7..12
BY SMTT(60) DEF Journal!Linear, Journal!LinearStates, Journal!KubernetesStates

Entry(s) == [state |-> s, at |-> 0]

LEMMA EntryIsTransition ==
    ASSUME NEW s \in Journal!States
    PROVE  Entry(s) \in Journal!Transition
BY DEF Entry, Journal!Transition, Journal!Times

\* The next state is accepted, and is not one that is recorded already.
LEMMA NextIsAccepted ==
    ASSUME NEW h, NEW n \in 0..12, Reaches(h, n)
    PROVE  LET s == Journal!Linear[n + 1]
           IN  /\ ~Journal!Recorded(h, s)
               /\ Journal!Allowed(Journal!Current(h), s)
               /\ Reaches(Append(h, Entry(s)), n + 1)
<1> DEFINE s == Journal!Linear[n + 1]
<1>1. h \in Seq(Journal!Transition) /\ Len(h) = n /\ DOMAIN h = 1..n
  BY DEF Reaches
<1>2. \A i \in 1..n : h[i].state = Journal!Linear[i] /\ i \in 1..13 /\ i # n + 1
  BY DEF Reaches
<1>3. n + 1 \in 1..13 /\ s \in Journal!States
  BY LinearOrder DEF Journal!States
<1>4. ~Journal!Recorded(h, s)
  BY SMTT(30), <1>1, <1>2, <1>3, LinearOrder DEF Journal!Recorded
<1>5. Journal!Allowed(Journal!Current(h), s)
  <2>1. CASE n = 0
    BY <1>1, <2>1, LinearOrder DEF Journal!Allowed, Journal!Current
  <2>2. CASE n # 0
    <3>1. n \in 1..12 /\ Journal!Current(h) = Journal!Linear[n]
      BY <1>1, <1>2, <2>2 DEF Journal!Current
    <3> QED BY <3>1 DEF Journal!Allowed
  <2> QED BY <2>1, <2>2
<1>6. Reaches(Append(h, Entry(s)), n + 1)
  <2>1. Entry(s) \in Journal!Transition
    BY <1>3, EntryIsTransition
  <2>2. Append(h, Entry(s)) \in Seq(Journal!Transition)
    BY <1>1, <2>1
  <2>3. Len(Append(h, Entry(s))) = n + 1
    BY <1>1
  <2>4. ASSUME NEW i \in 1..n + 1
        PROVE  Append(h, Entry(s))[i].state = Journal!Linear[i]
    BY <1>1, <1>2 DEF Entry
  <2> QED BY <2>2, <2>3, <2>4 DEF Reaches
<1> QED BY <1>4, <1>5, <1>6

\* A failure is accepted after any of the states but the last, and only there.
LEMMA FailureIsAccepted ==
    ASSUME NEW h, NEW n \in 0..12, Reaches(h, n)
    PROVE  /\ Journal!Allowed(Journal!Current(h), "failed") <=> n # 0
           /\ n # 0 => Breaks(Append(h, Entry("failed")), n)
           /\ Journal!Current(h) \notin {"failed", "cleaned", "succeeded"}
           /\ ~Journal!Recorded(h, "failed")
<1>1. h \in Seq(Journal!Transition) /\ Len(h) = n /\ DOMAIN h = 1..n
  BY DEF Reaches
<1>2. \A i \in 1..n : h[i].state = Journal!Linear[i] /\ i \in 1..12
  BY DEF Reaches
<1>3. /\ Journal!Allowed(Journal!Current(h), "failed") <=> n # 0
      /\ Journal!Current(h) \notin {"failed", "cleaned", "succeeded"}
  <2>1. CASE n = 0
    BY <1>1, <2>1, LinearOrder DEF Journal!Allowed, Journal!Current
  <2>2. CASE n # 0
    <3>1. n \in 1..12 /\ Journal!Current(h) = Journal!Linear[n]
      BY <1>1, <1>2, <2>2 DEF Journal!Current
    <3>2. n \in 1..13 /\ n # 13
      BY <3>1
    <3> QED BY <2>2, <3>1, <3>2, LinearOrder DEF Journal!Allowed
  <2> QED BY <2>1, <2>2
<1>4. n # 0 => Breaks(Append(h, Entry("failed")), n)
  <2>1. Entry("failed") \in Journal!Transition
    BY EntryIsTransition DEF Journal!States
  <2>2. Append(h, Entry("failed")) \in Seq(Journal!Transition)
    BY <1>1, <2>1
  <2>3. Len(Append(h, Entry("failed"))) = n + 1
    BY <1>1
  <2>4. \A i \in 1..n : Append(h, Entry("failed"))[i] = h[i]
    BY <1>1
  <2>5. Append(h, Entry("failed"))[n + 1].state = "failed"
    BY <1>1 DEF Entry
  <2> QED BY <1>2, <2>2, <2>3, <2>4, <2>5 DEF Breaks
<1>5. ~Journal!Recorded(h, "failed")
  <2>1. \A i \in 1..n : h[i].state # "failed"
    BY <1>2, LinearOrder
  <2> QED BY <1>1, <2>1 DEF Journal!Recorded
<1> QED BY <1>3, <1>4, <1>5

\* One more state of the order: it is skipped or appended.
LEMMA OneMore ==
    ASSUME NEW h, NEW n \in 0..13, Reaches(h, n),
           NEW j \in 1..13, j <= n => j \in 7..12, j <= n + 1
    PROVE  LET call == Continued([history |-> h, ok |-> TRUE], Journal!Linear[j])
           IN  /\ call = [history |-> call.history, ok |-> TRUE]
               /\ Reaches(call.history, IF j > n THEN j ELSE n)
               /\ j <= n <=> IsSkipped(h, Journal!Linear[j])
<1>1. CASE j <= n
  <2>1. j \in DOMAIN h /\ h[j].state = Journal!Linear[j]
    BY <1>1 DEF Reaches
  <2>2. IsSkipped(h, Journal!Linear[j])
    BY <1>1, <2>1, LinearOrder DEF IsSkipped, Journal!Recorded
  <2> QED BY <1>1, <2>2 DEF Continued
<1>2. CASE j = n + 1
  <2>1. n \in 0..12 /\ ~(j <= n) /\ j > n
    BY <1>2
  <2>2. /\ ~Journal!Recorded(h, Journal!Linear[j])
        /\ Journal!Allowed(Journal!Current(h), Journal!Linear[j])
        /\ Reaches(Append(h, Entry(Journal!Linear[j])), j)
    BY <1>2, <2>1, NextIsAccepted
  <2> QED BY <2>1, <2>2 DEF Continued, IsSkipped, Entry
<1> QED BY <1>1, <1>2

\* What a call of states that follow one another comes to; those that are
\* recorded already are skipped.
LEMMA CallAdvances ==
    ASSUME NEW h, NEW states, Len(states) \in Nat,
           NEW n \in 0..13, NEW b \in 0..n, Reaches(h, n),
           n <= b + Len(states), b + Len(states) <= 13,
           \A i \in 1..Len(states) : states[i] = Journal!Linear[b + i],
           b # n => b >= 6 /\ n <= 12,
           NEW c \in Calls(h, states)
    PROVE  \/ c.ok = TRUE /\ Reaches(c.history, b + Len(states))
           \/ /\ c.ok = FALSE /\ WritesMayFail
              /\ \E m \in n..b + Len(states) - 1 : Reaches(c.history, m)
<1> DEFINE after == After(h, states)
           sofar(i) == IF b + i > n THEN b + i ELSE n
           holds(i) == /\ after[i] = [history |-> after[i].history, ok |-> TRUE]
                       /\ Reaches(after[i].history, sofar(i))
<1>1. PICK k \in Nat : k = Len(states)
  OBVIOUS
<1>2. /\ after[0] = [history |-> h, ok |-> TRUE]
      /\ \A i \in 1..k : after[i] = Continued(after[i - 1], states[i])
  BY ZenonT(30), <1>1, AfterIs
<1>3. /\ n \in 0..13 /\ b \in 0..n /\ n <= b + k /\ b + k <= 13
      /\ b # n => b >= 6 /\ n <= 12
  BY <1>1
<1> HIDE DEF after
<1>4. ASSUME NEW i \in 0..k
      PROVE  /\ sofar(i) \in 0..13
             /\ i # 0 => /\ b + i \in 1..13
                         /\ b + i <= sofar(i - 1) => b + i \in 7..12
                         /\ b + i <= sofar(i - 1) + 1
                         /\ sofar(i) = IF b + i > sofar(i - 1) THEN b + i ELSE sofar(i - 1)
  BY <1>3
<1> HIDE DEF sofar
<1>5. ASSUME NEW i \in 1..k, holds(i - 1)
      PROVE  /\ holds(i)
             /\ b + i <= sofar(i - 1) <=> IsSkipped(after[i - 1].history, states[i])
  <2>1. i \in 0..k /\ i - 1 \in 0..k /\ i # 0
    OBVIOUS
  <2>2. /\ states[i] = Journal!Linear[b + i]
        /\ after[i] = Continued([history |-> after[i - 1].history, ok |-> TRUE], states[i])
    BY <1>1, <1>2, <1>5
  <2>3. /\ sofar(i - 1) \in 0..13 /\ b + i \in 1..13
        /\ b + i <= sofar(i - 1) => b + i \in 7..12
        /\ b + i <= sofar(i - 1) + 1
        /\ sofar(i) = IF b + i > sofar(i - 1) THEN b + i ELSE sofar(i - 1)
    BY <1>4, <2>1
  <2>4. /\ b + i <= sofar(i - 1) => b + i \in 7..12
        /\ Reaches(after[i - 1].history, sofar(i - 1))
    BY <1>5, <2>3
  <2>5. PICK j \in 1..13, m \in 0..13, g \in {after[i - 1].history} :
           j = b + i /\ m = sofar(i - 1)
    BY <2>3
  <2>6. /\ j <= m => j \in 7..12
        /\ j <= m + 1 /\ Reaches(g, m)
    BY <2>3, <2>4, <2>5
  <2>7. LET call == Continued([history |-> g, ok |-> TRUE], Journal!Linear[j])
        IN  /\ call = [history |-> call.history, ok |-> TRUE]
            /\ Reaches(call.history, IF j > m THEN j ELSE m)
            /\ j <= m <=> IsSkipped(g, Journal!Linear[j])
    BY <2>6, OneMore
  <2>8. after[i] = Continued([history |-> g, ok |-> TRUE], Journal!Linear[j])
    BY <2>2, <2>5
  <2>9. /\ after[i] = [history |-> after[i].history, ok |-> TRUE]
        /\ Reaches(after[i].history, IF j > m THEN j ELSE m)
        /\ j <= m <=> IsSkipped(g, states[i])
    BY <2>2, <2>5, <2>7, <2>8
  <2>10. sofar(i) = IF j > m THEN j ELSE m
    BY <2>3, <2>5
  <2> QED BY <2>5, <2>9, <2>10
<1>6. holds(0)
  <2>1. sofar(0) = n
    BY <1>3 DEF sofar
  <2> QED BY <1>2, <2>1
<1>7. \A i \in 0..k : holds(i)
  <2> DEFINE bad == {i \in 0..k : ~holds(i)}
  <2> HIDE DEF holds
  <2> SUFFICES ASSUME bad # {} PROVE FALSE
    OBVIOUS
  <2>1. PICK i \in bad : \A m \in bad : i <= m
    <3>1. bad \subseteq Nat
      OBVIOUS
    <3> HIDE DEF bad
    <3> QED BY <3>1, Smallest
  <2>2. i \in 0..k /\ ~holds(i) /\ i # 0
    BY <1>6, <2>1
  <2>3. i - 1 \in 0..k /\ i \in 1..k /\ ~(i <= i - 1)
    BY <2>2
  <2>4. holds(i - 1)
    BY <2>1, <2>3
  <2> QED BY <1>5, <2>2, <2>3, <2>4
<1>8. \/ c = after[k]
      \/ \E i \in 0..k - 1 :
            /\ WritesMayFail /\ ~IsSkipped(after[i].history, states[i + 1])
            /\ c = [after[i] EXCEPT !.ok = FALSE]
  BY <1>1 DEF Calls, Appended, after
<1>9. CASE c = after[k]
  <2>1. k \in 0..k
    OBVIOUS
  <2>2. after[k] = [history |-> after[k].history, ok |-> TRUE]
    BY <1>7, <2>1
  <2>3. Reaches(after[k].history, sofar(k))
    BY <1>7, <2>1
  <2>4. sofar(k) = b + k
    BY <1>3 DEF sofar
  <2>5. c.ok = TRUE /\ c.history = after[k].history
    BY <1>9, <2>2
  <2> QED BY <1>1, <2>3, <2>4, <2>5
<1>10. ASSUME NEW i \in 0..k - 1,
              WritesMayFail, ~IsSkipped(after[i].history, states[i + 1]),
              c = [after[i] EXCEPT !.ok = FALSE]
       PROVE  /\ c.ok = FALSE /\ WritesMayFail
              /\ \E m \in n..b + k - 1 : Reaches(c.history, m)
  <2>1. i \in 0..k /\ i + 1 \in 1..k /\ (i + 1) - 1 = i
    OBVIOUS
  <2>2. holds(i)
    BY <1>7, <2>1
  <2>3. ~(b + (i + 1) <= sofar(i))
    BY <1>5, <1>10, <2>1, <2>2
  <2>4. sofar(i) \in n..b + k - 1
    BY <1>3, <2>1, <2>3 DEF sofar
  <2>5. c = [history |-> after[i].history, ok |-> FALSE]
    BY <1>10, <2>2
  <2> QED BY <1>10, <2>2, <2>4, <2>5
<1>11. CASE \E i \in 0..k - 1 :
              /\ WritesMayFail /\ ~IsSkipped(after[i].history, states[i + 1])
              /\ c = [after[i] EXCEPT !.ok = FALSE]
  <2>1. /\ c.ok = FALSE /\ WritesMayFail
        /\ \E m \in n..b + k - 1 : Reaches(c.history, m)
    BY <1>10, <1>11
  <2> QED BY <1>1, <2>1
<1> QED BY <1>8, <1>9, <1>11

LEMMA NoStates ==
    ASSUME NEW h
    PROVE  Calls(h, <<>>) = {[history |-> h, ok |-> TRUE]}
<1>1. Len(<<>>) = 0 /\ 0..(0 - 1) = {}
  OBVIOUS
<1>2. After(h, <<>>)[0] = [history |-> h, ok |-> TRUE]
  BY <1>1, AfterIs
<1> QED BY <1>1, <1>2 DEF Calls, Appended

\* A call of one state that is not skipped.
LEMMA OneState ==
    ASSUME NEW h, NEW s, ~IsSkipped(h, s), NEW c \in Calls(h, <<s>>)
    PROVE  \/ /\ Journal!Allowed(Journal!Current(h), s)
              /\ c = [history |-> Append(h, Entry(s)), ok |-> TRUE]
           \/ /\ ~Journal!Allowed(Journal!Current(h), s) \/ WritesMayFail
              /\ c = [history |-> h, ok |-> FALSE]
<1> DEFINE after == After(h, <<s>>)
<1>1. Len(<<s>>) = 1 /\ <<s>>[1] = s /\ 0..(1 - 1) = {0}
  OBVIOUS
<1>2. after[0] = [history |-> h, ok |-> TRUE] /\ after[1] = Continued(after[0], s)
  BY <1>1, AfterIs
<1> HIDE DEF after
<1>3. \/ c = after[1]
      \/ WritesMayFail /\ c = [after[0] EXCEPT !.ok = FALSE]
  BY <1>1 DEF Calls, Appended, after
<1>4. after[1] = IF Journal!Allowed(Journal!Current(h), s)
                 THEN [history |-> Append(h, Entry(s)), ok |-> TRUE]
                 ELSE [history |-> h, ok |-> FALSE]
  <2>1. PICK g \in {[history |-> h, ok |-> TRUE]} : g = after[0]
    BY <1>2
  <2>2. g.history = h /\ g.ok = TRUE
    OBVIOUS
  <2>3. after[1] = IF Journal!Allowed(Journal!Current(h), s)
                   THEN [g EXCEPT !.history = Append(h, Entry(s))]
                   ELSE [g EXCEPT !.ok = FALSE]
    BY <1>2, <2>1, <2>2 DEF Continued, Entry
  <2> QED BY <2>2, <2>3
<1> QED BY <1>2, <1>3, <1>4

\* fail() after n states of the order.
LEMMA FailCalls ==
    ASSUME NEW h, NEW n \in 0..12, Reaches(h, n), NEW c \in Calls(h, FailCall(h))
    PROVE  \/ c.ok = TRUE /\ Breaks(c.history, n) /\ Len(c.history) > Len(h)
           \/ c.ok = FALSE /\ (n = 0 \/ WritesMayFail) /\ c.history = h
<1>1. /\ Journal!Allowed(Journal!Current(h), "failed") <=> n # 0
      /\ n # 0 => Breaks(Append(h, Entry("failed")), n)
      /\ FailCall(h) = <<"failed">>
      /\ ~IsSkipped(h, "failed")
  BY FailureIsAccepted DEF FailCall, IsSkipped
<1>2. Len(Append(h, Entry("failed"))) > Len(h)
  BY DEF Reaches
<1>3. c \in Calls(h, <<"failed">>)
  BY <1>1
<1>4. \/ n # 0 /\ c = [history |-> Append(h, Entry("failed")), ok |-> TRUE]
      \/ (n = 0 \/ WritesMayFail) /\ c = [history |-> h, ok |-> FALSE]
  BY <1>1, <1>3, OneState
<1>5. \/ n # 0 /\ c.ok = TRUE /\ c.history = Append(h, Entry("failed"))
      \/ c.ok = FALSE /\ (n = 0 \/ WritesMayFail) /\ c.history = h
  BY <1>4
<1> QED BY <1>1, <1>2, <1>5

\* fail() when the failure is recorded already.
LEMMA FailedBefore ==
    ASSUME NEW h, NEW n \in 0..12, Breaks(h, n)
    PROVE  /\ Journal!Current(h) = "failed"
           /\ FailCall(h) = <<>>
           /\ h # <<>>
<1>1. Len(h) = n + 1 /\ h[n + 1].state = "failed" /\ h # <<>>
  BY DEF Breaks
<1> QED BY <1>1 DEF Journal!Current, FailCall

\* A history that was decided is closed with "cleaned".
LEMMA CleanedCalls ==
    ASSUME NEW h, Decided(h), NEW c \in Calls(h, CleanedCall(h))
    PROVE  \/ c = [history |-> Append(h, Entry("cleaned")), ok |-> TRUE]
           \/ WritesMayFail /\ c = [history |-> h, ok |-> FALSE]
<1>1. CleanedCall(h) = <<"cleaned">> /\ ~IsSkipped(h, "cleaned")
  BY DEF CleanedCall, IsSkipped, Journal!KubernetesStates
<1>2. Journal!Allowed(Journal!Current(h), "cleaned")
  BY DEF Decided, Journal!Allowed
<1> QED BY <1>1, <1>2, OneState

-----------------------------------------------------------------------------
(* Exceptions. *)

\* What a raised exception leaves to the cleanup.
Fallen ==
    /\ pc = "cleanup" /\ failed = TRUE
    /\ results \in [StageIds -> Statuses]
    /\ \A i \in 20..25 : Status(i) = "NONE"
    /\ stage \in StageIds /\ blamed \in StageIds \cup {"none"}
    /\ started \in BOOLEAN /\ escaping \in BOOLEAN
    /\ journal \in Seq(Journal!Transition)
    /\ started => Canonical
    /\ Canonical \/ journal = <<>>
    /\ Broken

\* An exception of stage k while n stages have passed: the one after them has
\* no result or is the one that raises, and the journal is behind by no more
\* than Seen allows.
LEMMA Raised ==
    ASSUME blamed \in StageIds \cup {"none"}, options' = options, escaping \in BOOLEAN,
           NEW n \in 0..18, NEW reached \in 0..12, NEW k \in 1..25,
           NEW found \in [StageIds -> Statuses],
           \A i \in 1..n : found[All[i]] = "PASSED",
           found[All[n + 1]] = "NONE",
           \A i \in 20..25 : found[All[i]] = "NONE",
           k = n + 1 \/ (k <= n /\ WritesMayFail),
           NEW status \in {"FAILED", "BLOCKED"},
           NEW writer \in BOOLEAN, NEW history, Seen(n, reached),
           writer => /\ Canonical /\ Reaches(history, reached)
                     /\ reached = 0 => WritesMayFail,
           ~writer => history = <<>>,
           Raises(All[k], status, found, writer, history)
    PROVE  Fallen'
<1>1. /\ All[k] \in StageIds /\ All[n + 1] \in StageIds
      /\ \A i \in 1..25 : All[i] \in StageIds /\ (All[i] = All[k] => i = k)
      /\ n + 1 \in 1..25
  <2>1. n + 1 \in 1..25
    OBVIOUS
  <2> QED BY <2>1, StageOrder
<1>2. /\ stage' = All[k] /\ failed' = TRUE /\ started' = writer /\ pc' = "cleanup"
      /\ results' = IF found[All[k]] = "NONE" THEN [found EXCEPT ![All[k]] = status]
                    ELSE found
  BY DEF Raises, Goto
<1>3. /\ results' \in [StageIds -> Statuses]
      /\ \A i \in 20..25 : results'[All[i]] = "NONE"
      /\ \A i \in 1..n : results'[All[i]] = "PASSED"
      /\ k = n + 1 => results'[All[n + 1]] = status
      /\ k # n + 1 => results'[All[n + 1]] = "NONE"
  <2>1. status \in Statuses
    BY DEF Statuses
  <2>2. CASE k = n + 1
    <3>1. results' = [found EXCEPT ![All[k]] = status]
      BY <1>2, <2>2
    <3>2. /\ \A i \in 20..25 : i \in 1..25 /\ i # k
          /\ \A i \in 1..n : i \in 1..25 /\ i # k
      BY <2>2
    <3>3. \A i \in 1..25 : i # k => results'[All[i]] = found[All[i]]
      BY <1>1, <3>1
    <3> QED BY <1>1, <2>1, <2>2, <3>1, <3>2, <3>3
  <2>3. CASE k # n + 1
    <3>1. k \in 1..n
      BY <2>3
    <3>2. results' = found
      BY <1>2, <3>1
    <3> QED BY <2>3, <3>2
  <2> QED BY <2>2, <2>3
<1>4. PICK call \in Calls(history, IF writer THEN FailCall(history) ELSE <<>>) :
        /\ journal' = call.history
        /\ escaping' = ~call.ok
        /\ blamed' = IF Len(call.history) > Len(history) THEN All[k] ELSE blamed
  BY DEF Raises
<1>5. blamed' \in StageIds \cup {"none"}
  BY <1>1, <1>4
<1>6. CASE writer
  <2>1. Canonical' /\ WritesMayFail' = WritesMayFail
    BY <1>6 DEF Canonical, profile, WritesMayFail
  <2>2. \/ call.ok = TRUE /\ Breaks(call.history, reached) /\ Len(call.history) > Len(history)
        \/ call.ok = FALSE /\ WritesMayFail /\ call.history = history
    BY ZenonT(30), <1>4, <1>6, FailCalls
  <2>3. \/ escaping' = FALSE /\ Breaks(journal', reached) /\ blamed' = All[k]
        \/ escaping' = TRUE /\ WritesMayFail /\ Reaches(journal', reached)
    BY <1>4, <1>6, <2>2
  <2>4. journal' \in Seq(Journal!Transition) /\ escaping' \in BOOLEAN
    BY <2>3 DEF Breaks, Reaches
  <2>5. BreaksAt(n, reached)'
    BY <1>2, <1>3, <1>6, <2>1, <2>3 DEF BreaksAt, Status
  <2> QED BY <1>2, <1>3, <1>1, <1>5, <2>1, <2>4, <2>5 DEF Fallen, Status, Broken
<1>7. CASE ~writer
  <2>1. call = [history |-> <<>>, ok |-> TRUE]
    BY <1>4, <1>7, NoStates
  <2>2. journal' = <<>> /\ escaping' = FALSE
    BY <1>4, <2>1
  <2>3. journal' \in Seq(Journal!Transition)
    BY <2>2
  <2>4. WritesMayFail' = WritesMayFail
    BY DEF WritesMayFail
  <2>5. BreaksAt(n, reached)'
    BY <1>2, <1>3, <1>7, <2>2, <2>4 DEF BreaksAt, Status
  <2> QED BY <1>2, <1>3, <1>1, <1>5, <1>7, <2>2, <2>3, <2>5 DEF Fallen, Status, Broken
<1> QED BY <1>6, <1>7

LEMMA FallenKeeps ==
    ASSUME StateOK, EndInv, GoingInv, pc \in Going, Fallen',
           options' = options, attested' \in BOOLEAN, ending' = ending,
           objects' \subseteq Kinds, existing' \subseteq objects', unknown' \subseteq objects',
           profile = "static" => objects' = {}
    PROVE  IInv'
<1>1. pc' = "cleanup" /\ failed' = TRUE /\ "cleanup" \in Labels
  BY DEF Fallen, Labels
<1>2. pc # "done" /\ pc # "close"
  BY DEF Going, Early, Deploying
<1>3. /\ cleaned' = cleaned /\ retained' = retained /\ report' = report
      /\ final' = final /\ outcome' = outcome
  BY DEF ending
<1>4. StateOK'
  BY <1>1, <1>3 DEF Fallen, StateOK, Options
<1>5. EndInv'
  BY <1>1, <1>2, <1>3 DEF Fallen, EndInv, profile
<1>6. GoingInv' /\ FinishInv' /\ CloseInv' /\ LeftInv' /\ DoneInv'
  BY <1>1 DEF GoingInv, FinishInv, CloseInv, LeftInv, DoneInv, Going, Early, Deploying
<1>7. ~cleaned /\ ~retained
  BY DEF GoingInv, GoingAt
<1>8. CleanupInv'
  BY <1>1, <1>3, <1>7 DEF CleanupInv, Fallen, profile
<1> QED BY <1>4, <1>5, <1>6, <1>8 DEF IInv

-----------------------------------------------------------------------------
(* Stages that pass. *)

\* The stages after the first a, up to the n-th.
Adds(stages, a, n) == \A i \in 1..25 : All[i] \in ToSet(stages) <=> i \in a + 1..n

LEMMA MarkedAt ==
    ASSUME results \in [StageIds -> Statuses], NEW stages, NEW status \in Statuses,
           NEW a \in Nat, NEW b \in Nat, Adds(stages, a, b)
    PROVE  /\ Marked(stages, status) \in [StageIds -> Statuses]
           /\ \A i \in 1..25 : Marked(stages, status)[All[i]] =
                                   IF i \in a + 1..b THEN status ELSE Status(i)
<1>1. \A i \in 1..25 : All[i] \in StageIds
  BY StageOrder
<1>2. ASSUME NEW i \in 1..25
      PROVE  Marked(stages, status)[All[i]] = IF i \in a + 1..b THEN status ELSE Status(i)
  BY <1>1 DEF Marked, Status, Adds
<1>3. Marked(stages, status) \in [StageIds -> Statuses]
  BY SMTT(30) DEF Marked
<1> QED BY <1>2, <1>3

LEMMA ListedStages ==
    /\ \A i \in 1..25 : All[i] \notin ToSet(<<>>)
    /\ \A i, k \in 1..25 : All[i] \in ToSet(<<All[k]>>) <=> i \in k..k
    /\ \A i \in 1..25 : All[i] \in ToSet(StaticStages) <=> i \in 1..4
    /\ \A i \in 1..25 :
          All[i] \in ToSet(<<"sbom", "vulnerability-scan", "provenance">>) <=> i \in 8..10
    /\ \A i \in 1..25 : All[i] \in ToSet(<<"sbom", "provenance">>) <=> i \in {8, 10}
    /\ \A i \in 1..25 : All[i] \in ToSet(ClusterStages) <=> i \in 13..19
    /\ \A i \in 1..25 : All[i] \in ToSet(ReleaseGates) <=> i \in 21..25
<1>1. \A i, k \in 1..25 : All[i] \in ToSet(<<All[k]>>) <=> i \in k..k
  BY StageOrder DEF ToSet
<1>2. /\ ToSet(<<>>) = {}
      /\ ToSet(StaticStages) = {All[1], All[2], All[3], All[4]}
      /\ ToSet(<<"sbom", "vulnerability-scan", "provenance">>) = {All[8], All[9], All[10]}
      /\ ToSet(<<"sbom", "provenance">>) = {All[8], All[10]}
  BY SMTT(60), StageNames DEF ToSet, StaticStages
<1>3. /\ ToSet(ClusterStages) = {All[13], All[14], All[15], All[16], All[17], All[18], All[19]}
      /\ ToSet(ReleaseGates) = {All[21], All[22], All[23], All[24], All[25]}
  BY SMTT(60), StageNames DEF ToSet, ClusterStages, ReleaseGates
<1>4. \A i, k \in 1..25 : All[i] = All[k] <=> i = k
  BY StageOrder
<1>5. \A i \in 1..25 : All[i] \notin ToSet(<<>>)
  BY <1>2
<1>6. \A i \in 1..25 : All[i] \in ToSet(StaticStages) <=> i \in 1..4
  <2> TAKE i \in 1..25
  <2>1. All[i] \in {All[1], All[2], All[3], All[4]} <=> i \in {1, 2, 3, 4}
    BY <1>4
  <2> QED BY <1>2, <2>1
<1>7. \A i \in 1..25 :
        All[i] \in ToSet(<<"sbom", "vulnerability-scan", "provenance">>) <=> i \in 8..10
  <2> TAKE i \in 1..25
  <2>1. All[i] \in {All[8], All[9], All[10]} <=> i \in {8, 9, 10}
    BY <1>4
  <2> QED BY <1>2, <2>1
<1>8. \A i \in 1..25 : All[i] \in ToSet(<<"sbom", "provenance">>) <=> i \in {8, 10}
  <2> TAKE i \in 1..25
  <2>1. All[i] \in {All[8], All[10]} <=> i \in {8, 10}
    BY <1>4
  <2> QED BY <1>2, <2>1
<1>9. \A i \in 1..25 : All[i] \in ToSet(ClusterStages) <=> i \in 13..19
  <2> TAKE i \in 1..25
  <2>1. All[i] \in {All[13], All[14], All[15], All[16], All[17], All[18], All[19]} <=>
            i \in {13, 14, 15, 16, 17, 18, 19}
    BY <1>4
  <2> QED BY <1>3, <2>1
<1>10. \A i \in 1..25 : All[i] \in ToSet(ReleaseGates) <=> i \in 21..25
  <2> TAKE i \in 1..25
  <2>1. All[i] \in {All[21], All[22], All[23], All[24], All[25]} <=>
            i \in {21, 22, 23, 24, 25}
    BY <1>4
  <2> QED BY <1>3, <2>1
<1> QED BY Zenon, <1>1, <1>5, <1>6, <1>7, <1>8, <1>9, <1>10

LEMMA SingleStage ==
    ASSUME NEW k \in 1..25, NEW s, All[k] = s
    PROVE  \A i \in 1..25 : All[i] \in ToSet(<<s>>) <=> i = k
BY StageOrder DEF ToSet

\* The first c stages of the cluster, and the first c gates.
LEMMA ListedPrefixes ==
    /\ \A c \in 0..6 : \A i \in 1..25 :
          All[i] \in ToSet(SubSeq(ClusterStages, 1, c)) <=> i \in 13..12 + c
    /\ \A c \in 0..4 : \A i \in 1..25 :
          All[i] \in ToSet(SubSeq(ReleaseGates, 1, c)) <=> i \in 21..20 + c
    /\ \A c \in 1..7 : ClusterStages[c] = All[12 + c]
    /\ \A c \in 1..5 : ReleaseGates[c] = All[20 + c]
<1>1. /\ Len(ClusterStages) = 7 /\ \A c \in 1..7 : ClusterStages[c] = All[12 + c]
      /\ ClusterStages \in Seq(StageIds)
  <2>1. Len(ClusterStages) = 7 /\ \A c \in 1..7 : ClusterStages[c] = All[12 + c]
    BY SMTT(60), StageNames DEF ClusterStages
  <2>2. \A c \in 1..7 : ClusterStages[c] \in StageIds
    BY <2>1, StageOrder
  <2>3. ClusterStages = [c \in 1..7 |-> ClusterStages[c]]
    BY <2>1 DEF ClusterStages
  <2>4. ClusterStages \in [1..7 -> StageIds]
    BY <2>2, <2>3
  <2>5. ClusterStages \in Seq(StageIds)
    BY <2>4, SeqDef
  <2> QED BY <2>1, <2>5
<1>2. /\ Len(ReleaseGates) = 5 /\ \A c \in 1..5 : ReleaseGates[c] = All[20 + c]
      /\ ReleaseGates \in Seq(StageIds)
  <2>1. Len(ReleaseGates) = 5 /\ \A c \in 1..5 : ReleaseGates[c] = All[20 + c]
    BY SMTT(60), StageNames DEF ReleaseGates
  <2>2. \A c \in 1..5 : ReleaseGates[c] \in StageIds
    BY <2>1, StageOrder
  <2>3. ReleaseGates = [c \in 1..5 |-> ReleaseGates[c]]
    BY <2>1 DEF ReleaseGates
  <2>4. ReleaseGates \in [1..5 -> StageIds]
    BY <2>2, <2>3
  <2>5. ReleaseGates \in Seq(StageIds)
    BY <2>4, SeqDef
  <2> QED BY <2>1, <2>5
<1>3. ASSUME NEW c \in 0..6, NEW i \in 1..25
      PROVE  All[i] \in ToSet(SubSeq(ClusterStages, 1, c)) <=> i \in 13..12 + c
  <2>1. DOMAIN SubSeq(ClusterStages, 1, c) = 1..c
    BY <1>1
  <2>2. \A j \in 1..c : SubSeq(ClusterStages, 1, c)[j] = All[12 + j]
    BY SMTT(30), <1>1
  <2>3. ToSet(SubSeq(ClusterStages, 1, c)) = {All[12 + j] : j \in 1..c}
    BY ZenonT(30), <2>1, <2>2 DEF ToSet
  <2>4. All[i] \in {All[12 + j] : j \in 1..c} <=> i \in 13..12 + c
    <3>1. ASSUME NEW j \in 1..c PROVE All[i] = All[12 + j] => i = 12 + j
      BY StageOrder
    <3>2. i \in 13..12 + c => i - 12 \in 1..c /\ 12 + (i - 12) = i
      OBVIOUS
    <3> QED BY <3>1, <3>2
  <2> QED BY <2>3, <2>4
<1>4. ASSUME NEW c \in 0..4, NEW i \in 1..25
      PROVE  All[i] \in ToSet(SubSeq(ReleaseGates, 1, c)) <=> i \in 21..20 + c
  <2>1. DOMAIN SubSeq(ReleaseGates, 1, c) = 1..c
    BY <1>2
  <2>2. \A j \in 1..c : SubSeq(ReleaseGates, 1, c)[j] = All[20 + j]
    BY <1>2
  <2>3. ToSet(SubSeq(ReleaseGates, 1, c)) = {All[20 + j] : j \in 1..c}
    BY ZenonT(30), <2>1, <2>2 DEF ToSet
  <2>4. All[i] \in {All[20 + j] : j \in 1..c} <=> i \in 21..20 + c
    <3>1. ASSUME NEW j \in 1..c PROVE All[i] = All[20 + j] => i = 20 + j
      BY StageOrder
    <3>2. i \in 21..20 + c => i - 20 \in 1..c /\ 20 + (i - 20) = i
      OBVIOUS
    <3> QED BY <3>1, <3>2
  <2> QED BY <2>3, <2>4
<1> QED BY <1>1, <1>2, <1>3, <1>4

\* A run that comes to the next step without an error.
LEMMA GoingKeeps ==
    ASSUME StateOK, EndInv, pc # "done", pc # "close", options' = options, ending' = ending,
           ~cleaned, ~retained, ~options.missing, profile # "static",
           NEW next \in Going \ Early, pc' = next,
           next \in Deploying \cup {"schema"} => Canonical,
           ~failed', ~escaping', {failed', escaping'} \subseteq BOOLEAN, blamed' = "none",
           unknown' = {}, existing' = objects', objects' \subseteq Kinds,
           started' = Canonical, stage' \in StageIds, attested' \in BOOLEAN,
           attested' <=> next \in {"smoke", "rollback", "deployed"},
           results' \in [StageIds -> Statuses],
           \A i \in 1..25 : results'[All[i]] = IF i <= Behind(next) THEN "PASSED" ELSE "NONE",
           Reaches(journal', IF started' THEN Written(next) ELSE 0)
    PROVE  IInv'
<1>1. /\ cleaned' = cleaned /\ retained' = retained /\ report' = report
      /\ final' = final /\ outcome' = outcome
  BY DEF ending
<1>2. /\ Canonical' = Canonical /\ profile' = profile
      /\ next \in Labels
      /\ next \notin {"static", "registry", "record", "begin", "cleanup", "release",
                      "finish", "close", "done"}
  BY DEF Canonical, profile, Going, Deploying, Early, Labels
<1>3. journal' \in Seq(Journal!Transition) /\ (Canonical \/ journal' = <<>>)
  BY <1>2 DEF Reaches
<1>4. StateOK'
  <2>1. started' \in BOOLEAN /\ {cleaned, retained} \subseteq BOOLEAN
    BY DEF StateOK, Canonical
  <2>2. /\ report \in Seq([stage : StageIds, status : Statuses \ {"NONE"}])
        /\ final \in {"none", "PASSED", "FAILED", "BLOCKED"}
        /\ outcome \in {"running", "closed", "records", "raised"}
        /\ options \in Options
    BY DEF StateOK
  <2>3. options' \in Options
    BY <2>2
  <2> QED BY <1>1, <1>2, <1>3, <2>1, <2>2, <2>3 DEF StateOK
<1>5. EndInv'
  BY <1>1, <1>2, <1>3 DEF EndInv
<1>6. CleanupInv' /\ FinishInv' /\ CloseInv' /\ LeftInv' /\ DoneInv'
  BY <1>2 DEF CleanupInv, FinishInv, CloseInv, LeftInv, DoneInv
<1>7. GoingAt(next)'
  BY <1>1, <1>2 DEF GoingAt, Status, Early
<1> QED BY <1>4, <1>5, <1>6, <1>7 DEF IInv, GoingInv

\* With a later journal, no more is missing of what the stages need.
LEMMA SeenLater ==
    ASSUME NEW n \in 0..18, NEW w \in 0..12, NEW m \in w..12, Seen(n, w)
    PROVE  Seen(n, m)
BY DEF Seen

\* Exactly the first n stages have passed.
PassedTo(found, n) ==
    /\ found \in [StageIds -> Statuses]
    /\ \A i \in 1..25 : found[All[i]] = IF i <= n THEN "PASSED" ELSE "NONE"

\* A call of the states after the first b of the order, up to the e-th.
Covers(call, b, e) ==
    /\ Len(call) \in Nat /\ e = b + Len(call)
    /\ \A i \in 1..Len(call) : call[i] = Journal!Linear[b + i]

LEMMA CoveringCalls ==
    ASSUME NEW h, NEW call, NEW w \in 0..12, NEW b \in 0..w, NEW e \in w..12,
           Covers(call, b, e), Reaches(h, w), b # w => b >= 6, NEW c \in Calls(h, call)
    PROVE  \/ c.ok = TRUE /\ Reaches(c.history, e)
           \/ c.ok = FALSE /\ WritesMayFail /\ \E m \in w..e - 1 : Reaches(c.history, m)
<1>1. /\ Len(call) \in Nat /\ e = b + Len(call)
      /\ \A i \in 1..Len(call) : call[i] = Journal!Linear[b + i]
  BY DEF Covers
<1>2. /\ w \in 0..13 /\ w <= b + Len(call) /\ b + Len(call) <= 13
      /\ b # w => b >= 6 /\ w <= 12
  BY <1>1
<1>3. \/ c.ok = TRUE /\ Reaches(c.history, b + Len(call))
      \/ /\ c.ok = FALSE /\ WritesMayFail
         /\ \E m \in w..b + Len(call) - 1 : Reaches(c.history, m)
  BY <1>1, <1>2, CallAdvances
<1> QED BY <1>1, <1>3

LEMMA Between ==
    ASSUME NEW w \in 0..12, NEW e \in w..12, NEW m \in w..e - 1
    PROVE  m \in 0..12 /\ m \in w..12 /\ e # w
OBVIOUS

\* The journal call after n stages have passed, reported by stage k.
LEMMA Announced ==
    ASSUME blamed \in StageIds \cup {"none"}, escaping \in BOOLEAN, started \in BOOLEAN,
           options' = options, started => Canonical, ~started => journal = <<>>,
           NEW n \in 0..19, NEW found, PassedTo(found, n),
           NEW k \in 1..25, k <= n + 1,
           NEW w \in 0..12, NEW b \in 0..w, NEW e \in w..12, started => Reaches(journal, w),
           NEW call, Covers(call, b, e), b # w => b >= 6,
           n <= 18 \/ e = w,
           n <= 18 => Seen(n, w),
           NEW next, Announces(All[k], found, call, next)
    PROVE  \/ Fallen'
           \/ /\ stage' = All[k] /\ results' = found /\ started' = started
              /\ pc' = next /\ failed' = failed /\ blamed' = blamed /\ escaping' = escaping
              /\ IF started THEN Reaches(journal', e) ELSE journal' = <<>>
<1>1. PICK c \in Calls(journal, IF started THEN call ELSE <<>>) :
        IF c.ok THEN Proceeds(All[k], found, started, c.history, next)
        ELSE Raises(All[k], "FAILED", found, started, c.history)
  BY DEF Announces
<1>2. \/ c.ok = TRUE /\ IF started THEN Reaches(c.history, e) ELSE c.history = <<>>
      \/ /\ c.ok = FALSE /\ WritesMayFail /\ started
         /\ \E m \in w..e - 1 : Reaches(c.history, m)
  <2>1. CASE started
    <3>1. c \in Calls(journal, call) /\ Reaches(journal, w)
      BY <1>1, <2>1
    <3>2. \/ c.ok = TRUE /\ Reaches(c.history, e)
          \/ c.ok = FALSE /\ WritesMayFail /\ \E m \in w..e - 1 : Reaches(c.history, m)
      BY <3>1, CoveringCalls
    <3> QED BY <2>1, <3>2
  <2>2. CASE ~started
    <3>1. c = [history |-> <<>>, ok |-> TRUE]
      BY <1>1, <2>2, NoStates
    <3> QED BY <2>2, <3>1
  <2> QED BY <2>1, <2>2
<1>3. CASE c.ok = TRUE /\ IF started THEN Reaches(c.history, e) ELSE c.history = <<>>
  <2>1. Proceeds(All[k], found, started, c.history, next)
    BY SMTT(30), <1>1, <1>3
  <2> QED BY <1>3, <2>1 DEF Proceeds, Goto
<1>4. CASE /\ c.ok = FALSE /\ WritesMayFail /\ started
           /\ \E m \in w..e - 1 : Reaches(c.history, m)
  <2>1. PICK m \in w..e - 1 : Reaches(c.history, m)
    BY <1>4
  <2>2. m \in 0..12 /\ m \in w..12 /\ e # w
    BY <2>1, Between
  <2>3. n \in 0..18
    BY <2>2
  <2>4. Seen(n, m)
    BY <2>2, <2>3, SeenLater
  <2>5. /\ \A i \in 1..n : i \in 1..25 /\ i <= n
        /\ \A i \in 20..25 : i \in 1..25 /\ ~(i <= n)
        /\ n + 1 \in 1..25 /\ ~(n + 1 <= n)
        /\ k = n + 1 \/ k <= n
    BY <2>3
  <2>6. /\ \A i \in 1..n : found[All[i]] = "PASSED"
        /\ found[All[n + 1]] = "NONE"
        /\ \A i \in 20..25 : found[All[i]] = "NONE"
        /\ found \in [StageIds -> Statuses]
    BY <2>5 DEF PassedTo
  <2>7. Raises(All[k], "FAILED", found, started, c.history)
    BY <1>1, <1>4
  <2>8. "FAILED" \in {"FAILED", "BLOCKED"} /\ Canonical
    BY <1>4
  <2>9. k = n + 1 \/ (k <= n /\ WritesMayFail)
    BY <1>4, <2>5
  <2> QED BY ZenonT(30), <1>4, <2>1, <2>2, <2>3, <2>4, <2>6, <2>7, <2>8, <2>9, Raised
<1> QED BY <1>2, <1>3, <1>4

LEMMA BehindWritten ==
    ASSUME NEW label \in Going \ Early
    PROVE  Behind(label) \in 4..12 /\ Written(label) \in 2..12
BY DEF Going, Early, Deploying, Behind, Written

LEMMA PassesOn ==
    ASSUME NEW a \in 0..19, PassedTo(results, a), NEW n \in a..19, NEW stages,
           Adds(stages, a, n)
    PROVE  PassedTo(Passed(stages), n)
<1>1. a \in Nat /\ n \in Nat /\ "PASSED" \in Statuses /\ results \in [StageIds -> Statuses]
  BY DEF Statuses, PassedTo
<1>2. /\ Passed(stages) \in [StageIds -> Statuses]
      /\ \A i \in 1..25 : Passed(stages)[All[i]] =
                              IF i \in a + 1..n THEN "PASSED" ELSE Status(i)
  BY <1>1, MarkedAt DEF Passed
<1>3. ASSUME NEW i \in 1..25
      PROVE  Passed(stages)[All[i]] = IF i <= n THEN "PASSED" ELSE "NONE"
  <2>1. Status(i) = IF i <= a THEN "PASSED" ELSE "NONE"
    BY DEF PassedTo, Status
  <2>2. i \in a + 1..n <=> ~(i <= a) /\ i <= n
    OBVIOUS
  <2>3. i <= a => i <= n
    OBVIOUS
  <2> QED BY <1>2, <2>1, <2>2, <2>3
<1> QED BY <1>2, <1>3 DEF PassedTo

\* The first stage without a result raises.
LEMMA StageRaises ==
    ASSUME blamed \in StageIds \cup {"none"}, escaping \in BOOLEAN, options' = options,
           NEW a \in 0..18, PassedTo(results, a),
           NEW writer \in BOOLEAN, ~writer => journal = <<>>,
           NEW w \in 0..12, Seen(a, w),
           writer => /\ Canonical /\ Reaches(journal, w)
                     /\ w = 0 => WritesMayFail,
           NEW status \in {"FAILED", "BLOCKED"},
           Raises(All[a + 1], status, results, writer, journal)
    PROVE  Fallen'
<1>1. /\ \A i \in 1..a : i \in 1..25 /\ i <= a
      /\ \A i \in 20..25 : i \in 1..25 /\ ~(i <= a)
      /\ ~(a + 1 <= a) /\ a + 1 \in 1..25
  OBVIOUS
<1>2. /\ \A i \in 1..a : results[All[i]] = "PASSED"
      /\ results[All[a + 1]] = "NONE"
      /\ \A i \in 20..25 : results[All[i]] = "NONE"
      /\ results \in [StageIds -> Statuses]
  BY <1>1 DEF PassedTo
<1>3. PICK k \in 1..25 : k = a + 1
  BY <1>1
<1>4. Raises(All[k], status, results, writer, journal)
  BY <1>3
<1>5. k = a + 1 \/ (k <= a /\ WritesMayFail)
  BY SMTT(30), <1>3
<1>6. CASE writer = TRUE
  BY ZenonT(30), <1>2, <1>4, <1>5, <1>6, Raised
<1>7. CASE writer = FALSE
  <2>1. Raises(All[k], status, results, FALSE, journal) /\ journal = <<>>
    BY <1>4, <1>7
  <2>2. /\ FALSE => /\ Canonical /\ Reaches(journal, w)
                    /\ w = 0 => WritesMayFail
        /\ ~FALSE => journal = <<>>
        /\ FALSE \in BOOLEAN
    BY <2>1
  <2> QED BY ZenonT(30), <1>2, <1>5, <2>1, <2>2, Raised
<1> QED BY <1>6, <1>7

\* The stages that pass at a step and the states of the journal call after it:
\* either the run goes on, or the step raises and leaves what Fallen says.
LEMMA StagePasses ==
    ASSUME StateOK, EndInv, GoingInv, options' = options,
           NEW label \in Going \ Early, pc = label,
           NEW n \in Behind(label)..19, NEW stages,
           Adds(stages, Behind(label), n),
           NEW b \in 0..Written(label), NEW e \in Written(label)..12, NEW call,
           Covers(call, b, e), b # Written(label) => b >= 6,
           n <= 12 \/ (n = 19 /\ e = Written(label)),
           NEW next,
           \/ Raises(All[Behind(label) + 1], "FAILED", results, started, journal)
           \/ Announces(All[Behind(label) + 1], Passed(stages), call, next)
    PROVE  \/ Fallen'
           \/ /\ stage' \in StageIds /\ PassedTo(results', n) /\ started' = started
              /\ pc' = next /\ failed' = failed /\ blamed' = blamed /\ escaping' = escaping
              /\ IF started THEN Reaches(journal', e) ELSE journal' = <<>>
<1>1. PICK a \in 4..12, w \in 2..12 : a = Behind(label) /\ w = Written(label)
  BY BehindWritten
<1>2. /\ started <=> Canonical
      /\ Reaches(journal, IF started THEN Written(label) ELSE 0)
      /\ \A i \in 1..25 : Status(i) = IF i <= a THEN "PASSED" ELSE "NONE"
  BY <1>1 DEF GoingInv, GoingAt
<1>3. /\ blamed \in StageIds \cup {"none"} /\ escaping \in BOOLEAN /\ started \in BOOLEAN
      /\ results \in [StageIds -> Statuses]
  BY DEF StateOK
<1>4. started => Reaches(journal, w)
  BY <1>1, <1>2
<1>5. ~started => journal = <<>>
  BY <1>2 DEF EndInv
<1>6. PassedTo(results, a)
  BY <1>2, <1>3 DEF PassedTo, Status
<1>7. a + 1 \in 1..25 /\ a \in 0..18 /\ a \in 0..19 /\ w \in 0..12 /\ Seen(a, w) /\ w # 0
  BY DEF Seen
<1>8. All[a + 1] \in StageIds
  BY <1>7, StageOrder
<1>9. CASE Raises(All[a + 1], "FAILED", results, started, journal)
  <2>1. started => /\ Canonical /\ Reaches(journal, w)
                   /\ w = 0 => WritesMayFail
    BY <1>2, <1>4, <1>7
  <2>2. "FAILED" \in {"FAILED", "BLOCKED"}
    OBVIOUS
  <2>3. Fallen'
    BY <1>3, <1>5, <1>6, <1>7, <1>9, <2>1, <2>2, StageRaises
  <2> QED BY <2>3
<1>10. CASE Announces(All[a + 1], Passed(stages), call, next)
  <2>1. n \in a..19 /\ Adds(stages, a, n)
    BY <1>1
  <2>2. PassedTo(Passed(stages), n)
    BY <1>6, <1>7, <2>1, PassesOn
  <2>3. n \in 0..19 /\ a + 1 <= n + 1 /\ (n <= 18 \/ e = w) /\ (n <= 18 => Seen(n, w))
    <3>1. n \in 0..19 /\ a + 1 <= n + 1
      BY <2>1
    <3>2. n <= 12 \/ (n = 19 /\ e = w)
      BY <1>1
    <3>3. n <= 12 => Seen(n, w)
      BY <3>1 DEF Seen
    <3> QED BY <3>1, <3>2, <3>3
  <2>4. b \in 0..w /\ e \in w..12 /\ (b # w => b >= 6)
    BY <1>1
  <2>5. PICK k \in 1..25 : k = a + 1
    BY <1>7
  <2>6. Announces(All[k], Passed(stages), call, next) /\ k <= n + 1
    BY <1>10, <2>3, <2>5
  <2>7. started => Canonical
    BY SMTT(30), <1>2
  <2>8. \/ Fallen'
        \/ /\ stage' = All[k] /\ results' = Passed(stages) /\ started' = started
           /\ pc' = next /\ failed' = failed /\ blamed' = blamed /\ escaping' = escaping
           /\ IF started THEN Reaches(journal', e) ELSE journal' = <<>>
    BY ZenonT(30), <1>3, <1>4, <1>5, <1>7, <2>2, <2>3, <2>4, <2>6, <2>7, Announced
  <2> QED BY <1>8, <2>2, <2>5, <2>8
<1> QED BY <1>1, <1>9, <1>10

LEMMA NothingReached == Reaches(<<>>, 0)
BY DEF Reaches

\* A run that has passed its stages comes to its cleanup.
LEMMA WholeKeeps ==
    ASSUME StateOK, EndInv, pc # "done", pc # "close", options' = options, ending' = ending,
           ~cleaned, ~retained, pc' = "cleanup",
           failed' = FALSE, escaping' = FALSE, blamed' = "none",
           unknown' = {}, existing' = objects', objects' \subseteq Kinds,
           profile = "static" => objects' = {},
           started' = Canonical, stage' \in StageIds, attested' \in BOOLEAN,
           PassedTo(results', Most),
           Reaches(journal', IF Canonical THEN 12 ELSE 0)
    PROVE  IInv'
<1>1. /\ cleaned' = cleaned /\ retained' = retained /\ report' = report
      /\ final' = final /\ outcome' = outcome
  BY DEF ending
<1>2. /\ Canonical' = Canonical /\ profile' = profile /\ Most' = Most
      /\ "cleanup" \in Labels
      /\ Most \in {4, 11, 19}
  BY DEF Canonical, profile, Labels, Most
<1>3. journal' \in Seq(Journal!Transition) /\ (Canonical \/ journal' = <<>>)
  BY DEF Reaches
<1>4. results' \in [StageIds -> Statuses]
  BY DEF PassedTo
<1>5. StateOK'
  <2>1. started' \in BOOLEAN /\ {cleaned, retained} \subseteq BOOLEAN
    BY DEF StateOK, Canonical
  <2>2. /\ report \in Seq([stage : StageIds, status : Statuses \ {"NONE"}])
        /\ final \in {"none", "PASSED", "FAILED", "BLOCKED"}
        /\ outcome \in {"running", "closed", "records", "raised"}
        /\ options \in Options
    BY DEF StateOK
  <2>3. options' \in Options
    BY <2>2
  <2> QED BY <1>1, <1>2, <1>3, <1>4, <2>1, <2>2, <2>3 DEF StateOK
<1>6. EndInv'
  BY <1>1, <1>2, <1>3 DEF EndInv
<1>7. GoingInv' /\ FinishInv' /\ CloseInv' /\ LeftInv' /\ DoneInv'
  BY DEF GoingInv, FinishInv, CloseInv, LeftInv, DoneInv, Going, Early, Deploying
<1>8. /\ \A i \in 1..Most : results'[All[i]] = "PASSED"
      /\ \A i \in 20..25 : results'[All[i]] = "NONE"
  <2>1. PICK m \in {4, 11, 19} : m = Most
    BY <1>2
  <2>2. /\ \A i \in 1..m : i \in 1..25 /\ i <= m
        /\ \A i \in 20..25 : i \in 1..25 /\ ~(i <= m)
    OBVIOUS
  <2> QED BY <2>1, <2>2 DEF PassedTo
<1>9. Whole'
  BY <1>2, <1>8 DEF Whole, Status
<1>10. CleanupInv'
  BY <1>1, <1>2, <1>8, <1>9 DEF CleanupInv, Status
<1> QED BY <1>5, <1>6, <1>7, <1>10 DEF IInv

\* A stage and its journal call keep the invariant.
LEMMA StageKeeps ==
    ASSUME IInv, options' = options, resources' = resources, ending' = ending,
           attested' = attested,
           NEW label \in Going \ Early, pc = label,
           NEW n \in Behind(label)..19, NEW stages,
           Adds(stages, Behind(label), n),
           NEW b \in 0..Written(label), NEW e \in Written(label)..12, NEW call,
           Covers(call, b, e), b # Written(label) => b >= 6,
           n <= 12 \/ (n = 19 /\ e = Written(label)),
           NEW next,
           \/ /\ next \in Going \ Early /\ n = Behind(next) /\ e = Written(next)
              /\ attested <=> next \in {"smoke", "rollback", "deployed"}
              /\ next \in Deploying \cup {"schema"} => Canonical
           \/ next = "cleanup" /\ n = Most /\ (Canonical => e = 12),
           \/ Raises(All[Behind(label) + 1], "FAILED", results, started, journal)
           \/ Announces(All[Behind(label) + 1], Passed(stages), call, next)
    PROVE  IInv'
<1>1. StateOK /\ EndInv /\ GoingInv /\ GoingAt(label)
  BY DEF IInv, GoingInv
<1>2. \/ Fallen'
      \/ /\ stage' \in StageIds /\ PassedTo(results', n) /\ started' = started
         /\ pc' = next /\ failed' = failed /\ blamed' = blamed /\ escaping' = escaping
         /\ IF started THEN Reaches(journal', e) ELSE journal' = <<>>
  BY <1>1, StagePasses
<1>3. objects' = objects /\ existing' = existing /\ unknown' = unknown
  BY DEF resources
<1>4. /\ objects \subseteq Kinds /\ existing \subseteq objects /\ unknown \subseteq objects
      /\ attested \in BOOLEAN /\ failed \in BOOLEAN /\ escaping \in BOOLEAN
      /\ started \in BOOLEAN
  BY <1>1 DEF StateOK
<1>5. /\ ~failed /\ ~escaping /\ ~cleaned /\ ~retained
      /\ blamed = "none" /\ unknown = {} /\ existing = objects
      /\ started <=> Canonical
      /\ profile # "static" /\ ~options.missing
  BY <1>1 DEF GoingAt, Early
<1>6. pc # "done" /\ pc # "close"
  BY DEF Going, Early, Deploying
<1>7. CASE Fallen'
  BY <1>1, <1>3, <1>4, <1>5, <1>7, FallenKeeps
<1>8. ASSUME stage' \in StageIds, PassedTo(results', n), started' = started,
             pc' = next, failed' = failed, blamed' = blamed, escaping' = escaping,
             IF started THEN Reaches(journal', e) ELSE journal' = <<>>
      PROVE  IInv'
  <2>1. /\ failed' = FALSE /\ escaping' = FALSE /\ started' = Canonical
        /\ {failed', escaping'} \subseteq BOOLEAN /\ blamed' = "none"
    BY <1>4, <1>5, <1>8 DEF Canonical
  <2>2. /\ unknown' = {} /\ existing' = objects' /\ objects' \subseteq Kinds
        /\ attested' \in BOOLEAN
    BY <1>3, <1>4, <1>5
  <2>3. results' \in [StageIds -> Statuses]
    BY <1>8 DEF PassedTo
  <2>4. CASE /\ next \in Going \ Early /\ n = Behind(next) /\ e = Written(next)
             /\ attested <=> next \in {"smoke", "rollback", "deployed"}
             /\ next \in Deploying \cup {"schema"} => Canonical
    <3>1. Reaches(journal', IF started' THEN Written(next) ELSE 0)
      BY <1>8, <2>4, NothingReached
    <3>2. \A i \in 1..25 :
             results'[All[i]] = IF i <= Behind(next) THEN "PASSED" ELSE "NONE"
      BY <1>8, <2>4 DEF PassedTo
    <3> QED BY <1>1, <1>5, <1>6, <1>8, <2>1, <2>2, <2>3, <2>4, <3>1, <3>2, GoingKeeps
  <2>5. CASE next = "cleanup" /\ n = Most /\ (Canonical => e = 12)
    <3>1. Reaches(journal', IF Canonical THEN 12 ELSE 0)
      BY <1>5, <1>8, <2>5, NothingReached
    <3>2. PassedTo(results', Most)
      BY <1>8, <2>5
    <3> QED BY <1>1, <1>5, <1>6, <1>8, <2>1, <2>2, <2>5, <3>1, <3>2, WholeKeeps
  <2> QED BY <2>4, <2>5
<1> QED BY <1>2, <1>7, <1>8

\* The calls of execute and of the executor's events.
LEMMA ListedCalls ==
    /\ \A w \in 0..12 : Covers(<<>>, w, w)
    /\ Covers(<<"planned", "validated">>, 0, 2)
    /\ Covers(<<"building">>, 2, 3)
    /\ Covers(<<"built", "pushing">>, 3, 5)
    /\ Covers(<<"digest_resolved">>, 5, 6)
    /\ Covers(<<"cluster_preparing">>, 6, 7)
    /\ Covers(<<"applying">>, 7, 8)
    /\ Covers(<<"waiting_ready">>, 8, 9)
    /\ Covers(<<"smoke_testing", "attesting">>, 9, 11)
    /\ Covers(<<"collecting_evidence">>, 11, 12)
    /\ Covers(KubernetesCompletion, 6, 12)
    /\ Covers(KubernetesCompletion \o <<"succeeded">>, 6, 13)
<1>1. \A w \in 0..12 : Covers(<<>>, w, w)
  BY DEF Covers
<1>2. /\ Covers(<<"planned", "validated">>, 0, 2)
      /\ Covers(<<"building">>, 2, 3)
      /\ Covers(<<"built", "pushing">>, 3, 5)
      /\ Covers(<<"digest_resolved">>, 5, 6)
      /\ Covers(<<"cluster_preparing">>, 6, 7)
      /\ Covers(<<"applying">>, 7, 8)
      /\ Covers(<<"waiting_ready">>, 8, 9)
      /\ Covers(<<"smoke_testing", "attesting">>, 9, 11)
      /\ Covers(<<"collecting_evidence">>, 11, 12)
  BY SMTT(60) DEF Covers, Journal!Linear
<1>3. /\ Len(KubernetesCompletion) = 6
      /\ \A i \in 1..6 : KubernetesCompletion[i] = Journal!Linear[6 + i]
  BY SMTT(60) DEF KubernetesCompletion, Journal!Linear
<1>4. /\ Len(KubernetesCompletion \o <<"succeeded">>) = 7
      /\ \A i \in 1..7 : (KubernetesCompletion \o <<"succeeded">>)[i] = Journal!Linear[6 + i]
  BY SMTT(60) DEF KubernetesCompletion, Journal!Linear
<1> QED BY <1>1, <1>2, <1>3, <1>4 DEF Covers

-----------------------------------------------------------------------------
(* The steps that consist of one stage. *)

LEMMA RegistryLifecycleKeeps == IInv /\ RegistryLifecycle => IInv'
<1> SUFFICES ASSUME IInv, RegistryLifecycle PROVE IInv'
  OBVIOUS
<1>1. /\ pc = "announce" /\ options' = options /\ resources' = resources
      /\ ending' = ending /\ attested' = attested
      /\ Announces("registry-lifecycle", Passed(<<"registry-lifecycle">>), <<"building">>,
                   "build")
  BY DEF RegistryLifecycle, At
<1>2. /\ "announce" \in Going \ Early /\ Behind("announce") = 4 /\ Written("announce") = 2
      /\ "build" \in Going \ Early /\ Behind("build") = 5 /\ Written("build") = 3
      /\ "build" \notin Deploying \cup {"schema"}
  BY DEF Going, Early, Deploying, Behind, Written
<1>3. All[5] = "registry-lifecycle" /\ Covers(<<"building">>, 2, 3)
  BY StageNames, ListedCalls
<1>4. Adds(<<"registry-lifecycle">>, 4, 5)
  <2>1. \A i \in 1..25 : All[i] \in ToSet(<<"registry-lifecycle">>) <=> i = 5
    BY <1>3, SingleStage
  <2> QED BY <2>1 DEF Adds
<1>5. attested <=> "build" \in {"smoke", "rollback", "deployed"}
  BY <1>1, <1>2 DEF IInv, GoingInv, GoingAt
<1>6. All[4 + 1] = "registry-lifecycle" /\ 5 \in 4..19 /\ 2 \in 0..2 /\ 3 \in 2..12
  BY <1>3
<1> QED BY <1>1, <1>2, <1>3, <1>4, <1>5, <1>6, StageKeeps

LEMMA BuildOnceKeeps == IInv /\ BuildOnce => IInv'
<1> SUFFICES ASSUME IInv, BuildOnce PROVE IInv'
  OBVIOUS
<1>1. /\ pc = "build" /\ options' = options /\ resources' = resources
      /\ ending' = ending /\ attested' = attested
      /\ \/ Raises("build-once", "FAILED", results, started, journal)
         \/ Announces("build-once", Passed(<<"build-once">>), <<"built", "pushing">>,
                      "resolve")
  BY DEF BuildOnce, Stage, At
<1>2. /\ "build" \in Going \ Early /\ Behind("build") = 5 /\ Written("build") = 3
      /\ "resolve" \in Going \ Early /\ Behind("resolve") = 6 /\ Written("resolve") = 5
      /\ "resolve" \notin Deploying \cup {"schema"}
  BY DEF Going, Early, Deploying, Behind, Written
<1>3. All[6] = "build-once" /\ Covers(<<"built", "pushing">>, 3, 5)
  BY StageNames, ListedCalls
<1>4. Adds(<<"build-once">>, 5, 6)
  <2>1. \A i \in 1..25 : All[i] \in ToSet(<<"build-once">>) <=> i = 6
    BY <1>3, SingleStage
  <2> QED BY <2>1 DEF Adds
<1>5. attested <=> "resolve" \in {"smoke", "rollback", "deployed"}
  BY <1>1, <1>2 DEF IInv, GoingInv, GoingAt
<1>6. All[5 + 1] = "build-once" /\ 6 \in 5..19 /\ 3 \in 0..3 /\ 5 \in 3..12
  BY <1>3
<1> QED BY <1>1, <1>2, <1>3, <1>4, <1>5, <1>6, StageKeeps

LEMMA ResolveDigestKeeps == IInv /\ ResolveDigest => IInv'
<1> SUFFICES ASSUME IInv, ResolveDigest PROVE IInv'
  OBVIOUS
<1>1. /\ pc = "resolve" /\ options' = options /\ resources' = resources
      /\ ending' = ending /\ attested' = attested
      /\ \/ Raises("resolve-digest", "FAILED", results, started, journal)
         \/ Announces("resolve-digest", Passed(<<"resolve-digest">>), <<"digest_resolved">>, "supply")
  BY DEF ResolveDigest, Stage, At
<1>2. /\ "resolve" \in Going \ Early /\ Behind("resolve") = 6 /\ Written("resolve") = 5
      /\ "supply" \in Going \ Early /\ Behind("supply") = 7 /\ Written("supply") = 6
      /\ "supply" \notin {"smoke", "rollback", "deployed"}
      /\ "resolve" \notin {"smoke", "rollback", "deployed"}
  BY DEF Going, Early, Deploying, Behind, Written
<1>3. All[7] = "resolve-digest" /\ Covers(<<"digest_resolved">>, 5, 6)
  BY StageNames, ListedCalls
<1>4. Adds(<<"resolve-digest">>, 6, 7)
  <2>1. \A i \in 1..25 : All[i] \in ToSet(<<"resolve-digest">>) <=> i = 7
    BY <1>3, SingleStage
  <2> QED BY <2>1 DEF Adds
<1>5. /\ attested <=> "supply" \in {"smoke", "rollback", "deployed"}
      /\ "supply" \in Deploying \cup {"schema"} => Canonical
  BY <1>1, <1>2 DEF IInv, GoingInv, GoingAt, Deploying
<1>6. All[6 + 1] = "resolve-digest" /\ 7 \in 6..19 /\ 5 \in 0..5 /\ 6 \in 5..12
  BY <1>3
<1> QED BY <1>1, <1>2, <1>3, <1>4, <1>5, <1>6, StageKeeps

LEMMA KubernetesSchemaKeeps == IInv /\ KubernetesSchema => IInv'
<1> SUFFICES ASSUME IInv, KubernetesSchema PROVE IInv'
  OBVIOUS
<1>1. /\ pc = "schema" /\ options' = options /\ resources' = resources
      /\ ending' = ending /\ attested' = attested
      /\ \/ Raises("kubernetes-schema", "FAILED", results, started, journal)
         \/ Announces("kubernetes-schema", Passed(<<"kubernetes-schema">>), <<>>, "cluster")
  BY DEF KubernetesSchema, Stage, At
<1>2. /\ "schema" \in Going \ Early /\ Behind("schema") = 11 /\ Written("schema") = 6
      /\ "cluster" \in Going \ Early /\ Behind("cluster") = 12 /\ Written("cluster") = 6
      /\ "cluster" \notin {"smoke", "rollback", "deployed"}
      /\ "schema" \notin {"smoke", "rollback", "deployed"}
  BY DEF Going, Early, Deploying, Behind, Written
<1>3. All[12] = "kubernetes-schema"
  BY StageNames
<1>4. Adds(<<"kubernetes-schema">>, 11, 12)
  <2>1. \A i \in 1..25 : All[i] \in ToSet(<<"kubernetes-schema">>) <=> i = 12
    BY <1>3, SingleStage
  <2> QED BY <2>1 DEF Adds
<1>5. /\ attested <=> "cluster" \in {"smoke", "rollback", "deployed"}
      /\ "cluster" \in Deploying \cup {"schema"} => Canonical
  BY <1>1, <1>2 DEF IInv, GoingInv, GoingAt, Deploying
<1>6. All[11 + 1] = "kubernetes-schema" /\ 12 \in 11..19 /\ 6 \in 0..6 /\ 6 \in 6..12
  BY <1>3
<1>7. PICK none \in {<<>>} : Covers(none, 6, 6)
  BY ListedCalls
<1>8. \/ Raises("kubernetes-schema", "FAILED", results, started, journal)
      \/ Announces("kubernetes-schema", Passed(<<"kubernetes-schema">>), none, "cluster")
  BY <1>1
<1> QED BY <1>1, <1>2, <1>4, <1>5, <1>6, <1>7, <1>8, StageKeeps

LEMMA ProfileIs == StateOK => profile \in Profiles
BY RunAssumptions DEF StateOK, Options, profile

LEMMA ArtifactContractKeeps == IInv /\ ArtifactContract => IInv'
<1> SUFFICES ASSUME IInv, ArtifactContract PROVE IInv'
  OBVIOUS
<1>1. PICK next \in {IF Canonical THEN "schema" ELSE "cleanup"} :
         /\ pc = "contract" /\ options' = options /\ resources' = resources
         /\ ending' = ending /\ attested' = attested
         /\ \/ Raises("artifact-contract", "FAILED", results, started, journal)
            \/ Announces("artifact-contract", Passed(<<"artifact-contract">>), <<>>, next)
  BY DEF ArtifactContract, Stage, At
<1>2. /\ "contract" \in Going \ Early /\ Behind("contract") = 10 /\ Written("contract") = 6
      /\ "schema" \in Going \ Early /\ Behind("schema") = 11 /\ Written("schema") = 6
  BY DEF Going, Early, Deploying, Behind, Written
<1>3. All[11] = "artifact-contract"
  BY StageNames
<1>4. Adds(<<"artifact-contract">>, 10, 11)
  <2>1. \A i \in 1..25 : All[i] \in ToSet(<<"artifact-contract">>) <=> i = 11
    BY <1>3, SingleStage
  <2> QED BY <2>1 DEF Adds
<1>5. \/ /\ next \in Going \ Early /\ 11 = Behind(next) /\ 6 = Written(next)
         /\ attested <=> next \in {"smoke", "rollback", "deployed"}
         /\ next \in Deploying \cup {"schema"} => Canonical
      \/ next = "cleanup" /\ 11 = Most /\ (Canonical => 6 = 12)
  <2>1. attested = FALSE /\ profile # "static" /\ profile \in Profiles
    BY <1>1, <1>2, ProfileIs DEF IInv, GoingInv, GoingAt, Early, StateOK
  <2>2. CASE Canonical
    BY <1>1, <1>2, <2>1, <2>2
  <2>3. CASE ~Canonical
    <3>1. profile = "supply-chain"
      BY <2>1, <2>3 DEF Canonical, Profiles
    <3> QED BY <1>1, <2>3, <3>1 DEF Most
  <2> QED BY <2>2, <2>3
<1>6. All[10 + 1] = "artifact-contract" /\ 11 \in 10..19 /\ 6 \in 0..6 /\ 6 \in 6..12
  BY <1>3
<1>7. Covers(<<>>, 6, 6)
  BY ListedCalls
<1> QED BY <1>1, <1>2, <1>4, <1>5, <1>6, <1>7, StageKeeps

LEMMA ServerSideDryRunKeeps == IInv /\ ServerSideDryRun => IInv'
<1> SUFFICES ASSUME IInv, ServerSideDryRun PROVE IInv'
  OBVIOUS
<1>1. /\ pc = "dry-run" /\ options' = options /\ resources' = resources
      /\ ending' = ending /\ attested' = attested
      /\ \/ Raises("server-side-dry-run", "FAILED", results, started, journal)
         \/ Announces("server-side-dry-run", Passed(<<>>), <<"cluster_preparing">>,
                      "namespace")
  BY DEF ServerSideDryRun, Stage, At
<1>2. /\ "dry-run" \in Going \ Early /\ Behind("dry-run") = 12 /\ Written("dry-run") = 6
      /\ "namespace" \in Going \ Early /\ Behind("namespace") = 12
      /\ Written("namespace") = 7
      /\ "namespace" \notin {"smoke", "rollback", "deployed"}
      /\ "dry-run" \notin {"smoke", "rollback", "deployed"}
  BY DEF Going, Early, Deploying, Behind, Written
<1>3. All[13] = "server-side-dry-run"
  BY StageNames
<1>4. Covers(<<"cluster_preparing">>, 6, 7)
  BY ListedCalls
<1>5. PICK none \in {<<>>} : Adds(none, 12, 12)
  <2>1. \A i \in 1..25 : All[i] \notin ToSet(<<>>)
    BY ListedStages
  <2>2. \A i \in 1..25 : i \notin 12 + 1..12
    OBVIOUS
  <2>3. Adds(<<>>, 12, 12)
    BY <2>1, <2>2, Zenon DEF Adds
  <2> QED BY <2>3
<1>6. \/ Raises("server-side-dry-run", "FAILED", results, started, journal)
      \/ Announces("server-side-dry-run", Passed(none), <<"cluster_preparing">>, "namespace")
  BY <1>1
<1>7. /\ attested <=> "namespace" \in {"smoke", "rollback", "deployed"}
      /\ "namespace" \in Deploying \cup {"schema"} => Canonical
  BY <1>1, <1>2 DEF IInv, GoingInv, GoingAt, Deploying
<1>8. All[12 + 1] = "server-side-dry-run" /\ 12 \in 12..19 /\ 6 \in 0..6 /\ 7 \in 6..12
  BY <1>3
<1> QED BY <1>1, <1>2, <1>4, <1>5, <1>6, <1>7, <1>8, StageKeeps

LEMMA DeployedKeeps == IInv /\ Deployed => IInv'
<1> SUFFICES ASSUME IInv, Deployed PROVE IInv'
  OBVIOUS
<1>1. /\ pc = "deployed" /\ options' = options /\ resources' = resources
      /\ ending' = ending /\ attested' = attested
      /\ \/ Raises("server-side-dry-run", "FAILED", results, started, journal)
         \/ Announces("server-side-dry-run", Passed(ClusterStages), KubernetesCompletion,
                      "cleanup")
  BY DEF Deployed, Stage, At
<1>2. "deployed" \in Going \ Early /\ Behind("deployed") = 12 /\ Written("deployed") = 12
  BY DEF Going, Early, Deploying, Behind, Written
<1>3. Covers(KubernetesCompletion, 6, 12)
  BY ListedCalls
<1>4. Adds(ClusterStages, 12, 19)
  <2>1. \A i \in 1..25 : All[i] \in ToSet(ClusterStages) <=> i \in 13..19
    BY ListedStages
  <2> QED BY <2>1 DEF Adds
<1>5. 19 = Most /\ (Canonical => 12 = 12)
  <2>1. Canonical
    BY <1>1, <1>2 DEF IInv, GoingInv, GoingAt, Deploying
  <2> QED BY <2>1 DEF Canonical, Most
<1>6. All[12 + 1] = "server-side-dry-run" /\ 19 \in 12..19 /\ 6 \in 0..12 /\ 12 \in 12..12
  BY StageNames
<1> QED BY <1>1, <1>2, <1>3, <1>4, <1>5, <1>6, StageKeeps

LEMMA SupplyChainKeeps == IInv /\ SupplyChain => IInv'
<1> SUFFICES ASSUME IInv, SupplyChain PROVE IInv'
  OBVIOUS
<1>1. /\ pc = "supply" /\ options' = options /\ resources' = resources
      /\ ending' = ending /\ attested' = attested
  BY DEF SupplyChain, Stage, At
<1>2. /\ "supply" \in Going \ Early /\ Behind("supply") = 7 /\ Written("supply") = 6
      /\ "contract" \in Going \ Early /\ Behind("contract") = 10 /\ Written("contract") = 6
      /\ "contract" \notin Deploying \cup {"schema"}
      /\ "supply" \notin {"smoke", "rollback", "deployed"}
  BY DEF Going, Early, Deploying, Behind, Written
<1>3. CASE \/ Raises("sbom", "FAILED", results, started, journal)
           \/ Announces("sbom", Passed(<<"sbom", "vulnerability-scan", "provenance">>),
                        <<>>, "contract")
  <2>1. Adds(<<"sbom", "vulnerability-scan", "provenance">>, 7, 10)
    <3>1. \A i \in 1..25 :
            All[i] \in ToSet(<<"sbom", "vulnerability-scan", "provenance">>) <=> i \in 8..10
      BY ListedStages
    <3> QED BY <3>1 DEF Adds
  <2>2. PICK none \in {<<>>} : Covers(none, 6, 6)
    BY ListedCalls
  <2>3. \/ Raises("sbom", "FAILED", results, started, journal)
        \/ Announces("sbom", Passed(<<"sbom", "vulnerability-scan", "provenance">>),
                     none, "contract")
    BY <1>3
  <2>4. attested <=> "contract" \in {"smoke", "rollback", "deployed"}
    BY <1>1, <1>2 DEF IInv, GoingInv, GoingAt
  <2>5. All[7 + 1] = "sbom" /\ 10 \in 7..19 /\ 6 \in 0..6 /\ 6 \in 6..12
    BY StageNames
  <2> QED BY <1>1, <1>2, <2>1, <2>2, <2>3, <2>4, <2>5, StageKeeps
<1>4. CASE Raises("vulnerability-scan", "FAILED", Passed(<<"sbom", "provenance">>),
                  started, journal)
  <2> DEFINE found == Passed(<<"sbom", "provenance">>)
  <2>1. /\ StateOK /\ EndInv /\ GoingInv /\ GoingAt("supply") /\ pc \in Going
    BY <1>1, <1>2 DEF IInv, GoingInv
  <2>2. /\ results \in [StageIds -> Statuses] /\ "PASSED" \in Statuses
        /\ blamed \in StageIds \cup {"none"} /\ escaping \in BOOLEAN /\ started \in BOOLEAN
    BY <2>1 DEF StateOK, Statuses
  <2>3. \A i \in 1..25 : All[i] \in StageIds
    BY StageOrder
  <2>4. \A i \in 1..25 : All[i] \in ToSet(<<"sbom", "provenance">>) <=> i \in {8, 10}
    BY ListedStages
  <2>5. /\ found \in [StageIds -> Statuses]
        /\ \A i \in 1..25 : found[All[i]] = IF i \in {8, 10} THEN "PASSED" ELSE Status(i)
    BY <2>2, <2>3, <2>4 DEF Passed, Marked, Status
  <2>6. \A i \in 1..25 : Status(i) = IF i <= 7 THEN "PASSED" ELSE "NONE"
    BY <1>2, <2>1 DEF GoingAt
  <2>7. /\ found \in [StageIds -> Statuses]
        /\ \A i \in 1..8 : found[All[i]] = "PASSED"
        /\ found[All[8 + 1]] = "NONE"
        /\ \A i \in 20..25 : found[All[i]] = "NONE"
    BY <2>5, <2>6
  <2>8. PICK n \in 0..18, w \in 0..12, k \in 1..25 : n = 8 /\ w = 6 /\ k = n + 1
    OBVIOUS
  <2> HIDE DEF found
  <2>9. /\ found \in [StageIds -> Statuses]
        /\ \A i \in 1..n : found[All[i]] = "PASSED"
        /\ found[All[n + 1]] = "NONE"
        /\ \A i \in 20..25 : found[All[i]] = "NONE"
        /\ k = n + 1 \/ (k <= n /\ WritesMayFail)
    BY <2>7, <2>8
  <2>10. Raises(All[k], "FAILED", found, started, journal)
    BY <1>4, <2>8, StageNames DEF found
  <2>11. Seen(n, w) /\ w # 0
    BY <2>8 DEF Seen
  <2>12. "FAILED" \in {"FAILED", "BLOCKED"}
    BY SMTT(30)
  <2>13. ASSUME started = TRUE PROVE Fallen'
    <3>1. Canonical /\ Reaches(journal, w)
      BY SMTT(30), <1>2, <2>1, <2>8, <2>13 DEF GoingAt
    <3> QED BY ZenonT(30), <1>1, <2>2, <2>9, <2>10, <2>11, <2>12, <2>13, <3>1, Raised
  <2>14. ASSUME started = FALSE PROVE Fallen'
    <3>1. journal = <<>>
      BY <1>2, <2>1, <2>14 DEF GoingAt, EndInv
    <3>2. Raises(All[k], "FAILED", found, FALSE, journal)
      BY <2>10, <2>14
    <3>3. /\ FALSE => /\ Canonical /\ Reaches(journal, w)
                      /\ w = 0 => WritesMayFail
          /\ ~FALSE => journal = <<>>
          /\ FALSE \in BOOLEAN
      BY <3>1
    <3> QED BY ZenonT(30), <1>1, <2>2, <2>9, <2>11, <2>12, <3>2, <3>3, Raised
  <2>15. Fallen'
    BY <2>2, <2>13, <2>14
  <2>16. /\ objects' = objects /\ existing' = existing /\ unknown' = unknown
         /\ profile # "static" /\ attested' \in BOOLEAN
         /\ objects \subseteq Kinds /\ existing \subseteq objects /\ unknown \subseteq objects
    BY <1>1, <2>1 DEF resources, GoingAt, StateOK
  <2> QED BY <1>1, <2>1, <2>15, <2>16, FallenKeeps
<1> QED BY <1>3, <1>4 DEF SupplyChain, Stage

-----------------------------------------------------------------------------
(* The cluster and the executor. *)

LEMMA CreateClusterKeeps == IInv /\ CreateCluster => IInv'
<1> SUFFICES ASSUME IInv, CreateCluster PROVE IInv'
  OBVIOUS
<1>1. /\ pc = "cluster" /\ options' = options /\ ending' = ending /\ attested' = attested
      /\ objects' = objects \cup {"cluster"}
      /\ \/ /\ existing' = existing \cup {"cluster"} /\ unknown' = unknown
            /\ Proceeds("server-side-dry-run", results, started, journal, "dry-run")
         \/ /\ existing' \subseteq existing \cup {"cluster"}
            /\ unknown' \subseteq unknown \cup {"cluster"}
            /\ Raises("server-side-dry-run", "FAILED", results, started, journal)
  BY DEF CreateCluster, At
<1>2. /\ "cluster" \in Going \ Early /\ Behind("cluster") = 12 /\ Written("cluster") = 6
      /\ "dry-run" \in Going \ Early /\ Behind("dry-run") = 12 /\ Written("dry-run") = 6
      /\ "dry-run" \notin {"smoke", "rollback", "deployed"}
      /\ "cluster" \notin {"smoke", "rollback", "deployed"}
      /\ "cluster" \in Deploying
  BY DEF Going, Early, Deploying, Behind, Written
<1>3. StateOK /\ EndInv /\ GoingInv /\ GoingAt("cluster") /\ pc \in Going
  BY <1>1, <1>2 DEF IInv, GoingInv
<1>4. /\ blamed \in StageIds \cup {"none"} /\ escaping \in BOOLEAN /\ failed \in BOOLEAN
      /\ results \in [StageIds -> Statuses] /\ attested \in BOOLEAN /\ started \in BOOLEAN
      /\ objects \subseteq Kinds /\ existing \subseteq objects /\ unknown \subseteq objects
  BY <1>3 DEF StateOK
<1>5. /\ ~failed /\ ~escaping /\ ~cleaned /\ ~retained /\ ~attested
      /\ blamed = "none" /\ unknown = {} /\ existing = objects
      /\ started = TRUE /\ Canonical /\ Reaches(journal, 6)
      /\ profile # "static" /\ ~options.missing
      /\ \A i \in 1..25 : Status(i) = IF i <= 12 THEN "PASSED" ELSE "NONE"
  BY <1>2, <1>3, <1>4 DEF GoingAt, Early
<1>6. All[12 + 1] = "server-side-dry-run" /\ All[13] \in StageIds
  BY StageNames, StageOrder
<1>7. objects' \subseteq Kinds
  BY <1>1, <1>4 DEF Kinds
<1>8. CASE Proceeds("server-side-dry-run", results, started, journal, "dry-run")
           /\ existing' = existing \cup {"cluster"} /\ unknown' = unknown
  <2>1. /\ stage' \in StageIds /\ results' = results /\ started' = Canonical
        /\ journal' = journal /\ pc' = "dry-run"
        /\ failed' = FALSE /\ escaping' = FALSE /\ blamed' = "none"
        /\ {failed', escaping'} \subseteq BOOLEAN
    BY ZenonT(30), <1>4, <1>5, <1>6, <1>8, StageNames DEF Proceeds, Goto, Canonical
  <2>2. unknown' = {} /\ existing' = objects'
    BY <1>1, <1>5, <1>8
  <2>3. \A i \in 1..25 : results'[All[i]] = IF i <= Behind("dry-run") THEN "PASSED" ELSE "NONE"
    BY <1>2, <1>5, <2>1 DEF Status
  <2>4. Reaches(journal', IF started' THEN Written("dry-run") ELSE 0)
    BY <1>2, <1>5, <2>1
  <2>5. attested' \in BOOLEAN /\ (attested' <=> "dry-run" \in {"smoke", "rollback", "deployed"})
    BY <1>1, <1>2, <1>4, <1>5
  <2>6. pc # "done" /\ pc # "close" /\ results' \in [StageIds -> Statuses]
    BY <1>1, <1>4, <2>1
  <2> QED BY <1>1, <1>2, <1>3, <1>5, <1>7, <2>1, <2>2, <2>3, <2>4, <2>5, <2>6, GoingKeeps
<1>9. CASE /\ Raises("server-side-dry-run", "FAILED", results, started, journal)
           /\ existing' \subseteq existing \cup {"cluster"}
           /\ unknown' \subseteq unknown \cup {"cluster"}
  <2>1. PassedTo(results, 12)
    BY <1>4, <1>5 DEF PassedTo, Status
  <2>2. /\ Seen(12, 6) /\ 12 \in 0..18 /\ 6 \in 0..12
        /\ "FAILED" \in {"FAILED", "BLOCKED"}
    BY DEF Seen
  <2>3. /\ started => /\ Canonical /\ Reaches(journal, 6)
                      /\ 6 = 0 => WritesMayFail
        /\ ~started => journal = <<>>
    BY <1>5
  <2>4. Raises(All[12 + 1], "FAILED", results, started, journal)
    BY <1>6, <1>9
  <2>5. Fallen'
    BY SMTT(30), <1>1, <1>4, <2>1, <2>2, <2>3, <2>4, StageRaises
  <2>6. existing' \subseteq objects' /\ unknown' \subseteq objects'
    BY <1>1, <1>4, <1>9
  <2> QED BY <1>1, <1>3, <1>4, <1>5, <1>7, <2>5, <2>6, FallenKeeps
<1> QED BY <1>1, <1>8, <1>9

\* The executor fails with c of its stages completed.
LEMMA ExecutorFails ==
    ASSUME blamed \in StageIds \cup {"none"}, escaping \in BOOLEAN, options' = options,
           PassedTo(results, 12), NEW c \in 0..6, NEW w \in 1..12, Seen(12 + c, w),
           Canonical, NEW history, Reaches(history, w),
           Raises(ClusterStages[c + 1], "FAILED", Passed(SubSeq(ClusterStages, 1, c)), TRUE,
                  history)
    PROVE  Fallen'
<1> DEFINE found == Passed(SubSeq(ClusterStages, 1, c))
<1>1. PICK n \in 12..18 : n = 12 + c
  OBVIOUS
<1>2. Adds(SubSeq(ClusterStages, 1, c), 12, n)
  BY <1>1, ListedPrefixes DEF Adds
<1>3. n \in 12..19 /\ 12 \in 0..19
  OBVIOUS
<1>4. PassedTo(found, n)
  BY <1>2, <1>3, PassesOn
<1>5. c + 1 \in 1..7 /\ 12 + (c + 1) = n + 1 /\ n \in 0..18
  BY <1>1
<1>6. ClusterStages[c + 1] = All[n + 1]
  BY <1>5, ListedPrefixes
<1>7. /\ \A i \in 1..n : i \in 1..25 /\ i <= n
      /\ \A i \in 20..25 : i \in 1..25 /\ ~(i <= n)
      /\ n + 1 \in 1..25 /\ ~(n + 1 <= n)
  OBVIOUS
<1>8. /\ \A i \in 1..n : found[All[i]] = "PASSED"
      /\ found[All[n + 1]] = "NONE"
      /\ \A i \in 20..25 : found[All[i]] = "NONE"
      /\ found \in [StageIds -> Statuses]
  BY <1>4, <1>7 DEF PassedTo
<1> HIDE DEF found
<1>9. PICK k \in 1..25 : k = n + 1
  BY <1>7
<1>10. Raises(All[k], "FAILED", found, TRUE, history)
  BY <1>6, <1>9 DEF found
<1>11. Seen(n, w) /\ w \in 0..12 /\ w # 0
  BY <1>1
<1>12. /\ k = n + 1 \/ (k <= n /\ WritesMayFail)
       /\ "FAILED" \in {"FAILED", "BLOCKED"}
  BY <1>9
<1> QED BY ZenonT(30), <1>5, <1>8, <1>10, <1>11, <1>12, Raised

ExecutorLabels ==
    {"namespace", "apply", "rollout", "applied", "runtime-attestation", "smoke", "rollback"}

\* Any other exception of the executor is that of the current stage.
LEMMA ExecutorRaises ==
    ASSUME blamed \in StageIds \cup {"none"}, escaping \in BOOLEAN, options' = options,
           PassedTo(results, 12), NEW w \in 1..12, Seen(12, w),
           Canonical, NEW history, Reaches(history, w),
           Raises("server-side-dry-run", "FAILED", results, TRUE, history)
    PROVE  Fallen'
<1>1. PICK n \in 0..18, k \in 1..25 : n = 12 /\ k = n + 1
  OBVIOUS
<1>2. /\ \A i \in 1..n : i \in 1..25 /\ i <= 12
      /\ \A i \in 20..25 : i \in 1..25 /\ ~(i <= 12)
      /\ n + 1 \in 1..25 /\ ~(n + 1 <= 12)
  BY <1>1
<1>3. /\ \A i \in 1..n : results[All[i]] = "PASSED"
      /\ results[All[n + 1]] = "NONE"
      /\ \A i \in 20..25 : results[All[i]] = "NONE"
      /\ results \in [StageIds -> Statuses]
  BY <1>2 DEF PassedTo
<1>4. Raises(All[k], "FAILED", results, TRUE, history)
  <2>1. k = 13
    BY <1>1
  <2>2. All[k] = "server-side-dry-run"
    BY <2>1, StageNames
  <2> QED BY <2>2
<1>5. Seen(n, w) /\ w \in 0..12 /\ w # 0
  BY <1>1
<1>6. /\ k = n + 1 \/ (k <= n /\ WritesMayFail)
      /\ "FAILED" \in {"FAILED", "BLOCKED"}
  BY <1>1
<1> QED BY ZenonT(30), <1>3, <1>4, <1>5, <1>6, Raised

\* The handler of the executor's errors raises.
LEMMA LostKeeps ==
    ASSUME StateOK, EndInv, GoingInv, pc \in Going \ Early, Canonical, started,
           NEW n \in 7..12, NEW history, Reaches(history, n), HandlerRaises(history),
           options' = options, attested' \in BOOLEAN, resources' = resources,
           ending' = ending, \A i \in 20..25 : Status(i) = "NONE"
    PROVE  IInv'
<1>1. /\ pc' = "cleanup" /\ escaping' = TRUE /\ journal' = history
      /\ results' = results /\ stage' = stage /\ failed' = failed
      /\ started' = started /\ blamed' = blamed
      /\ objects' = objects /\ existing' = existing /\ unknown' = unknown
      /\ cleaned' = cleaned /\ retained' = retained /\ report' = report
      /\ final' = final /\ outcome' = outcome
  BY DEF HandlerRaises, Goto, resources, ending
<1>2. pc # "done" /\ pc # "close" /\ pc \in Going
  BY DEF Going, Early, Deploying
<1>3. ~failed /\ ~cleaned /\ ~retained /\ unknown = {} /\ profile # "static"
  BY <1>2 DEF GoingInv, GoingAt, Canonical
<1>4. journal' \in Seq(Journal!Transition) /\ Reaches(journal', n)
  BY <1>1 DEF Reaches
<1>5. StateOK'
  BY <1>1, <1>4 DEF StateOK, Labels
<1>6. profile' = profile /\ Canonical'
  BY DEF profile, Canonical
<1>7. EndInv'
  BY <1>1, <1>2, <1>6 DEF EndInv
<1>8. GoingInv' /\ FinishInv' /\ CloseInv' /\ LeftInv' /\ DoneInv'
  BY <1>1 DEF GoingInv, FinishInv, CloseInv, LeftInv, DoneInv, Going, Early, Deploying
<1>9. Lost'
  BY <1>1, <1>4, <1>6 DEF Lost
<1>10. CleanupInv'
  BY <1>1, <1>3, <1>6, <1>9 DEF CleanupInv, Status
<1> QED BY <1>5, <1>7, <1>8, <1>10 DEF IInv

LEMMA ExecutorStepKeeps ==
    ASSUME IInv, NEW label \in ExecutorLabels, NEW event, NEW next \in Deploying,
           ExecutorStep(label, event, next),
           NEW w \in 1..12, w = Written(label), NEW e \in w..12, e = Written(next),
           Covers(event, w, e),
           attested' \in BOOLEAN, attested' <=> next \in {"smoke", "rollback", "deployed"}
    PROVE  IInv'
<1> DEFINE c == KubernetesProgress(label)
           Blames(history) ==
               Raises(ClusterStages[c + 1], "FAILED",
                      Passed(SubSeq(ClusterStages, 1, c)), started, history)
           Other(history) ==
               Raises("server-side-dry-run", "FAILED", results, started, history)
           Fails(history) ==
               HandlerRaises(history) \/ Blames(history) \/ Other(history)
<1>1. /\ pc = label /\ options' = options /\ resources' = resources /\ ending' = ending
      /\ \/ Fails(journal)
         \/ \E x \in Calls(journal, event) :
               IF x.ok THEN Proceeds(stage, results, started, x.history, next)
               ELSE Fails(x.history)
  BY DEF ExecutorStep, RecordKubernetesFailure, At, Goto
<1>2. /\ c \in 0..6 /\ Seen(12 + c, Written(label)) /\ Seen(12, w) /\ w \in 7..12
      /\ label \in Deploying /\ label \in Going \ Early /\ Behind(label) = 12
      /\ next \in Going \ Early /\ Behind(next) = 12
  BY DEF ExecutorLabels, KubernetesProgress, Seen, Written, Behind, Deploying, Going, Early
<1> HIDE DEF c
<1>3. StateOK /\ EndInv /\ GoingInv /\ GoingAt(label) /\ pc \in Going
  BY <1>1, <1>2 DEF IInv, GoingInv
<1>4. /\ blamed \in StageIds \cup {"none"} /\ escaping \in BOOLEAN /\ failed \in BOOLEAN
      /\ results \in [StageIds -> Statuses] /\ started \in BOOLEAN /\ stage \in StageIds
      /\ objects \subseteq Kinds /\ existing \subseteq objects /\ unknown \subseteq objects
  BY <1>3 DEF StateOK
<1>5. /\ ~failed /\ ~escaping /\ ~cleaned /\ ~retained
      /\ blamed = "none" /\ unknown = {} /\ existing = objects
      /\ started = TRUE /\ Canonical /\ Reaches(journal, w)
      /\ profile # "static" /\ ~options.missing
      /\ \A i \in 1..25 : Status(i) = IF i <= 12 THEN "PASSED" ELSE "NONE"
  BY <1>2, <1>3, <1>4 DEF GoingAt, Early
<1>6. /\ objects' = objects /\ existing' = existing /\ unknown' = unknown
      /\ pc # "done" /\ pc # "close" /\ w \in 0..12
  BY <1>1, <1>2 DEF resources, Deploying
<1>7. PassedTo(results, 12)
  BY <1>4, <1>5 DEF PassedTo, Status
<1>8. ASSUME NEW m \in w..12, NEW history, Reaches(history, m), Fails(history)
      PROVE  IInv'
  <2>1. /\ m \in 1..12 /\ w \in 0..12 /\ 12 + c \in 0..18 /\ Seen(12 + c, w)
        /\ 12 \in 0..18 /\ m \in 7..12
    BY <1>2, <1>6
  <2>2. Seen(12 + c, m) /\ Seen(12, m)
    BY <1>2, <2>1, SeenLater
  <2>3. CASE HandlerRaises(history)
    <3>1. \A i \in 20..25 : Status(i) = "NONE"
      <4>1. \A i \in 20..25 : i \in 1..25 /\ ~(i <= 12)
        OBVIOUS
      <4> QED BY <1>5, <4>1
    <3>2. pc \in Going \ Early /\ started
      BY <1>1, <1>2, <1>5
    <3> QED BY <1>1, <1>3, <1>5, <1>8, <2>1, <2>3, <3>1, <3>2, LostKeeps
  <2>4. CASE Blames(history)
    <3>1. Raises(ClusterStages[c + 1], "FAILED", Passed(SubSeq(ClusterStages, 1, c)), TRUE,
                 history)
      BY <1>5, <2>4
    <3>2. Fallen'
      BY <1>1, <1>2, <1>4, <1>5, <1>7, <1>8, <2>1, <2>2, <3>1, ExecutorFails
    <3> QED BY <1>1, <1>3, <1>4, <1>5, <1>6, <3>2, FallenKeeps
  <2>5. CASE Other(history)
    <3>1. Raises("server-side-dry-run", "FAILED", results, TRUE, history)
      BY <1>5, <2>5
    <3>2. Fallen'
      BY <1>1, <1>4, <1>5, <1>7, <1>8, <2>1, <2>2, <3>1, ExecutorRaises
    <3> QED BY <1>1, <1>3, <1>4, <1>5, <1>6, <3>2, FallenKeeps
  <2> QED BY <1>8, <2>3, <2>4, <2>5
<1>9. CASE Fails(journal)
  <2>1. w \in w..12
    OBVIOUS
  <2> QED BY <1>5, <1>8, <1>9, <2>1
<1>10. CASE \E x \in Calls(journal, event) :
               IF x.ok THEN Proceeds(stage, results, started, x.history, next)
               ELSE Fails(x.history)
  <2>1. PICK x \in Calls(journal, event) :
               IF x.ok THEN Proceeds(stage, results, started, x.history, next)
               ELSE Fails(x.history)
    BY <1>10
  <2>2. w \in 0..w
    BY <1>6
  <2>3. \/ x.ok = TRUE /\ Reaches(x.history, e)
        \/ x.ok = FALSE /\ WritesMayFail /\ \E m \in w..e - 1 : Reaches(x.history, m)
    BY <1>5, <1>6, <2>1, <2>2, CoveringCalls
  <2>4. CASE x.ok = FALSE /\ \E m \in w..e - 1 : Reaches(x.history, m)
    <3>1. PICK m \in w..e - 1 : Reaches(x.history, m)
      BY <2>4
    <3>2. m \in w..12
      BY <1>6, <3>1, Between
    <3>3. Fails(x.history)
      BY <2>1, <2>4
    <3> QED BY <1>8, <3>1, <3>2, <3>3
  <2>5. CASE x.ok = TRUE /\ Reaches(x.history, e)
    <3>1. Proceeds(stage, results, started, x.history, next)
      BY <2>1, <2>5
    <3>2. /\ stage' \in StageIds /\ results' = results /\ started' = Canonical
          /\ journal' = x.history /\ pc' = next
          /\ failed' = FALSE /\ escaping' = FALSE /\ blamed' = "none"
          /\ {failed', escaping'} \subseteq BOOLEAN
      BY <1>4, <1>5, <3>1 DEF Proceeds, Goto, Canonical
    <3>3. unknown' = {} /\ existing' = objects' /\ objects' \subseteq Kinds
      BY <1>4, <1>5, <1>6
    <3>4. \A i \in 1..25 : results'[All[i]] = IF i <= Behind(next) THEN "PASSED" ELSE "NONE"
      BY <1>2, <1>5, <3>2 DEF Status
    <3>5. Reaches(journal', IF started' THEN Written(next) ELSE 0)
      BY <1>5, <2>5, <3>2
    <3>6. results' \in [StageIds -> Statuses]
      BY <1>4, <3>2
    <3> QED BY <1>1, <1>2, <1>3, <1>5, <1>6, <3>2, <3>3, <3>4, <3>5, <3>6, GoingKeeps
  <2> QED BY <2>3, <2>4, <2>5
<1> QED BY <1>1, <1>9, <1>10

LEMMA ExecutorKeeps == IInv /\ Executor => IInv'
<1> SUFFICES ASSUME IInv, Executor PROVE IInv'
  OBVIOUS
<1>1. /\ Written("namespace") = 7 /\ Written("apply") = 7 /\ Written("rollout") = 8
      /\ Written("applied") = 9 /\ Written("runtime-attestation") = 9
      /\ Written("smoke") = 9 /\ Written("rollback") = 11 /\ Written("deployed") = 12
  BY DEF Written, Deploying
<1>2. /\ {"namespace", "apply", "rollout", "applied", "runtime-attestation", "smoke",
          "rollback"} \subseteq ExecutorLabels
      /\ {"apply", "rollout", "applied", "runtime-attestation", "smoke", "rollback",
          "deployed"} \subseteq Deploying
  BY DEF ExecutorLabels, Deploying
<1>3. PICK none \in {<<>>} : Covers(none, 7, 7) /\ Covers(none, 9, 9)
  BY ListedCalls
<1>4. pc \in Going => (attested <=> pc \in {"smoke", "rollback", "deployed"})
  BY DEF IInv, GoingInv, GoingAt
<1>5. attested \in BOOLEAN
  BY DEF IInv, StateOK
<1>6. CASE ExecutorStep("namespace", <<>>, "apply") /\ UNCHANGED attested
  <2>1. pc = "namespace" /\ ExecutorStep("namespace", none, "apply")
    BY <1>6 DEF ExecutorStep, At
  <2>2. attested' \in BOOLEAN /\ (attested' <=> "apply" \in {"smoke", "rollback", "deployed"})
    BY <1>4, <1>5, <1>6, <2>1 DEF Going, Deploying
  <2>3. 7 \in 1..12 /\ 7 \in 7..12
    OBVIOUS
  <2> QED BY <1>1, <1>2, <1>3, <2>1, <2>2, <2>3, ExecutorStepKeeps
<1>7. CASE ExecutorStep("apply", <<"applying">>, "rollout") /\ UNCHANGED attested
  <2>1. pc = "apply" /\ ExecutorStep("apply", <<"applying">>, "rollout")
    BY <1>7 DEF ExecutorStep, At
  <2>2. attested' \in BOOLEAN /\ (attested' <=> "rollout" \in {"smoke", "rollback", "deployed"})
    BY <1>4, <1>5, <1>7, <2>1 DEF Going, Deploying
  <2>3. 7 \in 1..12 /\ 8 \in 7..12 /\ Covers(<<"applying">>, 7, 8)
    BY ListedCalls
  <2> QED BY <1>1, <1>2, <2>1, <2>2, <2>3, ExecutorStepKeeps
<1>8. CASE ExecutorStep("rollout", <<"waiting_ready">>, "applied") /\ UNCHANGED attested
  <2>1. pc = "rollout" /\ ExecutorStep("rollout", <<"waiting_ready">>, "applied")
    BY <1>8 DEF ExecutorStep, At
  <2>2. attested' \in BOOLEAN /\ (attested' <=> "applied" \in {"smoke", "rollback", "deployed"})
    BY <1>4, <1>5, <1>8, <2>1 DEF Going, Deploying
  <2>3. 8 \in 1..12 /\ 9 \in 8..12 /\ Covers(<<"waiting_ready">>, 8, 9)
    BY ListedCalls
  <2> QED BY <1>1, <1>2, <2>1, <2>2, <2>3, ExecutorStepKeeps
<1>9. CASE ExecutorStep("applied", <<>>, "runtime-attestation") /\ UNCHANGED attested
  <2>1. pc = "applied" /\ ExecutorStep("applied", none, "runtime-attestation")
    BY <1>9 DEF ExecutorStep, At
  <2>2. /\ attested' \in BOOLEAN
        /\ attested' <=> "runtime-attestation" \in {"smoke", "rollback", "deployed"}
    BY <1>4, <1>5, <1>9, <2>1 DEF Going, Deploying
  <2>3. 9 \in 1..12 /\ 9 \in 9..12
    OBVIOUS
  <2> QED BY <1>1, <1>2, <1>3, <2>1, <2>2, <2>3, ExecutorStepKeeps
<1>10. CASE /\ ExecutorStep("runtime-attestation", <<>>, "smoke")
            /\ attested' = At("runtime-attestation")
  <2>1. /\ pc = "runtime-attestation"
        /\ ExecutorStep("runtime-attestation", none, "smoke")
    BY <1>10 DEF ExecutorStep, At
  <2>2. attested' \in BOOLEAN /\ (attested' <=> "smoke" \in {"smoke", "rollback", "deployed"})
    BY <1>10, <2>1 DEF At
  <2>3. 9 \in 1..12 /\ 9 \in 9..12
    OBVIOUS
  <2> QED BY <1>1, <1>2, <1>3, <2>1, <2>2, <2>3, ExecutorStepKeeps
<1>11. CASE /\ ExecutorStep("smoke", IF attested THEN <<"smoke_testing", "attesting">>
                                     ELSE <<"smoke_testing">>, "rollback")
            /\ UNCHANGED attested
  <2>1. pc = "smoke"
    BY <1>11 DEF ExecutorStep, At
  <2>2. attested
    BY <1>4, <2>1 DEF Going, Deploying
  <2>3. ExecutorStep("smoke", <<"smoke_testing", "attesting">>, "rollback")
    BY <1>11, <2>2
  <2>4. attested' \in BOOLEAN /\ (attested' <=> "rollback" \in {"smoke", "rollback", "deployed"})
    BY <1>5, <1>11, <2>2
  <2>5. 9 \in 1..12 /\ 11 \in 9..12 /\ Covers(<<"smoke_testing", "attesting">>, 9, 11)
    BY ListedCalls
  <2> QED BY <1>1, <1>2, <2>3, <2>4, <2>5, ExecutorStepKeeps
<1>12. CASE ExecutorStep("rollback", <<"collecting_evidence">>, "deployed") /\ UNCHANGED attested
  <2>1. pc = "rollback" /\ ExecutorStep("rollback", <<"collecting_evidence">>, "deployed")
    BY <1>12 DEF ExecutorStep, At
  <2>2. attested' \in BOOLEAN /\ (attested' <=> "deployed" \in {"smoke", "rollback", "deployed"})
    BY <1>4, <1>5, <1>12, <2>1 DEF Going, Deploying
  <2>3. 11 \in 1..12 /\ 12 \in 11..12 /\ Covers(<<"collecting_evidence">>, 11, 12)
    BY ListedCalls
  <2> QED BY <1>1, <1>2, <2>1, <2>2, <2>3, ExecutorStepKeeps
<1> QED BY <1>6, <1>7, <1>8, <1>9, <1>10, <1>11, <1>12 DEF Executor

-----------------------------------------------------------------------------
(* The steps up to the first journal entry. *)

LEMMA InitHolds == Init => IInv
<1> SUFFICES ASSUME Init PROVE IInv
  OBVIOUS
<1>1. /\ All[1] = "config-schema" /\ \A i \in 1..25 : All[i] \in StageIds
  BY StageNames, StageOrder
<1>2. /\ pc = "static" /\ "static" \in Labels /\ "static" \in Early
      /\ Behind("static") = 0
      /\ pc \notin {"cleanup", "release", "finish", "close", "done"}
      /\ "static" \notin {"smoke", "rollback", "deployed"}
      /\ "static" \notin Deploying \cup {"schema"}
  BY DEF Init, Labels, Early, Behind, Deploying
<1>3. /\ results \in [StageIds -> Statuses] /\ stage \in StageIds
      /\ \A i \in 1..25 : Status(i) = "NONE"
  BY <1>1 DEF Init, Statuses, Status
<1>4. StateOK
  <2>1. /\ journal \in Seq(Journal!Transition)
        /\ report \in Seq([stage : StageIds, status : Statuses \ {"NONE"}])
    BY DEF Init
  <2>2. options \in Options /\ {failed, started, attested, escaping, cleaned, retained} \subseteq BOOLEAN
    BY DEF Init
  <2> QED BY <1>2, <1>3, <2>1, <2>2 DEF Init, StateOK
<1>5. EndInv
  BY <1>2 DEF Init, EndInv
<1>6. GoingInv
  <2>1. \A i \in 1..25 : ~(i <= 0)
    OBVIOUS
  <2>2. Reaches(journal, 0)
    BY NothingReached DEF Init
  <2> QED BY <1>2, <1>3, <2>1, <2>2 DEF Init, GoingInv, GoingAt
<1>7. CleanupInv /\ FinishInv /\ CloseInv /\ LeftInv /\ DoneInv
  BY <1>2 DEF CleanupInv, FinishInv, CloseInv, LeftInv, DoneInv
<1> QED BY <1>4, <1>5, <1>6, <1>7 DEF IInv

LEMMA EarlyKeeps ==
    ASSUME StateOK, EndInv, pc # "done", pc # "close", options' = options, ending' = ending,
           ~cleaned, ~retained, NEW next \in {"registry", "record", "begin"}, pc' = next,
           failed' = FALSE, escaping' = FALSE, started' = FALSE, attested' = FALSE,
           blamed' = "none", journal' = <<>>, unknown' = {}, existing' = objects',
           objects' \subseteq Kinds, stage' \in StageIds, PassedTo(results', 4),
           profile = "static" => next = "begin" /\ objects' = {}
    PROVE  IInv'
<1>1. /\ cleaned' = cleaned /\ retained' = retained /\ report' = report
      /\ final' = final /\ outcome' = outcome
  BY DEF ending
<1>2. /\ Canonical' = Canonical /\ profile' = profile
      /\ next \in Labels /\ next \in Early /\ next # "static" /\ Behind(next) = 4
      /\ next \notin {"smoke", "rollback", "deployed"}
      /\ next \notin Deploying \cup {"schema"}
      /\ next \notin {"cleanup", "release", "finish", "close", "done"}
  BY DEF Canonical, profile, Labels, Early, Behind, Deploying
<1>3. /\ results' \in [StageIds -> Statuses]
      /\ \A i \in 1..25 : results'[All[i]] = IF i <= 4 THEN "PASSED" ELSE "NONE"
  BY DEF PassedTo
<1>4. StateOK'
  <2>1. {cleaned, retained} \subseteq BOOLEAN
    BY DEF StateOK
  <2>2. /\ report \in Seq([stage : StageIds, status : Statuses \ {"NONE"}])
        /\ final \in {"none", "PASSED", "FAILED", "BLOCKED"}
        /\ outcome \in {"running", "closed", "records", "raised"}
        /\ options \in Options
    BY DEF StateOK
  <2>3. options' \in Options
    BY <2>2
  <2>4. journal' \in Seq(Journal!Transition)
    OBVIOUS
  <2> QED BY <1>1, <1>2, <1>3, <2>1, <2>2, <2>3, <2>4 DEF StateOK
<1>5. EndInv'
  BY <1>1, <1>2 DEF EndInv
<1>6. CleanupInv' /\ FinishInv' /\ CloseInv' /\ LeftInv' /\ DoneInv'
  BY <1>2 DEF CleanupInv, FinishInv, CloseInv, LeftInv, DoneInv
<1>7. Reaches(journal', 0)
  BY NothingReached
<1>8. GoingAt(next)'
  BY <1>1, <1>2, <1>3, <1>7 DEF GoingAt, Status
<1> QED BY <1>2, <1>4, <1>5, <1>6, <1>8 DEF IInv, GoingInv

\* A run that raises before it is reported has written nothing.
LEMMA UnreportedKeeps ==
    ASSUME StateOK, EndInv, pc' = "done", outcome' = "raised", options' = options,
           results' \in [StageIds -> Statuses], stage' \in StageIds,
           {failed', started', attested', escaping', cleaned', retained'} \subseteq BOOLEAN,
           journal' = <<>>, blamed' \in StageIds \cup {"none"}, started' = FALSE,
           objects' = {}, existing' = {}, unknown' = {}, report' = <<>>, final' = "none"
    PROVE  IInv'
<1>1. StateOK'
  <2>1. options' \in Options /\ "done" \in Labels
    BY DEF StateOK, Labels
  <2>2. /\ journal' \in Seq(Journal!Transition)
        /\ report' \in Seq([stage : StageIds, status : Statuses \ {"NONE"}])
    OBVIOUS
  <2> QED BY <2>1, <2>2 DEF StateOK
<1>2. EndInv' /\ GoingInv' /\ CleanupInv' /\ FinishInv' /\ CloseInv' /\ LeftInv'
  BY DEF EndInv, GoingInv, CleanupInv, FinishInv, CloseInv, LeftInv, Going, Early, Deploying,
         profile
<1>3. Journal!IsHistory(<<>>) /\ ~Journal!Recorded(<<>>, "failed")
  BY DEF Journal!IsHistory, Journal!Recorded
<1>4. DoneInv'
  BY <1>3 DEF DoneInv, SuccessIsEarned, StartedRunCloses, PassedStagesWereSeen,
              JournalTellsTheOutcome
<1> QED BY <1>1, <1>2, <1>4 DEF IInv

LEMMA StaticKeeps == IInv /\ Static => IInv'
<1> SUFFICES ASSUME IInv, Static PROVE IInv'
  OBVIOUS
<1>1. /\ pc = "static" /\ options' = options /\ resources' = resources
      /\ stage' = "generated-files" /\ results' = Passed(StaticStages)
      /\ started' = started /\ attested' = attested /\ journal' = journal
      /\ blamed' = blamed /\ escaping' = escaping
      /\ cleaned' = cleaned /\ retained' = retained /\ report' = report /\ final' = final
      /\ \/ /\ pc' = IF profile = "static" \/ options.missing \/ options.external
                     THEN "begin" ELSE "registry"
            /\ failed' = failed /\ outcome' = outcome
         \/ pc' = "done" /\ failed' = TRUE /\ outcome' = "raised"
  BY DEF Static, At, Goto, progress
<1>2. "static" \in Early /\ "static" \in Going /\ Behind("static") = 0
  <2>1. "static" \in Early /\ "static" \in Going
    BY DEF Going, Early
  <2>2. Behind("static") = 0
    BY DEF Behind, Deploying
  <2> QED BY <2>1, <2>2
<1>3. StateOK /\ EndInv /\ GoingInv /\ GoingAt("static")
  BY <1>1, <1>2 DEF IInv, GoingInv
<1>4. /\ blamed \in StageIds \cup {"none"} /\ escaping \in BOOLEAN /\ failed \in BOOLEAN
      /\ results \in [StageIds -> Statuses] /\ attested \in BOOLEAN /\ started \in BOOLEAN
      /\ cleaned \in BOOLEAN /\ retained \in BOOLEAN
  BY <1>3 DEF StateOK
<1>5. /\ failed = FALSE /\ escaping = FALSE /\ ~cleaned /\ ~retained /\ attested = FALSE
      /\ blamed = "none" /\ unknown = {} /\ existing = {} /\ objects = {}
      /\ started = FALSE /\ Reaches(journal, 0)
      /\ \A i \in 1..25 : Status(i) = IF i <= 0 THEN "PASSED" ELSE "NONE"
  BY <1>2, <1>3, <1>4 DEF GoingAt
<1>6. journal = <<>> /\ report = <<>> /\ final = "none"
  BY <1>1, <1>3, <1>5 DEF Reaches, EndInv
<1>7. stage' \in StageIds
  BY <1>1, StageNames, StageOrder
<1>8. PassedTo(results', 4)
  <2>1. PassedTo(results, 0)
    BY <1>4, <1>5 DEF PassedTo, Status
  <2>2. \A i \in 1..25 : All[i] \in ToSet(StaticStages) <=> i \in 1..4
    BY ListedStages
  <2>3. Adds(StaticStages, 0, 4) /\ 0 \in 0..19 /\ 4 \in 0..19
    BY <2>2 DEF Adds
  <2> QED BY <1>1, <2>1, <2>3, PassesOn
<1>9. objects' = {} /\ existing' = {} /\ unknown' = {}
  BY <1>1, <1>5 DEF resources
<1>10. CASE /\ pc' = IF profile = "static" \/ options.missing \/ options.external
                     THEN "begin" ELSE "registry"
            /\ failed' = failed /\ outcome' = outcome
  <2>1. PICK next \in {"registry", "begin"} :
           pc' = next /\ (profile = "static" => next = "begin")
    BY <1>10
  <2>2. ending' = ending
    BY <1>1, <1>10 DEF ending
  <2>3. next \in {"registry", "record", "begin"} /\ pc # "done" /\ pc # "close"
    BY <1>1, <2>1
  <2> QED BY <1>1, <1>3, <1>5, <1>6, <1>7, <1>8, <1>9, <1>10, <2>1, <2>2, <2>3, EarlyKeeps
<1>11. CASE pc' = "done" /\ failed' = TRUE /\ outcome' = "raised"
  <2>1. results' \in [StageIds -> Statuses]
    BY <1>8 DEF PassedTo
  <2> QED BY <1>1, <1>3, <1>4, <1>5, <1>6, <1>7, <1>9, <1>11, <2>1, UnreportedKeeps
<1> QED BY <1>1, <1>10, <1>11

\* What raises in an early step comes after the static stages; the stage it
\* is blamed on is the fourth or the fifth.
LEMMA EarlyRaises ==
    ASSUME blamed \in StageIds \cup {"none"}, escaping \in BOOLEAN, options' = options,
           PassedTo(results, 4), NEW k \in {4, 5}, k = 5 \/ WritesMayFail,
           NEW status \in {"FAILED", "BLOCKED"}, NEW history,
           NEW w \in 0..2, Reaches(history, w), Canonical, w = 0 => WritesMayFail,
           Raises(All[k], status, results, TRUE, history)
    PROVE  Fallen'
<1>1. PICK n \in 0..18, reached \in 0..12, j \in 1..25 :
         n = 4 /\ reached = w /\ j = k
  OBVIOUS
<1>2. /\ \A i \in 1..n : i \in 1..25 /\ i <= n /\ i <= 4
      /\ \A i \in 20..25 : i \in 1..25 /\ ~(i <= 4)
      /\ n + 1 \in 1..25 /\ ~(n + 1 <= 4)
  BY <1>1
<1>3. /\ \A i \in 1..n : results[All[i]] = "PASSED"
      /\ results[All[n + 1]] = "NONE"
      /\ \A i \in 20..25 : results[All[i]] = "NONE"
      /\ results \in [StageIds -> Statuses]
  BY <1>2 DEF PassedTo
<1>4. Seen(n, reached) /\ (j = n + 1 \/ (j <= n /\ WritesMayFail))
  BY <1>1 DEF Seen
<1>5. Raises(All[j], status, results, TRUE, history)
  BY <1>1
<1>6. Canonical /\ Reaches(history, reached) /\ (reached = 0 => WritesMayFail)
  BY <1>1
<1> QED BY ZenonT(30), <1>3, <1>4, <1>5, <1>6, Raised

\* The same before there is a progress writer.
LEMMA UnwrittenRaises ==
    ASSUME blamed \in StageIds \cup {"none"}, escaping \in BOOLEAN, options' = options,
           PassedTo(results, 4), NEW k \in {4, 5}, k = 5 \/ WritesMayFail,
           NEW status \in {"FAILED", "BLOCKED"}, NEW history,
           history = <<>>,
           Raises(All[k], status, results, FALSE, history)
    PROVE  Fallen'
<1>1. PICK n \in 0..18, reached \in 0..12, j \in 1..25 :
         n = 4 /\ reached = 0 /\ j = k
  OBVIOUS
<1>2. /\ \A i \in 1..n : i \in 1..25 /\ i <= n /\ i <= 4
      /\ \A i \in 20..25 : i \in 1..25 /\ ~(i <= 4)
      /\ n + 1 \in 1..25 /\ ~(n + 1 <= 4)
  BY <1>1
<1>3. /\ \A i \in 1..n : results[All[i]] = "PASSED"
      /\ results[All[n + 1]] = "NONE"
      /\ \A i \in 20..25 : results[All[i]] = "NONE"
      /\ results \in [StageIds -> Statuses]
  BY <1>2 DEF PassedTo
<1>4. Seen(n, reached) /\ (j = n + 1 \/ (j <= n /\ WritesMayFail))
  BY <1>1 DEF Seen
<1>5. Raises(All[j], status, results, FALSE, history)
  BY <1>1
<1>6. /\ FALSE => /\ Canonical /\ Reaches(history, reached)
                  /\ reached = 0 => WritesMayFail
      /\ ~FALSE => history = <<>>
      /\ FALSE \in BOOLEAN
  OBVIOUS
<1> QED BY ZenonT(30), <1>3, <1>4, <1>5, <1>6, Raised

\* What the invariant says at the early steps after the static stages.
LEMMA EarlyState ==
    ASSUME IInv, pc \in {"registry", "record", "begin"}
    PROVE  /\ StateOK /\ EndInv /\ GoingInv /\ pc \in Going
           /\ blamed = "none" /\ blamed \in StageIds \cup {"none"}
           /\ escaping = FALSE /\ escaping \in BOOLEAN
           /\ failed = FALSE /\ started = FALSE /\ attested = FALSE
           /\ ~cleaned /\ ~retained /\ journal = <<>> /\ unknown = {}
           /\ existing = objects /\ objects \subseteq Kinds /\ PassedTo(results, 4)
           /\ profile = "static" => pc = "begin" /\ objects = {}
<1>1. /\ StateOK /\ EndInv /\ GoingInv
  BY DEF IInv
<1>2. pc \in Going /\ pc \in Early /\ Behind(pc) = 4
      /\ pc \notin {"smoke", "rollback", "deployed"} /\ pc # "static"
  BY DEF Going, Early, Behind, Deploying
<1>3. GoingAt(pc)
  BY <1>1, <1>2 DEF GoingInv
<1>4. /\ blamed \in StageIds \cup {"none"} /\ escaping \in BOOLEAN /\ failed \in BOOLEAN
      /\ results \in [StageIds -> Statuses] /\ attested \in BOOLEAN /\ started \in BOOLEAN
      /\ objects \subseteq Kinds
  BY <1>1 DEF StateOK
<1>5. /\ failed = FALSE /\ escaping = FALSE /\ ~cleaned /\ ~retained /\ attested = FALSE
      /\ blamed = "none" /\ unknown = {} /\ existing = objects
      /\ started = FALSE /\ Reaches(journal, 0)
      /\ \A i \in 1..25 : Status(i) = IF i <= 4 THEN "PASSED" ELSE "NONE"
      /\ profile = "static" => pc = "begin" /\ objects = {}
  BY <1>2, <1>3, <1>4 DEF GoingAt
<1>6. journal = <<>>
  BY <1>5 DEF Reaches
<1>7. PassedTo(results, 4)
  BY <1>4, <1>5 DEF PassedTo, Status
<1> QED BY <1>1, <1>2, <1>4, <1>5, <1>6, <1>7

LEMMA StartRegistryKeeps == IInv /\ StartRegistry => IInv'
<1> SUFFICES ASSUME IInv, StartRegistry PROVE IInv'
  OBVIOUS
<1>1. /\ pc = "registry" /\ options' = options /\ ending' = ending /\ attested' = attested
      /\ objects' = {"registry"}
      /\ \/ /\ existing' = {"registry"} /\ unknown' = unknown
            /\ Proceeds("registry-lifecycle", results, FALSE, journal, "record")
         \/ /\ existing' \in {{}, {"registry"}} /\ unknown' = existing'
            /\ Raises("registry-lifecycle", "FAILED", results, FALSE, journal)
  BY DEF StartRegistry, At
<1>2. /\ StateOK /\ EndInv /\ GoingInv /\ pc \in Going
      /\ blamed = "none" /\ blamed \in StageIds \cup {"none"}
      /\ escaping = FALSE /\ escaping \in BOOLEAN
      /\ failed = FALSE /\ attested = FALSE
      /\ ~cleaned /\ ~retained /\ journal = <<>> /\ unknown = {} /\ PassedTo(results, 4)
      /\ profile # "static"
  BY <1>1, EarlyState
<1>3. All[5] = "registry-lifecycle" /\ All[5] \in StageIds
  BY StageNames, StageOrder
<1>4. objects' \subseteq Kinds
  BY <1>1 DEF Kinds
<1>5. CASE /\ existing' = {"registry"} /\ unknown' = unknown
           /\ Proceeds("registry-lifecycle", results, FALSE, journal, "record")
  <2>1. /\ stage' \in StageIds /\ results' = results /\ started' = FALSE
        /\ journal' = <<>> /\ pc' = "record"
        /\ failed' = FALSE /\ escaping' = FALSE /\ blamed' = "none"
    BY <1>2, <1>3, <1>5 DEF Proceeds, Goto
  <2>2. PassedTo(results', 4)
    BY <1>2, <2>1
  <2>3. "record" \in {"registry", "record", "begin"} /\ attested' = FALSE /\ unknown' = {}
        /\ existing' = objects' /\ pc # "done" /\ pc # "close"
    BY <1>1, <1>2, <1>5
  <2> QED BY <1>1, <1>2, <1>4, <2>1, <2>2, <2>3, EarlyKeeps
<1>6. CASE /\ existing' \in {{}, {"registry"}} /\ unknown' = existing'
           /\ Raises("registry-lifecycle", "FAILED", results, FALSE, journal)
  <2>1. Raises(All[5], "FAILED", results, FALSE, journal)
    BY <1>3, <1>6
  <2>2. Fallen'
    <3>1. "FAILED" \in {"FAILED", "BLOCKED"} /\ 5 \in {4, 5} /\ (5 = 5 \/ WritesMayFail)
      OBVIOUS
    <3> QED BY <1>1, <1>2, <2>1, <3>1, UnwrittenRaises
  <2>3. existing' \subseteq objects' /\ unknown' \subseteq objects' /\ attested' \in BOOLEAN
    BY <1>1, <1>2, <1>6
  <2> QED BY <1>1, <1>2, <1>4, <2>2, <2>3, FallenKeeps
<1> QED BY <1>1, <1>5, <1>6

LEMMA RecordRegistryKeeps == IInv /\ RecordRegistry => IInv'
<1> SUFFICES ASSUME IInv, RecordRegistry PROVE IInv'
  OBVIOUS
<1>1. /\ pc = "record" /\ options' = options /\ ending' = ending /\ attested' = attested
      /\ resources' = resources
      /\ \/ Proceeds("registry-lifecycle", results, FALSE, journal, "begin")
         \/ Raises("registry-lifecycle", "FAILED", results, FALSE, journal)
  BY DEF RecordRegistry, At
<1>2. /\ StateOK /\ EndInv /\ GoingInv /\ pc \in Going
      /\ blamed = "none" /\ blamed \in StageIds \cup {"none"}
      /\ escaping = FALSE /\ escaping \in BOOLEAN
      /\ failed = FALSE /\ attested = FALSE
      /\ ~cleaned /\ ~retained /\ journal = <<>> /\ unknown = {} /\ PassedTo(results, 4)
      /\ existing = objects /\ objects \subseteq Kinds
      /\ profile # "static"
  BY <1>1, EarlyState
<1>3. All[5] = "registry-lifecycle" /\ All[5] \in StageIds
  BY StageNames, StageOrder
<1>4. /\ objects' = objects /\ existing' = objects /\ unknown' = {}
  BY <1>1, <1>2 DEF resources
<1>5. CASE Proceeds("registry-lifecycle", results, FALSE, journal, "begin")
  <2>1. /\ stage' \in StageIds /\ results' = results /\ started' = FALSE
        /\ journal' = <<>> /\ pc' = "begin"
        /\ failed' = FALSE /\ escaping' = FALSE /\ blamed' = "none"
    BY <1>2, <1>3, <1>5 DEF Proceeds, Goto
  <2>2. PassedTo(results', 4)
    BY <1>2, <2>1
  <2>3. "begin" \in {"registry", "record", "begin"} /\ attested' = FALSE
        /\ pc # "done" /\ pc # "close"
    BY <1>1, <1>2
  <2> QED BY <1>1, <1>2, <1>4, <2>1, <2>2, <2>3, EarlyKeeps
<1>6. CASE Raises("registry-lifecycle", "FAILED", results, FALSE, journal)
  <2>1. Raises(All[5], "FAILED", results, FALSE, journal)
    BY <1>3, <1>6
  <2>2. Fallen'
    <3>1. "FAILED" \in {"FAILED", "BLOCKED"} /\ 5 \in {4, 5} /\ (5 = 5 \/ WritesMayFail)
      OBVIOUS
    <3> QED BY <1>1, <1>2, <2>1, <3>1, UnwrittenRaises
  <2>3. existing' \subseteq objects' /\ unknown' \subseteq objects' /\ attested' \in BOOLEAN
        /\ objects' \subseteq Kinds
    BY <1>1, <1>2, <1>4
  <2> QED BY <1>1, <1>2, <2>2, <2>3, FallenKeeps
<1> QED BY <1>1, <1>5, <1>6

LEMMA BeginKeeps == IInv /\ Begin => IInv'
<1> SUFFICES ASSUME IInv, Begin PROVE IInv'
  OBVIOUS
<1> DEFINE call == IF Canonical THEN <<"planned", "validated">> ELSE <<>>
           next == IF profile = "static" THEN "cleanup" ELSE "announce"
<1>1. /\ pc = "begin" /\ options' = options /\ ending' = ending /\ attested' = attested
      /\ resources' = resources
      /\ \E k \in {4, 5} :
            \/ WritesMayFail /\ Raises(All[k], "FAILED", results, FALSE, journal)
            \/ \E c \in Calls(journal, call) :
                  \/ ~c.ok /\ Raises(All[k], "FAILED", results, TRUE, c.history)
                  \/ /\ c.ok /\ options.missing
                     /\ Raises(All[5], "BLOCKED", results, Canonical, c.history)
                  \/ /\ c.ok /\ ~options.missing
                     /\ Proceeds(All[k], results, Canonical, c.history, next)
  <2>1. All[4] = "generated-files" /\ All[5] = "registry-lifecycle"
    BY StageNames
  <2>2. PICK k \in {4, 5} :
           All[k] = IF options.missing \/ profile = "static" THEN "generated-files"
                    ELSE "registry-lifecycle"
    BY <2>1
  <2> QED BY <2>1, <2>2 DEF Begin, At
<1>2. /\ StateOK /\ EndInv /\ GoingInv /\ pc \in Going
      /\ blamed = "none" /\ blamed \in StageIds \cup {"none"}
      /\ escaping = FALSE /\ escaping \in BOOLEAN
      /\ failed = FALSE /\ attested = FALSE
      /\ ~cleaned /\ ~retained /\ journal = <<>> /\ unknown = {} /\ PassedTo(results, 4)
      /\ existing = objects /\ objects \subseteq Kinds
      /\ profile = "static" => objects = {}
  BY <1>1, EarlyState
<1>3. /\ objects' = objects /\ existing' = objects /\ unknown' = {}
      /\ attested' \in BOOLEAN
      /\ existing' \subseteq objects' /\ unknown' \subseteq objects' /\ objects' \subseteq Kinds
  BY <1>1, <1>2 DEF resources
<1>4. All[4] \in StageIds /\ All[5] \in StageIds
  BY StageOrder
<1>5. PICK k \in {4, 5} :
            \/ WritesMayFail /\ Raises(All[k], "FAILED", results, FALSE, journal)
            \/ \E c \in Calls(journal, call) :
                  \/ ~c.ok /\ Raises(All[k], "FAILED", results, TRUE, c.history)
                  \/ /\ c.ok /\ options.missing
                     /\ Raises(All[5], "BLOCKED", results, Canonical, c.history)
                  \/ /\ c.ok /\ ~options.missing
                     /\ Proceeds(All[k], results, Canonical, c.history, next)
  BY <1>1
<1>6. "FAILED" \in {"FAILED", "BLOCKED"} /\ "BLOCKED" \in {"FAILED", "BLOCKED"}
  OBVIOUS
<1>7. Fallen' => IInv'
  BY <1>1, <1>2, <1>3, FallenKeeps
<1>8. CASE WritesMayFail /\ Raises(All[k], "FAILED", results, FALSE, journal)
  <2>1. k = 5 \/ WritesMayFail
    BY <1>8
  <2>2. Fallen'
    BY <1>1, <1>2, <1>6, <1>8, <2>1, UnwrittenRaises
  <2> QED BY <1>7, <2>2
<1>9. ASSUME NEW c \in Calls(journal, call),
             \/ ~c.ok /\ Raises(All[k], "FAILED", results, TRUE, c.history)
             \/ /\ c.ok /\ options.missing
                /\ Raises(All[5], "BLOCKED", results, Canonical, c.history)
             \/ /\ c.ok /\ ~options.missing
                /\ Proceeds(All[k], results, Canonical, c.history, next)
      PROVE  IInv'
  <2>1. \/ c.ok = TRUE /\ IF Canonical THEN Reaches(c.history, 2) ELSE c.history = <<>>
        \/ /\ c.ok = FALSE /\ Canonical /\ WritesMayFail
           /\ \E m \in 0..1 : Reaches(c.history, m)
    <3>1. CASE Canonical
      <4>1. c \in Calls(journal, <<"planned", "validated">>) /\ Reaches(journal, 0)
        BY <1>2, <3>1, NothingReached
      <4>2. Covers(<<"planned", "validated">>, 0, 2) /\ 0 \in 0..12 /\ 0 \in 0..0 /\ 2 \in 0..12
        BY ListedCalls
      <4>3. \/ c.ok = TRUE /\ Reaches(c.history, 2)
            \/ c.ok = FALSE /\ WritesMayFail /\ \E m \in 0..2 - 1 : Reaches(c.history, m)
        BY <4>1, <4>2, CoveringCalls
      <4> QED BY <3>1, <4>3
    <3>2. CASE ~Canonical
      <4>1. c = [history |-> <<>>, ok |-> TRUE]
        BY <1>2, <3>2, NoStates
      <4> QED BY <3>2, <4>1
    <3> QED BY <3>1, <3>2
  <2>2. CASE c.ok = FALSE /\ Canonical /\ WritesMayFail /\ \E m \in 0..1 : Reaches(c.history, m)
    <3>1. PICK m \in 0..2 : Reaches(c.history, m)
      BY <2>2
    <3>2. Raises(All[k], "FAILED", results, TRUE, c.history)
      BY <1>9, <2>2
    <3>3. (k = 5 \/ WritesMayFail) /\ (m = 0 => WritesMayFail) /\ Canonical
      BY <2>2
    <3>4. Fallen'
      BY <1>1, <1>2, <1>6, <3>1, <3>2, <3>3, EarlyRaises
    <3> QED BY <1>7, <3>4
  <2>3. CASE /\ c.ok = TRUE /\ IF Canonical THEN Reaches(c.history, 2) ELSE c.history = <<>>
             /\ options.missing
    <3>1. Raises(All[5], "BLOCKED", results, Canonical, c.history)
      BY <1>9, <2>3
    <3>2. 5 \in {4, 5} /\ (5 = 5 \/ WritesMayFail) /\ 2 \in 0..2 /\ (2 = 0 => WritesMayFail)
      OBVIOUS
    <3>3. ASSUME Canonical PROVE Fallen'
      <4>1. Raises(All[5], "BLOCKED", results, TRUE, c.history) /\ Reaches(c.history, 2)
        BY <2>3, <3>1, <3>3 DEF Canonical
      <4> QED BY <1>1, <1>2, <1>6, <3>2, <3>3, <4>1, EarlyRaises
    <3>4. ASSUME ~Canonical PROVE Fallen'
      <4>1. Canonical = FALSE
        BY <3>4 DEF Canonical
      <4>2. Raises(All[5], "BLOCKED", results, FALSE, c.history)
        BY <3>1, <4>1, Zenon
      <4>3. c.history = <<>>
        BY <2>3, <3>4
      <4> QED BY <1>1, <1>2, <1>6, <3>2, <4>2, <4>3, UnwrittenRaises
    <3> QED BY <1>7, <3>3, <3>4
  <2>4. CASE /\ c.ok = TRUE /\ IF Canonical THEN Reaches(c.history, 2) ELSE c.history = <<>>
             /\ ~options.missing
    <3>1. Proceeds(All[k], results, Canonical, c.history, next)
      BY <1>9, <2>4
    <3>2. /\ stage' \in StageIds /\ results' = results /\ started' = Canonical
          /\ journal' = c.history /\ pc' = next
          /\ failed' = FALSE /\ escaping' = FALSE /\ blamed' = "none"
          /\ {failed', escaping'} \subseteq BOOLEAN
      BY <1>2, <1>4, <3>1 DEF Proceeds, Goto, Canonical
    <3>3. PassedTo(results', 4) /\ pc # "done" /\ pc # "close"
      BY <1>1, <1>2, <3>2
    <3>4. CASE profile = "static"
      <4>1. ~Canonical /\ 4 = Most /\ next = "cleanup"
        BY <3>4 DEF Canonical, Most
      <4>2. Reaches(journal', IF Canonical THEN 12 ELSE 0)
        BY <2>4, <3>2, <4>1, NothingReached
      <4> QED BY <1>1, <1>2, <1>3, <3>2, <3>3, <4>1, <4>2, WholeKeeps
    <3>5. CASE profile # "static"
      <4>1. /\ "announce" \in Going \ Early /\ Behind("announce") = 4
            /\ Written("announce") = 2
            /\ "announce" \notin Deploying \cup {"schema"}
            /\ "announce" \notin {"smoke", "rollback", "deployed"}
        BY DEF Going, Early, Deploying, Behind, Written
      <4>2. pc' = "announce" /\ existing' = objects'
        BY <1>3, <3>2, <3>5
      <4>3. Reaches(journal', IF started' THEN Written("announce") ELSE 0)
        BY <2>4, <3>2, <4>1, NothingReached
      <4>4. /\ results' \in [StageIds -> Statuses]
            /\ \A i \in 1..25 :
                  results'[All[i]] = IF i <= Behind("announce") THEN "PASSED" ELSE "NONE"
        BY <3>3, <4>1 DEF PassedTo
      <4>5. attested' <=> "announce" \in {"smoke", "rollback", "deployed"}
        BY <1>1, <1>2
      <4> QED BY <1>1, <1>2, <1>3, <2>4, <3>2, <3>3, <3>5, <4>1, <4>2, <4>3, <4>4, <4>5,
              GoingKeeps
    <3> QED BY <3>4, <3>5
  <2> QED BY <2>1, <2>2, <2>3, <2>4
<1> QED BY <1>5, <1>8, <1>9

-----------------------------------------------------------------------------
(* The cleanup. *)

LEMMA HistoryReached ==
    ASSUME NEW h, NEW n \in 0..13, Reaches(h, n)
    PROVE  Journal!IsHistory(h) /\ ~Journal!Recorded(h, "failed")
<1>1. /\ h \in Seq(Journal!Transition) /\ Len(h) = n /\ DOMAIN h = 1..n
      /\ \A i \in 1..n : h[i].state = Journal!Linear[i] /\ i \in 1..13
  BY DEF Reaches
<1>2. \A i \in 1..n : h[i].state # "failed"
  BY <1>1, LinearOrder
<1>3. Journal!IsHistory(h)
  BY <1>1 DEF Journal!IsHistory
<1> QED BY <1>1, <1>2, <1>3 DEF Journal!Recorded

LEMMA HistoryBroken ==
    ASSUME NEW h, NEW n \in 0..12, Breaks(h, n)
    PROVE  /\ Journal!IsHistory(h) /\ Journal!Recorded(h, "failed")
           /\ ~Journal!Recorded(h, "succeeded") /\ Decided(h)
<1>1. /\ n \in 1..12 /\ h \in Seq(Journal!Transition) /\ Len(h) = n + 1
      /\ DOMAIN h = 1..n + 1 /\ h[n + 1].state = "failed"
      /\ \A i \in 1..n : h[i].state = Journal!Linear[i] /\ i \in 1..13 /\ i # 13
  BY DEF Breaks
<1>2. Journal!IsHistory(h)
  BY SMTT(30), <1>1 DEF Journal!IsHistory
<1>3. \A i \in 1..n + 1 : h[i].state # "succeeded"
  <2>1. \A i \in 1..n : h[i].state # "succeeded"
    BY <1>1, LinearOrder
  <2>2. \A i \in 1..n + 1 : i \in 1..n \/ i = n + 1
    BY <1>1
  <2> QED BY <1>1, <2>1, <2>2
<1>4. n + 1 \in 1..n + 1
  BY <1>1
<1> QED BY <1>1, <1>2, <1>3, <1>4, FailedBefore DEF Journal!Recorded, Decided

\* The marks of the cleanup and of the gates touch no earlier stage.
LEMMA EarlierKept ==
    ASSUME options' = options, started' = started, journal' = journal, blamed' = blamed,
           escaping' = escaping, \A i \in 1..19 : results'[All[i]] = results[All[i]]
    PROVE  (Whole => Whole') /\ (Broken => Broken')
<1>1. /\ Canonical' = Canonical /\ Most' = Most /\ WritesMayFail' = WritesMayFail
      /\ Most \in {4, 11, 19}
  BY DEF Canonical, profile, Most, WritesMayFail
<1>2. ASSUME Whole PROVE Whole'
  <2>1. \A i \in 1..Most : i \in 1..19
    BY <1>1
  <2> QED BY <1>1, <1>2, <2>1 DEF Whole, Status
<1>3. ASSUME Broken PROVE Broken'
  <2>1. PICK n \in 0..18, reached \in 0..12 : BreaksAt(n, reached)
    BY <1>3 DEF Broken
  <2>2. n + 1 \in 1..19 /\ \A i \in 1..n : i \in 1..19
    OBVIOUS
  <2>3. BreaksAt(n, reached)'
    BY <1>1, <2>1, <2>2 DEF BreaksAt, Status
  <2> QED BY <2>3 DEF Broken
<1> QED BY <1>2, <1>3

LEMMA BrokenIsHistory ==
    ASSUME StateOK, Broken
    PROVE  /\ Journal!IsHistory(journal)
           /\ escaping => WritesMayFail
<1>1. PICK n \in 0..18, reached \in 0..12 : BreaksAt(n, reached)
  BY DEF Broken
<1>2. escaping => WritesMayFail
  BY <1>1 DEF BreaksAt
<1>3. CASE Breaks(journal, reached)
  BY <1>2, <1>3, HistoryBroken
<1>4. CASE Reaches(journal, reached)
  <2>1. reached \in 0..13
    OBVIOUS
  <2> QED BY <1>2, <1>4, <2>1, HistoryReached
<1>5. CASE journal = <<>>
  BY <1>2, <1>5 DEF Journal!IsHistory
<1> QED BY <1>1, <1>3, <1>4, <1>5 DEF BreaksAt

\* What IInv says of the journal of a run that has not ended.
LEMMA JournalUnderway ==
    ASSUME IInv, pc # "done"
    PROVE  /\ Journal!IsHistory(journal)
           /\ Journal!Recorded(journal, "failed") => failed
<1>1. StateOK /\ EndInv /\ GoingInv /\ CleanupInv /\ FinishInv /\ CloseInv
  BY DEF IInv
<1>2. ASSUME NEW n \in 0..13, Reaches(journal, n)
      PROVE  Journal!IsHistory(journal) /\ ~Journal!Recorded(journal, "failed")
  BY <1>2, HistoryReached
<1>3. ASSUME NEW n \in 0..12, Breaks(journal, n)
      PROVE  Journal!IsHistory(journal)
  BY <1>3, HistoryBroken
<1>4. ASSUME Whole
      PROVE  Journal!IsHistory(journal) /\ ~Journal!Recorded(journal, "failed")
  <2>1. PICK n \in 0..13 : n = IF Canonical THEN 12 ELSE 0
    OBVIOUS
  <2>2. Reaches(journal, n)
    BY <1>4, <2>1 DEF Whole
  <2> QED BY <1>2, <2>2
<1>5. ASSUME journal = <<>>
      PROVE  Journal!IsHistory(journal) /\ ~Journal!Recorded(journal, "failed")
  <2>1. PICK n \in 0..13 : n = 0
    OBVIOUS
  <2> QED BY <1>2, <1>5, <2>1, NothingReached
<1>6. CASE pc \in Going
  <2>1. Reaches(journal, IF started THEN Written(pc) ELSE 0)
    BY <1>1, <1>6 DEF GoingInv, GoingAt
  <2>2. PICK n \in 0..13 : n = IF started THEN Written(pc) ELSE 0
    <3>1. Written(pc) \in 0..13
      BY <1>6 DEF Written, Deploying
    <3> QED BY <3>1
  <2> QED BY <1>2, <2>1, <2>2
<1>7. CASE pc = "cleanup"
  <2>1. CASE failed
    BY <1>1, <1>7, <2>1, BrokenIsHistory DEF CleanupInv
  <2>2. CASE ~failed /\ Whole
    BY <1>4, <2>2
  <2>3. CASE ~failed /\ Lost
    <3>1. PICK n \in 7..12 : Reaches(journal, n)
      BY <2>3 DEF Lost
    <3>2. n \in 0..13
      OBVIOUS
    <3> QED BY <1>2, <3>1, <3>2
  <2> QED BY <1>1, <1>7, <2>1, <2>2, <2>3 DEF CleanupInv
<1>8. CASE pc \in {"release", "finish"}
  <2>1. Succeeds \/ CleanupFails \/ GateFails \/ (failed /\ Broken)
    BY <1>1, <1>8 DEF FinishInv
  <2>2. CASE Succeeds \/ CleanupFails
    BY <1>4, <2>2 DEF Succeeds, CleanupFails
  <2>3. CASE GateFails
    <3>1. PICK n \in 0..12 : n = 12
      OBVIOUS
    <3> QED BY <1>3, <2>3, <3>1 DEF GateFails
  <2>4. CASE failed /\ Broken
    BY <1>1, <2>4, BrokenIsHistory
  <2> QED BY <2>1, <2>2, <2>3, <2>4
<1>9. CASE pc = "close"
  <2>1. CASE ~Canonical
    BY <1>1, <1>5, <2>1 DEF EndInv
  <2>2. CASE ClosesPassed
    <3>1. PICK n \in 0..13 : n = 12
      OBVIOUS
    <3> QED BY <1>2, <2>2, <3>1 DEF ClosesPassed
  <2>3. CASE failed /\ (ClosesFailed \/ ClosesSilent)
    <3>1. \/ \E n \in 0..12 : Breaks(journal, n) \/ Reaches(journal, n)
          \/ journal = <<>>
      BY <2>3 DEF ClosesFailed, ClosesSilent
    <3>2. CASE journal = <<>>
      BY <1>5, <3>2
    <3>3. CASE \E n \in 0..12 : Breaks(journal, n) \/ Reaches(journal, n)
      <4>1. PICK n \in 0..12 : Breaks(journal, n) \/ Reaches(journal, n)
        BY <3>3
      <4>2. n \in 0..13
        OBVIOUS
      <4> QED BY <1>2, <1>3, <2>3, <4>1, <4>2
    <3> QED BY <3>1, <3>2, <3>3
  <2> QED BY <1>1, <1>9, <2>1, <2>2, <2>3 DEF CloseInv
<1> QED BY <1>1, <1>6, <1>7, <1>8, <1>9 DEF StateOK, Labels, Going, Early, Deploying

\* A lost error leaves the journal in the middle of the deployment.
LEMMA LostIsUnderway ==
    ASSUME Lost
    PROVE  ExecutorErrorLost
<1>1. PICK n \in 7..12 : Reaches(journal, n)
  BY DEF Lost
<1>2. journal # <<>> /\ Journal!Current(journal) = Journal!Linear[n]
  BY <1>1 DEF Reaches, Journal!Current
<1>3. Journal!Linear[n] \in Journal!KubernetesStates
  BY DEF Journal!Linear, Journal!KubernetesStates
<1> QED BY <1>2, <1>3 DEF Lost, ExecutorErrorLost

LEMMA AfterCleanupKeeps ==
    ASSUME IInv, pc = "cleanup", options' = options, progress' = progress,
           escaping' = escaping, report' = report, final' = final,
           objects' = objects, unknown' = unknown, existing' \subseteq objects,
           results' \in [StageIds -> Statuses],
           \A i \in 1..19 : results'[All[i]] = results[All[i]],
           \A i \in 21..25 : results'[All[i]] = "NONE",
           stage' \in StageIds, failed' \in BOOLEAN, failed => failed',
           AfterCleanup(failed'), cleaned' \in BOOLEAN, retained' \in BOOLEAN,
           Retains' \/ results'[All[20]] = "FAILED" \/ existing' \subseteq unknown,
           ~failed' =>
              IF retained'
              THEN profile \notin {"static", "release"} /\ results'[All[20]] = "NOT_APPLICABLE"
              ELSE existing' = {} /\ (profile # "static" => results'[All[20]] = "PASSED" /\ cleaned'),
           failed' /\ ~failed => results'[All[20]] = "FAILED" /\ stage' = "cleanup"
    PROVE  IInv'
<1>1. /\ started' = started /\ attested' = attested /\ journal' = journal /\ blamed' = blamed
  BY DEF progress
<1>2. StateOK /\ EndInv /\ CleanupInv /\ report = <<>> /\ final = "none" /\ outcome = "running"
  BY DEF IInv, EndInv
<1>3. IF failed THEN Broken ELSE Lost \/ (Whole /\ ~escaping)
  BY <1>2 DEF CleanupInv
<1>4. /\ pc' = IF escaping THEN "done"
               ELSE IF profile = "release" /\ ~failed' THEN "release" ELSE "finish"
      /\ outcome' = IF escaping THEN "raised" ELSE "running"
  BY <1>2 DEF AfterCleanup, Goto
<1>5. /\ failed \in BOOLEAN /\ escaping \in BOOLEAN /\ attested \in BOOLEAN
      /\ started \in BOOLEAN
  BY <1>2 DEF StateOK
<1>6. pc' \in {"done", "release", "finish"} /\ pc' \in Labels
  BY <1>4 DEF Labels
<1>7. /\ Canonical' = Canonical /\ profile' = profile /\ WritesMayFail' = WritesMayFail
  BY DEF Canonical, profile, WritesMayFail
<1>8. StateOK'
  <2>1. /\ report \in Seq([stage : StageIds, status : Statuses \ {"NONE"}])
        /\ final \in {"none", "PASSED", "FAILED", "BLOCKED"}
        /\ journal \in Seq(Journal!Transition)
        /\ blamed \in StageIds \cup {"none"}
        /\ objects \subseteq Kinds /\ unknown \subseteq objects
        /\ options \in Options
    BY <1>2 DEF StateOK
  <2>2. outcome' \in {"running", "closed", "records", "raised"} /\ options' \in Options
    BY <1>4, <2>1
  <2> QED BY ZenonT(30), <1>1, <1>5, <1>6, <2>1, <2>2 DEF StateOK
<1>9. EndInv'
  BY <1>1, <1>2, <1>4, <1>7 DEF EndInv
<1>10. GoingInv' /\ CleanupInv' /\ CloseInv'
  BY <1>6 DEF GoingInv, CleanupInv, CloseInv, Going, Early, Deploying
<1>11. LeftInv'
  BY <1>6 DEF LeftInv, Status
<1>12. (Whole => Whole') /\ (Broken => Broken')
  BY <1>1, EarlierKept
<1>13. FinishInv'
  <2>1. CASE pc' = "done"
    BY <2>1 DEF FinishInv
  <2>2. CASE pc' # "done"
    <3>1. escaping = FALSE /\ ~Lost /\ pc' = IF profile = "release" /\ ~failed' THEN "release" ELSE "finish"
      BY <1>4, <1>5, <2>2 DEF Lost
    <3>2. ASSUME failed' = FALSE PROVE Succeeds'
      <4>1. Whole'
        BY <1>3, <1>12, <3>1, <3>2
      <4>2. pc' = "release" => ~retained'
        BY <1>4, <3>1, <3>2
      <4>3. ~(pc' = "finish" /\ profile = "release")
        BY <3>1, <3>2
      <4> QED BY <1>7, <3>2, <4>1, <4>2, <4>3 DEF Succeeds, Status
    <3>3. ASSUME failed' = TRUE PROVE CleanupFails' \/ (failed' /\ Broken')
      <4>1. CASE failed
        BY <1>3, <1>12, <3>3, <4>1
      <4>2. CASE ~failed
        BY <1>3, <1>12, <3>1, <3>3, <4>2 DEF CleanupFails, Status
      <4> QED BY <4>1, <4>2
    <3>4. profile = "release" => ~retained' \/ failed'
      OBVIOUS
    <3>5. pc' = "release" => failed' = FALSE /\ profile = "release"
      BY <3>1
    <3> QED BY <1>7, <3>1, <3>2, <3>3, <3>4, <3>5 DEF FinishInv
  <2> QED BY <2>1, <2>2
<1>14. DoneInv'
  <2>1. CASE pc' # "done"
    BY <2>1 DEF DoneInv
  <2>2. CASE pc' = "done"
    <3>1. escaping /\ outcome' = "raised"
      BY <1>4, <2>2
    <3>2. WritesMayFail' \/ ExecutorErrorLost'
      <4>1. CASE failed
        BY <1>2, <1>3, <1>7, <3>1, <4>1, BrokenIsHistory
      <4>2. CASE ~failed
        <5>1. ExecutorErrorLost
          BY <1>3, <3>1, <4>2, LostIsUnderway
        <5> QED BY <1>1, <5>1 DEF ExecutorErrorLost
      <4> QED BY <4>1, <4>2
    <3>3. /\ Journal!IsHistory(journal')
          /\ Journal!Recorded(journal', "failed") => failed'
      BY <1>1, JournalUnderway
    <3>4. SuccessIsEarned' /\ StartedRunCloses' /\ PassedStagesWereSeen'
      BY <3>1, <3>2 DEF SuccessIsEarned, StartedRunCloses, PassedStagesWereSeen
    <3>5. JournalTellsTheOutcome'
      BY <3>1, <3>3 DEF JournalTellsTheOutcome
    <3> QED BY <3>4, <3>5 DEF DoneInv
  <2> QED BY <2>1, <2>2
<1> QED BY <1>8, <1>9, <1>10, <1>11, <1>13, <1>14 DEF IInv

LEMMA CleanupIsPlanned ==
    ASSUME StateOK
    PROVE  Planned("cleanup") <=> profile # "static"
<1>1. profile \in Profiles
  BY ProfileIs
<1>2. All[20] = "cleanup" /\ \A i \in 1..4 : All[i] # "cleanup"
  BY StageNames
<1>3. CASE profile = "static"
  <2>1. \A i \in DOMAIN StagesOf("static") : StagesOf("static")[i] # "cleanup"
    BY <1>2, PlannedStages DEF Profiles
  <2> QED BY <1>3, <2>1 DEF Planned
<1>4. CASE profile = "supply-chain"
  <2>1. 12 \in DOMAIN StagesOf("supply-chain") /\ StagesOf("supply-chain")[12] = "cleanup"
    BY <1>2, PlannedStages DEF Profiles
  <2> QED BY <1>4, <2>1 DEF Planned
<1>5. CASE profile = "kind-e2e"
  <2>1. 20 \in DOMAIN StagesOf("kind-e2e") /\ StagesOf("kind-e2e")[20] = "cleanup"
    <3>1. "kind-e2e" \in Profiles /\ 20 \in 1..20
      BY DEF Profiles
    <3>2. StagesOf("kind-e2e")[20] = All[20] /\ Len(StagesOf("kind-e2e")) = 20
      BY <3>1, PlannedStages
    <3>3. DOMAIN StagesOf("kind-e2e") = 1..Len(StagesOf("kind-e2e"))
      BY <3>1, PlannedStages
    <3> QED BY <1>2, <3>1, <3>2, <3>3
  <2> QED BY <1>5, <2>1 DEF Planned
<1>6. CASE profile = "release"
  <2>1. 20 \in DOMAIN StagesOf("release") /\ StagesOf("release")[20] = "cleanup"
    BY <1>2, StageNames DEF All
  <2> QED BY <1>6, <2>1 DEF Planned
<1> QED BY <1>1, <1>3, <1>4, <1>5, <1>6 DEF Profiles

\* The results when only the cleanup's is set.
LEMMA CleanupMarked ==
    ASSUME StateOK, CleanupInv, pc = "cleanup",
           NEW status \in Statuses, results' = Marked(<<"cleanup">>, status)
    PROVE  /\ results' \in [StageIds -> Statuses]
           /\ \A i \in 1..19 : results'[All[i]] = results[All[i]]
           /\ \A i \in 21..25 : results'[All[i]] = "NONE"
           /\ results'[All[20]] = status
<1>1. Adds(<<"cleanup">>, 19, 20)
  <2>1. \A i \in 1..25 : All[i] \in ToSet(<<"cleanup">>) <=> i = 20
    BY StageNames, SingleStage
  <2> QED BY <2>1 DEF Adds
<1>2. results \in [StageIds -> Statuses] /\ 19 \in Nat /\ 20 \in Nat
  BY DEF StateOK
<1>3. /\ results' \in [StageIds -> Statuses]
      /\ \A i \in 1..25 : results'[All[i]] = IF i = 20 THEN status ELSE Status(i)
  <2>1. \A i \in 1..25 : i \in 19 + 1..20 <=> i = 20
    OBVIOUS
  <2> QED BY <1>1, <1>2, <2>1, MarkedAt
<1>4. \A i \in 20..25 : Status(i) = "NONE"
  BY DEF CleanupInv
<1> QED BY <1>3, <1>4 DEF Status

LEMMA NoCleanupKeeps == IInv /\ NoCleanup => IInv'
<1> SUFFICES ASSUME IInv, NoCleanup PROVE IInv'
  OBVIOUS
<1>1. /\ pc = "cleanup" /\ ~Planned("cleanup") /\ AfterCleanup(failed)
      /\ options' = options /\ results' = results /\ stage' = stage /\ failed' = failed
      /\ progress' = progress /\ escaping' = escaping /\ objects' = objects
      /\ existing' = existing /\ unknown' = unknown /\ cleaned' = cleaned
      /\ retained' = retained /\ report' = report /\ final' = final
  BY DEF NoCleanup, At, resources
<1>2. StateOK /\ CleanupInv
  BY DEF IInv
<1>3. profile = "static" /\ objects = {}
  BY <1>1, <1>2, CleanupIsPlanned DEF CleanupInv
<1>4. /\ results \in [StageIds -> Statuses] /\ stage \in StageIds /\ failed \in BOOLEAN
      /\ cleaned \in BOOLEAN /\ retained \in BOOLEAN /\ existing \subseteq objects
  BY <1>2 DEF StateOK
<1>5. /\ ~cleaned /\ ~retained /\ \A i \in 20..25 : results[All[i]] = "NONE"
  BY <1>1, <1>2 DEF CleanupInv, Status
<1>6. AfterCleanup(failed')
  BY <1>1
<1>7. existing' = {}
  BY <1>1, <1>3, <1>4
<1> QED BY <1>1, <1>3, <1>4, <1>5, <1>6, <1>7, AfterCleanupKeeps

LEMMA RetainKeeps == IInv /\ Retain => IInv'
<1> SUFFICES ASSUME IInv, Retain PROVE IInv'
  OBVIOUS
<1>1. /\ pc = "cleanup" /\ Planned("cleanup") /\ Retains
      /\ options' = options /\ stage' = "cleanup" /\ failed' = failed
      /\ progress' = progress /\ escaping' = escaping /\ objects' = objects
      /\ existing' = existing /\ unknown' = unknown /\ cleaned' = cleaned
      /\ report' = report /\ final' = final
      /\ \/ /\ results' = Marked(<<"cleanup">>, "NOT_APPLICABLE") /\ retained' = TRUE
            /\ AfterCleanup(failed)
         \/ /\ WritesMayFail /\ pc' = "done" /\ outcome' = "raised"
            /\ results' = results /\ retained' = retained
  BY DEF Retain, At, Goto, resources
<1>2. StateOK /\ CleanupInv /\ EndInv
  BY DEF IInv
<1>3. profile # "static" /\ profile # "release"
  <2>1. options.keep \/ options.keepOnFailure
    BY <1>1 DEF Retains
  <2> QED BY <1>1, <1>2, <2>1, CleanupIsPlanned DEF EndInv
<1>4. Retains'
  BY <1>1 DEF Retains
<1>5. failed \in BOOLEAN /\ cleaned \in BOOLEAN /\ existing' \subseteq objects
  BY <1>1, <1>2 DEF StateOK
<1>6. stage' \in StageIds
  BY <1>1, StageNames, StageOrder
<1>7. CASE /\ results' = Marked(<<"cleanup">>, "NOT_APPLICABLE") /\ retained' = TRUE
           /\ AfterCleanup(failed)
  <2>1. /\ results' \in [StageIds -> Statuses]
        /\ \A i \in 1..19 : results'[All[i]] = results[All[i]]
        /\ \A i \in 21..25 : results'[All[i]] = "NONE"
        /\ results'[All[20]] = "NOT_APPLICABLE"
    <3>1. "NOT_APPLICABLE" \in Statuses
      BY DEF Statuses
    <3> QED BY <1>1, <1>2, <1>7, <3>1, CleanupMarked
  <2>2. AfterCleanup(failed')
    BY <1>1, <1>7
  <2> QED BY <1>1, <1>3, <1>4, <1>5, <1>6, <1>7, <2>1, <2>2, AfterCleanupKeeps
\* The cluster's private files could not be removed.
<1>8. CASE /\ WritesMayFail /\ pc' = "done" /\ outcome' = "raised"
           /\ results' = results /\ retained' = retained
  <2>1. /\ started' = started /\ attested' = attested /\ journal' = journal
        /\ blamed' = blamed /\ profile' = profile /\ Canonical' = Canonical
        /\ WritesMayFail'
    BY <1>1, <1>8 DEF progress, profile, Canonical, WritesMayFail
  <2>2. StateOK'
    BY <1>1, <1>2, <1>6, <1>8, <2>1 DEF StateOK, Labels
  <2>3. EndInv'
    BY <1>1, <1>2, <1>8, <2>1 DEF EndInv
  <2>4. GoingInv' /\ CleanupInv' /\ FinishInv' /\ CloseInv'
    BY <1>8 DEF GoingInv, CleanupInv, FinishInv, CloseInv, Going, Early, Deploying
  <2>5. LeftInv'
    BY <1>4 DEF LeftInv
  <2>6. Journal!IsHistory(journal) /\ (Journal!Recorded(journal, "failed") => failed)
    BY <1>1, JournalUnderway
  <2>7. DoneInv'
    BY <1>1, <1>8, <2>1, <2>6 DEF DoneInv, SuccessIsEarned, StartedRunCloses,
                                  PassedStagesWereSeen, JournalTellsTheOutcome
  <2> QED BY <2>2, <2>3, <2>4, <2>5, <2>7 DEF IInv
<1> QED BY <1>1, <1>7, <1>8

LEMMA CleanupKeeps == IInv /\ Cleanup => IInv'
<1> SUFFICES ASSUME IInv, Cleanup PROVE IInv'
  OBVIOUS
<1>1. /\ pc = "cleanup" /\ Planned("cleanup")
      /\ options' = options /\ stage' = "cleanup"
      /\ progress' = progress /\ escaping' = escaping /\ objects' = objects
      /\ unknown' = unknown /\ retained' = retained
      /\ report' = report /\ final' = final
      /\ \/ /\ existing' \in {{}, unknown} /\ results' = Passed(<<"cleanup">>)
            /\ cleaned' = TRUE /\ AfterCleanup(failed) /\ failed' = failed
         \/ /\ existing' \subseteq existing
            /\ results' = Marked(<<"cleanup">>, "FAILED")
            /\ failed' = TRUE /\ AfterCleanup(TRUE) /\ cleaned' = cleaned
  BY DEF Cleanup, At
<1>2. StateOK /\ CleanupInv
  BY DEF IInv
<1>3. profile # "static"
  BY <1>1, <1>2, CleanupIsPlanned
<1>4. stage' \in StageIds
  BY <1>1, StageNames, StageOrder
<1>5. /\ failed \in BOOLEAN /\ cleaned \in BOOLEAN /\ retained = FALSE
      /\ existing \subseteq objects /\ unknown \subseteq objects
      /\ ~failed => unknown = {}
  BY <1>1, <1>2 DEF StateOK, CleanupInv
<1>6. CASE /\ existing' \in {{}, unknown} /\ results' = Passed(<<"cleanup">>)
           /\ cleaned' = TRUE /\ AfterCleanup(failed) /\ failed' = failed
  <2>1. /\ results' \in [StageIds -> Statuses]
        /\ \A i \in 1..19 : results'[All[i]] = results[All[i]]
        /\ \A i \in 21..25 : results'[All[i]] = "NONE"
        /\ results'[All[20]] = "PASSED"
    <3>1. "PASSED" \in Statuses /\ results' = Marked(<<"cleanup">>, "PASSED")
      BY <1>6 DEF Statuses, Passed
    <3> QED BY <1>1, <1>2, <3>1, CleanupMarked
  <2>2. AfterCleanup(failed')
    BY <1>6
  <2>3. existing' \subseteq objects /\ existing' \subseteq unknown
        /\ (~failed' => existing' = {})
    BY <1>5, <1>6
  <2> QED BY <1>1, <1>3, <1>4, <1>5, <1>6, <2>1, <2>2, <2>3, AfterCleanupKeeps
<1>7. CASE /\ existing' \subseteq existing
           /\ results' = Marked(<<"cleanup">>, "FAILED")
           /\ failed' = TRUE /\ AfterCleanup(TRUE) /\ cleaned' = cleaned
  <2>1. /\ results' \in [StageIds -> Statuses]
        /\ \A i \in 1..19 : results'[All[i]] = results[All[i]]
        /\ \A i \in 21..25 : results'[All[i]] = "NONE"
        /\ results'[All[20]] = "FAILED"
    <3>1. "FAILED" \in Statuses
      BY DEF Statuses
    <3> QED BY <1>1, <1>2, <1>7, <3>1, CleanupMarked
  <2>2. AfterCleanup(failed')
    BY <1>7
  <2>3. existing' \subseteq objects
    BY <1>5, <1>7
  <2> QED BY <1>1, <1>3, <1>4, <1>5, <1>7, <2>1, <2>2, <2>3, AfterCleanupKeeps
<1> QED BY <1>1, <1>6, <1>7

-----------------------------------------------------------------------------
(* The release gates. *)

LEMMA GatesMarked ==
    ASSUME results \in [StageIds -> Statuses]
    PROVE  /\ Passed(ReleaseGates) \in [StageIds -> Statuses]
           /\ \A i \in 1..25 : Passed(ReleaseGates)[All[i]] =
                                   IF i \in 21..25 THEN "PASSED" ELSE Status(i)
           /\ \A n \in 0..4, m \in 20..24 : m = 20 + n =>
                 /\ Passed(SubSeq(ReleaseGates, 1, n)) \in [StageIds -> Statuses]
                 /\ \A i \in 1..25 : Passed(SubSeq(ReleaseGates, 1, n))[All[i]] =
                                         IF i \in 21..m THEN "PASSED" ELSE Status(i)
<1>1. "PASSED" \in Statuses
  BY DEF Statuses
<1>2. ASSUME NEW stages, NEW m \in 20..25,
             \A i \in 1..25 : All[i] \in ToSet(stages) <=> i \in 21..m
      PROVE  /\ Passed(stages) \in [StageIds -> Statuses]
             /\ \A i \in 1..25 : Passed(stages)[All[i]] =
                                     IF i \in 21..m THEN "PASSED" ELSE Status(i)
  <2>1. PICK a \in Nat, b \in Nat : a = 20 /\ b = m
    OBVIOUS
  <2>2. \A i \in 1..25 : i \in a + 1..b <=> i \in 21..m
    BY <2>1
  <2>3. Adds(stages, a, b)
    BY <1>2, <2>2 DEF Adds
  <2>4. /\ Marked(stages, "PASSED") \in [StageIds -> Statuses]
        /\ \A i \in 1..25 : Marked(stages, "PASSED")[All[i]] =
                                IF i \in a + 1..b THEN "PASSED" ELSE Status(i)
    BY <1>1, <2>3, MarkedAt
  <2> QED BY <2>2, <2>4 DEF Passed
<1>3. /\ Passed(ReleaseGates) \in [StageIds -> Statuses]
      /\ \A i \in 1..25 : Passed(ReleaseGates)[All[i]] =
                              IF i \in 21..25 THEN "PASSED" ELSE Status(i)
  <2>1. \A i \in 1..25 : All[i] \in ToSet(ReleaseGates) <=> i \in 21..25
    BY ListedStages
  <2> QED BY <1>2, <2>1
<1>4. ASSUME NEW n \in 0..4, NEW m \in 20..24, m = 20 + n
      PROVE  /\ Passed(SubSeq(ReleaseGates, 1, n)) \in [StageIds -> Statuses]
             /\ \A i \in 1..25 : Passed(SubSeq(ReleaseGates, 1, n))[All[i]] =
                                     IF i \in 21..m THEN "PASSED" ELSE Status(i)
  <2>1. \A i \in 1..25 : All[i] \in ToSet(SubSeq(ReleaseGates, 1, n)) <=> i \in 21..m
    BY <1>4, ListedPrefixes
  <2>2. m \in 20..25
    OBVIOUS
  <2> QED BY <1>2, <2>1, <2>2
<1> QED BY <1>3, <1>4

LEMMA ReleaseKeeps == IInv /\ Release => IInv'
<1> SUFFICES ASSUME IInv, Release PROVE IInv'
  OBVIOUS
<1>1. /\ pc = "release" /\ options' = options /\ started' = started
      /\ attested' = attested /\ escaping' = escaping /\ resources' = resources
      /\ cleaned' = cleaned /\ retained' = retained /\ report' = report /\ final' = final
      /\ \/ /\ results' = Passed(ReleaseGates) /\ stage' = "package" /\ pc' = "finish"
            /\ failed' = failed /\ journal' = journal /\ blamed' = blamed
            /\ outcome' = outcome
         \/ \E n \in {0, 2, 3, 4} :
               /\ stage' = ReleaseGates[n + 1]
               /\ results' = [Passed(SubSeq(ReleaseGates, 1, n)) EXCEPT
                                  ![ReleaseGates[n + 1]] = "FAILED"]
               /\ failed' = TRUE
               /\ \E c \in Calls(journal, FailCall(journal)) :
                     /\ journal' = c.history
                     /\ blamed' = IF c.ok THEN ReleaseGates[n + 1] ELSE blamed
                     /\ pc' = IF c.ok THEN "finish" ELSE "done"
                     /\ outcome' = IF c.ok THEN outcome ELSE "raised"
  BY DEF Release, At, Goto
<1>2. StateOK /\ EndInv /\ FinishInv
  BY DEF IInv
<1>3. /\ ~escaping /\ Succeeds /\ profile = "release"
      /\ report = <<>> /\ final = "none" /\ outcome = "running"
  BY <1>1, <1>2 DEF FinishInv, EndInv
<1>4. /\ ~failed /\ Whole /\ ~retained /\ existing = {} /\ Status(20) = "PASSED" /\ cleaned
  BY <1>1, <1>3 DEF Succeeds
<1>5. Canonical /\ Canonical' = Canonical /\ profile' = profile /\ Most = 19 /\ Most' = Most
      /\ WritesMayFail' = WritesMayFail
  <2>1. options' = options
    BY <1>1
  <2>2. profile' = profile /\ Canonical' = Canonical /\ WritesMayFail' = WritesMayFail
    BY <2>1 DEF profile, Canonical, WritesMayFail
  <2>3. Canonical /\ Most = 19 /\ Most' = Most
    BY <1>3, <2>2 DEF Canonical, Most
  <2> QED BY <2>2, <2>3
<1>6. /\ started = TRUE /\ Reaches(journal, 12) /\ blamed = "none"
      /\ \A i \in 1..20 : Status(i) = "PASSED"
  <2>1. started \in BOOLEAN
    BY <1>2 DEF StateOK
  <2> QED BY <1>4, <1>5, <2>1 DEF Whole
<1>7. /\ results \in [StageIds -> Statuses] /\ "PASSED" \in Statuses /\ "FAILED" \in Statuses
      /\ journal \in Seq(Journal!Transition)
      /\ {failed, attested, escaping, cleaned, retained} \subseteq BOOLEAN
      /\ objects \subseteq Kinds /\ unknown \subseteq objects /\ options \in Options
      /\ report \in Seq([stage : StageIds, status : Statuses \ {"NONE"}])
  BY <1>2 DEF StateOK, Statuses
<1>8. objects' = objects /\ existing' = {} /\ unknown' = unknown
  BY <1>1, <1>4 DEF resources
<1>9. \A i \in 1..25 : All[i] \in StageIds
  BY StageOrder
\* What does not depend on how the gates end.
<1>10. ASSUME results' \in [StageIds -> Statuses], stage' \in StageIds,
              journal' \in Seq(Journal!Transition), blamed' \in StageIds \cup {"none"}, failed' = TRUE,
              \/ pc' = "finish" /\ outcome' = outcome /\ GateFails'
              \/ /\ pc' = "done" /\ outcome' = "raised" /\ WritesMayFail
                 /\ journal' = journal
       PROVE  IInv'
  <2>1. pc' \in Labels /\ outcome' \in {"running", "closed", "records", "raised"}
    BY <1>3, <1>10 DEF Labels
  <2>2. StateOK'
    BY <1>1, <1>3, <1>6, <1>7, <1>8, <1>10, <2>1 DEF StateOK
  <2>3. EndInv'
    BY <1>1, <1>2, <1>3, <1>5, <1>10 DEF EndInv
  <2>4. GoingInv' /\ CleanupInv' /\ CloseInv'
    BY <1>10 DEF GoingInv, CleanupInv, CloseInv, Going, Early, Deploying
  <2>5. LeftInv'
    BY <1>8 DEF LeftInv
  <2>6. FinishInv'
    BY <1>1, <1>3, <1>10 DEF FinishInv
  <2>7. DoneInv'
    <3>1. CASE pc' # "done"
      BY <3>1 DEF DoneInv
    <3>2. CASE pc' = "done"
      <4>1. WritesMayFail' /\ outcome' = "raised"
        BY <1>5, <1>10, <3>2
      <4>2. Journal!IsHistory(journal)
        BY <1>6, HistoryReached
      <4>3. Journal!IsHistory(journal') /\ failed'
        BY <1>10, <3>2, <4>2
      <4> QED BY <4>1, <4>3 DEF DoneInv, SuccessIsEarned, StartedRunCloses,
                                PassedStagesWereSeen, JournalTellsTheOutcome
    <3> QED BY <3>1, <3>2
  <2> QED BY <2>2, <2>3, <2>4, <2>5, <2>6, <2>7 DEF IInv
<1>11. CASE /\ results' = Passed(ReleaseGates) /\ stage' = "package" /\ pc' = "finish"
            /\ failed' = failed /\ journal' = journal /\ blamed' = blamed
            /\ outcome' = outcome
  <2>2. /\ results' \in [StageIds -> Statuses]
        /\ \A i \in 1..25 : results'[All[i]] = IF i \in 21..25 THEN "PASSED" ELSE Status(i)
    BY <1>7, <1>11, GatesMarked
  <2>3. /\ \A i \in 1..20 : results'[All[i]] = "PASSED"
        /\ \A i \in 21..25 : results'[All[i]] = "PASSED"
    BY <1>6, <2>2
  <2>4. stage' \in StageIds /\ pc' \in Labels
    BY <1>9, <1>11, StageNames DEF Labels
  <2>5. StateOK'
    BY <1>1, <1>2, <1>3, <1>6, <1>7, <1>8, <1>11, <2>2, <2>4 DEF StateOK
  <2>6. EndInv'
    BY <1>1, <1>2, <1>3, <1>5, <1>11 DEF EndInv
  <2>7. GoingInv' /\ CleanupInv' /\ CloseInv' /\ DoneInv'
    BY <1>11 DEF GoingInv, CleanupInv, CloseInv, DoneInv, Going, Early, Deploying
  <2>8. LeftInv'
    BY <1>8 DEF LeftInv
  <2>9. Whole'
    BY <1>1, <1>5, <1>6, <1>11, <2>3 DEF Whole, Status
  <2>10. Succeeds'
    BY <1>1, <1>4, <1>8, <1>11, <2>3, <2>9 DEF Succeeds, Status
  <2>11. FinishInv'
    BY <1>1, <1>3, <1>4, <1>11, <2>10 DEF FinishInv
  <2> QED BY <2>5, <2>6, <2>7, <2>8, <2>11 DEF IInv
<1>12. ASSUME NEW n \in {0, 2, 3, 4},
              stage' = ReleaseGates[n + 1],
              results' = [Passed(SubSeq(ReleaseGates, 1, n)) EXCEPT
                              ![ReleaseGates[n + 1]] = "FAILED"],
              failed' = TRUE,
              NEW c \in Calls(journal, FailCall(journal)),
              journal' = c.history,
              blamed' = IF c.ok THEN ReleaseGates[n + 1] ELSE blamed,
              pc' = IF c.ok THEN "finish" ELSE "done",
              outcome' = IF c.ok THEN outcome ELSE "raised"
       PROVE  IInv'
  <2>1. PICK m \in 20..24 : m = 20 + n
    OBVIOUS
  <2>2. n + 1 \in 1..5 /\ n \in 0..4 /\ 20 + (n + 1) = m + 1 /\ m + 1 \in 1..25
    BY <2>1
  <2>3. ReleaseGates[n + 1] = All[m + 1]
    BY <2>2, ListedPrefixes
  <2> DEFINE marked == Passed(SubSeq(ReleaseGates, 1, n))
  <2>5. /\ marked \in [StageIds -> Statuses]
        /\ \A i \in 1..25 : marked[All[i]] = IF i \in 21..m THEN "PASSED" ELSE Status(i)
    BY <1>7, <2>1, <2>2, GatesMarked
  <2>6. results' = [marked EXCEPT ![All[m + 1]] = "FAILED"]
    BY <1>12, <2>3
  <2> HIDE DEF marked
  <2>7. \A i \in 1..m : marked[All[i]] = "PASSED" /\ i \in 1..25 /\ i # m + 1
    <3>1. \A i \in 1..m : i \in 1..25 /\ i # m + 1 /\ (i \in 21..m \/ i \in 1..20)
      OBVIOUS
    <3> QED BY <1>6, <2>5, <3>1
  <2>8. \A i \in 1..25 : All[i] = All[m + 1] => i = m + 1
    BY <2>2, StageOrder
  <2>9. /\ results' \in [StageIds -> Statuses]
        /\ \A i \in 1..m : results'[All[i]] = "PASSED"
        /\ results'[All[m + 1]] = "FAILED"
    BY <1>7, <1>9, <2>2, <2>5, <2>6, <2>7, <2>8
  <2>10. All[m + 1] \in StageIds /\ stage' \in StageIds
    BY <1>9, <1>12, <2>2, <2>3
  <2>11. \/ c.ok = TRUE /\ Breaks(c.history, 12)
         \/ c.ok = FALSE /\ WritesMayFail /\ c.history = journal
    <3>1. PICK k \in 0..12 : k = 12
      OBVIOUS
    <3>2. Reaches(journal, k) /\ k # 0
      BY <1>6, <3>1
    <3>3. c \in Calls(journal, FailCall(journal))
      BY <1>12
    <3>4. \/ c.ok = TRUE /\ Breaks(c.history, k)
          \/ c.ok = FALSE /\ (k = 0 \/ WritesMayFail) /\ c.history = journal
      BY <3>2, <3>3, FailCalls
    <3> QED BY <3>1, <3>2, <3>4
  <2>12. CASE c.ok = TRUE /\ Breaks(c.history, 12)
    <3>1. /\ pc' = "finish" /\ outcome' = outcome /\ blamed' = All[m + 1]
          /\ Breaks(journal', 12)
      BY <1>12, <2>3, <2>12
    <3>2. journal' \in Seq(Journal!Transition)
      BY <3>1 DEF Breaks
    <3>3. GateFails'
      BY <1>1, <1>3, <1>5, <1>6, <1>12, <2>9, <3>1 DEF GateFails, Status
    <3> QED BY <1>10, <1>12, <2>9, <2>10, <3>1, <3>2, <3>3
  <2>13. CASE c.ok = FALSE /\ WritesMayFail /\ c.history = journal
    <3>1. /\ pc' = "done" /\ outcome' = "raised" /\ journal' = journal
          /\ blamed' = "none" /\ failed' = TRUE
      BY <1>6, <1>12, <2>13
    <3> QED BY <1>7, <1>10, <2>9, <2>10, <2>13, <3>1
  <2> QED BY <2>11, <2>12, <2>13
<1> QED BY <1>1, <1>11, <1>12

-----------------------------------------------------------------------------
(* The report. *)

LEMMA PlannedIn ==
    ASSUME StateOK
    PROVE  /\ Len(StagesOf(profile)) \in 4..25
           /\ DOMAIN StagesOf(profile) = 1..Len(StagesOf(profile))
           /\ \A i \in 1..Len(StagesOf(profile)) : StagesOf(profile)[i] \in StageIds
           /\ Canonical =>
                 /\ Len(StagesOf(profile)) = IF profile = "release" THEN 25 ELSE 20
                 /\ \A i \in 1..Len(StagesOf(profile)) : StagesOf(profile)[i] = All[i]
<1>1. profile \in Profiles
  BY ProfileIs
<1>2. DOMAIN StagesOf(profile) = 1..Len(StagesOf(profile))
  BY <1>1, PlannedStages
<1>3. CASE profile = "static"
  <2>1. ~Canonical
    BY <1>3 DEF Canonical
  <2>2. Len(StagesOf(profile)) = 4 /\ \A i \in 1..4 : StagesOf(profile)[i] \in StageIds
    BY SMTT(30), <1>3, PlannedStages, StageOrder
  <2> QED BY <1>2, <2>1, <2>2
<1>4. CASE profile = "supply-chain"
  <2>1. ~Canonical
    BY <1>4 DEF Canonical
  <2>2. Len(StagesOf(profile)) = 12
    BY <1>4, PlannedStages
  <2>3. ASSUME NEW i \in 1..12 PROVE StagesOf(profile)[i] \in StageIds
    <3>1. i \in 1..11 \/ i = 12
      OBVIOUS
    <3> QED BY SMTT(30), <1>4, <3>1, PlannedStages, StageOrder
  <2> QED BY <1>2, <2>1, <2>2, <2>3
<1>5. CASE profile = "kind-e2e"
  <2>1. Len(StagesOf(profile)) = 20 /\ \A i \in 1..20 : StagesOf(profile)[i] = All[i]
    BY <1>5, PlannedStages
  <2>2. ASSUME NEW i \in 1..20 PROVE StagesOf(profile)[i] \in StageIds
    <3>1. i \in 1..25
      OBVIOUS
    <3> QED BY <2>1, <3>1, StageOrder
  <2>3. profile # "release"
    BY <1>5
  <2> QED BY <1>2, <2>1, <2>2, <2>3
<1>6. CASE profile = "release"
  <2>1. StagesOf(profile) = All
    BY <1>6 DEF All
  <2>2. Len(StagesOf(profile)) = 25 /\ \A i \in 1..25 : StagesOf(profile)[i] = All[i]
    BY <2>1, StageNames
  <2>3. \A i \in 1..25 : StagesOf(profile)[i] \in StageIds
    BY <2>1, StageOrder
  <2>4. PICK k \in 4..25 : k = 25
    OBVIOUS
  <2>5. Len(StagesOf(profile)) = k /\ k = IF profile = "release" THEN 25 ELSE 20
    BY <1>6, <2>2, <2>4
  <2>6. /\ \A i \in 1..k : StagesOf(profile)[i] = All[i]
        /\ \A i \in 1..k : StagesOf(profile)[i] \in StageIds
    BY <2>2, <2>3, <2>4
  <2> QED BY <1>2, <2>5, <2>6
<1> QED BY <1>1, <1>3, <1>4, <1>5, <1>6 DEF Profiles

Lines == [stage : StageIds, status : Statuses \ {"NONE"}]

\* What the report of a failed run names, when its first n stages have passed.
LEMMA StrictPrefixIs ==
    ASSUME StateOK, Canonical, NEW n \in 0..24, n < Len(StagesOf(profile)),
           \A i \in 1..n : Status(i) = "PASSED", Status(n + 1) # "PASSED",
           NEW length, length = IF Status(n + 1) = "NONE" THEN n ELSE n + 1
    PROVE  /\ StrictPrefix = [i \in 1..length |-> [stage |-> All[i], status |-> Status(i)]]
           /\ StrictPrefix \in Seq(Lines) /\ Len(StrictPrefix) = length
<1> DEFINE stages == StagesOf(profile)
           reported == {k \in 0..Len(stages) :
                           /\ \A i \in 1..k : results[stages[i]] # "NONE"
                           /\ k > 0 => \A i \in 1..k - 1 : results[stages[i]] = "PASSED"}
<1>1. /\ Len(stages) \in 4..25
      /\ \A i \in 1..Len(stages) : stages[i] = All[i]
  BY PlannedIn
<1>2. \A i \in 1..Len(stages) : results[stages[i]] = Status(i)
  BY <1>1 DEF Status
<1>3. StrictPrefix = [i \in 1..(CHOOSE k \in reported : \A m \in reported : m <= k) |->
                         [stage |-> stages[i], status |-> results[stages[i]]]]
  BY DEF StrictPrefix
<1>4. length \in 0..Len(stages) /\ length \in {n, n + 1}
  BY <1>1
<1> HIDE DEF stages
<1>5. reported = 0..length
  <2>1. ASSUME NEW k \in 0..Len(stages)
        PROVE  k \in reported <=> /\ \A i \in 1..k : Status(i) # "NONE"
                                  /\ k > 0 => \A i \in 1..k - 1 : Status(i) = "PASSED"
    <3>1. \A i \in 1..k : i \in 1..Len(stages)
      BY <1>1
    <3>2. \A i \in 1..k - 1 : i \in 1..Len(stages)
      BY <1>1
    <3> QED BY <1>2, <3>1, <3>2
  <2>2. ASSUME NEW k \in 0..length PROVE k \in reported
    <3>1. k \in 0..Len(stages)
      BY <1>1, <1>4
    <3>2. \A i \in 1..k : i \in 1..n \/ (i = n + 1 /\ length = n + 1)
      BY <1>4
    <3>3. \A i \in 1..k - 1 : i \in 1..n
      BY <1>4
    <3> QED BY <2>1, <3>1, <3>2, <3>3
  <2>3. ASSUME NEW k \in 0..Len(stages), k \in reported PROVE k \in 0..length
    <3>1. k > n + 1 => n + 1 \in 1..k - 1 /\ k > 0
      BY <1>1
    <3>2. k = n + 1 => n + 1 \in 1..k
      BY <1>1
    <3>3. /\ \A i \in 1..k : Status(i) # "NONE"
          /\ k > 0 => \A i \in 1..k - 1 : Status(i) = "PASSED"
      BY <2>1, <2>3
    <3> HIDE DEF reported
    <3>4. ~(k > n + 1)
      BY <3>1, <3>3
    <3>5. k = n + 1 => length = n + 1
      BY <3>2, <3>3
    <3> QED BY <1>1, <1>4, <3>4, <3>5
  <2>4. reported \subseteq 0..Len(stages)
    OBVIOUS
  <2> HIDE DEF reported
  <2> QED BY <2>2, <2>3, <2>4
<1>6. (CHOOSE k \in reported : \A m \in reported : m <= k) = length
  <2>1. length \in reported /\ \A m \in reported : m <= length
    BY <1>4, <1>5
  <2>2. \A k \in reported : (\A m \in reported : m <= k) => k = length
    BY SMTT(30), <1>4, <1>5
  <2> HIDE DEF reported
  <2> QED BY <2>1, <2>2
<1>7. \A i \in 1..length : i \in 1..Len(stages)
  BY <1>1, <1>4
<1>8. StrictPrefix = [i \in 1..length |-> [stage |-> All[i], status |-> Status(i)]]
  <2> HIDE DEF reported
  <2> QED BY <1>1, <1>2, <1>3, <1>6, <1>7
<1>9. \A i \in 1..length : [stage |-> All[i], status |-> Status(i)] \in Lines
  <2>1. \A i \in 1..length : i \in 1..25 /\ (i \in 1..n \/ (i = n + 1 /\ length = n + 1))
    BY <1>1, <1>4
  <2>2. \A i \in 1..25 : All[i] \in StageIds
    BY StageOrder
  <2>3. results \in [StageIds -> Statuses]
    BY DEF StateOK
  <2>4. \A i \in 1..25 : Status(i) \in Statuses
    BY <2>2, <2>3 DEF Status
  <2>5. \A i \in 1..length : Status(i) # "NONE"
    BY <2>1
  <2> QED BY <2>1, <2>2, <2>4, <2>5 DEF Lines
<1>10. length \in Nat
  BY <1>4
<1>11. StrictPrefix \in Seq(Lines) /\ Len(StrictPrefix) = length
  <2>1. StrictPrefix \in [1..length -> Lines]
    BY <1>8, <1>9
  <2> QED BY <1>10, <2>1, SeqDef, LenProperties
<1> QED BY <1>8, <1>11

\* The stages a filled report fails its gate for are those that have not passed.
LEMMA FilledIs ==
    ASSUME StateOK
    PROVE  /\ Filled \in Seq(Lines) /\ Len(Filled) = Len(StagesOf(profile))
           /\ \A i \in 1..Len(StagesOf(profile)) :
                 /\ Filled[i].stage = StagesOf(profile)[i]
                 /\ Filled[i].status = IF results[StagesOf(profile)[i]] = "NONE"
                                       THEN "NOT_APPLICABLE" ELSE results[StagesOf(profile)[i]]
                 /\ Filled[i] = [stage |-> Filled[i].stage, status |-> Filled[i].status]
           /\ \A i \in 1..Len(StagesOf(profile)) :
                 StagesOf(profile)[i] \in RequiredStageFailures(profile, Filled)
                     <=> results[StagesOf(profile)[i]] # "PASSED"
           /\ \A s \in RequiredStageFailures(profile, Filled) :
                 \E i \in 1..Len(StagesOf(profile)) : s = StagesOf(profile)[i]
<1> DEFINE stages == StagesOf(profile)
<1>1. /\ Len(stages) \in Nat /\ DOMAIN stages = 1..Len(stages)
      /\ \A i \in 1..Len(stages) : stages[i] \in StageIds
  BY PlannedIn
<1>2. results \in [StageIds -> Statuses]
  BY DEF StateOK
<1>3. Filled = [i \in 1..Len(stages) |->
                   [stage |-> stages[i],
                    status |-> IF results[stages[i]] = "NONE" THEN "NOT_APPLICABLE"
                               ELSE results[stages[i]]]]
  BY <1>1 DEF Filled
<1>4. RequiredStageFailures(profile, Filled) =
          {s \in {stages[i] : i \in 1..Len(stages)} :
              ~\E i \in DOMAIN Filled : Filled[i] = [stage |-> s, status |-> "PASSED"]}
  BY <1>1 DEF RequiredStageFailures
<1> HIDE DEF stages
<1>5. ASSUME NEW i \in 1..Len(stages)
      PROVE  [stage |-> stages[i],
              status |-> IF results[stages[i]] = "NONE" THEN "NOT_APPLICABLE"
                         ELSE results[stages[i]]] \in Lines
  BY <1>1, <1>2 DEF Lines, Statuses
<1>6. Filled \in [1..Len(stages) -> Lines]
  BY <1>3, <1>5
<1>7. Filled \in Seq(Lines) /\ Len(Filled) = Len(stages) /\ DOMAIN Filled = 1..Len(stages)
  BY <1>1, <1>6, SeqDef, LenProperties
<1>8. \A i \in 1..Len(stages) :
         /\ Filled[i].stage = stages[i]
         /\ Filled[i].status = IF results[stages[i]] = "NONE" THEN "NOT_APPLICABLE"
                               ELSE results[stages[i]]
         /\ Filled[i] = [stage |-> Filled[i].stage, status |-> Filled[i].status]
  BY <1>3
<1>9. ASSUME NEW i \in 1..Len(stages)
      PROVE  stages[i] \in RequiredStageFailures(profile, Filled)
                 <=> results[stages[i]] # "PASSED"
  <2>1. CASE results[stages[i]] = "PASSED"
    <3>1. Filled[i] = [stage |-> stages[i], status |-> "PASSED"]
      BY <1>3, <2>1
    <3> QED BY <1>4, <1>7, <2>1, <3>1
  <2>2. CASE results[stages[i]] # "PASSED"
    <3>1. ASSUME NEW j \in 1..Len(stages),
                 Filled[j] = [stage |-> stages[i], status |-> "PASSED"]
          PROVE  FALSE
      <4>1. Filled[j].stage = stages[i] /\ Filled[j].status = "PASSED"
        BY <3>1
      <4>2. stages[j] = stages[i] /\ results[stages[j]] = "PASSED"
        BY <1>8, <4>1
      <4> QED BY <2>2, <4>2
    <3> QED BY <1>4, <1>7, <2>2, <3>1
  <2> QED BY <2>1, <2>2
<1>10. \A s \in RequiredStageFailures(profile, Filled) :
          \E i \in 1..Len(stages) : s = stages[i]
  BY <1>4
<1> QED BY <1>7, <1>8, <1>9, <1>10 DEF stages

\* The stage a failed run stopped at, and what its journal says of it.
Stops(n) ==
    /\ n < Len(StagesOf(profile))
    /\ \A i \in 1..n : Status(i) = "PASSED"
    /\ Status(n + 1) \in {"FAILED", "BLOCKED"} \/ (Status(n + 1) = "NONE" /\ WritesMayFail)
    /\ \/ \E reached \in 0..12 :
             /\ Breaks(journal, reached) /\ Seen(n, reached) /\ started
             /\ Status(n + 1) # "NONE" => blamed = All[n + 1]
       \/ Reaches(journal, 12) /\ n = 19 /\ stage = "cleanup" /\ started /\ Status(n + 1) = "FAILED"
       \/ ~started /\ journal = <<>>

LEMMA FailedStops ==
    ASSUME StateOK, EndInv, FinishInv, pc = "finish", Canonical, failed = TRUE
    PROVE  \E n \in 0..24 : Stops(n)
<1>1. ~escaping /\ (CleanupFails \/ GateFails \/ Broken)
  BY DEF FinishInv, Succeeds
<1>2. Len(StagesOf(profile)) = IF profile = "release" THEN 25 ELSE 20
  BY PlannedIn
<1>3. CASE CleanupFails
  <2>1. /\ \A i \in 1..Most : Status(i) = "PASSED"
        /\ started <=> Canonical
        /\ Reaches(journal, IF Canonical THEN 12 ELSE 0)
        /\ Status(20) = "FAILED" /\ stage = "cleanup"
    BY <1>3 DEF CleanupFails, Whole
  <2>2. Most = 19
    BY DEF Most, Canonical
  <2>3. PICK n \in 0..24 : n = 19 /\ n + 1 = 20
    OBVIOUS
  <2>4. Stops(n)
    <3>1. n < Len(StagesOf(profile))
      BY <1>2, <2>3
    <3>2. \A i \in 1..n : Status(i) = "PASSED"
      BY <2>1, <2>2, <2>3
    <3> QED BY <2>1, <2>3, <3>1, <3>2 DEF Stops
  <2> QED BY <2>4
<1>4. CASE GateFails
  <2>1. /\ profile = "release" /\ started /\ Breaks(journal, 12)
        /\ \E n \in 20..24 : /\ \A i \in 1..n : Status(i) = "PASSED"
                             /\ Status(n + 1) = "FAILED" /\ blamed = All[n + 1]
    BY <1>4 DEF GateFails
  <2>2. PICK n \in 20..24 : /\ \A i \in 1..n : Status(i) = "PASSED"
                            /\ Status(n + 1) = "FAILED" /\ blamed = All[n + 1]
    BY <2>1
  <2>3. n \in 0..24 /\ n < Len(StagesOf(profile)) /\ Seen(n, 12)
    BY <1>2, <2>1 DEF Seen
  <2>4. Stops(n)
    BY <2>1, <2>2, <2>3 DEF Stops
  <2> QED BY <2>3, <2>4
<1>5. CASE Broken
  <2>1. PICK n \in 0..18, reached \in 0..12 : BreaksAt(n, reached)
    BY <1>5 DEF Broken
  <2>2. n \in 0..24 /\ n < Len(StagesOf(profile))
    BY <1>2
  <2>3. Stops(n)
    BY <1>1, <2>1, <2>2 DEF Stops, BreaksAt
  <2> QED BY <2>2, <2>3
<1> QED BY <1>1, <1>3, <1>4, <1>5

\* The report of a failed run agrees with its status and its journal.
LEMMA StoppedReport ==
    ASSUME StateOK, Canonical, failed = TRUE, NEW n \in 0..24, Stops(n), Finish
    PROVE  /\ report' \in Seq(Lines) /\ final' \in {"FAILED", "BLOCKED"} /\ failed' = TRUE
           /\ ClosesFailed' \/ ClosesSilent'
<1>1. /\ options' = options /\ stage' = stage /\ started' = started /\ journal' = journal
      /\ blamed' = blamed /\ retained' = retained
      /\ report' = StrictPrefix
      /\ failed' = TRUE
      /\ final' = IF \E i \in DOMAIN report' :
                         /\ report'[i].stage \in RequiredStageFailures(profile, report')
                         /\ report'[i].status = "BLOCKED"
                  THEN "BLOCKED" ELSE "FAILED"
  BY DEF Finish, progress
<1>2. profile' = profile /\ WritesMayFail' = WritesMayFail
  BY <1>1 DEF profile, WritesMayFail
<1>3. PICK length \in 0..25 : length = IF Status(n + 1) = "NONE" THEN n ELSE n + 1
  OBVIOUS
<1>4. /\ n < Len(StagesOf(profile)) /\ \A i \in 1..n : Status(i) = "PASSED"
      /\ Status(n + 1) \in {"FAILED", "BLOCKED"} \/ (Status(n + 1) = "NONE" /\ WritesMayFail)
      /\ \/ \E reached \in 0..12 :
               /\ Breaks(journal, reached) /\ Seen(n, reached) /\ started
               /\ Status(n + 1) # "NONE" => blamed = All[n + 1]
         \/ /\ Reaches(journal, 12) /\ n = 19 /\ stage = "cleanup" /\ started
            /\ Status(n + 1) = "FAILED"
         \/ ~started /\ journal = <<>>
  BY DEF Stops
<1>5. /\ report' = [i \in 1..length |-> [stage |-> All[i], status |-> Status(i)]]
      /\ report' \in Seq(Lines) /\ Len(report') = length
  BY <1>1, <1>3, <1>4, StrictPrefixIs
<1>6. DOMAIN report' = 1..length
  BY <1>5
<1>7. \A i \in 1..n : i \in 1..length /\ report'[i] = [stage |-> All[i], status |-> "PASSED"]
  <2>1. \A i \in 1..n : i \in 1..length
    BY <1>3
  <2> QED BY <1>4, <1>5, <2>1
<1>8. CASE Status(n + 1) \in {"FAILED", "BLOCKED"}
  <2>1. length = n + 1
    BY <1>3, <1>8
  <2>2. report'[n + 1] = [stage |-> All[n + 1], status |-> Status(n + 1)]
    BY <1>5, <2>1
  <2>3. All[n + 1] \in RequiredStageFailures(profile, report')
    <3>1. ASSUME NEW i \in DOMAIN report',
                 report'[i] = [stage |-> All[n + 1], status |-> "PASSED"]
          PROVE  FALSE
      <4>1. i \in 1..25 /\ n + 1 \in 1..25 /\ i \in 1..length
        <5>1. i \in 1..length
          BY <1>6, <3>1
        <5> QED BY <5>1
      <4>2. report'[i].stage = All[i] /\ report'[i].status = Status(i)
        BY <1>5, <4>1
      <4>3. All[i] = All[n + 1] /\ Status(i) = "PASSED"
        BY <3>1, <4>2
      <4>4. i = n + 1
        BY <4>1, <4>3, StageOrder
      <4> QED BY <1>8, <4>3, <4>4
    <3>2. n + 1 \in DOMAIN StagesOf(profile) /\ StagesOf(profile)[n + 1] = All[n + 1]
      BY <1>4, PlannedIn
    <3> QED BY <3>1, <3>2 DEF RequiredStageFailures
  <2>4. final' = Status(n + 1)
    <3>1. CASE Status(n + 1) = "BLOCKED"
      <4>1. n + 1 \in DOMAIN report'
        BY <1>6, <2>1
      <4> QED BY <1>1, <2>2, <2>3, <3>1, <4>1
    <3>2. CASE Status(n + 1) = "FAILED"
      <4>1. ASSUME NEW i \in DOMAIN report' PROVE report'[i].status # "BLOCKED"
        <5>1. i \in 1..n \/ i = n + 1
          BY <1>6, <2>1, <4>1
        <5>2. CASE i = n + 1
          BY <2>2, <3>2, <5>2
        <5>3. CASE i \in 1..n
          <6>1. report'[i] = [stage |-> All[i], status |-> "PASSED"]
            BY <1>7, <5>3
          <6> QED BY <6>1
        <5> QED BY <5>1, <5>2, <5>3
      <4> QED BY <1>1, <3>2, <4>1
    <3> QED BY <1>8, <3>1, <3>2
  <2>5. Reported(n, final)'
    <3>1. final' # "none"
      BY <1>8, <2>4
    <3> QED BY <1>5, <1>7, <2>1, <2>2, <2>4, <3>1 DEF Reported
  <2>6. \/ \E reached \in 0..12 :
              /\ Breaks(journal', reached) /\ Seen(n, reached) /\ started'
              /\ blamed' = All[n + 1]
        \/ Reaches(journal', 12) /\ n = 19 /\ stage' = "cleanup" /\ started'
        \/ ~started' /\ journal' = <<>>
    <3>1. Status(n + 1) # "NONE"
      BY <1>8
    <3> QED BY <1>1, <1>4, <3>1
  <2>7. final' \in {"FAILED", "BLOCKED"} /\ n < Len(StagesOf(profile'))
    BY <1>2, <1>4, <1>8, <2>4
  <2>8. ClosesFailed'
    BY <2>5, <2>6, <2>7 DEF ClosesFailed
  <2> QED BY <1>1, <1>5, <2>7, <2>8
<1>9. CASE Status(n + 1) = "NONE" /\ WritesMayFail
  <2>1. length = n
    BY <1>3, <1>9
  <2>2. \A i \in DOMAIN report' : report'[i].status = "PASSED"
    BY <1>6, <1>7, <2>1
  <2>3. final' = "FAILED"
    BY <1>1, <2>2
  <2>4. \/ \E reached \in 0..12 : Breaks(journal', reached) \/ Reaches(journal', reached)
        \/ ~started' /\ journal' = <<>>
    BY <1>1, <1>4, <1>9
  <2>5. ClosesSilent'
    BY <1>2, <1>9, <2>2, <2>3, <2>4 DEF ClosesSilent
  <2> QED BY <1>1, <1>5, <2>3, <2>5
<1> QED BY <1>4, <1>8, <1>9

\* The cleanup is the last stage of a run that deploys nothing, and the
\* twentieth of one that does.
LEMMA CleanupPlace ==
    ASSUME StateOK, profile # "static"
    PROVE  /\ \E i \in 1..Len(StagesOf(profile)) : StagesOf(profile)[i] = All[20]
           /\ All[20] = "cleanup"
<1>1. profile \in Profiles
  BY ProfileIs
<1>2. CASE profile = "supply-chain"
  <2>1. 12 \in 1..12 /\ Len(StagesOf(profile)) = 12 /\ StagesOf(profile)[12] = All[20]
    BY <1>2, PlannedStages
  <2> QED BY <2>1, StageNames
<1>3. CASE profile \in {"kind-e2e", "release"}
  <2>1. Canonical
    BY <1>3 DEF Canonical
  <2>2. /\ Len(StagesOf(profile)) \in {20, 25}
        /\ \A i \in 1..Len(StagesOf(profile)) : StagesOf(profile)[i] = All[i]
    BY <2>1, PlannedIn
  <2>3. 20 \in 1..Len(StagesOf(profile))
    <3>1. PICK k \in {20, 25} : k = Len(StagesOf(profile))
      BY <2>2
    <3>2. 20 \in 1..k
      BY <3>1
    <3> QED BY <3>1, <3>2
  <2> QED BY <2>2, <2>3, StageNames
<1> QED BY <1>1, <1>2, <1>3 DEF Profiles

\* A run that has met no error reports success, unless it kept its resources.
LEMMA SucceededReport ==
    ASSUME StateOK, EndInv, pc = "finish", ~failed, Succeeds, Finish
    PROVE  /\ report' \in Seq(Lines) /\ failed' \in BOOLEAN
           /\ final' \in {"PASSED", "FAILED", "BLOCKED"}
           /\ Canonical => ClosesPassed' \/ (failed' /\ ClosesSilent')
           /\ retained => failed'
<1>1. /\ options' = options /\ stage' = stage /\ started' = started /\ journal' = journal
      /\ blamed' = blamed /\ retained' = retained /\ cleaned' = cleaned
      /\ report' = Filled
      /\ failed' = (RequiredStageFailures(profile, report') # {})
      /\ final' = IF ~failed' THEN "PASSED"
                  ELSE IF \E i \in DOMAIN report' :
                         /\ report'[i].stage \in RequiredStageFailures(profile, report')
                         /\ report'[i].status = "BLOCKED"
                  THEN "BLOCKED" ELSE "FAILED"
  BY DEF Finish, progress
<1>2. profile' = profile /\ WritesMayFail' = WritesMayFail
  BY <1>1 DEF profile, WritesMayFail
<1>3. /\ report' \in Seq(Lines) /\ failed' \in BOOLEAN
      /\ final' \in {"PASSED", "FAILED", "BLOCKED"}
      /\ Len(report') = Len(StagesOf(profile)) /\ DOMAIN report' = 1..Len(report')
  BY <1>1, FilledIs
<1>4. /\ Whole
      /\ IF retained
         THEN profile \notin {"static", "release"} /\ Status(20) = "NOT_APPLICABLE"
         ELSE existing = {} /\ (profile # "static" => Status(20) = "PASSED" /\ cleaned)
      /\ profile = "release" => \A i \in 21..25 : Status(i) = "PASSED"
  BY DEF Succeeds
<1>5. ASSUME retained
      PROVE  failed' /\ All[20] \in RequiredStageFailures(profile, report')
  <2>1. profile # "static" /\ results[All[20]] # "PASSED"
    BY <1>4, <1>5 DEF Status
  <2>2. PICK i \in 1..Len(StagesOf(profile)) : StagesOf(profile)[i] = All[20]
    BY <2>1, CleanupPlace
  <2>3. All[20] \in RequiredStageFailures(profile, Filled)
    BY <2>1, <2>2, FilledIs
  <2> QED BY <1>1, <2>3
<1>6. ASSUME Canonical PROVE ClosesPassed' \/ (failed' /\ ClosesSilent')
  <2>1. /\ Len(StagesOf(profile)) = IF profile = "release" THEN 25 ELSE 20
        /\ \A i \in 1..Len(StagesOf(profile)) : StagesOf(profile)[i] = All[i]
    BY <1>6, PlannedIn
  <2>2. Most = 19 /\ profile # "static"
    BY <1>6 DEF Most, Canonical
  <2>3. /\ started /\ Reaches(journal, 12)
        /\ \A i \in 1..19 : Status(i) = "PASSED"
    BY <1>4, <1>6, <2>2 DEF Whole
  <2>4. /\ \A i \in 1..Len(StagesOf(profile)) :
              /\ report'[i].stage = All[i]
              /\ Status(i) # "NONE" => report'[i].status = Status(i)
              /\ report'[i] = [stage |-> report'[i].stage, status |-> report'[i].status]
              /\ All[i] \in RequiredStageFailures(profile, report') <=> Status(i) # "PASSED"
        /\ \A s \in RequiredStageFailures(profile, report') :
              \E i \in 1..Len(StagesOf(profile)) : s = All[i]
    <3>1. PICK k \in 4..25 : k = Len(StagesOf(profile))
      BY PlannedIn
    <3>2. \A i \in 1..k : results[StagesOf(profile)[i]] = Status(i)
      BY <2>1, <3>1 DEF Status
    <3>3. /\ \A i \in 1..k :
                /\ report'[i].stage = StagesOf(profile)[i]
                /\ report'[i].status = IF results[StagesOf(profile)[i]] = "NONE"
                                       THEN "NOT_APPLICABLE"
                                       ELSE results[StagesOf(profile)[i]]
                /\ report'[i] = [stage |-> report'[i].stage, status |-> report'[i].status]
          /\ \A i \in 1..k :
                StagesOf(profile)[i] \in RequiredStageFailures(profile, report')
                    <=> results[StagesOf(profile)[i]] # "PASSED"
          /\ \A s \in RequiredStageFailures(profile, report') :
                \E i \in 1..k : s = StagesOf(profile)[i]
      BY <1>1, <3>1, FilledIs
    <3>4. \A i \in 1..k : StagesOf(profile)[i] = All[i]
      BY <2>1, <3>1
    <3>5. ASSUME NEW i \in 1..k
          PROVE  /\ report'[i].stage = All[i]
                 /\ Status(i) # "NONE" => report'[i].status = Status(i)
                 /\ report'[i] = [stage |-> report'[i].stage, status |-> report'[i].status]
                 /\ All[i] \in RequiredStageFailures(profile, report') <=> Status(i) # "PASSED"
      BY <3>2, <3>3, <3>4
    <3>6. \A s \in RequiredStageFailures(profile, report') : \E i \in 1..k : s = All[i]
      BY <3>3, <3>4
    <3> QED BY <3>1, <3>5, <3>6
  <2>5. CASE retained
    <3>1. Len(StagesOf(profile)) = 20 /\ Status(20) = "NOT_APPLICABLE"
      BY <1>4, <2>1, <2>5
    <3>2. \A i \in 1..20 : i \in 1..19 \/ i = 20
      OBVIOUS
    <3>3. \A i \in DOMAIN report' : report'[i].status \in {"PASSED", "NOT_APPLICABLE"}
      BY <1>3, <2>3, <2>4, <3>1, <3>2
    <3>4. RequiredStageFailures(profile, report') = {"cleanup"}
      <4>1. All[20] = "cleanup"
        BY StageNames
      <4>2. \A s \in RequiredStageFailures(profile, report') : s = "cleanup"
        <5>1. \A i \in 1..20 : All[i] \in RequiredStageFailures(profile, report') => i = 20
          BY <2>3, <2>4, <3>1, <3>2
        <5> QED BY <2>4, <3>1, <4>1, <5>1
      <4> QED BY <1>5, <2>5, <4>1, <4>2
    <3>5. failed' /\ final' = "FAILED"
      BY <1>1, <1>5, <2>5, <3>3
    <3>6. \E reached \in 0..12 : Reaches(journal', reached)
      BY <1>1, <2>3
    <3>7. ClosesSilent'
      BY <1>1, <1>2, <2>5, <3>3, <3>4, <3>5, <3>6 DEF ClosesSilent
    <3> QED BY <3>5, <3>7
  <2>6. CASE ~retained
    <3>1. cleaned /\ \A i \in 1..Len(StagesOf(profile)) : Status(i) = "PASSED"
      <4>1. cleaned /\ Status(20) = "PASSED"
        BY <1>4, <2>2, <2>6
      <4>2. ASSUME NEW i \in 1..Len(StagesOf(profile)) PROVE Status(i) = "PASSED"
        <5>1. i \in 1..19 \/ i = 20 \/ (profile = "release" /\ i \in 21..25)
          BY <2>1
        <5> QED BY <1>4, <2>3, <4>1, <5>1
      <4> QED BY <4>1, <4>2
    <3>2. RequiredStageFailures(profile, report') = {}
      BY <2>4, <3>1
    <3>3. ~failed' /\ final' = "PASSED"
      BY <1>1, <3>2
    <3>4. \A i \in 1..Len(StagesOf(profile)) :
             report'[i] = [stage |-> All[i], status |-> "PASSED"]
      <4>1. ASSUME NEW i \in 1..Len(StagesOf(profile))
            PROVE  report'[i] = [stage |-> All[i], status |-> "PASSED"]
        <5>1. /\ report'[i].stage = All[i] /\ report'[i].status = "PASSED"
              /\ report'[i] = [stage |-> report'[i].stage, status |-> report'[i].status]
          BY <2>4, <3>1
        <5> QED BY <5>1, Zenon
      <4> QED BY <4>1
    <3>5. Reported(Len(StagesOf(profile)), "none")'
      BY <1>2, <1>3, <3>4 DEF Reported
    <3> QED BY <1>1, <2>3, <3>1, <3>3, <3>5 DEF ClosesPassed
  <2> QED BY <2>5, <2>6
<1> QED BY <1>3, <1>5, <1>6

LEMMA FinishKeeps == IInv /\ Finish => IInv'
<1> SUFFICES ASSUME IInv, Finish PROVE IInv'
  OBVIOUS
<1>1. /\ pc = "finish" /\ pc' = "close" /\ options' = options /\ results' = results
      /\ stage' = stage /\ started' = started /\ attested' = attested
      /\ journal' = journal /\ blamed' = blamed /\ escaping' = escaping
      /\ objects' = objects /\ existing' = existing /\ unknown' = unknown
      /\ cleaned' = cleaned /\ retained' = retained /\ outcome' = outcome
      /\ report' = IF Canonical /\ failed THEN StrictPrefix ELSE Filled
      /\ failed' = (failed \/ RequiredStageFailures(profile, report') # {})
      /\ final' = IF ~failed' THEN "PASSED"
                  ELSE IF \E i \in DOMAIN report' :
                         /\ report'[i].stage \in RequiredStageFailures(profile, report')
                         /\ report'[i].status = "BLOCKED"
                  THEN "BLOCKED" ELSE "FAILED"
  BY DEF Finish, At, Goto, progress, resources
<1>2. StateOK /\ EndInv /\ FinishInv /\ LeftInv
  BY DEF IInv
<1>3. failed \in BOOLEAN /\ started \in BOOLEAN
  BY <1>2 DEF StateOK
<1>4. /\ profile' = profile /\ Canonical' = Canonical /\ Status(20)' = Status(20)
  BY <1>1 DEF profile, Canonical, Status
<1>5. Succeeds \/ failed = TRUE
  BY <1>1, <1>2, <1>3 DEF FinishInv, CleanupFails, GateFails
<1>6. /\ failed' \in BOOLEAN
      /\ final' \in {"PASSED", "FAILED", "BLOCKED"}
      /\ failed' <=> final' # "PASSED"
  BY <1>1, <1>3
<1>7. report' \in Seq(Lines)
  <2>1. CASE Canonical /\ failed
    <3>1. PICK n \in 0..24 : Stops(n)
      BY <1>1, <1>2, <1>3, <2>1, FailedStops
    <3> QED BY <1>2, <1>3, <2>1, <3>1, StoppedReport
  <2>2. CASE ~(Canonical /\ failed)
    BY <1>1, <1>2, <2>2, FilledIs
  <2> QED BY <2>1, <2>2
<1>8. Canonical => ClosesPassed' \/ (failed' /\ (ClosesFailed' \/ ClosesSilent'))
  <2>1. CASE Canonical /\ failed
    <3>1. PICK n \in 0..24 : Stops(n)
      BY <1>1, <1>2, <1>3, <2>1, FailedStops
    <3> QED BY <1>2, <1>3, <2>1, <3>1, StoppedReport
  <2>2. CASE Canonical /\ ~failed
    <3>1. Succeeds
      BY <1>5, <2>2
    <3>2. ClosesPassed' \/ (failed' /\ ClosesSilent')
      BY <1>1, <1>2, <2>2, <3>1, SucceededReport
    <3> QED BY <3>2
  <2> QED BY <2>1, <2>2
<1>9. final' = "PASSED" => RequiredStageFailures(profile', report') = {}
                           /\ existing' = {} /\ ~retained'
  <2>1. SUFFICES ASSUME final' = "PASSED"
                 PROVE  RequiredStageFailures(profile', report') = {}
                        /\ existing' = {} /\ ~retained'
    OBVIOUS
  <2>2. ~failed' /\ ~failed /\ Succeeds
    BY <1>1, <1>5, <1>6, <2>1
  <2>3. RequiredStageFailures(profile', report') = {}
    BY <1>1, <1>4, <2>2
  <2>4. ~retained
    BY <1>1, <1>2, <2>2, SucceededReport
  <2>5. existing = {}
    BY <2>2, <2>4 DEF Succeeds
  <2> QED BY <1>1, <2>3, <2>4, <2>5
<1>10. ~Canonical' => journal' = <<>> /\ ~started'
  BY <1>1, <1>2, <1>4 DEF EndInv
<1>11. CloseInv'
  BY <1>4, <1>6, <1>8, <1>9, <1>10 DEF CloseInv
<1>12. StateOK'
  BY <1>1, <1>2, <1>6, <1>7 DEF StateOK, Labels, Lines
<1>13. EndInv'
  BY <1>1, <1>2, <1>4 DEF EndInv
<1>14. GoingInv' /\ CleanupInv' /\ FinishInv' /\ DoneInv'
  BY <1>1 DEF GoingInv, CleanupInv, FinishInv, DoneInv, Going, Early, Deploying
<1>15. LeftInv'
  BY <1>1, <1>2, <1>4 DEF LeftInv, Retains
<1> QED BY <1>11, <1>12, <1>13, <1>14, <1>15 DEF IInv

-----------------------------------------------------------------------------
(* The bundle. *)

\* A journal with a failure after its first n states, cleaned or not.
Ends(h, n) ==
    /\ n \in 1..12
    /\ h \in Seq(Journal!Transition)
    /\ Len(h) \in {n + 1, n + 2}
    /\ \A i \in 1..n : h[i].state = Journal!Linear[i]
    /\ h[n + 1].state = "failed"
    /\ Len(h) = n + 2 => h[n + 2].state = "cleaned"

\* A journal that reads to its end.
Completes(h) ==
    /\ h \in Seq(Journal!Transition)
    /\ Len(h) = 14
    /\ \A i \in 1..13 : h[i].state = Journal!Linear[i]
    /\ h[14].state = "cleaned"

LEMMA EndsFailed ==
    ASSUME NEW h, NEW n \in 0..12, Ends(h, n)
    PROVE  /\ Journal!IsHistory(h)
           /\ Journal!Recorded(h, "failed") /\ ~Journal!Recorded(h, "succeeded")
           /\ Journal!Current(h) \in {"failed", "cleaned"}
           /\ \A i \in 1..n : Journal!Recorded(h, Journal!Linear[i])
<1>1. /\ n \in 1..12 /\ h \in Seq(Journal!Transition) /\ Len(h) \in {n + 1, n + 2}
      /\ h[n + 1].state = "failed" /\ (Len(h) = n + 2 => h[n + 2].state = "cleaned")
      /\ \A i \in 1..n : h[i].state = Journal!Linear[i] /\ i \in 1..13 /\ i # 13
  <2>1. /\ n \in 1..12 /\ h \in Seq(Journal!Transition) /\ Len(h) \in {n + 1, n + 2}
        /\ h[n + 1].state = "failed" /\ (Len(h) = n + 2 => h[n + 2].state = "cleaned")
        /\ \A i \in 1..n : h[i].state = Journal!Linear[i]
    BY Zenon DEF Ends
  <2>2. ASSUME NEW m \in 1..12, NEW i \in 1..m PROVE i \in 1..13 /\ i # 13
    OBVIOUS
  <2> QED BY Zenon, <2>1, <2>2
<1>2. PICK l \in {n + 1, n + 2} : l = Len(h)
  BY <1>1
<1>3. DOMAIN h = 1..l /\ h # <<>> /\ l \in Nat
  BY <1>1, <1>2
<1>4. n + 1 \in 1..l /\ \A i \in 1..n : i \in 1..l
  BY <1>1, <1>2
<1>5. \A i \in 1..l : i \in 1..n \/ i = n + 1 \/ (i = n + 2 /\ l = n + 2)
  BY <1>1, <1>2
<1>6. Journal!IsHistory(h)
  <2>1. n \in 0..13 /\ n <= Len(h)
    BY <1>1, <1>2
  <2> QED BY <1>1, <2>1 DEF Journal!IsHistory
<1>7. \A i \in 1..l : h[i].state # "succeeded"
  <2>1. \A i \in 1..n : h[i].state # "succeeded"
    BY ZenonT(30), <1>1, LinearOrder
  <2> QED BY <1>1, <1>2, <1>5, <2>1
<1>8. Journal!Current(h) \in {"failed", "cleaned"}
  <2>1. Journal!Current(h) = h[l].state
    BY <1>2, <1>3 DEF Journal!Current
  <2> QED BY <1>1, <1>2, <2>1
<1> QED BY <1>1, <1>3, <1>4, <1>6, <1>7, <1>8 DEF Journal!Recorded

LEMMA BrokenEnds ==
    ASSUME NEW h, NEW n \in 0..12, Breaks(h, n)
    PROVE  Ends(h, n) /\ Ends(Append(h, Entry("cleaned")), n)
<1>1. /\ n \in 1..12 /\ h \in Seq(Journal!Transition) /\ Len(h) = n + 1
      /\ h[n + 1].state = "failed"
      /\ \A i \in 1..n : h[i].state = Journal!Linear[i]
  BY DEF Breaks
<1>2. Entry("cleaned") \in Journal!Transition
  BY EntryIsTransition DEF Journal!States
<1>3. /\ Append(h, Entry("cleaned")) \in Seq(Journal!Transition)
      /\ Len(Append(h, Entry("cleaned"))) = n + 2
      /\ \A i \in 1..n + 1 : Append(h, Entry("cleaned"))[i] = h[i]
      /\ Append(h, Entry("cleaned"))[n + 2] = Entry("cleaned")
  BY <1>1, <1>2
<1>4. /\ \A i \in 1..n : Append(h, Entry("cleaned"))[i].state = Journal!Linear[i]
      /\ Append(h, Entry("cleaned"))[n + 1].state = "failed"
      /\ Append(h, Entry("cleaned"))[n + 2].state = "cleaned"
  BY <1>1, <1>3 DEF Entry
<1>5. Ends(h, n)
  BY <1>1 DEF Ends
<1> QED BY <1>1, <1>3, <1>4, <1>5 DEF Ends

LEMMA CompletedIs ==
    ASSUME NEW h, Completes(h)
    PROVE  /\ Journal!IsHistory(h)
           /\ Journal!Recorded(h, "succeeded") /\ ~Journal!Recorded(h, "failed")
           /\ Journal!Current(h) = "cleaned"
           /\ \A i \in 1..13 : Journal!Recorded(h, Journal!Linear[i])
<1>1. /\ h \in Seq(Journal!Transition) /\ Len(h) = 14 /\ h[14].state = "cleaned"
      /\ \A i \in 1..13 : h[i].state = Journal!Linear[i]
  BY DEF Completes
<1>8. DOMAIN h = 1..14 /\ h # <<>>
  <2>1. PICK k \in 1..14 : k = 14
    OBVIOUS
  <2>2. Len(h) = k /\ h \in Seq(Journal!Transition)
    BY <1>1, <2>1
  <2>3. DOMAIN h = 1..k /\ h # <<>>
    BY <2>2
  <2> QED BY <2>1, <2>3
<1>2. Journal!IsHistory(h)
  <2>1. 13 \in 0..13 /\ 13 <= Len(h)
    BY <1>1
  <2> QED BY <1>1, <2>1 DEF Journal!IsHistory
<1>3. \A i \in 1..14 : h[i].state # "failed"
  <2>1. \A i \in 1..13 : h[i].state # "failed"
    BY <1>1, LinearOrder
  <2>2. \A i \in 1..14 : i \in 1..13 \/ i = 14
    OBVIOUS
  <2> QED BY <1>1, <2>1, <2>2
<1>4. \A i \in 1..13 : Journal!Recorded(h, Journal!Linear[i])
  BY <1>1, <1>8 DEF Journal!Recorded
<1>5. Journal!Recorded(h, "succeeded")
  <2>1. 13 \in 1..13 /\ Journal!Linear[13] = "succeeded"
    BY LinearOrder
  <2> QED BY <1>4, <2>1
<1>6. ~Journal!Recorded(h, "failed")
  BY <1>3, <1>8 DEF Journal!Recorded
<1>7. Journal!Current(h) = "cleaned"
  BY <1>1, <1>8 DEF Journal!Current
<1> QED BY <1>2, <1>4, <1>5, <1>6, <1>7

LEMMA ReachedCompletes ==
    ASSUME NEW h, Reaches(h, 13)
    PROVE  Decided(h) /\ Completes(Append(h, Entry("cleaned")))
<1>1. /\ h \in Seq(Journal!Transition) /\ Len(h) = 13
      /\ \A i \in 1..13 : h[i].state = Journal!Linear[i]
  BY DEF Reaches
<1>6. h # <<>>
  <2>1. PICK k \in 1..13 : k = 13
    OBVIOUS
  <2>2. Len(h) = k /\ h \in Seq(Journal!Transition)
    BY <1>1, <2>1
  <2> QED BY <2>2
<1>2. Entry("cleaned") \in Journal!Transition
  BY EntryIsTransition DEF Journal!States
<1>3. /\ Append(h, Entry("cleaned")) \in Seq(Journal!Transition)
      /\ Len(Append(h, Entry("cleaned"))) = 14
      /\ \A i \in 1..13 : Append(h, Entry("cleaned"))[i] = h[i]
      /\ Append(h, Entry("cleaned"))[14] = Entry("cleaned")
  <2>1. PICK k \in 1..13 : k = 13
    OBVIOUS
  <2>2. Len(h) = k
    BY <1>1, <2>1
  <2>3. /\ Append(h, Entry("cleaned")) \in Seq(Journal!Transition)
        /\ Len(Append(h, Entry("cleaned"))) = k + 1
        /\ \A i \in 1..k : Append(h, Entry("cleaned"))[i] = h[i]
        /\ Append(h, Entry("cleaned"))[k + 1] = Entry("cleaned")
    BY <1>1, <1>2, <2>2
  <2> QED BY <2>1, <2>3
<1>4. Completes(Append(h, Entry("cleaned")))
  BY <1>1, <1>3 DEF Completes, Entry
<1>5. Journal!Current(h) = "succeeded"
  <2>1. Journal!Current(h) = Journal!Linear[13]
    BY <1>1, <1>6 DEF Journal!Current
  <2> QED BY <2>1, LinearOrder
<1> QED BY <1>4, <1>5 DEF Decided

\* How a failed run closes its journal.
LEMMA FailedCloses ==
    ASSUME NEW h, NEW n \in 0..12, Breaks(h, n) \/ Reaches(h, n),
           NEW decide \in Calls(h, FailCall(h)), cleaned \in BOOLEAN,
           NEW clean \in IF decide.ok /\ cleaned
                         THEN Calls(decide.history, CleanedCall(decide.history))
                         ELSE {decide}
    PROVE  /\ clean.history \in Seq(Journal!Transition)
           /\ Journal!IsHistory(clean.history)
           /\ \/ clean.ok = TRUE /\ Ends(clean.history, n)
              \/ clean.ok = FALSE /\ (WritesMayFail \/ (n = 0 /\ Reaches(h, n)))
           /\ Breaks(h, n) => Journal!Recorded(h, "failed")
           /\ Reaches(h, n) => ~Journal!Recorded(h, "failed")
           /\ clean.ok = TRUE => Journal!Recorded(decide.history, "failed")
<1>1. /\ decide.ok \in BOOLEAN
      /\ decide.ok = TRUE => Breaks(decide.history, n)
      /\ decide.ok = FALSE => /\ WritesMayFail \/ (n = 0 /\ Reaches(h, n))
                              /\ decide.history = h
      /\ h \in Seq(Journal!Transition)
  <2>1. CASE Breaks(h, n)
    <3>1. FailCall(h) = <<>>
      BY <2>1, FailedBefore
    <3>2. decide = [history |-> h, ok |-> TRUE]
      BY <3>1, NoStates
    <3> QED BY <2>1, <3>2 DEF Breaks
  <2>2. CASE Reaches(h, n)
    <3>1. \/ decide.ok = TRUE /\ Breaks(decide.history, n)
          \/ decide.ok = FALSE /\ (n = 0 \/ WritesMayFail) /\ decide.history = h
      BY <2>2, FailCalls
    <3> QED BY <2>2, <3>1 DEF Reaches
  <2> QED BY <2>1, <2>2
<1>2. /\ Breaks(h, n) => Journal!Recorded(h, "failed")
      /\ Reaches(h, n) => ~Journal!Recorded(h, "failed")
  <2>1. n \in 0..13
    OBVIOUS
  <2> QED BY <2>1, HistoryBroken, HistoryReached
<1>3. Journal!IsHistory(h)
  <2>1. n \in 0..13
    OBVIOUS
  <2> QED BY <2>1, HistoryBroken, HistoryReached
<1>4. CASE decide.ok = FALSE
  <2>1. clean = decide
    BY <1>4
  <2> QED BY <1>1, <1>2, <1>3, <1>4, <2>1
<1>5. CASE decide.ok = TRUE
  <2>1. /\ Ends(decide.history, n) /\ Ends(Append(decide.history, Entry("cleaned")), n)
        /\ Journal!Recorded(decide.history, "failed") /\ Decided(decide.history)
    BY <1>1, <1>5, BrokenEnds, HistoryBroken
  <2>2. \/ clean.ok = TRUE /\ clean.history = decide.history
        \/ clean.ok = TRUE /\ clean.history = Append(decide.history, Entry("cleaned"))
        \/ clean.ok = FALSE /\ WritesMayFail /\ clean.history = decide.history
    <3>1. CASE cleaned
      <4>1. clean \in Calls(decide.history, CleanedCall(decide.history))
        BY <1>5, <3>1
      <4>2. \/ clean = [history |-> Append(decide.history, Entry("cleaned")), ok |-> TRUE]
            \/ WritesMayFail /\ clean = [history |-> decide.history, ok |-> FALSE]
        BY <2>1, <4>1, CleanedCalls
      <4> QED BY <4>2
    <3>2. CASE ~cleaned
      <4>1. clean = decide
        BY <3>2
      <4> QED BY <1>5, <4>1
    <3> QED BY <3>1, <3>2
  <2>3. Ends(clean.history, n)
    BY <2>1, <2>2
  <2>4. clean.history \in Seq(Journal!Transition) /\ Journal!IsHistory(clean.history)
    BY <2>3, EndsFailed DEF Ends
  <2> QED BY <1>2, <2>1, <2>2, <2>3, <2>4
<1> QED BY <1>1, <1>4, <1>5

\* How a run that has met no error closes its journal.
LEMMA PassedCloses ==
    ASSUME NEW h, Reaches(h, 12), cleaned = TRUE,
           NEW decide \in Calls(h, KubernetesCompletion \o <<"succeeded">>),
           NEW clean \in IF decide.ok /\ cleaned
                         THEN Calls(decide.history, CleanedCall(decide.history))
                         ELSE {decide}
    PROVE  /\ clean.history \in Seq(Journal!Transition)
           /\ Journal!IsHistory(clean.history)
           /\ ~Journal!Recorded(clean.history, "failed")
           /\ ~Journal!Recorded(decide.history, "failed")
           /\ \/ clean.ok = TRUE /\ Completes(clean.history)
              \/ clean.ok = FALSE /\ WritesMayFail
<1>1. \/ decide.ok = TRUE /\ Reaches(decide.history, 13)
      \/ decide.ok = FALSE /\ WritesMayFail /\ Reaches(decide.history, 12)
  <2>1. Covers(KubernetesCompletion \o <<"succeeded">>, 6, 13)
    BY ListedCalls
  <2>2. PICK call \in {KubernetesCompletion \o <<"succeeded">>}, n \in 0..13, b \in {6} :
           n = 12
    OBVIOUS
  <2>9. Len(call) = 7 /\ call = KubernetesCompletion \o <<"succeeded">> /\ b = 6
    <3>1. Len(call) \in Nat /\ 13 = 6 + Len(call)
      BY <2>1, <2>2 DEF Covers
    <3> QED BY <2>2, <3>1
  <2>3. /\ Len(call) = 7 /\ \A i \in 1..Len(call) : call[i] = Journal!Linear[b + i]
        /\ decide \in Calls(h, call) /\ Reaches(h, n)
    BY <2>1, <2>2, <2>9 DEF Covers
  <2>4. /\ Len(call) \in Nat /\ b \in 0..n /\ n <= b + Len(call) /\ b + Len(call) <= 13
        /\ b # n => b >= 6 /\ n <= 12
    BY <2>2, <2>3
  <2>5. \/ decide.ok = TRUE /\ Reaches(decide.history, b + Len(call))
        \/ /\ decide.ok = FALSE /\ WritesMayFail
           /\ \E m \in n..b + Len(call) - 1 : Reaches(decide.history, m)
    BY <2>3, <2>4, CallAdvances
  <2>6. b + Len(call) = 13 /\ \A m \in n..b + Len(call) - 1 : m = 12
    BY <2>2, <2>3
  <2> QED BY <2>5, <2>6
<1>2. /\ decide.history \in Seq(Journal!Transition) /\ Journal!IsHistory(decide.history)
      /\ ~Journal!Recorded(decide.history, "failed")
  <2>1. PICK n \in 0..13 : Reaches(decide.history, n)
    BY <1>1
  <2> QED BY <2>1, HistoryReached DEF Reaches
<1>3. CASE decide.ok = FALSE
  <2>1. clean = decide
    BY <1>3
  <2> QED BY <1>1, <1>2, <1>3, <2>1
<1>4. CASE decide.ok = TRUE
  <2>1. Decided(decide.history) /\ Completes(Append(decide.history, Entry("cleaned")))
    BY <1>1, <1>4, ReachedCompletes
  <2>2. clean \in Calls(decide.history, CleanedCall(decide.history))
    BY <1>4
  <2>3. \/ clean = [history |-> Append(decide.history, Entry("cleaned")), ok |-> TRUE]
        \/ WritesMayFail /\ clean = [history |-> decide.history, ok |-> FALSE]
    BY <2>1, <2>2, CleanedCalls
  <2>4. CASE clean = [history |-> Append(decide.history, Entry("cleaned")), ok |-> TRUE]
    <3>1. clean.ok = TRUE /\ Completes(clean.history)
      BY <2>1, <2>4
    <3> QED BY <1>2, <3>1, CompletedIs DEF Completes
  <2>5. CASE WritesMayFail /\ clean = [history |-> decide.history, ok |-> FALSE]
    BY <1>2, <2>5
  <2> QED BY <2>3, <2>4, <2>5
<1> QED BY <1>1, <1>3, <1>4

LEMMA PassedReportValid ==
    ASSUME StateOK, Canonical, final = "PASSED", Reported(Len(StagesOf(profile)), "none"),
           RequiredStageFailures(profile, report) = {}
    PROVE  ReportValid(profile, report, final)
<1>1. PICK k \in 4..25 : k = Len(StagesOf(profile))
  BY PlannedIn
<1>2. \A i \in 1..k : StagesOf(profile)[i] = All[i]
  BY <1>1, PlannedIn
<1>3. /\ Len(report) = k /\ report \in Seq(Lines)
      /\ \A i \in 1..k : report[i] = [stage |-> All[i], status |-> "PASSED"]
  BY <1>1 DEF Reported, StateOK, Lines
<1>4. DOMAIN report = 1..k
  BY <1>3
<1>5. \A i \in 1..k : report[i].stage = All[i] /\ report[i].status = "PASSED"
  BY <1>3
<1>6. FinalStatusValid(report, final)
  BY <1>4, <1>5 DEF FinalStatusValid
<1>7. StageSequenceValid(profile, report, final)
  BY <1>1, <1>2, <1>3, <1>4, <1>5 DEF StageSequenceValid
<1> QED BY <1>6, <1>7 DEF ReportValid

\* What a report says that names n passed stages and the one that ended the run.
LEMMA ReportedIs ==
    ASSUME StateOK, NEW n \in 0..24, final \in {"FAILED", "BLOCKED"}, Reported(n, final)
    PROVE  /\ report \in Seq(Lines) /\ Len(report) = n + 1 /\ DOMAIN report = 1..n + 1
           /\ \A i \in 1..n : report[i].stage = All[i] /\ report[i].status = "PASSED"
           /\ report[n + 1].stage = All[n + 1] /\ report[n + 1].status = final
<1>1. /\ Len(report) = n + 1 /\ report \in Seq(Lines)
      /\ \A i \in 1..n : report[i] = [stage |-> All[i], status |-> "PASSED"]
      /\ report[n + 1] = [stage |-> All[n + 1], status |-> final]
  BY DEF Reported, StateOK, Lines
<1>2. DOMAIN report = 1..n + 1
  BY <1>1
<1>3. \A i \in 1..n : report[i].stage = All[i] /\ report[i].status = "PASSED"
  <2>1. ASSUME NEW i \in 1..n
        PROVE  report[i].stage = All[i] /\ report[i].status = "PASSED"
    <3>1. report[i] = [stage |-> All[i], status |-> "PASSED"]
      BY <1>1
    <3> QED BY <3>1
  <2> QED BY <2>1
<1> QED BY <1>1, <1>2, <1>3

LEMMA FailedReportValid ==
    ASSUME StateOK, Canonical, NEW n \in 0..24, n < Len(StagesOf(profile)),
           final \in {"FAILED", "BLOCKED"}, Reported(n, final)
    PROVE  ReportValid(profile, report, final)
<1>1. PICK k \in 4..25 : k = Len(StagesOf(profile))
  BY PlannedIn
<1>2. \A i \in 1..k : StagesOf(profile)[i] = All[i]
  BY <1>1, PlannedIn
<1>3. /\ report \in Seq(Lines) /\ Len(report) = n + 1 /\ DOMAIN report = 1..n + 1
      /\ \A i \in 1..n : report[i].stage = All[i] /\ report[i].status = "PASSED"
      /\ report[n + 1].stage = All[n + 1] /\ report[n + 1].status = final
  BY ReportedIs
<1>4. \A i \in 1..n + 1 : (i \in 1..n \/ i = n + 1) /\ i \in 1..k
  BY <1>1
<1>5. n + 1 \in DOMAIN report /\ n + 1 <= k
  <2>1. n < k
    BY <1>1
  <2>2. n + 1 \in 1..n + 1 /\ n + 1 <= k
    BY <2>1
  <2> QED BY <1>3, <2>2
<1>6. \A i \in DOMAIN report : /\ report[i].stage = StagesOf(profile)[i]
                               /\ report[i].status \in {"PASSED", final}
  BY <1>2, <1>3, <1>4
<1>7. FinalStatusValid(report, final)
  BY <1>3, <1>5, <1>6 DEF FinalStatusValid, Reports
<1>8. report # <<>> /\ n + 1 - 1 = n
  BY <1>3
<1>9. StageSequenceValid(profile, report, final)
  <2>1. Len(report) <= Len(StagesOf(profile))
    BY <1>1, <1>3, <1>5
  <2>2. report[Len(report)].status = final
    BY <1>3
  <2>3. \A i \in 1..Len(report) - 1 : report[i].status = "PASSED"
    BY <1>3, <1>8
  <2> QED BY <1>6, <1>8, <2>1, <2>2, <2>3 DEF StageSequenceValid
<1> QED BY <1>7, <1>9 DEF ReportValid

\* The stages a closed bundle claims were seen by the journal.
LEMMA ClaimsWereSeen ==
    ASSUME StateOK, NEW n \in 0..24, final \in {"FAILED", "BLOCKED"}, Reported(n, final),
           NEW reached \in 0..12, Seen(n, reached), NEW h, Ends(h, reached)
    PROVE  \A claim \in {<<"server-side-dry-run", "cluster_preparing">>,
                         <<"deployment", "applying">>, <<"rollout", "waiting_ready">>,
                         <<"health", "smoke_testing">>, <<"readiness", "smoke_testing">>,
                         <<"rollback", "collecting_evidence">>} :
              ReportedPassed(claim[1]) => Journal!Recorded(h, claim[2])
<1>1. /\ DOMAIN report = 1..n + 1
      /\ \A i \in 1..n : report[i].stage = All[i]
      /\ report[n + 1].status # "PASSED"
  BY ReportedIs
<1>2. \A i \in 1..reached : Journal!Recorded(h, Journal!Linear[i])
  BY EndsFailed
<1>3. ASSUME NEW k \in 1..25, ReportedPassed(All[k])
      PROVE  k <= n
  <2>1. PICK i \in 1..n + 1 : report[i] = [stage |-> All[k], status |-> "PASSED"]
    BY <1>1, <1>3 DEF ReportedPassed
  <2>2. report[i].stage = All[k] /\ report[i].status = "PASSED"
    BY <2>1
  <2>6. i # n + 1
    BY <1>1, <2>2
  <2>3. i \in 1..n /\ i \in 1..25
    BY <2>6
  <2>4. All[i] = All[k]
    BY <1>1, <2>2, <2>3
  <2>5. i = k
    BY <2>3, <2>4, StageOrder
  <2> QED BY <2>3, <2>5
<1>4. /\ ReportedPassed(All[13]) => Journal!Recorded(h, Journal!Linear[7])
      /\ ReportedPassed(All[14]) => Journal!Recorded(h, Journal!Linear[8])
      /\ ReportedPassed(All[15]) => Journal!Recorded(h, Journal!Linear[9])
      /\ ReportedPassed(All[17]) => Journal!Recorded(h, Journal!Linear[10])
      /\ ReportedPassed(All[18]) => Journal!Recorded(h, Journal!Linear[10])
      /\ ReportedPassed(All[19]) => Journal!Recorded(h, Journal!Linear[12])
  <2>1. /\ 13 <= n => 7 \in 1..reached
        /\ 14 <= n => 8 \in 1..reached
        /\ 15 <= n => 9 \in 1..reached
        /\ 17 <= n => 10 \in 1..reached
        /\ 18 <= n => 10 \in 1..reached
        /\ 19 <= n => 12 \in 1..reached
    BY DEF Seen
  <2>2. \A i \in 1..reached : i \in 1..12
    OBVIOUS
  <2> QED BY <1>2, <1>3, <2>1, <2>2
<1>5. /\ Journal!Linear[7] = "cluster_preparing" /\ Journal!Linear[8] = "applying"
      /\ Journal!Linear[9] = "waiting_ready" /\ Journal!Linear[10] = "smoke_testing"
      /\ Journal!Linear[12] = "collecting_evidence"
  BY DEF Journal!Linear
<1> QED BY <1>4, <1>5, StageNames

\* What holds when the bundle is closed or refused, whatever the journal says.
LEMMA EndKeeps ==
    ASSUME IInv, pc = "close", pc' = "done", options' = options, results' = results,
           stage' = stage, failed' = failed, started' = started, attested' = attested,
           escaping' = escaping, objects' = objects, existing' = existing,
           unknown' = unknown, cleaned' = cleaned, retained' = retained,
           report' = report, final' = final,
           outcome' \in {"closed", "records", "raised"},
           journal' \in Seq(Journal!Transition), blamed' \in StageIds \cup {"none"},
           Canonical \/ journal' = <<>>,
           DoneInv'
    PROVE  IInv'
<1>1. StateOK /\ EndInv /\ LeftInv
  BY DEF IInv
<1>2. Canonical' = Canonical /\ profile' = profile /\ Status(20)' = Status(20)
  BY DEF Canonical, profile, Status
<1>3. StateOK'
  BY <1>1 DEF StateOK, Labels
<1>4. EndInv'
  BY <1>1, <1>2 DEF EndInv
<1>5. GoingInv' /\ CleanupInv' /\ FinishInv' /\ CloseInv'
  BY DEF GoingInv, CleanupInv, FinishInv, CloseInv, Going, Early, Deploying
<1>6. LeftInv'
  BY <1>1, <1>2 DEF LeftInv, Retains
<1> QED BY <1>3, <1>4, <1>5, <1>6 DEF IInv

LEMMA CloseWithoutWriterKeeps == IInv /\ CloseWithoutWriter => IInv'
<1> SUFFICES ASSUME IInv, CloseWithoutWriter PROVE IInv'
  OBVIOUS
<1>1. /\ pc = "close" /\ pc' = "done" /\ Canonical /\ ~started /\ outcome' = "raised"
      /\ options' = options /\ results' = results /\ stage' = stage /\ failed' = failed
      /\ started' = started /\ attested' = attested /\ journal' = journal
      /\ blamed' = blamed /\ escaping' = escaping /\ objects' = objects
      /\ existing' = existing /\ unknown' = unknown /\ cleaned' = cleaned
      /\ retained' = retained /\ report' = report /\ final' = final
  BY DEF CloseWithoutWriter, At, Goto, progress, resources
<1>2. StateOK /\ CloseInv
  BY DEF IInv
<1>3. /\ journal \in Seq(Journal!Transition) /\ blamed \in StageIds \cup {"none"}
  BY <1>2 DEF StateOK
<1>4. \/ journal = <<>>
      \/ \E n \in 0..12 : Breaks(journal, n) \/ Reaches(journal, n)
  <2>1. ClosesPassed \/ ClosesFailed \/ ClosesSilent
    BY <1>1, <1>2 DEF CloseInv
  <2>2. ClosesPassed => FALSE
    BY <1>1 DEF ClosesPassed
  <2>3. ClosesFailed => journal = <<>>
    BY <1>1 DEF ClosesFailed
  <2>4. ClosesSilent => \/ journal = <<>>
                        \/ \E n \in 0..12 : Breaks(journal, n) \/ Reaches(journal, n)
    BY DEF ClosesSilent
  <2> QED BY <2>1, <2>2, <2>3, <2>4
<1>5. Journal!IsHistory(journal) /\ (Journal!Recorded(journal, "failed") => failed)
  <2>1. final # "PASSED" /\ failed
    <3>1. ~ClosesPassed
      BY <1>1 DEF ClosesPassed
    <3> QED BY <1>1, <1>2, <3>1 DEF CloseInv
  <2>2. CASE journal = <<>>
    <3>1. Reaches(journal, 0)
      BY <2>2, NothingReached
    <3>2. PICK n \in 0..13 : n = 0
      OBVIOUS
    <3> QED BY <2>1, <3>1, <3>2, HistoryReached
  <2>3. CASE \E n \in 0..12 : Breaks(journal, n) \/ Reaches(journal, n)
    <3>1. PICK n \in 0..12 : Breaks(journal, n) \/ Reaches(journal, n)
      BY <2>3
    <3>2. n \in 0..13
      OBVIOUS
    <3> QED BY <2>1, <3>1, <3>2, HistoryReached, HistoryBroken
  <2> QED BY <1>4, <2>2, <2>3
<1>6. DoneInv'
  BY <1>1, <1>5 DEF DoneInv, SuccessIsEarned, StartedRunCloses, PassedStagesWereSeen,
                    JournalTellsTheOutcome
<1> QED BY <1>1, <1>3, <1>6, EndKeeps

LEMMA WriteRecordsKeeps == IInv /\ WriteRecords => IInv'
<1> SUFFICES ASSUME IInv, WriteRecords PROVE IInv'
  OBVIOUS
<1>1. /\ pc = "close" /\ pc' = "done" /\ ~Canonical /\ outcome' \in {"records", "raised"}
      /\ options' = options /\ results' = results /\ stage' = stage /\ failed' = failed
      /\ started' = started /\ attested' = attested /\ journal' = journal
      /\ blamed' = blamed /\ escaping' = escaping /\ objects' = objects
      /\ existing' = existing /\ unknown' = unknown /\ cleaned' = cleaned
      /\ retained' = retained /\ report' = report /\ final' = final
  BY DEF WriteRecords, At, Goto, progress, resources
<1>2. StateOK /\ CloseInv
  BY DEF IInv
<1>3. /\ journal \in Seq(Journal!Transition) /\ blamed \in StageIds \cup {"none"}
  BY <1>2 DEF StateOK
<1>4. /\ journal = <<>>
      /\ final = "PASSED" => /\ RequiredStageFailures(profile, report) = {}
                             /\ existing = {} /\ ~retained
  BY <1>1, <1>2 DEF CloseInv
<1>5. Journal!IsHistory(journal) /\ ~Journal!Recorded(journal, "failed")
  <2>1. PICK n \in 0..13 : n = 0
    OBVIOUS
  <2> QED BY <1>4, <2>1, NothingReached, HistoryReached
<1>6. Canonical' = Canonical /\ profile' = profile
  BY <1>1 DEF Canonical, profile
<1>7. SuccessIsEarned'
  BY <1>1, <1>4, <1>6 DEF SuccessIsEarned
<1>8. StartedRunCloses' /\ PassedStagesWereSeen' /\ JournalTellsTheOutcome'
  BY <1>1, <1>5, <1>6 DEF StartedRunCloses, PassedStagesWereSeen, JournalTellsTheOutcome
<1>9. DoneInv'
  BY <1>7, <1>8 DEF DoneInv
<1> QED BY <1>1, <1>3, <1>4, <1>9, EndKeeps

\* What closing makes of the two calls that end the journal.
Closes(decide, clean) ==
    /\ journal' = clean.history
    /\ blamed' = IF /\ Journal!Recorded(decide.history, "failed")
                    /\ ~Journal!Recorded(journal, "failed")
                 THEN stage ELSE blamed
    /\ \/ /\ clean.ok /\ BundleAccepted(clean.history)
          /\ outcome' = "closed"
       \/ /\ ~clean.ok \/ ~BundleAccepted(clean.history) \/ WritesMayFail
          /\ outcome' = "raised"

\* The evidence of a run is never what its bundle is refused for.
LEMMA EvidenceIsAccepted ==
    ASSUME EvidenceInv, NEW history
    PROVE  BundleAccepted(history) <=> /\ ReportValid(profile, report, final)
                                       /\ StateRecordValid(history)
                                       /\ DeclaredFilesExist
<1>1. SameDigest(evidence)
  BY DEF EvidenceInv, SameDigest
<1>2. EvidenceRequired
  BY DEF EvidenceInv, EvidenceRequired, Complete, Canonical
<1> QED BY <1>1, <1>2 DEF BundleAccepted

LEMMA CloseBundleKeeps == IInv /\ EvidenceInv /\ CloseBundle => IInv'
<1> SUFFICES ASSUME IInv, EvidenceInv, CloseBundle PROVE IInv'
  OBVIOUS
<1>1. /\ pc = "close" /\ pc' = "done" /\ Canonical /\ started
      /\ options' = options /\ results' = results /\ stage' = stage /\ failed' = failed
      /\ started' = started /\ attested' = attested
      /\ escaping' = escaping /\ objects' = objects
      /\ existing' = existing /\ unknown' = unknown /\ cleaned' = cleaned
      /\ retained' = retained /\ report' = report /\ final' = final
      /\ evidence' = evidence
  BY DEF CloseBundle, At, Goto, resources
<1>12. PICK decide \in Calls(journal, IF final = "PASSED"
                                      THEN KubernetesCompletion \o <<"succeeded">>
                                      ELSE FailCall(journal)) :
          \E clean \in IF decide.ok /\ cleaned
                       THEN Calls(decide.history, CleanedCall(decide.history))
                       ELSE {decide} : Closes(decide, clean)
  BY DEF CloseBundle, Closes
<1>13. PICK clean \in IF decide.ok /\ cleaned
                      THEN Calls(decide.history, CleanedCall(decide.history))
                      ELSE {decide} : Closes(decide, clean)
  BY <1>12
<1>2. /\ decide \in Calls(journal, IF final = "PASSED"
                                    THEN KubernetesCompletion \o <<"succeeded">>
                                    ELSE FailCall(journal))
      /\ clean \in IF decide.ok /\ cleaned
                   THEN Calls(decide.history, CleanedCall(decide.history))
                   ELSE {decide}
      /\ journal' = clean.history
      /\ blamed' = IF /\ Journal!Recorded(decide.history, "failed")
                      /\ ~Journal!Recorded(journal, "failed")
                   THEN stage ELSE blamed
      /\ \/ /\ clean.ok
            /\ ReportValid(profile, report, final)
            /\ StateRecordValid(clean.history)
            /\ outcome' = "closed"
         \/ /\ \/ ~clean.ok
               \/ ~ReportValid(profile, report, final)
               \/ ~StateRecordValid(clean.history)
               \/ ~DeclaredFilesExist
               \/ WritesMayFail
            /\ outcome' = "raised"
  BY <1>12, <1>13, EvidenceIsAccepted DEF Closes
<1>3. StateOK /\ CloseInv /\ cleaned \in BOOLEAN /\ stage \in StageIds
      /\ blamed \in StageIds \cup {"none"} /\ failed \in BOOLEAN
  BY DEF IInv, StateOK
<1>4. /\ failed <=> final # "PASSED"
      /\ ClosesPassed \/ (failed /\ (ClosesFailed \/ ClosesSilent))
      /\ final = "PASSED" => /\ RequiredStageFailures(profile, report) = {}
                             /\ existing = {} /\ ~retained
  BY <1>1, <1>3 DEF CloseInv
<1>5. /\ outcome' \in {"closed", "raised"} /\ blamed' \in StageIds \cup {"none"}
      /\ profile' = profile /\ Canonical' = Canonical /\ WritesMayFail' = WritesMayFail
      /\ DeclaredFilesExist' = DeclaredFilesExist
  BY <1>1, <1>2, <1>3 DEF profile, Canonical, WritesMayFail, DeclaredFilesExist
<1>6. ASSUME journal' \in Seq(Journal!Transition), DoneInv' PROVE IInv'
  BY <1>1, <1>5, <1>6, EndKeeps
<1>7. CASE ClosesPassed
  <2>1. /\ final = "PASSED" /\ failed = FALSE /\ cleaned = TRUE
        /\ Reported(Len(StagesOf(profile)), "none") /\ Reaches(journal, 12)
    BY <1>3, <1>7 DEF ClosesPassed
  <2>2. RequiredStageFailures(profile, report) = {} /\ existing = {} /\ ~retained
    BY <1>4, <2>1
  <2>3. ReportValid(profile, report, final)
    BY <1>1, <1>3, <2>1, <2>2, PassedReportValid
  <2>4. decide \in Calls(journal, KubernetesCompletion \o <<"succeeded">>)
    BY <1>2, <2>1
  <2>5. clean \in IF decide.ok /\ cleaned
                  THEN Calls(decide.history, CleanedCall(decide.history)) ELSE {decide}
    BY <1>2
  <2>6. /\ clean.history \in Seq(Journal!Transition)
        /\ Journal!IsHistory(clean.history)
        /\ ~Journal!Recorded(clean.history, "failed")
        /\ \/ clean.ok = TRUE /\ Completes(clean.history)
           \/ clean.ok = FALSE /\ WritesMayFail
    BY <2>1, <2>4, <2>5, PassedCloses
  <2>7. CASE clean.ok = TRUE /\ Completes(clean.history)
    <3>1. /\ Journal!Recorded(clean.history, "succeeded")
          /\ Journal!Current(clean.history) = "cleaned"
          /\ \A i \in 1..13 : Journal!Recorded(clean.history, Journal!Linear[i])
      BY <2>7, CompletedIs
    <3>2. StateRecordValid(clean.history)
      BY <2>1, <2>6, <3>1 DEF StateRecordValid
    <3>3. outcome' = "closed" \/ ~DeclaredFilesExist \/ WritesMayFail
      BY <1>2, <2>3, <2>7, <3>2
    <3>4. /\ \A i \in 1..13 : journal'[i].state = Journal!Linear[i]
          /\ Len(journal') = 14 /\ journal'[14].state = "cleaned"
      BY <1>2, <2>7 DEF Completes
    <3>5. SuccessIsEarned'
      BY <1>1, <1>5, <2>2, <3>4 DEF SuccessIsEarned
    <3>6. StartedRunCloses'
      BY <1>5, <3>3 DEF StartedRunCloses
    <3>7. PassedStagesWereSeen'
      <4>1. /\ Journal!Linear[7] = "cluster_preparing" /\ Journal!Linear[8] = "applying"
            /\ Journal!Linear[9] = "waiting_ready" /\ Journal!Linear[10] = "smoke_testing"
            /\ Journal!Linear[12] = "collecting_evidence"
        BY DEF Journal!Linear
      <4>2. \A i \in {7, 8, 9, 10, 12} : Journal!Recorded(journal', Journal!Linear[i])
        BY <1>2, <3>1
      <4>3. /\ Journal!Recorded(journal', "cluster_preparing")
            /\ Journal!Recorded(journal', "applying")
            /\ Journal!Recorded(journal', "waiting_ready")
            /\ Journal!Recorded(journal', "smoke_testing")
            /\ Journal!Recorded(journal', "collecting_evidence")
        BY <4>1, <4>2
      <4> QED BY <4>3 DEF PassedStagesWereSeen
    <3>8. JournalTellsTheOutcome'
      BY <1>1, <1>2, <2>1, <2>6, <3>1 DEF JournalTellsTheOutcome
    <3>9. DoneInv'
      BY <3>5, <3>6, <3>7, <3>8 DEF DoneInv
    <3> QED BY <1>2, <1>6, <2>6, <3>9
  <2>8. CASE clean.ok = FALSE /\ WritesMayFail
    <3>1. outcome' = "raised"
      BY <1>2, <2>8
    <3>2. DoneInv'
      BY <1>1, <1>2, <1>5, <2>6, <2>8, <3>1
         DEF DoneInv, SuccessIsEarned, StartedRunCloses, PassedStagesWereSeen,
             JournalTellsTheOutcome
    <3> QED BY <1>2, <1>6, <2>6, <3>2
  <2> QED BY <2>6, <2>7, <2>8
<1>8. ASSUME failed, NEW n \in 0..12, Breaks(journal, n) \/ Reaches(journal, n)
      PROVE  /\ final # "PASSED"
             /\ clean.history \in Seq(Journal!Transition)
             /\ Journal!IsHistory(clean.history)
             /\ \/ clean.ok = TRUE /\ Ends(clean.history, n)
                \/ clean.ok = FALSE /\ (WritesMayFail \/ (n = 0 /\ Reaches(journal, n)))
             /\ Breaks(journal, n) => blamed' = blamed
             /\ Reaches(journal, n) /\ clean.ok = TRUE => blamed' = stage
  <2>1. final # "PASSED"
    BY <1>4, <1>8
  <2>2. decide \in Calls(journal, FailCall(journal))
    BY <1>2, <2>1
  <2>3. clean \in IF decide.ok /\ cleaned
                  THEN Calls(decide.history, CleanedCall(decide.history)) ELSE {decide}
    BY <1>2
  <2>4. PICK h \in {journal} : h = journal
    OBVIOUS
  <2>5. /\ clean.history \in Seq(Journal!Transition)
        /\ Journal!IsHistory(clean.history)
        /\ \/ clean.ok = TRUE /\ Ends(clean.history, n)
           \/ clean.ok = FALSE /\ (WritesMayFail \/ (n = 0 /\ Reaches(journal, n)))
        /\ Breaks(journal, n) => Journal!Recorded(journal, "failed")
        /\ Reaches(journal, n) => ~Journal!Recorded(journal, "failed")
        /\ clean.ok = TRUE => Journal!Recorded(decide.history, "failed")
    BY <1>3, <1>8, <2>2, <2>3, FailedCloses
  <2> QED BY <1>2, <2>1, <2>5
<1>9. CASE failed /\ ClosesFailed
  <2>1. /\ final \in {"FAILED", "BLOCKED"}
        /\ \E n \in 0..24 :
              /\ n < Len(StagesOf(profile))
              /\ Reported(n, final)
              /\ \/ \E reached \in 0..12 :
                       /\ Breaks(journal, reached) /\ Seen(n, reached)
                       /\ blamed = All[n + 1]
                 \/ Reaches(journal, 12) /\ n = 19 /\ stage = "cleanup"
    BY <1>1, <1>9 DEF ClosesFailed
  <2>2. PICK n \in 0..24 :
           /\ n < Len(StagesOf(profile))
           /\ Reported(n, final)
           /\ \/ \E reached \in 0..12 :
                    /\ Breaks(journal, reached) /\ Seen(n, reached)
                    /\ blamed = All[n + 1]
              \/ Reaches(journal, 12) /\ n = 19 /\ stage = "cleanup"
    BY <2>1
  <2>3. PICK reached \in 0..12 :
           /\ Breaks(journal, reached) \/ Reaches(journal, reached)
           /\ Seen(n, reached)
           /\ Breaks(journal, reached) => blamed = All[n + 1]
           /\ ~Breaks(journal, reached) => stage = All[n + 1]
           /\ reached # 0 \/ ~Reaches(journal, reached)
    <3>1. CASE \E reached \in 0..12 : /\ Breaks(journal, reached) /\ Seen(n, reached)
                                      /\ blamed = All[n + 1]
      <4>1. PICK reached \in 0..12 : /\ Breaks(journal, reached) /\ Seen(n, reached)
                                     /\ blamed = All[n + 1]
        BY <3>1
      <4>2. reached # 0
        BY <4>1 DEF Breaks
      <4> QED BY <4>1, <4>2
    <3>2. CASE Reaches(journal, 12) /\ n = 19 /\ stage = "cleanup"
      <4>1. PICK reached \in 0..12 : reached = 12
        OBVIOUS
      <4>2. Reaches(journal, reached) /\ reached # 0
        BY <3>2, <4>1
      <4>3. ~Breaks(journal, reached)
        BY <4>2 DEF Breaks, Reaches
      <4>4. Seen(n, reached) /\ All[n + 1] = "cleanup"
        BY <3>2, <4>1, StageNames DEF Seen
      <4> QED BY <3>2, <4>2, <4>3, <4>4
    <3> QED BY <2>2, <3>1, <3>2
  <2>4. /\ final # "PASSED"
        /\ clean.history \in Seq(Journal!Transition)
        /\ Journal!IsHistory(clean.history)
        /\ \/ clean.ok = TRUE /\ Ends(clean.history, reached)
           \/ clean.ok = FALSE /\ (WritesMayFail \/ (reached = 0 /\ Reaches(journal, reached)))
        /\ Breaks(journal, reached) => blamed' = blamed
        /\ Reaches(journal, reached) /\ clean.ok = TRUE => blamed' = stage
    BY <1>8, <1>9, <2>3
  <2>5. ReportValid(profile, report, final)
    BY <1>1, <1>3, <2>1, <2>2, FailedReportValid
  <2>6. /\ Len(report) = n + 1 /\ report[n + 1].stage = All[n + 1]
    BY <1>3, <2>1, <2>2, ReportedIs
  <2>7. CASE clean.ok = TRUE /\ Ends(clean.history, reached)
    <3>1. /\ Journal!Recorded(clean.history, "failed")
          /\ ~Journal!Recorded(clean.history, "succeeded")
          /\ Journal!Current(clean.history) \in {"failed", "cleaned"}
      BY <2>7, EndsFailed
    <3>2. StateRecordValid(clean.history)
      BY <2>4, <3>1 DEF StateRecordValid
    <3>3. outcome' = "closed" \/ ~DeclaredFilesExist \/ WritesMayFail
      BY <1>2, <2>5, <2>7, <3>2
    <3>4. SuccessIsEarned'
      BY <1>1, <2>4 DEF SuccessIsEarned
    <3>5. StartedRunCloses'
      BY <1>5, <3>3 DEF StartedRunCloses
    <3>6. PassedStagesWereSeen'
      <4>1. \A claim \in {<<"server-side-dry-run", "cluster_preparing">>,
                          <<"deployment", "applying">>, <<"rollout", "waiting_ready">>,
                          <<"health", "smoke_testing">>, <<"readiness", "smoke_testing">>,
                          <<"rollback", "collecting_evidence">>} :
               ReportedPassed(claim[1]) => Journal!Recorded(clean.history, claim[2])
        BY <1>3, <2>1, <2>2, <2>3, <2>7, ClaimsWereSeen
      <4> QED BY SMTT(30), <1>1, <1>2, <4>1 DEF PassedStagesWereSeen, ReportedPassed
    <3>7. report'[Len(report')].stage = blamed'
      BY <1>1, <2>3, <2>4, <2>6, <2>7
    <3>8. JournalTellsTheOutcome'
      BY <1>1, <1>2, <1>9, <2>4, <3>1, <3>7 DEF JournalTellsTheOutcome
    <3>9. DoneInv'
      BY <3>4, <3>5, <3>6, <3>8 DEF DoneInv
    <3> QED BY <1>2, <1>6, <2>4, <3>9
  <2>8. CASE clean.ok = FALSE /\ (WritesMayFail \/ (reached = 0 /\ Reaches(journal, reached)))
    <3>1. outcome' = "raised" /\ WritesMayFail
      BY <1>2, <2>3, <2>8
    <3>2. DoneInv'
      BY <1>1, <1>2, <1>5, <1>9, <2>4, <3>1
         DEF DoneInv, SuccessIsEarned, StartedRunCloses, PassedStagesWereSeen,
             JournalTellsTheOutcome
    <3> QED BY <1>2, <1>6, <2>4, <3>2
  <2> QED BY <2>4, <2>7, <2>8
<1>10. CASE failed /\ ClosesSilent
  <2>1. /\ final = "FAILED"
        /\ \A i \in DOMAIN report : report[i].status \in {"PASSED", "NOT_APPLICABLE"}
        /\ \/ WritesMayFail
           \/ retained /\ RequiredStageFailures(profile, report) = {"cleanup"}
        /\ \E reached \in 0..12 : Breaks(journal, reached) \/ Reaches(journal, reached)
    BY <1>1, <1>10 DEF ClosesSilent
  <2>2. PICK reached \in 0..12 : Breaks(journal, reached) \/ Reaches(journal, reached)
    BY <2>1
  <2>3. /\ clean.history \in Seq(Journal!Transition)
        /\ Journal!IsHistory(clean.history)
    BY <1>8, <1>10, <2>2
  <2>4. ~ReportValid(profile, report, final)
    BY <2>1 DEF ReportValid, FinalStatusValid, Reports
  <2>5. outcome' = "raised"
    BY <1>2, <2>4
  <2>6. SuccessIsEarned' /\ PassedStagesWereSeen' /\ JournalTellsTheOutcome'
    BY <1>1, <1>2, <1>10, <2>3, <2>5 DEF SuccessIsEarned, PassedStagesWereSeen,
                                         JournalTellsTheOutcome
  <2>7. StartedRunCloses'
    BY <1>1, <1>5, <2>1 DEF StartedRunCloses
  <2>8. DoneInv'
    BY <2>6, <2>7 DEF DoneInv
  <2> QED BY <1>2, <1>6, <2>3, <2>8
<1> QED BY <1>4, <1>7, <1>9, <1>10

-----------------------------------------------------------------------------
(* The evidence. *)

LEMMA EvidenceAtFirst == Init => EvidenceInv
<1> SUFFICES ASSUME Init PROVE EvidenceInv
  OBVIOUS
<1>1. /\ evidence.artifact = "none" /\ evidence.supply = "none"
      /\ evidence.deployment = FALSE /\ evidence \in Evidence
      /\ pc = "static" /\ final = "none"
  BY DEF Init, Evidence
<1>2. pc \in Going /\ pc \notin Resolved /\ pc \notin Accepted
  BY <1>1 DEF Going, Early, Deploying, Resolved, Accepted
<1> QED BY <1>1, <1>2 DEF EvidenceInv

\* Steps that gather no evidence.
LEMMA EvidenceStays ==
    ASSUME EvidenceInv, evidence' = evidence, options' = options,
           pc' \in Going => pc \in Going,
           pc' \in Going => (pc' \in Resolved <=> pc \in Resolved),
           pc' \in Accepted => pc \in Accepted,
           pc' \notin Going /\ ~failed' /\ ~escaping' => Complete,
           final' = "PASSED" => Complete
    PROVE  EvidenceInv'
<1>1. profile' = profile /\ Canonical' = Canonical /\ Complete' = Complete
  BY DEF profile, Canonical, Complete
<1>2. Resolved \subseteq Going
  BY DEF Resolved, Accepted, Going
<1> QED BY <1>1, <1>2 DEF EvidenceInv

\* How a step before the cleanup ends.
Turns(next) ==
    \/ pc' = next
    \/ pc' = "cleanup" /\ (failed' = TRUE \/ escaping' = TRUE)

LEMMA RaisesTurns ==
    ASSUME NEW s, NEW status, NEW found, NEW writer, NEW history, NEW next,
           Raises(s, status, found, writer, history)
    PROVE  pc' = "cleanup" /\ failed' = TRUE /\ Turns(next)
BY DEF Raises, Goto, Turns

LEMMA AnnouncesTurns ==
    ASSUME NEW s, NEW found, NEW call, NEW next, Announces(s, found, call, next)
    PROVE  Turns(next)
<1>1. PICK c \in Calls(journal, IF started THEN call ELSE <<>>) :
        \/ Proceeds(s, found, started, c.history, next)
        \/ Raises(s, "FAILED", found, started, c.history)
  BY DEF Announces
<1> QED BY <1>1, RaisesTurns DEF Proceeds, Goto, Turns

LEMMA StepGathers ==
    ASSUME IInv, EvidenceInv, pc \in Going, evidence' = evidence, options' = options,
           final' = final, NEW next, Turns(next),
           next \in Going \/ Complete,
           next \in Going => (next \in Resolved <=> pc \in Resolved),
           next \in Accepted => pc \in Accepted
    PROVE  EvidenceInv'
<1>1. final' # "PASSED"
  BY DEF IInv, EndInv, Going, Early, Deploying
<1>2. "cleanup" \notin Going \cup Resolved \cup Accepted
  BY DEF Going, Early, Deploying, Resolved, Accepted
<1> QED BY <1>1, <1>2, EvidenceStays DEF Turns

\* What a canonical run has at hand before its cluster is created, and what
\* the other profiles need.
LEMMA AcceptedIsComplete ==
    ASSUME EvidenceInv, pc \in Accepted, ~Canonical
    PROVE  Complete
BY DEF EvidenceInv, Complete, Accepted, Resolved

LEMMA EarlyGathers ==
    ASSUME IInv, EvidenceInv,
           Static \/ StartRegistry \/ RecordRegistry \/ Begin \/ RegistryLifecycle \/ BuildOnce
    PROVE  EvidenceInv'
<1>1. /\ pc \in Early \cup {"announce", "build"} /\ evidence' = evidence
      /\ options' = options /\ final' = final
  BY DEF Static, StartRegistry, RecordRegistry, Begin, RegistryLifecycle, BuildOnce, Stage,
         At, Early, ending
<1>2. /\ pc \in Going
      /\ \A next \in Early \cup {"announce", "build", "resolve"} :
            next \in Going /\ next \notin Resolved /\ next \notin Accepted
  BY <1>1 DEF Going, Early, Deploying, Resolved, Accepted
<1>10. pc \notin Resolved
  BY <1>1, <1>2
<1>3. ASSUME NEW next \in Early \cup {"announce", "build", "resolve"}, Turns(next)
      PROVE  EvidenceInv'
  BY <1>1, <1>2, <1>3, <1>10, StepGathers
<1>4. CASE Static
  <2>1. \/ pc' = "begin" \/ pc' = "registry"
        \/ pc' = "done" /\ failed' = TRUE
    BY <1>4 DEF Static, Goto
  <2>2. CASE pc' = "done" /\ failed' = TRUE
    <3>1. final' # "PASSED"
      BY <1>1, <1>2 DEF IInv, EndInv, Going, Early, Deploying
    <3>2. "done" \notin Going \cup Resolved \cup Accepted
      BY DEF Going, Early, Deploying, Resolved, Accepted
    <3> QED BY <1>1, <2>2, <3>1, <3>2, EvidenceStays
  <2> QED BY <1>3, <2>1, <2>2 DEF Turns, Early
<1>5. CASE StartRegistry
  <2>1. Turns("record")
    BY <1>5, RaisesTurns DEF StartRegistry, Proceeds, Goto, Turns
  <2> QED BY <1>3, <2>1 DEF Early
<1>6. CASE RecordRegistry
  <2>1. Turns("begin")
    BY <1>6, RaisesTurns DEF RecordRegistry, Proceeds, Goto, Turns
  <2> QED BY <1>3, <2>1 DEF Early
<1>7. CASE Begin
  <2>1. Turns(IF profile = "static" THEN "cleanup" ELSE "announce")
    BY <1>7, RaisesTurns DEF Begin, Proceeds, Goto, Turns
  <2>2. CASE profile = "static"
    <3>1. Complete /\ Turns("cleanup")
      BY <2>1, <2>2 DEF Complete, Canonical
    <3>2. "cleanup" \notin Going /\ "cleanup" \notin Accepted
      BY DEF Going, Early, Deploying, Accepted
    <3> QED BY <1>1, <1>2, <3>1, <3>2, StepGathers
  <2> QED BY <1>3, <2>1, <2>2
<1>8. CASE RegistryLifecycle
  <2>1. Turns("build")
    BY <1>8, AnnouncesTurns DEF RegistryLifecycle
  <2> QED BY <1>3, <2>1
<1>9. CASE BuildOnce
  <2>1. Turns("resolve")
    BY <1>9, AnnouncesTurns, RaisesTurns DEF BuildOnce, Stage
  <2> QED BY <1>3, <2>1
<1> QED BY <1>4, <1>5, <1>6, <1>7, <1>8, <1>9

LEMMA ResolveDigestGathers ==
    ASSUME IInv, EvidenceInv, ResolveDigest
    PROVE  EvidenceInv'
<1>1. PICK build \in {"image", "index", "platforms"} :
        evidence' = [evidence EXCEPT !.artifact = ResolvedArtifact(build)]
  BY DEF ResolveDigest
<1>2. ResolvedArtifact(build) \in {"none", "image"}
  BY DEF ResolvedArtifact
<1>3. /\ pc = "resolve" /\ options' = options /\ final' = final
      /\ \/ pc' = "cleanup" /\ failed' = TRUE
         \/ evidence'.artifact # "none" /\ Turns("supply")
  BY RaisesTurns, AnnouncesTurns DEF ResolveDigest, At, ending
<1>4. /\ final' # "PASSED" /\ profile # "static" /\ pc \in Going /\ pc \notin Resolved
  BY <1>3 DEF IInv, EndInv, GoingInv, GoingAt, Going, Early, Deploying, Resolved, Accepted
<1>5. /\ evidence \in Evidence /\ evidence.deployment = FALSE /\ evidence.supply = "none"
  BY <1>4 DEF EvidenceInv, Evidence
<1>6. /\ evidence' \in Evidence /\ evidence'.artifact \in {"none", "image"}
      /\ evidence'.deployment = FALSE /\ evidence'.supply = "none"
  BY <1>1, <1>2, <1>5 DEF Evidence
<1>7. profile' = profile
  BY <1>3 DEF profile
<1>8. /\ "cleanup" \notin Going \cup Resolved \cup Accepted
      /\ "supply" \in Going \cap Resolved /\ "supply" \notin Accepted
  BY DEF Going, Early, Deploying, Resolved, Accepted
<1> QED BY <1>3, <1>4, <1>6, <1>7, <1>8 DEF EvidenceInv, Turns

LEMMA SupplyChainGathers ==
    ASSUME IInv, EvidenceInv, SupplyChain
    PROVE  EvidenceInv'
<1>1. PICK verdict \in {"none", "refused", "passed"} :
        /\ evidence' = [evidence EXCEPT !.supply = verdict]
        /\ \/ pc' = "cleanup" /\ failed' = TRUE
           \/ verdict = "passed" /\ Turns("contract")
  BY RaisesTurns, AnnouncesTurns DEF SupplyChain
<1>2. pc = "supply" /\ options' = options /\ final' = final
  BY DEF SupplyChain, At, ending
<1>3. final' # "PASSED" /\ profile # "static" /\ pc \in Going /\ pc \in Resolved
  BY <1>2 DEF IInv, EndInv, GoingInv, GoingAt, Going, Early, Deploying, Resolved, Accepted
<1>4. /\ evidence \in Evidence /\ evidence.deployment = FALSE
      /\ evidence.artifact = "image"
  BY <1>3 DEF EvidenceInv, Evidence
<1>5. /\ evidence' \in Evidence /\ evidence'.artifact = "image"
      /\ evidence'.deployment = FALSE /\ evidence'.supply = verdict
  BY <1>1, <1>4 DEF Evidence
<1>6. profile' = profile
  BY <1>2 DEF profile
<1>7. /\ "cleanup" \notin Going \cup Resolved \cup Accepted
      /\ "contract" \in Going \cap Resolved
  BY DEF Going, Early, Deploying, Resolved, Accepted
<1> QED BY <1>1, <1>3, <1>5, <1>6, <1>7 DEF EvidenceInv, Turns

LEMMA CreateClusterGathers ==
    ASSUME IInv, EvidenceInv, CreateCluster
    PROVE  EvidenceInv'
<1>1. WritesMayFail \in BOOLEAN
  BY DEF IInv, StateOK, Options, WritesMayFail
<1>2. PICK written \in BOOLEAN :
        evidence' = [evidence EXCEPT !.ownership = written] \/ evidence' = evidence
  BY <1>1 DEF CreateCluster
<1>3. pc = "cluster" /\ options' = options /\ final' = final /\ Turns("dry-run")
  BY RaisesTurns DEF CreateCluster, At, ending, Proceeds, Goto, Turns
<1>4. /\ final' # "PASSED" /\ pc \in Going /\ pc \in Accepted /\ pc \in Resolved
  BY <1>3 DEF IInv, EndInv, Going, Early, Deploying, Resolved, Accepted
<1>5. evidence \in Evidence
  BY DEF EvidenceInv
<1>6. /\ evidence' \in Evidence /\ evidence'.artifact = evidence.artifact
      /\ evidence'.supply = evidence.supply /\ evidence'.deployment = evidence.deployment
  BY <1>2, <1>5 DEF Evidence
<1>7. profile' = profile /\ Canonical' = Canonical
  BY <1>3 DEF profile, Canonical
<1>8. /\ "cleanup" \notin Going \cup Resolved \cup Accepted
      /\ "dry-run" \in Going \cap Resolved
  BY DEF Going, Early, Deploying, Resolved, Accepted
<1> QED BY <1>3, <1>4, <1>6, <1>7, <1>8 DEF EvidenceInv, Turns

LEMMA DeployedGathers ==
    ASSUME IInv, EvidenceInv, Deployed
    PROVE  EvidenceInv'
<1>1. PICK derived \in BOOLEAN :
        /\ evidence' = [evidence EXCEPT !.deployment = derived]
        /\ \/ pc' = "cleanup" /\ failed' = TRUE
           \/ derived /\ Turns("cleanup")
  BY RaisesTurns, AnnouncesTurns DEF Deployed
<1>2. pc = "deployed" /\ options' = options /\ final' = final
  BY DEF Deployed, At, ending
<1>3. /\ final' # "PASSED" /\ profile # "static" /\ Canonical
      /\ pc \in Going /\ pc \in Resolved /\ pc \in Accepted
  BY <1>2 DEF IInv, EndInv, GoingInv, GoingAt, Going, Early, Deploying, Resolved, Accepted
<1>4. /\ evidence \in Evidence /\ evidence.supply = "passed"
      /\ evidence.artifact = "image"
  BY <1>3 DEF EvidenceInv, Evidence
<1>5. /\ evidence' \in Evidence /\ evidence'.artifact = "image"
      /\ evidence'.deployment = derived /\ evidence'.supply = "passed"
  BY <1>1, <1>4 DEF Evidence
<1>6. profile' = profile /\ Canonical'
  BY <1>2, <1>3 DEF profile, Canonical
<1>7. pc' = "cleanup" /\ "cleanup" \notin Going \cup Resolved \cup Accepted
  BY <1>1 DEF Going, Early, Deploying, Resolved, Accepted, Turns
<1>8. ~failed' /\ ~escaping' => Complete'
  BY <1>1, <1>5 DEF Complete, Turns
<1> QED BY <1>3, <1>5, <1>6, <1>7, <1>8 DEF EvidenceInv

LEMMA LaterGathers ==
    ASSUME IInv, EvidenceInv,
           ArtifactContract \/ KubernetesSchema \/ ServerSideDryRun \/ Executor
    PROVE  EvidenceInv'
<1>1. /\ pc \in Accepted /\ evidence' = evidence
      /\ options' = options /\ final' = final
  BY DEF ArtifactContract, KubernetesSchema, ServerSideDryRun, Executor, ExecutorStep, Stage,
         At, ending, Accepted, Deploying
<1>2. /\ pc \in Going /\ pc \in Resolved
      /\ Deploying \cup {"schema"} \subseteq Going \cap Resolved \cap Accepted
  BY <1>1 DEF Going, Resolved, Accepted
<1>3. ASSUME NEW next \in Deploying \cup {"schema"}, Turns(next)
      PROVE  EvidenceInv'
  BY <1>1, <1>2, <1>3, StepGathers
<1>4. CASE ArtifactContract
  <2>1. Turns(IF Canonical THEN "schema" ELSE "cleanup")
    BY <1>4, AnnouncesTurns, RaisesTurns DEF ArtifactContract, Stage
  <2>2. CASE ~Canonical
    <3>1. Complete /\ Turns("cleanup")
      BY <1>1, <2>1, <2>2, AcceptedIsComplete
    <3>2. "cleanup" \notin Going /\ "cleanup" \notin Accepted
      BY DEF Going, Early, Deploying, Accepted
    <3> QED BY <1>1, <1>2, <3>1, <3>2, StepGathers
  <2> QED BY <1>3, <2>1, <2>2
<1>5. CASE KubernetesSchema
  <2>1. Turns("cluster")
    BY <1>5, AnnouncesTurns, RaisesTurns DEF KubernetesSchema, Stage
  <2> QED BY <1>3, <2>1 DEF Deploying
<1>6. CASE ServerSideDryRun
  <2>1. Turns("namespace")
    BY <1>6, AnnouncesTurns, RaisesTurns DEF ServerSideDryRun, Stage
  <2> QED BY <1>3, <2>1 DEF Deploying
<1>7. CASE Executor
  <2>1. ASSUME NEW label, NEW event, NEW next, ExecutorStep(label, event, next)
        PROVE  Turns(next)
    <3>1. ASSUME NEW inventory, NEW history,
                 RecordKubernetesFailure(label, inventory, history)
          PROVE  Turns(next)
      BY <3>1, RaisesTurns DEF RecordKubernetesFailure, HandlerRaises, Goto, Turns
    <3>2. ASSUME NEW history,
                 \/ \E inventory \in {TRUE, label # "namespace"} :
                       RecordKubernetesFailure(label, inventory, history)
                 \/ Raises("server-side-dry-run", "FAILED", results, started, history)
          PROVE  Turns(next)
      BY <3>1, <3>2, RaisesTurns
    <3>3. ASSUME NEW history, Proceeds(stage, results, started, history, next)
          PROVE  Turns(next)
      BY <3>3 DEF Proceeds, Goto, Turns
    <3> QED BY <2>1, <3>2, <3>3 DEF ExecutorStep
  <2>2. \E next \in Deploying : Turns(next)
    BY <1>7, <2>1 DEF Executor, Deploying
  <2> QED BY <1>3, <2>2
<1> QED BY <1>4, <1>5, <1>6, <1>7

LEMMA EndGathers ==
    ASSUME IInv, EvidenceInv,
           \/ NoCleanup \/ Retain \/ Cleanup \/ Release \/ Finish
           \/ CloseBundle \/ CloseWithoutWriter \/ WriteRecords
    PROVE  EvidenceInv'
<1>1. /\ pc \in {"cleanup", "release", "finish", "close"}
      /\ pc' \in {"release", "finish", "close", "done"}
      /\ evidence' = evidence /\ options' = options /\ escaping' = escaping
  BY DEF NoCleanup, Retain, Cleanup, Release, Finish, CloseBundle, CloseWithoutWriter,
         WriteRecords, AfterCleanup, At, Goto
<1>2. ~failed' => ~failed
  BY DEF IInv, StateOK, NoCleanup, Retain, Cleanup, Release, Finish, CloseBundle,
         CloseWithoutWriter, WriteRecords
<1>3. \/ final' = final
      \/ Finish /\ (final' = "PASSED" => ~failed')
  BY DEF NoCleanup, Retain, Cleanup, Release, Finish, CloseBundle, CloseWithoutWriter,
         WriteRecords
<1>4. pc \notin Going /\ pc' \notin Going /\ pc' \notin Accepted
  BY <1>1 DEF Going, Early, Deploying, Accepted
<1>5. Finish => ~escaping
  BY DEF Finish, At, IInv, FinishInv
<1>6. final' = "PASSED" => Complete
  BY <1>2, <1>3, <1>4, <1>5 DEF EvidenceInv
<1>7. pc' \notin Going /\ ~failed' /\ ~escaping' => Complete
  BY <1>1, <1>2, <1>4 DEF EvidenceInv
<1> QED BY <1>1, <1>4, <1>6, <1>7, EvidenceStays

LEMMA EvidenceKeeps == Inv /\ [Next]_vars => EvidenceInv'
<1> SUFFICES ASSUME IInv, EvidenceInv, [Next]_vars PROVE EvidenceInv'
  BY DEF Inv
<1>1. CASE \/ Static \/ StartRegistry \/ RecordRegistry \/ Begin \/ RegistryLifecycle
           \/ BuildOnce
  BY <1>1, EarlyGathers
<1>2. CASE ResolveDigest \/ SupplyChain \/ CreateCluster \/ Deployed
  BY <1>2, ResolveDigestGathers, SupplyChainGathers, CreateClusterGathers, DeployedGathers
<1>3. CASE ArtifactContract \/ KubernetesSchema \/ ServerSideDryRun \/ Executor
  BY <1>3, LaterGathers
<1>4. CASE \/ NoCleanup \/ Retain \/ Cleanup \/ Release \/ Finish
           \/ CloseBundle \/ CloseWithoutWriter \/ WriteRecords
  BY <1>4, EndGathers
<1>5. CASE Done \/ UNCHANGED vars
  <2>1. /\ pc' = pc /\ evidence' = evidence /\ options' = options /\ final' = final
        /\ failed' = failed /\ escaping' = escaping
    BY <1>5 DEF Done, vars, ending
  <2>2. /\ pc' \notin Going /\ ~failed' /\ ~escaping' => Complete
        /\ final' = "PASSED" => Complete
    BY <2>1 DEF EvidenceInv
  <2> QED BY <2>1, <2>2, EvidenceStays
<1> QED BY <1>1, <1>2, <1>3, <1>4, <1>5 DEF Next

-----------------------------------------------------------------------------
(* Every step. *)

LEMMA StutterKeeps == IInv /\ UNCHANGED vars => IInv'
<1> SUFFICES ASSUME IInv, UNCHANGED vars PROVE IInv'
  OBVIOUS
<1>1. /\ pc' = pc /\ options' = options /\ results' = results /\ stage' = stage
      /\ failed' = failed /\ started' = started /\ attested' = attested
      /\ journal' = journal /\ blamed' = blamed /\ escaping' = escaping
      /\ objects' = objects /\ existing' = existing /\ unknown' = unknown
      /\ cleaned' = cleaned /\ retained' = retained /\ report' = report
      /\ final' = final /\ outcome' = outcome /\ evidence' = evidence
  BY DEF vars, progress, resources, ending
<1>2. StateOK' /\ EndInv' /\ LeftInv'
  BY <1>1 DEF IInv, StateOK, EndInv, LeftInv, Retains, Canonical, profile, Status
<1>3. /\ profile' = profile /\ Canonical' = Canonical /\ WritesMayFail' = WritesMayFail
      /\ Most' = Most /\ \A i : Status(i)' = Status(i)
  BY <1>1 DEF profile, Canonical, WritesMayFail, Most, Status
<1>4. GoingInv'
  BY <1>1, <1>3 DEF IInv, GoingInv, GoingAt
<1>5. (Whole' <=> Whole) /\ (Broken' <=> Broken) /\ (Lost' <=> Lost)
  <2>1. Whole' <=> Whole
    BY <1>1, <1>3 DEF Whole
  <2>2. Broken' <=> Broken
    BY <1>1, <1>3 DEF Broken, BreaksAt
  <2>3. Lost' <=> Lost
    BY <1>1, <1>3 DEF Lost
  <2> QED BY <2>1, <2>2, <2>3
<1>6. CleanupInv'
  BY <1>1, <1>3, <1>5 DEF IInv, CleanupInv
<1>7. FinishInv'
  <2>1. Succeeds' <=> Succeeds
    BY <1>1, <1>3, <1>5 DEF Succeeds
  <2>2. CleanupFails' <=> CleanupFails
    BY <1>1, <1>3, <1>5 DEF CleanupFails
  <2>3. GateFails' <=> GateFails
    BY <1>1, <1>3 DEF GateFails
  <2> QED BY <1>1, <1>3, <1>5, <2>1, <2>2, <2>3 DEF IInv, FinishInv
<1>8. CloseInv'
  <2>1. ClosesPassed' <=> ClosesPassed
    BY <1>1, <1>3 DEF ClosesPassed, Reported
  <2>2. ClosesFailed' <=> ClosesFailed
    BY <1>1, <1>3 DEF ClosesFailed, Reported
  <2>3. ClosesSilent' <=> ClosesSilent
    BY <1>1, <1>3 DEF ClosesSilent
  <2> QED BY <1>1, <1>3, <2>1, <2>2, <2>3 DEF IInv, CloseInv
<1>9. DoneInv'
  BY <1>1, <1>3 DEF IInv, DoneInv, SuccessIsEarned, StartedRunCloses, PassedStagesWereSeen,
                    ReportedPassed, JournalTellsTheOutcome, Finished, At,
                    ExecutorErrorLost, DeclaredFilesExist
<1> QED BY <1>2, <1>4, <1>6, <1>7, <1>8, <1>9 DEF IInv

LEMMA NextKeeps == Inv /\ [Next]_vars => IInv'
<1> SUFFICES ASSUME IInv, EvidenceInv, [Next]_vars PROVE IInv'
  BY DEF Inv
<1>1. CASE Static
  BY <1>1, StaticKeeps
<1>2. CASE StartRegistry \/ RecordRegistry \/ Begin
  BY <1>2, StartRegistryKeeps, RecordRegistryKeeps, BeginKeeps
<1>3. CASE RegistryLifecycle \/ BuildOnce \/ ResolveDigest \/ SupplyChain \/ ArtifactContract
  BY <1>3, RegistryLifecycleKeeps, BuildOnceKeeps, ResolveDigestKeeps, SupplyChainKeeps,
     ArtifactContractKeeps
<1>4. CASE KubernetesSchema \/ CreateCluster \/ ServerSideDryRun \/ Executor \/ Deployed
  BY <1>4, KubernetesSchemaKeeps, CreateClusterKeeps, ServerSideDryRunKeeps, ExecutorKeeps,
     DeployedKeeps
<1>5. CASE NoCleanup \/ Retain \/ Cleanup
  BY <1>5, NoCleanupKeeps, RetainKeeps, CleanupKeeps
<1>6. CASE Release
  BY <1>6, ReleaseKeeps
<1>7. CASE Finish
  BY <1>7, FinishKeeps
<1>8. CASE CloseBundle \/ CloseWithoutWriter \/ WriteRecords
  BY <1>8, CloseBundleKeeps, CloseWithoutWriterKeeps, WriteRecordsKeeps
<1>9. CASE Done \/ UNCHANGED vars
  BY <1>9, StutterKeeps DEF Done
<1> QED BY <1>1, <1>2, <1>3, <1>4, <1>5, <1>6, <1>7, <1>8, <1>9 DEF Next

\* Whatever raises and wherever, a run comes to each of its steps with the
\* stages passed, the journal and the blame that IInv describes, and with the
\* evidence that EvidenceInv does.
THEOREM Invariance == Spec => []Inv
<1>1. Init => Inv
  BY InitHolds, EvidenceAtFirst DEF Inv
<1>2. Inv /\ [Next]_vars => Inv'
  BY NextKeeps, EvidenceKeeps DEF Inv
<1> QED BY <1>1, <1>2, PTL DEF Spec

\* Every variable of a run keeps to its values: in particular nothing exists
\* that execute holds no object for.
THEOREM TypeCorrect == Spec => []TypeOK
<1>1. Inv => TypeOK
  BY DEF Inv, IInv, EvidenceInv, TypeOK
<1> QED BY <1>1, Invariance, PTL

\* A run reports success only if every stage it planned has passed, nothing it
\* created is left or kept, and the journal of a canonical run reads from
\* "planned" to "cleaned".
THEOREM SuccessIsReal == Spec => []SuccessIsEarned
<1>1. Inv => SuccessIsEarned
  BY DEF Inv, IInv, DoneInv, SuccessIsEarned, Finished, At
<1> QED BY <1>1, Invariance, PTL

\* A run that has its journal and can write to its directory ends with a bundle
\* that its own validator accepts, whichever step raised: the evidence it has
\* gathered is never in the way.  What keeps it from that are kept resources of
\* an otherwise successful run, a cluster to be kept that has no ownership
\* record, and an error of the executor that its handler loses.
THEOREM StartedRunsClose == Spec => []StartedRunCloses
<1>1. Inv => StartedRunCloses
  BY DEF Inv, IInv, DoneInv, StartedRunCloses, Finished, At
<1> QED BY <1>1, Invariance, PTL

\* A closed bundle claims no stage of the deployment that the journal has not
\* seen: the table that translates the executor's failures never claims ahead.
THEOREM PassedWereSeen == Spec => []PassedStagesWereSeen
<1>1. Inv => PassedStagesWereSeen
  BY DEF Inv, IInv, DoneInv, PassedStagesWereSeen, Finished, At
<1> QED BY <1>1, Invariance, PTL

\* However execute ends, what it leaves behind was kept on request, reported by
\* a failed cleanup, or never identified.
THEOREM LeftoversKnown == Spec => []LeftoversAreKnown
<1>1. Inv => LeftoversAreKnown
  <2>1. All[20] = "cleanup"
    BY StageNames
  <2> QED BY <2>1 DEF Inv, IInv, LeftInv, LeftoversAreKnown, Finished, At, Status
<1> QED BY <1>1, Invariance, PTL

\* Whatever raises, and in which handler, the journal is one the state machine
\* accepts, with a failure in it only if the run has failed; and the report of a
\* closed bundle tells the same outcome and blames the same stage.
THEOREM JournalIsTrue == Spec => []JournalTellsTheOutcome
<1>1. Inv => JournalTellsTheOutcome
  <2> SUFFICES ASSUME IInv PROVE JournalTellsTheOutcome
    BY DEF Inv
  <2>1. CASE pc = "done"
    BY <2>1 DEF IInv, DoneInv
  <2>2. CASE pc # "done"
    <3>1. outcome = "running"
      BY <2>2 DEF IInv, EndInv
    <3> QED BY <2>2, <3>1, JournalUnderway DEF JournalTellsTheOutcome
  <2> QED BY <2>1, <2>2
<1> QED BY <1>1, Invariance, PTL
=============================================================================
