--------------------------- MODULE TemplateSources ---------------------------
(***************************************************************************)
(* The template lock, the places a template's source is found in, and      *)
(* `templates update`.                                                     *)
(*                                                                         *)
(* A lock pins each template to a commit of its repository.  A source is   *)
(* looked for in local checkouts, whose HEAD their owner may move at any   *)
(* time, then in a cache of checkouts that are renamed into place complete *)
(* and never change, and is otherwise fetched into that cache.             *)
(***************************************************************************)
EXTENDS Naturals, Sequences

CONSTANTS
    Keys,       \* the templates
    Commits,    \* the commits of their repositories
    Marked,     \* the commits that hold every file the adapters require
    License,    \* for each commit, the text of its license
    Origins,    \* where local checkouts are looked for, in order
    Packaged,   \* the lock that comes with the program
    EditedLocks,   \* bound: the locks that the owner of the project writes
    None

ASSUME CommitsAreCommits == Marked \subseteq Commits /\ None \notin Commits
ASSUME PackagedIsALock == Packaged \in [Keys -> Commits] /\ EditedLocks \subseteq [Keys -> Commits]
ASSUME LicensesAreKnown == DOMAIN License = Commits
ASSUME OriginsAreNamed == {"cache", "lock-remote"} \cap {Origins[i] : i \in DOMAIN Origins} = {}

VARIABLES
    lock,       \* templates.lock.json of the project, None if it has none
    head,       \* for each origin and template, the HEAD there, None: no checkout
    cache,      \* the <<template, commit>> pairs in the cache
    remote,     \* for each template, the head of main in its repository
    update      \* the running `templates update --write`

sourceVars == <<lock, head, cache, remote, update>>

Locks == [Keys -> Commits]
Places == {Origins[i] : i \in DOMAIN Origins}
LockInUse == IF lock = None THEN Packaged ELSE lock

------------------------------------------------------------------------------
\* Resolution: the first candidate that exists is taken, whatever it holds.

CheckedOut(k) == {i \in DOMAIN Origins : head[Origins[i]][k] # None}
Found(origin, commit, pin) == [origin |-> origin, commit |-> commit, matches |-> commit = pin]
Available(k, pin) == CheckedOut(k) # {} \/ <<k, pin>> \in cache
Resolution(k, pin) ==
    IF CheckedOut(k) # {}
    THEN LET first == CHOOSE i \in CheckedOut(k) : \A j \in CheckedOut(k) : i <= j
         IN  Found(Origins[first], head[Origins[first]][k], pin)
    ELSE Found("cache", pin, pin)

\* The locked commit is archived, never the files of the checkout.  The archive
\* used by the Docker and Kubernetes adapters also wants HEAD to be there still;
\* that of the Jenkins adapter does not look.
HeadOf(k, source) ==
    IF source.origin \in Places THEN head[source.origin][k] ELSE source.commit
\* Faulty: the files of the checkout are archived.
CheckedOutNow(k, source) == HeadOf(k, source)
Archived(k, source) == source.commit
HeadStays(k, source) == k = "jenkins" \/ HeadOf(k, source) = source.commit

------------------------------------------------------------------------------
\* `templates update --write` on the project's lock.

NotUpdating == [at |-> "idle", loaded |-> None, hashed |-> None, candidate |-> None]

UpdateLoad ==
    /\ update.at = "idle"
    /\ update' = [NotUpdating EXCEPT !.at = "hash", !.loaded = lock]
    /\ UNCHANGED <<lock, head, cache, remote>>

\* The file is hashed after it was read: what is hashed may be a later one.
UpdateHash ==
    /\ update.at = "hash"
    /\ update' = [update EXCEPT !.at = "remote", !.hashed = lock]
    /\ UNCHANGED <<lock, head, cache, remote>>

UpdateAskRemote ==
    /\ update.at = "remote"
    /\ update' = [update EXCEPT !.at = "verify", !.candidate = remote]
    /\ UNCHANGED <<lock, head, cache, remote>>

Base == IF update.loaded = None THEN Packaged ELSE update.loaded
\* Faulty: what is verified is main, which may have moved on.
MainIsGood(k) ==
    \/ remote[k] = Base[k]
    \/ {remote[k], Base[k]} \subseteq Marked /\ License[remote[k]] = License[Base[k]]
\* Both commits are fetched into a private cache and compared.
CandidateIsGood(k) ==
    \/ update.candidate[k] = Base[k]
    \/ /\ {update.candidate[k], Base[k]} \subseteq Marked
       /\ License[update.candidate[k]] = License[Base[k]]
UpdateVerify ==
    /\ update.at = "verify"
    /\ \A k \in Keys : CandidateIsGood(k)
    /\ update' = [update EXCEPT !.at = "check"]
    /\ UNCHANGED <<lock, head, cache, remote>>

\* Only a lock of the project is looked at again: the packaged lock, loaded
\* when the project had none, is not the file that is written.
UpdateCheck ==
    /\ update.at = "check"
    /\ update.loaded = None \/ lock = update.hashed
    /\ update' = [update EXCEPT !.at = "replace"]
    /\ UNCHANGED <<lock, head, cache, remote>>

UpdateReplace ==
    /\ update.at = "replace"
    /\ lock' = update.candidate
    /\ update' = NotUpdating
    /\ UNCHANGED <<head, cache, remote>>

\* A check fails, a command fails, or the process dies: the lock is replaced as
\* a whole or not at all.
UpdateStops ==
    /\ update.at # "idle"
    /\ update' = NotUpdating
    /\ UNCHANGED <<lock, head, cache, remote>>

UpdateStep ==
    \/ UpdateHash \/ UpdateAskRemote \/ UpdateVerify \/ UpdateCheck \/ UpdateReplace
    \/ UpdateStops

------------------------------------------------------------------------------
\* The owner of the project, of the checkouts and of the templates.

EditLock ==
    /\ \E l \in EditedLocks \ {lock} : lock' = l
    /\ UNCHANGED <<head, cache, remote, update>>
SwitchCheckout ==
    /\ \E o \in Places, k \in Keys, c \in Commits :
          /\ head[o][k] \notin {None, c}
          /\ head' = [head EXCEPT ![o][k] = c]
    /\ UNCHANGED <<lock, cache, remote, update>>
PushMain ==
    /\ \E k \in Keys : \E c \in Commits \ {remote[k]} : remote' = [remote EXCEPT ![k] = c]
    /\ UNCHANGED <<lock, head, cache, update>>

SourcesTypeOK ==
    /\ lock \in Locks \cup {None}
    /\ head \in [Places -> [Keys -> Commits \cup {None}]]
    /\ cache \subseteq Keys \X Commits
    /\ remote \in Locks
    /\ update \in [at : {"idle", "hash", "remote", "verify", "check", "replace"},
                   loaded : Locks \cup {None}, hashed : Locks \cup {None},
                   candidate : Locks \cup {None}]
=============================================================================
