----------------------------- MODULE SupplyChain -----------------------------
(***************************************************************************)
(* One image from its build to its sealed evidence, and the offline        *)
(* verification of what was sealed: the executor that builds once and      *)
(* resolves what it pushed, the generator that has the image described and *)
(* scanned, the orchestrator's part between them, the bundle and its       *)
(* reader.                                                                 *)
(*                                                                         *)
(* The tag is not the run's own: somebody may push to it at any time.  The *)
(* tools of the host and the scanner's database may be replaced and the    *)
(* date may change between any two commands, and files of the run may be   *)
(* edited, before they are sealed and after.  A document is a record whose *)
(* `of` is the image its content comes from.                               *)
(***************************************************************************)
EXTENDS VulnerabilityPolicy

CONSTANTS
    Digests,     \* images
    Indexes,     \* those that are indexes: their platforms have other digests
    Versions,    \* of a tool, and of the scanner's database
    Findings,    \* what a scan with a database finds in an image
    Policy,      \* the policy of the run
    MaxDay,      \* bound: dates considered
    MaxMoves,    \* bound: steps of others
    None

\* What a document may be.
Artifacts == [of : Digests]
Sboms == [of : Digests, subject : Digests, by : Versions]
AllFindings == UNION {Findings[v][d] : v \in Versions, d \in Digests}
Scans == [of : Digests, by : Versions, findings : SUBSET AllFindings]
SupplyChains ==
    [of : Digests, hashes : [sbom : Sboms, scan : Scans, provenance : Artifacts],
     generator : Versions, scanner : Versions, database : Versions, passed : BOOLEAN]
Contracts == [of : Digests, records : SUBSET {"artifact", "supplyChain", "deployment"}]

ASSUME ImagesAreKnown == Indexes \subseteq Digests /\ None \notin Digests
ASSUME NoneIsNoDocument ==
    None \notin Artifacts /\ None \notin SupplyChains /\ None \notin Contracts
ASSUME FindingsAreKnown == \A v \in Versions, d \in Digests : IsFiniteSet(Findings[v][d])
ASSUME BoundsAreNumbers == MaxDay \in Nat /\ MaxMoves \in Nat

VARIABLES
    tag,       \* the image the run's tag names in the registry, None: no such tag
    tools,     \* the installed versions
    day,       \* the date
    run,       \* the run's variables
    files,     \* the files of the run's directory that exist
    sums,      \* SHA256SUMS, empty: not written; a checksum is the content
    moves,
    built,     \* history: the image this run built
    edited     \* history: whether somebody edited a file of the run

vars == <<tag, tools, day, run, files, sums, moves, built, edited>>
world == <<tag, tools, day, moves, edited>>

Names == {"artifact", "sbom", "scan", "provenance", "supplyChain", "verification",
          "deployment", "report"}
Tools == {"syft", "trivy", "db"}
Present == DOMAIN files
Sealed == DOMAIN sums # {}
At(where) == run.at = where
Goto(where, r) == run' = [r EXCEPT !.at = where]
Files(n, content) ==
    files' = [m \in Present \cup {n} |-> IF m = n THEN content ELSE files[m]]

\* Any command, write or check may fail: the run goes on to its seal with what
\* its variables hold.
Fails(r) == run' = [r EXCEPT !.at = "collect", !.ok = FALSE]
Fail ==
    /\ run.at \notin {"collect", "close", "ended"}
    /\ Fails(run)
    /\ UNCHANGED <<files, sums, built, world>>

Start ==
    [at |-> "build", deploys |-> FALSE, ok |-> TRUE,
     detected |-> [t \in Tools |-> None], metadata |-> None, artifact |-> None,
     date |-> 0, sbom |-> None, scan |-> None, scanner |-> None, database |-> None,
     supplyChain |-> None, deployment |-> None, sealed |-> [n \in {} |-> None]]

------------------------------------------------------------------------------
\* Build once.

\* Buildx pushes and tells the digest in its metadata file; it may fail before
\* or after the push.
Build ==
    /\ At("build")
    /\ \E d \in Digests, pushed \in BOOLEAN, ok \in BOOLEAN :
          /\ ok => pushed
          /\ tag' = IF pushed THEN d ELSE tag
          /\ built' = IF pushed THEN d ELSE None
          /\ IF ok THEN Goto("resolve", [run EXCEPT !.metadata = d]) ELSE Fails(run)
    /\ UNCHANGED <<tools, day, files, sums, moves, edited>>

\* The tag's bytes are hashed and compared with the metadata.  The platforms of
\* an index have digests of their own, and a run wants one platform whose digest
\* is that of the image.
Resolve ==
    /\ At("resolve")
    /\ IF tag = run.metadata /\ tag \notin Indexes
       THEN Goto("recheck", [run EXCEPT !.artifact = [of |-> tag]])
       ELSE Fails(run)
    /\ UNCHANGED <<files, sums, built, world>>

TagUnchanged == tag = run.artifact.of
Recheck ==
    /\ At("recheck")
    /\ IF TagUnchanged
       THEN /\ Files("artifact", run.artifact)
            /\ Goto("sbom", [run EXCEPT !.date = day])
       ELSE Fails(run) /\ UNCHANGED files
    /\ UNCHANGED <<sums, built, world>>

------------------------------------------------------------------------------
\* The evidence.  Every tool is given repository@digest, never the tag.

\* Faulty: the tag is described.
SubjectByTag == tag
Subject == run.artifact.of

\* Syft does not name the image: the generator adds the annotation that does.
Sbom ==
    /\ At("sbom")
    /\ Goto("scan", [run EXCEPT !.sbom = [of |-> Subject, subject |-> run.artifact.of,
                                          by |-> tools["syft"]]])
    /\ UNCHANGED <<files, sums, built, world>>
Scan ==
    /\ At("scan")
    /\ Goto("version", [run EXCEPT !.scan =
          [of |-> run.artifact.of, by |-> tools["trivy"],
           findings |-> Findings[tools["db"]][run.artifact.of]]])
    /\ UNCHANGED <<files, sums, built, world>>

\* Version and database are asked for after the scan.  The report names the
\* version that wrote it, but no database.
ScannerVersion ==
    /\ At("version")
    /\ IF run.scan.by = tools["trivy"]
       THEN Goto("write", [run EXCEPT !.scanner = tools["trivy"], !.database = tools["db"]])
       ELSE Fails(run)
    /\ UNCHANGED <<files, sums, built, world>>

Provenance == [of |-> run.artifact.of]
Evidence == [sbom |-> run.sbom, scan |-> run.scan, provenance |-> Provenance]
EvidenceNames == {"sbom", "scan", "provenance"}
Prefixes == {{}, {"sbom"}, {"sbom", "scan"}, EvidenceNames}
\* Three files, one after the other: what was written before a failure stays.
WriteEvidence ==
    /\ At("write")
    /\ \E written \in Prefixes :
          /\ files' = [n \in Present \cup written |-> IF n \in written THEN Evidence[n] ELSE files[n]]
          /\ IF written = EvidenceNames THEN Goto("accept", run) ELSE Fails(run)
    /\ UNCHANGED <<sums, built, world>>

\* The files are read again and validated; then the orchestrator compares the
\* versions with those it found before the build.
SupplyChainRecord ==
    [of |-> run.artifact.of, hashes |-> Evidence, generator |-> run.sbom.by,
     scanner |-> run.scanner, database |-> run.database,
     passed |-> PolicyPasses(run.scan.findings, Policy, run.date)]
\* Faulty: the versions are recorded, and not compared.
VersionsAreKnown == run.scanner # None
VersionsAgree ==
    run.sbom.by = run.detected["syft"] /\ run.scanner = run.detected["trivy"]
Accept ==
    /\ At("accept")
    /\ LET accepted == [run EXCEPT !.supplyChain = SupplyChainRecord] IN
       CASE \E n \in EvidenceNames : n \notin Present \/ files[n] # Evidence[n] -> Fails(run) /\ UNCHANGED files
         [] OTHER ->
            IF ~VersionsAgree THEN Fails(accepted) /\ UNCHANGED files
            ELSE /\ Files("supplyChain", SupplyChainRecord)
                 /\ IF SupplyChainRecord.passed THEN Goto("contract", accepted)
                    ELSE Fails(accepted)
    /\ UNCHANGED <<sums, built, world>>

------------------------------------------------------------------------------
\* The contract: every record names one digest.

ImagesNamed(artifact, supplyChain, deployment) ==
    {artifact.of} \cup (IF supplyChain = None THEN {} ELSE {supplyChain.of})
    \cup (IF deployment = None THEN {} ELSE {deployment.of})
RecordsNamed(supplyChain, deployment) ==
    {"artifact"} \cup (IF supplyChain = None THEN {} ELSE {"supplyChain"})
    \cup (IF deployment = None THEN {} ELSE {"deployment"})
Contract(artifact, supplyChain, deployment) ==
    [of |-> artifact.of, records |-> RecordsNamed(supplyChain, deployment)]
ContractHolds(artifact, supplyChain, deployment) ==
    Cardinality(ImagesNamed(artifact, supplyChain, deployment)) = 1

ArtifactContract ==
    /\ At("contract")
    /\ IF TagUnchanged /\ ContractHolds(run.artifact, run.supplyChain, None)
       THEN /\ Files("verification", Contract(run.artifact, run.supplyChain, None))
            /\ Goto(IF run.deploys THEN "deploy" ELSE "collect", run)
       ELSE Fails(run) /\ UNCHANGED files
    /\ UNCHANGED <<sums, built, world>>

\* The Kubernetes executor has seen the pods run the image it was given.
Deploy ==
    /\ At("deploy")
    /\ \E written \in BOOLEAN :
          /\ IF written THEN Files("deployment", Provenance) ELSE UNCHANGED files
          /\ LET deployed == [run EXCEPT !.deployment = Provenance] IN
             IF written THEN Goto("reverify", deployed) ELSE Fails(deployed)
    /\ UNCHANGED <<sums, built, world>>
\* Faulty: verification.json stays as it was written before the deployment.
KeepVerification ==
    /\ At("reverify")
    /\ Goto("collect", run)
    /\ UNCHANGED <<files, sums, built, world>>
Reverify ==
    /\ At("reverify")
    /\ IF ContractHolds(run.artifact, run.supplyChain, run.deployment)
       THEN /\ Files("verification", Contract(run.artifact, run.supplyChain, run.deployment))
            /\ Goto("collect", run)
       ELSE Fails(run) /\ UNCHANGED files
    /\ UNCHANGED <<sums, built, world>>

------------------------------------------------------------------------------
\* The seal, and the reader.

\* The report names the checksums of what was collected; they are compared once
\* more before the report is written and everything is sealed.
Report ==
    [of |-> None, ok |-> run.ok, artifact |-> run.artifact, supplyChain |-> run.supplyChain,
     deployment |-> run.deployment, detected |-> run.detected, checksums |-> run.sealed]
Collect ==
    /\ At("collect")
    /\ Goto("close", [run EXCEPT !.sealed = files])
    /\ UNCHANGED <<files, sums, built, world>>
Close ==
    /\ At("close")
    /\ IF \A n \in DOMAIN run.sealed : n \in Present /\ files[n] = run.sealed[n]
       THEN Files("report", Report) /\ sums' = files'
       ELSE UNCHANGED <<files, sums>>
    /\ Goto("ended", run)
    /\ UNCHANGED <<built, world>>
\* The process dies, or the seal fails.
Die ==
    /\ run.at # "ended"
    /\ Goto("ended", run)
    /\ UNCHANGED <<files, sums, built, world>>

\* A record kept in a file of its own is the one in the report.
Matches(n, nested) == n \in Present => nested # None /\ files[n] = nested
EvidenceHolds(record, artifact) ==
    /\ \A n \in EvidenceNames : n \in Present /\ files[n] = record.hashes[n]
    /\ files["sbom"].subject = artifact.of /\ files["sbom"].by = record.generator
    /\ files["scan"].of = artifact.of
    /\ files["provenance"].of = artifact.of
Verifies ==
    /\ Sealed
    /\ Present = DOMAIN sums /\ \A n \in Present : files[n] = sums[n]
    /\ LET report == files["report"] IN
       /\ Matches("artifact", report.artifact)
       /\ Matches("supplyChain", report.supplyChain)
       /\ Matches("deployment", report.deployment)
       /\ \A n \in DOMAIN report.checksums : n \in Present /\ files[n] = report.checksums[n]
       /\ IF report.artifact = None
          THEN report.supplyChain = None /\ report.deployment = None /\ "verification" \notin Present
          ELSE /\ report.supplyChain # None => EvidenceHolds(report.supplyChain, report.artifact)
               /\ ContractHolds(report.artifact, report.supplyChain, report.deployment)
               /\ Matches("verification",
                          Contract(report.artifact, report.supplyChain, report.deployment))

------------------------------------------------------------------------------
\* The others.

Step == \/ Build \/ Resolve \/ Recheck \/ Sbom \/ Scan \/ ScannerVersion \/ WriteEvidence
        \/ Accept \/ ArtifactContract \/ Deploy \/ Reverify \/ Collect \/ Close
        \/ Fail \/ Die

SomebodyPushes ==
    /\ \E d \in Digests \ {tag} : tag' = d
    /\ UNCHANGED <<tools, day, run, files, edited>>
ToolIsReplaced ==
    /\ \E t \in Tools : \E v \in Versions \ {tools[t]} : tools' = [tools EXCEPT ![t] = v]
    /\ UNCHANGED <<tag, day, run, files, edited>>
DayEnds ==
    /\ day < MaxDay
    /\ day' = day + 1
    /\ UNCHANGED <<tag, tools, run, files, edited>>
SomebodyEdits ==
    /\ \E n \in Present, d \in Digests :
          files[n].of # d /\ Files(n, [files[n] EXCEPT !.of = d])
    /\ edited' = TRUE
    /\ UNCHANGED <<tag, tools, day, run>>
Others ==
    /\ moves < MaxMoves
    /\ moves' = moves + 1
    /\ SomebodyPushes \/ ToolIsReplaced \/ DayEnds \/ SomebodyEdits
    /\ UNCHANGED <<sums, built>>

Next == Step \/ Others

Init ==
    /\ tag \in Digests \cup {None}
    /\ tools \in [Tools -> Versions]
    /\ day = 1
    /\ run \in {[Start EXCEPT !.deploys = deploys, !.detected = tools] : deploys \in BOOLEAN}
    /\ files = [n \in {} |-> None]
    /\ sums = [n \in {} |-> None]
    /\ moves = 0
    /\ built = None
    /\ edited = FALSE
Spec == Init /\ [][Next]_vars

------------------------------------------------------------------------------
\* Properties.

\* The world is of known images, versions and dates, and the files are those
\* a run writes.
TypeOK ==
    /\ tag \in Digests \cup {None} /\ built \in Digests \cup {None}
    /\ tools \in [Tools -> Versions]
    /\ day \in 1..MaxDay /\ moves \in 0..MaxMoves /\ edited \in BOOLEAN
    /\ DOMAIN run = DOMAIN Start /\ DOMAIN files \subseteq Names /\ DOMAIN sums \subseteq Names

\* However the tag moves and whatever is edited, a bundle that says PASSED and
\* verifies is about one image, the one this run built: its SBOM describes that
\* image, the scan looked at it, provenance and deployment name it
\* (build_once.py:448-488, supply_chain.py:1389-1522, execution_bundle.py:199-340).
EvidenceIsOfTheBuild ==
    Verifies /\ files["report"].ok =>
        /\ built # None
        /\ \A n \in Present \ {"report"} : files[n].of = built

\* A bundle that a run sealed is accepted by `artifact verify`, whatever failed
\* on the way, if nobody edited it.  Not so a run that fails after its
\* deployment is recorded and before verification.json is written again
\* (execution.py:1910-1958): its bundle is refused for ever.
SealedBundlesVerify ==
    Sealed /\ ~edited /\ (run.deployment # None => run.ok) => Verifies

\* The versions a PASSED bundle reports are the ones that made its evidence,
\* though tools are replaced while it is made (supply_chain.py:1446-1462,
\* execution.py:1677-1688).
ReportedToolsWereUsed ==
    Verifies /\ files["report"].ok =>
        /\ files["sbom"].by = files["report"].detected["syft"]
        /\ files["scan"].by = files["report"].detected["trivy"]

\* docs/THREAT_MODEL.md:73-74: "Vulnerability results depend on the scanner
\* database available at execution time.  The database metadata is recorded".
\* A database replaced between the scan and the question for its metadata is
\* recorded for a scan that it was not used for (supply_chain.py:1428-1452).
RecordedDatabaseWasUsed ==
    Verifies /\ files["report"].ok =>
        files["scan"].findings = Findings[files["supplyChain"].database][built]
=============================================================================
