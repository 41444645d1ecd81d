-------------------------- MODULE SupplyChainProofs --------------------------
(***************************************************************************)
(* Proofs about SupplyChain, for any images, versions, findings and        *)
(* policy, and any number of pushes, replaced tools and edits.             *)
(***************************************************************************)
EXTENDS SupplyChain, FiniteSetTheorems, TLAPS

Fields == {"at", "deploys", "ok", "detected", "metadata", "artifact", "date", "sbom",
           "scan", "scanner", "database", "supplyChain", "deployment", "sealed"}

\* The values that the steps rely on.
WorldInv ==
    /\ tag \in Digests \cup {None}
    /\ tools \in [Tools -> Versions]
    /\ DOMAIN run = Fields

\* The steps between the resolved digest and the collection of the files.
Resolved == {"recheck", "sbom", "scan", "version", "write", "accept", "contract",
             "deploy", "reverify"}
Image == [of |-> built]
\* A record of the evidence is about the image, and by the tools of the run.
GoodRecord(record, detected) ==
    /\ record \in SupplyChains
    /\ record.of = built
    /\ \A n \in EvidenceNames : record.hashes[n].of = built
    /\ record.hashes.sbom.by = detected["syft"]
    /\ record.hashes.scan.by = detected["trivy"]
GoodRun(artifact, record, deployment, detected) ==
    /\ built \in Digests
    /\ artifact = Image
    /\ GoodRecord(record, detected)
    /\ deployment \in {None, Image}

\* What the variables of a run stand for at each step.
Undecided ==
    /\ run.at \in {"build", "resolve"} \cup Resolved => run.ok /\ run.deployment \in {None, Image}
    /\ At("build") => run.deployment = None
    /\ At("resolve") => built \in Digests /\ run.metadata = built
    /\ run.at \in Resolved => built \in Digests /\ run.artifact = Image
Described ==
    /\ run.at \in {"scan", "version", "write", "accept"} => run.sbom \in Sboms /\ run.sbom.of = built
    /\ run.at \in {"version", "write", "accept"} => run.scan \in Scans /\ run.scan.of = built
    /\ run.at \in {"write", "accept"} =>
         run.scanner \in Versions /\ run.database \in Versions /\ run.scanner = run.scan.by
Decided ==
    /\ run.at \in {"contract", "deploy", "reverify"} => GoodRecord(run.supplyChain, run.detected)
    /\ run.at \in {"collect", "close"} /\ run.ok =>
         GoodRun(run.artifact, run.supplyChain, run.deployment, run.detected)
\* What was sealed as passed.
GoodReport(report) ==
    report.ok => GoodRun(report.artifact, report.supplyChain, report.deployment,
                         report.detected)
SealInv ==
    /\ run.at # "ended" => ~Sealed
    /\ Sealed =>
         /\ "report" \in DOMAIN sums
         /\ GoodReport(sums["report"])

IInv == WorldInv /\ Undecided /\ Described /\ Decided /\ SealInv

\* A run starts with nothing.
LEMMA Initially == Init => IInv
<1> SUFFICES ASSUME Init PROVE IInv
  OBVIOUS
<1>1. /\ DOMAIN run = Fields /\ run.at = "build" /\ run.ok = TRUE
      /\ run.deployment = None
  BY DEF Init, Start, Fields
<1>2. WorldInv
  BY <1>1 DEF Init, WorldInv
<1>3. Undecided /\ Described /\ Decided
  BY <1>1 DEF Undecided, Described, Decided, Resolved, At
<1>4. SealInv
  BY <1>1 DEF Init, SealInv, Sealed
<1> QED BY <1>2, <1>3, <1>4 DEF IInv

\* The verdict of a policy is one of two.
LEMMA VerdictIsBoolean ==
    ASSUME NEW findings, NEW policy, NEW day_
    PROVE  PolicyPasses(findings, policy, day_) \in BOOLEAN
BY DEF PolicyPasses

\* A failure leads to the collection, and says so.
LEMMA FailureKeeps ==
    ASSUME IInv, NEW r, DOMAIN r = Fields, Fails(r),
           WorldInv', UNCHANGED sums, run.at # "ended"
    PROVE  IInv'
<1>1. run'.at = "collect" /\ run'.ok = FALSE
  BY DEF Fails, Fields
<1>2. Undecided' /\ Described' /\ Decided'
  BY <1>1 DEF Undecided, Described, Decided, Resolved, At
<1>3. SealInv'
  BY <1>1 DEF IInv, SealInv, Sealed
<1> QED BY <1>2, <1>3 DEF IInv

\* Build and Resolve settle the image.
LEMMA BuildStep == IInv /\ Build => IInv'
<1> SUFFICES ASSUME IInv, Build PROVE IInv'
  OBVIOUS
<1> USE DEF IInv
<1>0. At("build")
  BY DEF Build
<1> PICK d \in Digests, pushed \in BOOLEAN, ok \in BOOLEAN :
       /\ ok => pushed
       /\ tag' = IF pushed THEN d ELSE tag
       /\ built' = IF pushed THEN d ELSE None
       /\ IF ok THEN Goto("resolve", [run EXCEPT !.metadata = d]) ELSE Fails(run)
  BY DEF Build
<1>1. UNCHANGED <<tools, sums>>
  BY DEF Build
<1>2. WorldInv'
  BY <1>1 DEF WorldInv, Goto, Fails
<1>3. CASE ~ok
  BY <1>0, <1>1, <1>2, <1>3, FailureKeeps DEF WorldInv, At
<1>4. CASE ok
  <2>1. run' = [[run EXCEPT !.metadata = d] EXCEPT !.at = "resolve"] /\ built' = d
    BY <1>4 DEF Goto
  <2>2. /\ run'.at = "resolve" /\ run'.metadata = d
        /\ run'.ok = run.ok /\ run'.deployment = run.deployment
    BY <2>1 DEF WorldInv, Fields
  <2>3. Undecided' /\ Described' /\ Decided'
    BY <1>0, <2>1, <2>2 DEF Undecided, Described, Decided, Resolved, At
  <2> QED BY <1>0, <1>1, <1>2, <2>2, <2>3 DEF SealInv, Sealed, At
<1> QED BY <1>3, <1>4

LEMMA ResolveStep == IInv /\ Resolve => IInv'
<1> SUFFICES ASSUME IInv, Resolve PROVE IInv'
  OBVIOUS
<1> USE DEF IInv
<1>0. At("resolve") /\ UNCHANGED <<tag, tools, built, sums>>
  BY DEF Resolve, world
<1>1. CASE ~(tag = run.metadata /\ tag \notin Indexes)
  <2>1. Fails(run)
    BY <1>1 DEF Resolve
  <2>2. WorldInv'
    BY <1>0, <2>1 DEF WorldInv, Fails
  <2> QED BY <1>0, <2>1, <2>2, FailureKeeps DEF WorldInv, At
<1>2. CASE tag = run.metadata /\ tag \notin Indexes
  <2>1. run' = [[run EXCEPT !.artifact = [of |-> tag]] EXCEPT !.at = "recheck"]
    BY <1>2 DEF Resolve, Goto
  <2>2. /\ run'.at = "recheck" /\ run'.artifact = [of |-> tag]
        /\ run'.ok = run.ok /\ run'.deployment = run.deployment
        /\ DOMAIN run' = Fields
    BY <2>1 DEF WorldInv, Fields
  <2>3. Undecided' /\ Described' /\ Decided'
    BY <1>0, <1>2, <2>2 DEF Undecided, Described, Decided, Resolved, At, Image
  <2> QED BY <1>0, <2>2, <2>3 DEF WorldInv, SealInv, Sealed, At
<1> QED BY <1>1, <1>2

\* A step that does not settle anything new goes on with the image it has.
LEMMA Continues ==
    ASSUME IInv, WorldInv', UNCHANGED <<built, sums>>,
           run.at \in Resolved, run'.at \in Resolved \cup {"collect"},
           run'.ok = run.ok, run'.artifact = run.artifact,
           run'.deployment \in {None, Image},
           Described', Decided'
    PROVE  IInv'
BY DEF IInv, Undecided, SealInv, Sealed, Resolved, Image, At

LEMMA RecheckStep == IInv /\ Recheck => IInv'
<1> SUFFICES ASSUME IInv, Recheck PROVE IInv'
  OBVIOUS
<1> USE DEF IInv
<1>0. At("recheck") /\ UNCHANGED <<tag, tools, built, sums>>
  BY DEF Recheck, world
<1>1. CASE ~TagUnchanged
  <2>1. Fails(run)
    BY <1>1 DEF Recheck
  <2>2. WorldInv'
    BY <1>0, <2>1 DEF WorldInv, Fails
  <2> QED BY <1>0, <2>1, <2>2, FailureKeeps DEF WorldInv, At
<1>2. CASE TagUnchanged
  <2>1. run' = [[run EXCEPT !.date = day] EXCEPT !.at = "sbom"]
    BY <1>2 DEF Recheck, Goto
  <2>2. /\ run'.at = "sbom" /\ run'.artifact = run.artifact
        /\ run'.ok = run.ok /\ run'.deployment = run.deployment
        /\ DOMAIN run' = Fields
    BY <2>1 DEF WorldInv, Fields
  <2>3. WorldInv' /\ Described' /\ Decided' /\ run'.deployment \in {None, Image}
    BY <1>0, <2>2 DEF WorldInv, Undecided, Described, Decided, Resolved, At
  <2> QED BY <1>0, <2>2, <2>3, Continues DEF Resolved, At
<1> QED BY <1>1, <1>2

\* The tools describe the image, since they are given its digest.
LEMMA SbomStep == IInv /\ Sbom => IInv'
<1> SUFFICES ASSUME IInv, Sbom PROVE IInv'
  OBVIOUS
<1> USE DEF IInv
<1>0. At("sbom") /\ UNCHANGED <<tag, tools, built, sums>>
  BY DEF Sbom, world
<1> DEFINE sbom == [of |-> Subject, subject |-> run.artifact.of, by |-> tools["syft"]]
<1>1. run' = [[run EXCEPT !.sbom = sbom] EXCEPT !.at = "scan"]
  BY DEF Sbom, Goto
<1>2. sbom \in Sboms /\ sbom.of = built
  BY <1>0 DEF Undecided, WorldInv, Resolved, At, Image, Subject, Sboms, Tools
<1> HIDE DEF sbom
<1>3. /\ run'.at = "scan" /\ run'.artifact = run.artifact /\ run'.sbom = sbom
      /\ run'.ok = run.ok /\ run'.deployment = run.deployment
      /\ DOMAIN run' = Fields
  BY <1>1 DEF WorldInv, Fields
<1>4. WorldInv' /\ Described' /\ Decided' /\ run'.deployment \in {None, Image}
  BY <1>0, <1>2, <1>3 DEF WorldInv, Undecided, Described, Decided, Resolved, At
<1> QED BY <1>0, <1>3, <1>4, Continues DEF Resolved, At

LEMMA ScanStep == IInv /\ Scan => IInv'
<1> SUFFICES ASSUME IInv, Scan PROVE IInv'
  OBVIOUS
<1> USE DEF IInv
<1>0. At("scan") /\ UNCHANGED <<tag, tools, built, sums>>
  BY DEF Scan, world
<1> DEFINE scan == [of |-> run.artifact.of, by |-> tools["trivy"],
                    findings |-> Findings[tools["db"]][run.artifact.of]]
<1>1. run' = [[run EXCEPT !.scan = scan] EXCEPT !.at = "version"]
  BY DEF Scan, Goto
<1>2. scan \in Scans /\ scan.of = built
  <2>1. tools["db"] \in Versions /\ tools["trivy"] \in Versions
        /\ run.artifact.of = built /\ built \in Digests
    BY <1>0 DEF Undecided, WorldInv, Resolved, At, Image, Tools
  <2>2. Findings[tools["db"]][built] \in SUBSET AllFindings
    BY <2>1 DEF AllFindings
  <2> QED BY <2>1, <2>2 DEF Scans
<1> HIDE DEF scan
<1>3. /\ run'.at = "version" /\ run'.artifact = run.artifact /\ run'.scan = scan
      /\ run'.sbom = run.sbom
      /\ run'.ok = run.ok /\ run'.deployment = run.deployment
      /\ DOMAIN run' = Fields
  BY <1>1 DEF WorldInv, Fields
<1>4. WorldInv' /\ Described' /\ Decided' /\ run'.deployment \in {None, Image}
  BY <1>0, <1>2, <1>3 DEF WorldInv, Undecided, Described, Decided, Resolved, At
<1> QED BY <1>0, <1>3, <1>4, Continues DEF Resolved, At

\* The version that is recorded is that of the report.
LEMMA VersionStep == IInv /\ ScannerVersion => IInv'
<1> SUFFICES ASSUME IInv, ScannerVersion PROVE IInv'
  OBVIOUS
<1> USE DEF IInv
<1>0. At("version") /\ UNCHANGED <<tag, tools, built, sums>>
  BY DEF ScannerVersion, world
<1>1. CASE run.scan.by # tools["trivy"]
  <2>1. Fails(run)
    BY <1>1 DEF ScannerVersion
  <2>2. WorldInv'
    BY <1>0, <2>1 DEF WorldInv, Fails
  <2> QED BY <1>0, <2>1, <2>2, FailureKeeps DEF WorldInv, At
<1>2. CASE run.scan.by = tools["trivy"]
  <2>1. run' = [[run EXCEPT !.scanner = tools["trivy"], !.database = tools["db"]]
                EXCEPT !.at = "write"]
    BY <1>2 DEF ScannerVersion, Goto
  <2>2. /\ run'.at = "write" /\ run'.artifact = run.artifact /\ run'.scan = run.scan
        /\ run'.sbom = run.sbom /\ run'.scanner = tools["trivy"]
        /\ run'.database = tools["db"]
        /\ run'.ok = run.ok /\ run'.deployment = run.deployment
        /\ DOMAIN run' = Fields
    BY <2>1 DEF WorldInv, Fields
  <2>3. WorldInv'
    BY <1>0, <2>2 DEF WorldInv
  <2>4. tools["trivy"] \in Versions /\ tools["db"] \in Versions
    BY DEF WorldInv, Tools
  <2>5. Described'
    BY <1>0, <1>2, <2>2, <2>4 DEF Described, At
  <2>6. Decided' /\ run'.deployment \in {None, Image}
    BY <1>0, <2>2 DEF Undecided, Decided, Resolved, At
  <2> QED BY <1>0, <2>2, <2>3, <2>5, <2>6, Continues DEF Resolved, At
<1> QED BY <1>1, <1>2

LEMMA WriteStep == IInv /\ WriteEvidence => IInv'
<1> SUFFICES ASSUME IInv, WriteEvidence PROVE IInv'
  OBVIOUS
<1> USE DEF IInv
<1>0. At("write") /\ UNCHANGED <<tag, tools, built, sums>>
  BY DEF WriteEvidence, world
<1>1. CASE Fails(run)
  <2>2. WorldInv'
    BY <1>0, <1>1 DEF WorldInv, Fails
  <2> QED BY <1>0, <1>1, <2>2, FailureKeeps DEF WorldInv, At
<1>2. CASE Goto("accept", run)
  <2>2. /\ run'.at = "accept" /\ run'.artifact = run.artifact /\ run'.scan = run.scan
        /\ run'.sbom = run.sbom /\ run'.scanner = run.scanner
        /\ run'.database = run.database
        /\ run'.ok = run.ok /\ run'.deployment = run.deployment
        /\ DOMAIN run' = Fields
    BY <1>2 DEF WorldInv, Fields, Goto
  <2>4. WorldInv' /\ Described'
    BY <1>0, <2>2 DEF WorldInv, Described, At
  <2>5. Decided' /\ run'.deployment \in {None, Image}
    BY <1>0, <2>2 DEF Undecided, Decided, Resolved, At
  <2> QED BY <1>0, <2>2, <2>4, <2>5, Continues DEF Resolved, At
<1> QED BY <1>1, <1>2 DEF WriteEvidence

\* What is accepted is about the image, and by the tools found before the build.
LEMMA AcceptStep == IInv /\ Accept => IInv'
<1> SUFFICES ASSUME IInv, Accept PROVE IInv'
  OBVIOUS
<1> USE DEF IInv
<1> DEFINE accepted == [run EXCEPT !.supplyChain = SupplyChainRecord]
<1>0. At("accept") /\ UNCHANGED <<tag, tools, built, sums>>
  BY DEF Accept, world
<1>1. Fails(run) \/ Fails(accepted) \/ (VersionsAgree /\ Goto("contract", accepted))
  BY DEF Accept
<1>2. DOMAIN accepted = Fields
  BY DEF WorldInv
<1>3. CASE Fails(run)
  <2>2. WorldInv'
    BY <1>0, <1>3 DEF WorldInv, Fails
  <2> QED BY <1>0, <1>3, <2>2, FailureKeeps DEF WorldInv, At
<1>4. CASE Fails(accepted)
  <2>2. WorldInv'
    BY <1>0, <1>4, <1>2 DEF WorldInv, Fails
  <2> QED BY <1>0, <1>2, <1>4, <2>2, FailureKeeps DEF At
<1>5. CASE VersionsAgree /\ Goto("contract", accepted)
  <2>1. /\ run'.at = "contract" /\ run'.artifact = run.artifact
        /\ run'.supplyChain = SupplyChainRecord /\ run'.detected = run.detected
        /\ run'.ok = run.ok /\ run'.deployment = run.deployment
        /\ DOMAIN run' = Fields
    BY <1>5 DEF WorldInv, Fields, Goto
  <2>2. /\ run.artifact = Image /\ built \in Digests
        /\ run.sbom \in Sboms /\ run.sbom.of = built
        /\ run.scan \in Scans /\ run.scan.of = built
        /\ run.scanner \in Versions /\ run.database \in Versions /\ run.scanner = run.scan.by
    BY <1>0 DEF Undecided, Described, Resolved, At
  <2>3. Evidence \in [sbom : Sboms, scan : Scans, provenance : Artifacts]
    BY <2>2 DEF Evidence, Provenance, Artifacts, Image
  <2>4. SupplyChainRecord \in SupplyChains
    BY <2>2, <2>3, VerdictIsBoolean DEF SupplyChainRecord, SupplyChains, Image, Sboms
  <2>5. /\ SupplyChainRecord.of = built
        /\ \A n \in EvidenceNames : SupplyChainRecord.hashes[n].of = built
    BY <2>2 DEF SupplyChainRecord, Evidence, Provenance, EvidenceNames, Image
  <2>6. /\ SupplyChainRecord.hashes.sbom.by = run.detected["syft"]
        /\ SupplyChainRecord.hashes.scan.by = run.detected["trivy"]
    BY <1>5, <2>2 DEF SupplyChainRecord, Evidence, VersionsAgree
  <2>7. GoodRecord(run.supplyChain, run.detected)'
    <3>1. GoodRecord(SupplyChainRecord, run.detected)
      BY <2>4, <2>5, <2>6 DEF GoodRecord
    <3> HIDE DEF SupplyChainRecord
    <3> QED BY <1>0, <2>1, <3>1 DEF GoodRecord
  <2>8. WorldInv' /\ Described'
    BY <1>0, <2>1 DEF WorldInv, Described
  <2>9. Decided' /\ run'.deployment \in {None, Image}
    BY <1>0, <2>1, <2>7 DEF Undecided, Decided, Resolved, At
  <2> QED BY <1>0, <2>1, <2>8, <2>9, Continues DEF Resolved, At
<1> QED BY <1>1, <1>3, <1>4, <1>5

\* The contract and the deployment keep what is known, or fail.
LEMMA ContractStep == IInv /\ ArtifactContract => IInv'
<1> SUFFICES ASSUME IInv, ArtifactContract PROVE IInv'
  OBVIOUS
<1> USE DEF IInv
<1>0. At("contract") /\ UNCHANGED <<tag, tools, built, sums>>
  BY DEF ArtifactContract, world
<1>1. CASE Fails(run)
  <2>2. WorldInv'
    BY <1>0, <1>1 DEF WorldInv, Fails
  <2> QED BY <1>0, <1>1, <2>2, FailureKeeps DEF WorldInv, At
<1>2. CASE Goto(IF run.deploys THEN "deploy" ELSE "collect", run)
  <2>1. /\ run'.at \in {"deploy", "collect"} /\ run'.artifact = run.artifact
        /\ run'.supplyChain = run.supplyChain /\ run'.detected = run.detected
        /\ run'.ok = run.ok /\ run'.deployment = run.deployment
        /\ DOMAIN run' = Fields
    BY <1>2 DEF WorldInv, Fields, Goto
  <2>2. GoodRun(run.artifact, run.supplyChain, run.deployment, run.detected)
    BY <1>0 DEF Undecided, Decided, Resolved, At, GoodRun
  <2>3. WorldInv' /\ Described'
    BY <1>0, <2>1 DEF WorldInv, Described
  <2>4. Decided' /\ run'.deployment \in {None, Image}
    BY <1>0, <2>1, <2>2 DEF Decided, GoodRun, GoodRecord, Image
  <2> QED BY <1>0, <2>1, <2>3, <2>4, Continues DEF Resolved, At
<1> QED BY <1>1, <1>2 DEF ArtifactContract

LEMMA DeployStep == IInv /\ Deploy => IInv'
<1> SUFFICES ASSUME IInv, Deploy PROVE IInv'
  OBVIOUS
<1> USE DEF IInv
<1> DEFINE deployed == [run EXCEPT !.deployment = Provenance]
<1>0. At("deploy") /\ UNCHANGED <<tag, tools, built, sums>>
  BY DEF Deploy, world
<1>1. Goto("reverify", deployed) \/ Fails(deployed)
  BY DEF Deploy
<1>2. DOMAIN deployed = Fields
  BY DEF WorldInv
<1>3. CASE Fails(deployed)
  <2>2. WorldInv'
    BY <1>0, <1>3, <1>2 DEF WorldInv, Fails
  <2> QED BY <1>0, <1>2, <1>3, <2>2, FailureKeeps DEF At
<1>4. CASE Goto("reverify", deployed)
  <2>1. /\ run'.at = "reverify" /\ run'.artifact = run.artifact
        /\ run'.supplyChain = run.supplyChain /\ run'.detected = run.detected
        /\ run'.ok = run.ok /\ run'.deployment = Provenance
        /\ DOMAIN run' = Fields
    BY <1>4 DEF WorldInv, Fields, Goto
  <2>2. Provenance = Image
    BY <1>0 DEF Undecided, Resolved, At, Provenance, Image
  <2>3. WorldInv' /\ Described'
    BY <1>0, <2>1 DEF WorldInv, Described
  <2>4. Decided'
    BY <1>0, <2>1 DEF Decided, GoodRecord, At
  <2> QED BY <1>0, <2>1, <2>2, <2>3, <2>4, Continues DEF Resolved, At
<1> QED BY <1>1, <1>3, <1>4

LEMMA ReverifyStep == IInv /\ Reverify => IInv'
<1> SUFFICES ASSUME IInv, Reverify PROVE IInv'
  OBVIOUS
<1> USE DEF IInv
<1>0. At("reverify") /\ UNCHANGED <<tag, tools, built, sums>>
  BY DEF Reverify, world
<1>1. CASE Fails(run)
  <2>2. WorldInv'
    BY <1>0, <1>1 DEF WorldInv, Fails
  <2> QED BY <1>0, <1>1, <2>2, FailureKeeps DEF WorldInv, At
<1>2. CASE Goto("collect", run)
  <2>1. /\ run'.at = "collect" /\ run'.artifact = run.artifact
        /\ run'.supplyChain = run.supplyChain /\ run'.detected = run.detected
        /\ run'.ok = run.ok /\ run'.deployment = run.deployment
        /\ DOMAIN run' = Fields
    BY <1>2 DEF WorldInv, Fields, Goto
  <2>2. GoodRun(run.artifact, run.supplyChain, run.deployment, run.detected)
    BY <1>0 DEF Undecided, Decided, Resolved, At, GoodRun
  <2>3. WorldInv' /\ Described'
    BY <1>0, <2>1 DEF WorldInv, Described
  <2>4. Decided' /\ run'.deployment \in {None, Image}
    BY <1>0, <2>1, <2>2 DEF Decided, GoodRun, GoodRecord, Image
  <2> QED BY <1>0, <2>1, <2>3, <2>4, Continues DEF Resolved, At
<1> QED BY <1>1, <1>2 DEF Reverify

\* The seal: only what the run knows is sealed as passed.
LEMMA CollectStep == IInv /\ Collect => IInv'
<1> SUFFICES ASSUME IInv, Collect PROVE IInv'
  OBVIOUS
<1> USE DEF IInv
<1>0. At("collect") /\ UNCHANGED <<tag, tools, built, sums>>
  BY DEF Collect, world
<1>1. run' = [[run EXCEPT !.sealed = files] EXCEPT !.at = "close"]
  BY DEF Collect, Goto
<1>2. /\ run'.at = "close" /\ run'.artifact = run.artifact
      /\ run'.supplyChain = run.supplyChain /\ run'.detected = run.detected
      /\ run'.ok = run.ok /\ run'.deployment = run.deployment
      /\ DOMAIN run' = Fields
  BY <1>1 DEF WorldInv, Fields
<1>3. WorldInv' /\ Undecided' /\ Described'
  BY <1>0, <1>2 DEF WorldInv, Undecided, Described, Resolved, At
<1>4. Decided'
  BY <1>0, <1>2 DEF Decided, GoodRun, GoodRecord, Image, At
<1>5. SealInv'
  BY <1>0, <1>2 DEF SealInv, Sealed, At
<1> QED BY <1>3, <1>4, <1>5

\* A run that has ended claims no more than its seal.
LEMMA EndedKeeps ==
    ASSUME IInv, WorldInv', UNCHANGED built, run'.at = "ended", SealInv'
    PROVE  IInv'
BY DEF IInv, Undecided, Described, Decided, Resolved, At

LEMMA CloseStep == IInv /\ Close => IInv'
<1> SUFFICES ASSUME IInv, Close PROVE IInv'
  OBVIOUS
<1> USE DEF IInv
<1>0. At("close") /\ UNCHANGED <<tag, tools, built>> /\ Goto("ended", run)
  BY DEF Close, world
<1>1. run'.at = "ended" /\ DOMAIN run' = Fields
  BY <1>0 DEF WorldInv, Fields, Goto
<1>2. WorldInv'
  BY <1>0, <1>1 DEF WorldInv
<1>3. CASE UNCHANGED sums
  BY <1>0, <1>1, <1>2, <1>3, EndedKeeps DEF SealInv, Sealed, At
<1>4. CASE Files("report", Report) /\ sums' = files'
  <2>1. "report" \in DOMAIN sums' /\ sums'["report"] = Report
    BY <1>4 DEF Files
  <2>2. /\ Report.ok = run.ok /\ Report.artifact = run.artifact
        /\ Report.supplyChain = run.supplyChain /\ Report.deployment = run.deployment
        /\ Report.detected = run.detected
    BY DEF Report
  <2>3. Report.ok => GoodRun(run.artifact, run.supplyChain, run.deployment, run.detected)
    BY <1>0, <2>2 DEF Decided, At
  <2>4. GoodReport(Report)
    BY <2>2, <2>3 DEF GoodReport
  <2>5. GoodReport(sums["report"])'
    <3> HIDE DEF Report
    <3> QED BY <1>0, <2>1, <2>4 DEF GoodReport, GoodRun, GoodRecord, Image
  <2>6. SealInv'
    BY <1>1, <2>1, <2>5 DEF SealInv
  <2> QED BY <1>0, <1>1, <1>2, <2>6, EndedKeeps
<1> QED BY <1>3, <1>4 DEF Close

\* A death, a failure and the others settle nothing.
LEMMA DieStep == IInv /\ Die => IInv'
<1> SUFFICES ASSUME IInv, Die PROVE IInv'
  OBVIOUS
<1> USE DEF IInv
<1>0. run.at # "ended" /\ UNCHANGED <<tag, tools, built, sums>> /\ Goto("ended", run)
  BY DEF Die, world
<1>1. run'.at = "ended" /\ DOMAIN run' = Fields
  BY <1>0 DEF WorldInv, Fields, Goto
<1>2. WorldInv' /\ SealInv'
  BY <1>0, <1>1 DEF WorldInv, SealInv, Sealed
<1> QED BY <1>0, <1>1, <1>2, EndedKeeps

LEMMA FailStep == IInv /\ Fail => IInv'
<1> SUFFICES ASSUME IInv, Fail PROVE IInv'
  OBVIOUS
<1> USE DEF IInv
<1>0. run.at # "ended" /\ UNCHANGED <<tag, tools, built, sums>> /\ Fails(run)
  BY DEF Fail, world
<1>1. WorldInv'
  BY <1>0 DEF WorldInv, Fails
<1> QED BY <1>0, <1>1, FailureKeeps DEF WorldInv

LEMMA RunKeeps ==
    ASSUME IInv, WorldInv', UNCHANGED <<run, built, sums>>
    PROVE  IInv'
BY DEF IInv, Undecided, Described, Decided, SealInv, Sealed, GoodReport, GoodRun,
    GoodRecord, Image, At

LEMMA OthersStep == IInv /\ Others => IInv'
<1> SUFFICES ASSUME IInv, Others PROVE IInv'
  OBVIOUS
<1> USE DEF IInv
<1>0. UNCHANGED <<run, built, sums>>
  BY DEF Others, SomebodyPushes, ToolIsReplaced, DayEnds, SomebodyEdits
<1>1. tag' \in Digests \cup {None}
  BY DEF Others, SomebodyPushes, ToolIsReplaced, DayEnds, SomebodyEdits, WorldInv
<1>2. tools' \in [Tools -> Versions]
  BY DEF Others, SomebodyPushes, ToolIsReplaced, DayEnds, SomebodyEdits, WorldInv
<1>3. WorldInv'
  BY <1>0, <1>1, <1>2 DEF WorldInv
<1> QED BY <1>0, <1>3, RunKeeps

\* The invariant is inductive.
LEMMA Inductive == IInv /\ [Next]_vars => IInv'
<1> SUFFICES ASSUME IInv, [Next]_vars PROVE IInv'
  OBVIOUS
<1>1. CASE Step
  BY <1>1, BuildStep, ResolveStep, RecheckStep, SbomStep, ScanStep, VersionStep, WriteStep,
     AcceptStep, ContractStep, DeployStep, ReverifyStep, CollectStep, CloseStep, FailStep,
     DieStep DEF Step
<1>2. CASE Others
  BY <1>2, OthersStep
<1>3. CASE UNCHANGED vars
  BY <1>3, RunKeeps DEF vars, IInv, WorldInv
<1> QED BY <1>1, <1>2, <1>3 DEF Next

\* Whatever happens to tag, tools and files, at every step a run knows which
\* image it is about and what its records are worth.
THEOREM Invariance == Spec => []IInv
<1> QED BY Initially, Inductive, PTL DEF Spec

\* What verifies is what was sealed, and its records are those of the report.
LEMMA VerifiedIsGood ==
    ASSUME IInv, Verifies, files["report"].ok
    PROVE  LET report == files["report"] IN
           /\ GoodRun(report.artifact, report.supplyChain, report.deployment, report.detected)
           /\ EvidenceHolds(report.supplyChain, report.artifact)
           /\ Matches("verification",
                      Contract(report.artifact, report.supplyChain, report.deployment))
<1> DEFINE report == files["report"]
<1>1. Sealed /\ files["report"] = sums["report"]
  BY DEF Verifies, IInv, SealInv
<1>2. GoodRun(report.artifact, report.supplyChain, report.deployment, report.detected)
  BY <1>1 DEF IInv, SealInv, GoodReport
<1>3. report.artifact \in Artifacts /\ report.supplyChain \in SupplyChains
  BY <1>2 DEF GoodRun, GoodRecord, Image, Artifacts
<1>4. report.artifact # None /\ report.supplyChain # None
  BY <1>3, NoneIsNoDocument
<1> QED BY <1>2, <1>4 DEF Verifies

\* The run writes no files but those that have a name here.
FilesInv == DOMAIN files \subseteq Names

LEMMA FilesStep == FilesInv /\ [Next]_vars => FilesInv'
<1> SUFFICES ASSUME FilesInv, [Next]_vars PROVE FilesInv'
  OBVIOUS
<1> USE DEF FilesInv, Names
<1>1. CASE Build \/ Resolve \/ Sbom \/ Scan \/ ScannerVersion \/ Collect \/ Die \/ Fail
  BY <1>1 DEF Build, Resolve, Sbom, Scan, ScannerVersion, Collect, Die, Fail
<1>2. CASE Recheck \/ Accept \/ ArtifactContract \/ Deploy \/ Reverify
  BY <1>2 DEF Recheck, Accept, ArtifactContract, Deploy, Reverify, Files, Present
<1>3. CASE WriteEvidence
  BY <1>3 DEF WriteEvidence, Prefixes, EvidenceNames, Present
<1>4. CASE Close
  BY <1>4 DEF Close, Files, Present
<1>5. CASE Others
  BY <1>5 DEF Others, SomebodyPushes, ToolIsReplaced, DayEnds, SomebodyEdits, Files, Present
<1>6. CASE UNCHANGED vars
  BY <1>6 DEF vars
<1> QED BY <1>1, <1>2, <1>3, <1>4, <1>5, <1>6 DEF Next, Step

\* The directory of a run never holds a file that is not one of its evidence
\* (evidence_bundle.py, execution.py:1590-1960).
THEOREM FilesAreNamed == Spec => []FilesInv
<1>1. Init => FilesInv
  BY DEF Init, FilesInv
<1> QED BY <1>1, FilesStep, PTL DEF Spec

\* A passed bundle that verifies is about the image the run built, however the
\* tag moved and whatever was edited.
THEOREM EvidenceIsTrue == Spec => []EvidenceIsOfTheBuild
<1>1. IInv /\ FilesInv => EvidenceIsOfTheBuild
  <2> SUFFICES ASSUME IInv, FilesInv, Verifies, files["report"].ok
               PROVE  built # None /\ \A n \in Present \ {"report"} : files[n].of = built
    BY DEF EvidenceIsOfTheBuild
  <2> DEFINE report == files["report"]
  <2>1. /\ GoodRun(report.artifact, report.supplyChain, report.deployment, report.detected)
        /\ EvidenceHolds(report.supplyChain, report.artifact)
        /\ Matches("verification",
                   Contract(report.artifact, report.supplyChain, report.deployment))
    BY VerifiedIsGood
  <2>2. built # None
    BY <2>1, ImagesAreKnown DEF GoodRun
  <2>3. /\ Matches("artifact", report.artifact)
        /\ Matches("supplyChain", report.supplyChain)
        /\ Matches("deployment", report.deployment)
    BY DEF Verifies
  <2>4. ASSUME NEW n \in Present \ {"report"} PROVE files[n].of = built
    <3>1. CASE n \in EvidenceNames
      BY <2>1, <3>1 DEF EvidenceHolds, GoodRun, GoodRecord
    <3>2. CASE n \in {"artifact", "verification"}
      BY <2>1, <2>3, <3>2 DEF Matches, GoodRun, Image, Contract
    <3>3. CASE n = "supplyChain"
      BY <2>1, <2>3, <3>3 DEF Matches, GoodRun, GoodRecord
    <3>4. CASE n = "deployment"
      BY <2>1, <2>3, <3>4 DEF Matches, GoodRun, Image
    <3> QED BY <3>1, <3>2, <3>3, <3>4 DEF FilesInv, Names, EvidenceNames, Present
  <2> QED BY <2>2, <2>4
<1> QED BY <1>1, Invariance, FilesAreNamed, PTL

\* The versions a passed bundle reports are those of the tools that made its
\* evidence, however often they are replaced.
THEOREM ToolsAreTrue == Spec => []ReportedToolsWereUsed
<1>1. IInv => ReportedToolsWereUsed
  <2> SUFFICES ASSUME IInv, Verifies, files["report"].ok
               PROVE  /\ files["sbom"].by = files["report"].detected["syft"]
                      /\ files["scan"].by = files["report"].detected["trivy"]
    BY DEF ReportedToolsWereUsed
  <2> QED BY VerifiedIsGood DEF GoodRun, GoodRecord, EvidenceHolds, EvidenceNames
<1> QED BY <1>1, Invariance, PTL

-----------------------------------------------------------------------------
(* A bundle that nobody edited.  Up to the seal the files say what the run's *)
(* variables say, whatever fails, and the reader asks for nothing else.      *)

Examining == {"scan", "version", "write", "accept"}
Unaccepted == {"build", "resolve", "recheck", "sbom"} \cup Examining

\* How far the records of a run are at each step.
StageInv ==
    /\ run.at \in {"build", "resolve"} => run.artifact = None
    /\ run.at \in Examining => run.sbom.subject = run.artifact.of
    /\ run.at \in Unaccepted => run.supplyChain = None
    /\ run.at \in Unaccepted \cup {"contract"} => "verification" \notin Present
    /\ run.at \in Unaccepted \cup {"contract", "deploy"} => run.deployment = None

\* A record is kept in a file only if the run has it, names the image of the
\* run, and is backed by the evidence.
RecordsInv ==
    /\ Matches("artifact", run.artifact)
    /\ Matches("supplyChain", run.supplyChain)
    /\ Matches("deployment", run.deployment)
    /\ IF run.artifact = None THEN run.supplyChain = None /\ run.deployment = None
       ELSE run.artifact \in Artifacts
    /\ run.supplyChain # None => /\ run.supplyChain.of = run.artifact.of
                                 /\ EvidenceHolds(run.supplyChain, run.artifact)
    /\ run.deployment # None => run.deployment.of = run.artifact.of

\* verification.json is about all the records, except between the record of
\* the deployment and the second verification.
Reverified == run.deployment # None => run.ok /\ ~At("reverify")
VerificationInv ==
    "verification" \in Present =>
        /\ run.artifact # None
        /\ Reverified =>
             files["verification"] = Contract(run.artifact, run.supplyChain, run.deployment)

Faithful == StageInv /\ RecordsInv /\ VerificationInv
FaithInv ==
    /\ run.at # "ended" => "report" \notin Present
    /\ run.at # "ended" /\ ~edited => Faithful
    /\ SealedBundlesVerify

LEMMA FileWritten ==
    ASSUME NEW n, NEW content, Files(n, content)
    PROVE  /\ n \in Present' /\ files'[n] = content
           /\ \A m : m # n => /\ m \in Present' <=> m \in Present
                              /\ m \in Present => files'[m] = files[m]
BY DEF Files, Present

LEMMA RecordsKept ==
    ASSUME RecordsInv, VerificationInv, UNCHANGED files,
           UNCHANGED <<run.artifact, run.supplyChain, run.deployment>>,
           Reverified' => Reverified
    PROVE  RecordsInv' /\ VerificationInv'
BY DEF RecordsInv, VerificationInv, Matches, EvidenceHolds, Contract, RecordsNamed, Present

\* After a failure the records are those the run had.
LEMMA FailureIsFaithful ==
    ASSUME DOMAIN run = Fields, RecordsInv, VerificationInv, Fails(run), UNCHANGED files
    PROVE  Faithful'
<1>1. /\ run'.at = "collect" /\ run'.ok = FALSE
      /\ UNCHANGED <<run.artifact, run.supplyChain, run.deployment>>
  BY DEF Fails, Fields
<1>2. Reverified' => Reverified
  BY <1>1 DEF Reverified
<1>3. StageInv'
  BY <1>1 DEF StageInv, Unaccepted, Examining
<1> QED BY <1>1, <1>2, <1>3, RecordsKept DEF Faithful

\* The steps up to the evidence: no record yet depends on it.
LEMMA BeginningIsFaithful ==
    ASSUME IInv, Faithful, Build \/ Resolve \/ Recheck
    PROVE  Faithful'
<1> USE DEF Faithful
<1>0. DOMAIN run = Fields
  BY DEF IInv, WorldInv
<1>1. CASE Build
  <2>1. UNCHANGED files /\ At("build")
    BY <1>1 DEF Build
  <2>2. CASE Fails(run)
    BY <1>0, <2>1, <2>2, FailureIsFaithful
  <2>3. CASE \E d \in Digests : Goto("resolve", [run EXCEPT !.metadata = d])
    <3>1. /\ run'.at = "resolve" /\ run'.ok = run.ok
          /\ UNCHANGED <<run.artifact, run.supplyChain, run.deployment>>
      BY <1>0, <2>3 DEF Goto, Fields
    <3>2. Reverified' => Reverified
      BY <2>1, <3>1 DEF Reverified, At
    <3>3. StageInv'
      BY <2>1, <3>1 DEF StageInv, Unaccepted, Examining, At, Present
    <3> QED BY <2>1, <3>1, <3>2, <3>3, RecordsKept
  <2> QED BY <1>1, <2>2, <2>3 DEF Build
<1>2. CASE Resolve
  <2>1. UNCHANGED files /\ At("resolve")
    BY <1>2 DEF Resolve
  <2>2. CASE Fails(run)
    BY <1>0, <2>1, <2>2, FailureIsFaithful
  <2>3. CASE tag = run.metadata /\ Goto("recheck", [run EXCEPT !.artifact = [of |-> tag]])
    <3>1. /\ run'.at = "recheck"
          /\ UNCHANGED <<run.supplyChain, run.deployment>>
      BY <1>0, <2>3 DEF Goto, Fields
    <3>2. /\ run.artifact = None /\ run.supplyChain = None /\ run.deployment = None
          /\ "verification" \notin Present
      BY <2>1 DEF StageInv, Unaccepted, Examining, At
    <3>3. StageInv'
      BY <2>1, <3>1, <3>2 DEF StageInv, Unaccepted, Examining, Present
    <3>4. run'.artifact \in Artifacts
      <4>1. run'.artifact = [of |-> tag]
        BY <1>0, <2>3 DEF Goto, Fields
      <4>2. tag \in Digests
        BY <2>1, <2>3 DEF IInv, Undecided, At
      <4> QED BY <4>1, <4>2 DEF Artifacts
    <3>5. RecordsInv' /\ VerificationInv'
      BY <2>1, <3>1, <3>2, <3>4 DEF RecordsInv, VerificationInv, Matches, Present
    <3> QED BY <3>3, <3>5
  <2> QED BY <1>2, <2>2, <2>3 DEF Resolve
<1>3. CASE Recheck
  <2>1. At("recheck")
    BY <1>3 DEF Recheck
  <2>2. CASE Fails(run) /\ UNCHANGED files
    BY <1>0, <2>2, FailureIsFaithful
  <2>3. CASE Files("artifact", run.artifact) /\ Goto("sbom", [run EXCEPT !.date = day])
    <3>1. /\ run'.at = "sbom"
          /\ UNCHANGED <<run.artifact, run.supplyChain, run.deployment>>
      BY <1>0, <2>3 DEF Goto, Fields
    <3>2. /\ run.supplyChain = None /\ run.deployment = None
          /\ "verification" \notin Present
      BY <2>1 DEF StageInv, Unaccepted, Examining, At
    <3>3. run.artifact # None
      BY <2>1, NoneIsNoDocument DEF IInv, Undecided, Resolved, At, Image, Artifacts
    <3>4. /\ files'["artifact"] = run.artifact
          /\ \A m : m # "artifact" => (m \in Present' <=> m \in Present)
      BY <2>3, FileWritten
    <3>5. StageInv'
      BY <3>1, <3>2, <3>4 DEF StageInv, Unaccepted, Examining
    <3>6. RecordsInv' /\ VerificationInv'
      BY <3>1, <3>2, <3>3, <3>4 DEF RecordsInv, VerificationInv, Matches
    <3> QED BY <3>5, <3>6
  <2> QED BY <1>3, <2>2, <2>3 DEF Recheck
<1> QED BY <1>1, <1>2, <1>3

LEMMA EvidenceIsFaithful ==
    ASSUME IInv, Faithful, Sbom \/ Scan \/ ScannerVersion \/ WriteEvidence
    PROVE  Faithful'
<1> USE DEF Faithful
<1>0. DOMAIN run = Fields /\ run.at \in {"sbom", "scan", "version", "write"}
  BY DEF IInv, WorldInv, Sbom, Scan, ScannerVersion, WriteEvidence, At
<1>k. /\ run.supplyChain = None /\ run.deployment = None
      /\ "verification" \notin Present
  BY <1>0 DEF StageInv, Unaccepted, Examining
\* They change neither the records nor their files.
<1>1. ASSUME run'.at \in {"collect"} \cup Examining,
             UNCHANGED <<run.artifact, run.supplyChain, run.deployment>>,
             run'.at # "collect" => run'.sbom.subject = run.artifact.of,
             \A n \in Names \ EvidenceNames : n \in Present' <=> n \in Present,
             \A n \in Present \ EvidenceNames : files'[n] = files[n]
      PROVE  Faithful'
  <2>1. StageInv'
    BY <1>1, <1>k DEF StageInv, Unaccepted, Examining, Names, EvidenceNames
  <2>2. RecordsInv' /\ VerificationInv'
    BY <1>1, <1>k DEF RecordsInv, VerificationInv, Matches, Names, EvidenceNames
  <2> QED BY <2>1, <2>2
<1>2. CASE Fails(run) /\ UNCHANGED files
  BY <1>0, <1>2, FailureIsFaithful
<1>3. CASE Sbom
  <2>1. /\ run' = [[run EXCEPT !.sbom = [of |-> Subject, subject |-> run.artifact.of,
                                         by |-> tools["syft"]]] EXCEPT !.at = "scan"]
        /\ UNCHANGED files
    BY <1>3 DEF Sbom, Goto
  <2>2. /\ run'.at = "scan" /\ run'.sbom.subject = run.artifact.of
        /\ UNCHANGED <<run.artifact, run.supplyChain, run.deployment>>
    BY <1>0, <2>1 DEF Fields
  <2> QED BY <1>1, <2>1, <2>2 DEF Examining, Present
<1>4. CASE Scan
  <2>1. /\ run.at = "scan" /\ run'.at = "version" /\ run'.sbom = run.sbom
        /\ UNCHANGED <<files, run.artifact, run.supplyChain, run.deployment>>
    BY <1>0, <1>4 DEF Scan, Goto, Fields, At
  <2> QED BY <1>1, <2>1 DEF Examining, Present, StageInv
<1>5. CASE ScannerVersion
  <2>1. CASE Goto("write", [run EXCEPT !.scanner = tools["trivy"], !.database = tools["db"]])
    <3>1. /\ run.at = "version" /\ run'.at = "write" /\ run'.sbom = run.sbom
          /\ UNCHANGED <<files, run.artifact, run.supplyChain, run.deployment>>
      BY <1>0, <1>5, <2>1 DEF ScannerVersion, Goto, Fields, At
    <3> QED BY <1>1, <3>1 DEF Examining, Present, StageInv
  <2> QED BY <1>2, <1>5, <2>1 DEF ScannerVersion
<1>6. CASE WriteEvidence
  <2>1. PICK written \in Prefixes :
          /\ files' = [n \in Present \cup written |-> IF n \in written THEN Evidence[n] ELSE files[n]]
          /\ IF written = EvidenceNames THEN Goto("accept", run) ELSE Fails(run)
    BY <1>6 DEF WriteEvidence
  <2>2. written \subseteq EvidenceNames
    BY DEF Prefixes, EvidenceNames
  <2>3. /\ \A n \in Names \ EvidenceNames : n \in Present' <=> n \in Present
        /\ \A n \in Present \ EvidenceNames : files'[n] = files[n]
    BY <2>1, <2>2 DEF Present
  <2>4. /\ run.at = "write" /\ run'.at \in {"accept", "collect"} /\ run'.sbom = run.sbom
        /\ UNCHANGED <<run.artifact, run.supplyChain, run.deployment>>
    BY <1>0, <1>6, <2>1 DEF WriteEvidence, At, Goto, Fails, Fields
  <2> QED BY <1>1, <2>3, <2>4 DEF Examining, StageInv
<1> QED BY <1>3, <1>4, <1>5, <1>6

\* The record of the evidence holds of the files it was made from.
LEMMA AcceptIsFaithful ==
    ASSUME IInv, Faithful, Accept
    PROVE  Faithful'
<1> USE DEF Faithful
<1> DEFINE accepted == [run EXCEPT !.supplyChain = SupplyChainRecord]
<1>0. DOMAIN run = Fields /\ run.at = "accept"
  BY DEF IInv, WorldInv, Accept, At
<1>1. CASE Fails(run) /\ UNCHANGED files
  BY <1>0, <1>1, FailureIsFaithful
<1>2. CASE /\ \A n \in EvidenceNames : n \in Present /\ files[n] = Evidence[n]
           /\ \/ Fails(accepted)
              \/ Goto("contract", accepted)
           /\ \/ UNCHANGED files /\ Fails(accepted)
              \/ Files("supplyChain", SupplyChainRecord)
  <2>1. PICK record : record = SupplyChainRecord
    OBVIOUS
  <2>2. /\ run.artifact = Image /\ built \in Digests
        /\ run.sbom \in Sboms /\ run.scan \in Scans /\ run.scan.of = built
        /\ run.scanner \in Versions /\ run.database \in Versions
    BY <1>0 DEF IInv, Undecided, Described, Resolved, At
  <2>3. /\ run.supplyChain = None /\ run.deployment = None
        /\ "verification" \notin Present /\ run.sbom.subject = run.artifact.of
    BY <1>0 DEF StageInv, Unaccepted, Examining
  <2>4. Evidence \in [sbom : Sboms, scan : Scans, provenance : Artifacts]
    BY <2>2 DEF Evidence, Provenance, Artifacts, Image, Sboms
  <2>5. record \in SupplyChains
    BY <2>1, <2>2, <2>4, VerdictIsBoolean DEF SupplyChainRecord, SupplyChains, Image, Sboms
  <2>6. /\ record # None /\ run.artifact # None
        /\ record.of = run.artifact.of /\ record.hashes = Evidence
        /\ record.generator = run.sbom.by
    BY <2>1, <2>2, <2>5, NoneIsNoDocument DEF SupplyChainRecord, Image, Artifacts
  <2>7. /\ UNCHANGED <<run.artifact, run.deployment>> /\ run'.supplyChain = record
        /\ run'.at \in {"contract", "collect"}
    BY <1>0, <1>2, <2>1 DEF Fails, Goto, Fields
  <2>8. /\ \A n : n # "supplyChain" => /\ n \in Present' <=> n \in Present
                                       /\ n \in Present => files'[n] = files[n]
        /\ "supplyChain" \in Present' => files'["supplyChain"] = record
    <3>1. CASE Files("supplyChain", SupplyChainRecord)
      BY <2>1, <3>1, FileWritten
    <3>2. CASE UNCHANGED files
      BY <2>3, <3>2 DEF Present, RecordsInv, Matches
    <3> QED BY <1>2, <3>1, <3>2
  <2>9. EvidenceHolds(record, run.artifact)'
    <3>1. \A n \in EvidenceNames : n \in Present' /\ files'[n] = Evidence[n]
      BY <1>2, <2>8 DEF EvidenceNames
    <3>2. /\ Evidence["sbom"].subject = run.artifact.of /\ Evidence["sbom"].by = run.sbom.by
          /\ Evidence["scan"].of = run.artifact.of /\ Evidence["provenance"].of = run.artifact.of
      BY <2>2, <2>3 DEF Evidence, Provenance, Image
    <3>3. \A n \in EvidenceNames : files'[n] = record.hashes[n]
      BY <2>6, <3>1
    <3> QED BY <2>6, <2>7, <3>1, <3>2, <3>3 DEF EvidenceHolds, EvidenceNames
  <2>10. StageInv'
    BY <2>3, <2>7, <2>8 DEF StageInv, Unaccepted, Examining
  <2>11. RecordsInv'
    BY <2>3, <2>6, <2>7, <2>8, <2>9 DEF RecordsInv, Matches
  <2>12. VerificationInv'
    BY <2>3, <2>8 DEF VerificationInv
  <2> QED BY <2>10, <2>11, <2>12
<1> QED BY <1>1, <1>2 DEF Accept

LEMMA DeploymentIsFaithful ==
    ASSUME IInv, Faithful, ArtifactContract \/ Deploy \/ Reverify
    PROVE  Faithful'
<1> USE DEF Faithful
<1>0. DOMAIN run = Fields
  BY DEF IInv, WorldInv
<1>1. CASE Fails(run) /\ UNCHANGED files
  BY <1>0, <1>1, FailureIsFaithful
\* A file that no record is kept in, verification.json, may be replaced.
<1>2. ASSUME UNCHANGED <<run.artifact, run.supplyChain, run.deployment>>,
             Files("verification", Contract(run.artifact, run.supplyChain, run.deployment)),
             run.artifact # None
      PROVE  RecordsInv' /\ VerificationInv'
  <2>1. /\ files'["verification"] = Contract(run.artifact, run.supplyChain, run.deployment)
        /\ \A m : m # "verification" => /\ m \in Present' <=> m \in Present
                                        /\ m \in Present => files'[m] = files[m]
    BY <1>2, FileWritten
  <2>2. RecordsInv'
    BY <1>2, <2>1 DEF RecordsInv, Matches, EvidenceHolds, EvidenceNames
  <2>3. VerificationInv'
    BY <1>2, <2>1 DEF VerificationInv, Contract, RecordsNamed
  <2> QED BY <2>2, <2>3
<1>3. run.at \in {"contract", "deploy", "reverify"} => run.artifact = Image /\ run.artifact # None
  BY NoneIsNoDocument DEF IInv, Undecided, Resolved, Image, Artifacts
<1>4. CASE ArtifactContract
  <2>1. CASE /\ Files("verification", Contract(run.artifact, run.supplyChain, None))
             /\ Goto(IF run.deploys THEN "deploy" ELSE "collect", run)
    <3>1. /\ run.at = "contract" /\ run.deployment = None
      BY <1>4 DEF ArtifactContract, At, StageInv
    <3>2. /\ run'.at \in {"deploy", "collect"}
          /\ UNCHANGED <<run.artifact, run.supplyChain, run.deployment>>
      BY <1>0, <2>1 DEF Goto, Fields
    <3>3. RecordsInv' /\ VerificationInv'
      BY <1>2, <1>3, <2>1, <3>1, <3>2
    <3>4. StageInv'
      BY <3>1, <3>2 DEF StageInv, Unaccepted, Examining
    <3> QED BY <3>3, <3>4
  <2> QED BY <1>1, <1>4, <2>1 DEF ArtifactContract
<1>5. CASE Deploy
  <2> DEFINE deployed == [run EXCEPT !.deployment = Provenance]
  <2>1. /\ run.at = "deploy" /\ run.deployment = None /\ run.artifact # None
    BY <1>3, <1>5 DEF Deploy, At, StageInv
  <2>2. PICK written \in BOOLEAN :
          /\ IF written THEN Files("deployment", Provenance) ELSE UNCHANGED files
          /\ IF written THEN Goto("reverify", deployed) ELSE Fails(deployed)
    BY <1>5 DEF Deploy
  <2>3. PICK record : record = Provenance
    OBVIOUS
  <2>4. record # None /\ record.of = run.artifact.of
    BY <1>3, <2>1, <2>3 DEF Provenance, Image
  <2>5. /\ run'.at \in {"reverify", "collect"} /\ run'.deployment = record
        /\ run'.at = "collect" => run'.ok = FALSE
        /\ UNCHANGED <<run.artifact, run.supplyChain>>
    BY <1>0, <2>2, <2>3 DEF Goto, Fails, Fields
  <2>6. /\ \A n : n # "deployment" => /\ n \in Present' <=> n \in Present
                                      /\ n \in Present => files'[n] = files[n]
        /\ "deployment" \in Present' => files'["deployment"] = record
    <3>1. CASE Files("deployment", Provenance)
      BY <2>3, <3>1, FileWritten
    <3>2. CASE UNCHANGED files
      BY <2>1, <3>2 DEF Present, RecordsInv, Matches
    <3> QED BY <2>2, <3>1, <3>2
  <2>7. StageInv'
    BY <2>5 DEF StageInv, Unaccepted, Examining
  <2>8. RecordsInv'
    BY <2>1, <2>4, <2>5, <2>6 DEF RecordsInv, Matches, EvidenceHolds, EvidenceNames
  <2>9. VerificationInv'
    BY <2>1, <2>4, <2>5, <2>6 DEF VerificationInv, Reverified, At
  <2> QED BY <2>7, <2>8, <2>9
<1>6. CASE Reverify
  <2>1. CASE /\ Files("verification", Contract(run.artifact, run.supplyChain, run.deployment))
             /\ Goto("collect", run)
    <3>1. run'.at = "collect" /\ UNCHANGED <<run.artifact, run.supplyChain, run.deployment>>
      BY <1>0, <2>1 DEF Goto, Fields
    <3>2. RecordsInv' /\ VerificationInv'
      BY <1>2, <1>3, <1>6, <2>1, <3>1 DEF Reverify, At
    <3>3. StageInv'
      BY <3>1 DEF StageInv, Unaccepted, Examining
    <3> QED BY <3>2, <3>3
  <2> QED BY <1>1, <1>6, <2>1 DEF Reverify
<1> QED BY <1>4, <1>5, <1>6

LEMMA CollectIsFaithful ==
    ASSUME IInv, Faithful, Collect
    PROVE  Faithful'
<1>1. /\ run.at = "collect" /\ run'.at = "close" /\ run'.ok = run.ok
      /\ UNCHANGED <<files, run.artifact, run.supplyChain, run.deployment>>
  BY DEF IInv, WorldInv, Collect, Goto, Fields, At
<1>2. Reverified' => Reverified
  BY <1>1 DEF Reverified, At
<1>3. StageInv'
  BY <1>1 DEF StageInv, Unaccepted, Examining
<1> QED BY <1>1, <1>2, <1>3, RecordsKept DEF Faithful

\* A contract holds of records that name one image.
LEMMA OneImage ==
    ASSUME NEW artifact, NEW record, NEW deployment,
           record # None => record.of = artifact.of,
           deployment # None => deployment.of = artifact.of
    PROVE  ContractHolds(artifact, record, deployment)
<1>1. ImagesNamed(artifact, record, deployment) = {artifact.of}
  BY DEF ImagesNamed
<1> QED BY <1>1, FS_Singleton DEF ContractHolds

\* What a run seals without an edit verifies.
LEMMA SealVerifies ==
    ASSUME IInv, FaithInv, Close, ~edited
    PROVE  SealedBundlesVerify'
<1>0. /\ run.at = "close" /\ DOMAIN run = Fields /\ ~Sealed
      /\ StageInv /\ RecordsInv /\ VerificationInv /\ "report" \notin Present
  BY DEF Close, At, IInv, WorldInv, SealInv, FaithInv, Faithful
<1>1. /\ UNCHANGED <<run.artifact, run.supplyChain, run.deployment>>
      /\ run'.ok = run.ok /\ run'.at = "ended"
  BY <1>0 DEF Close, Goto, Fields
<1>2. CASE UNCHANGED sums
  BY <1>0, <1>2 DEF SealedBundlesVerify, Sealed
<1>3. CASE /\ \A n \in DOMAIN run.sealed : n \in Present /\ files[n] = run.sealed[n]
           /\ Files("report", Report) /\ sums' = files'
  <2>1. PICK report : report = Report
    OBVIOUS
  <2>2. /\ report.artifact = run.artifact /\ report.supplyChain = run.supplyChain
        /\ report.deployment = run.deployment /\ report.checksums = run.sealed
    BY <2>1 DEF Report
  <2>3. /\ "report" \in Present' /\ files'["report"] = report
        /\ \A m : m # "report" => /\ m \in Present' <=> m \in Present
                                  /\ m \in Present => files'[m] = files[m]
    BY <1>3, <2>1, FileWritten
  <2> SUFFICES ASSUME run.deployment # None => run.ok
               PROVE  Verifies'
    BY <1>1 DEF SealedBundlesVerify
  <2>4. Reverified
    BY <1>0 DEF Reverified, At
  <2>5. /\ Sealed' /\ Present' = DOMAIN sums' /\ \A n \in Present' : files'[n] = sums'[n]
    BY <1>3, <2>3 DEF Sealed, Present
  <2>6. /\ Matches("artifact", run.artifact)'
        /\ Matches("supplyChain", run.supplyChain)'
        /\ Matches("deployment", run.deployment)'
    BY <1>0, <1>1, <2>3 DEF RecordsInv, Matches
  <2>7. \A n \in DOMAIN run.sealed : n \in Present' /\ files'[n] = run.sealed[n]
    BY <1>0, <1>3, <2>3
  <2>8. ContractHolds(run.artifact, run.supplyChain, run.deployment)
    BY <1>0, OneImage DEF RecordsInv
  <2>9. run.supplyChain # None => EvidenceHolds(run.supplyChain, run.artifact)'
    BY <1>0, <1>1, <2>3 DEF RecordsInv, EvidenceHolds, EvidenceNames
  <2>10. /\ "verification" \in Present' =>
              /\ run.artifact # None
              /\ files'["verification"] = Contract(run.artifact, run.supplyChain, run.deployment)
         /\ run.artifact = None => run.supplyChain = None /\ run.deployment = None
    BY <1>0, <2>3, <2>4 DEF VerificationInv, RecordsInv
  <2>11. run.artifact # None => Contract(run.artifact, run.supplyChain, run.deployment) # None
    BY <1>0, NoneIsNoDocument
    DEF RecordsInv, Contract, Contracts, RecordsNamed, Artifacts
  <2> QED
    BY <1>1, <2>2, <2>3, <2>5, <2>6, <2>7, <2>8, <2>9, <2>10, <2>11 DEF Verifies, Matches
<1> QED BY <1>2, <1>3 DEF Close

\* What was sealed and not edited stays as it was verified.
LEMMA SealedStays ==
    ASSUME SealedBundlesVerify, UNCHANGED <<run, files, sums>>, ~edited
    PROVE  SealedBundlesVerify'
BY DEF SealedBundlesVerify, Verifies, Matches, EvidenceHolds, Sealed, Present, ContractHolds,
       ImagesNamed, Contract, RecordsNamed

LEMMA StepIsFaithful ==
    ASSUME IInv, FaithInv, Step
    PROVE  FaithInv'
<1>0. UNCHANGED edited /\ run.at # "ended" /\ ~Sealed /\ DOMAIN run = Fields
  <2>1. UNCHANGED edited
    BY DEF Step, Build, Resolve, Recheck, Sbom, Scan, ScannerVersion, WriteEvidence, Accept,
        ArtifactContract, Deploy, Reverify, Collect, Close, Fail, Die, world
  <2>2. run.at # "ended"
    BY DEF Step, Build, Resolve, Recheck, Sbom, Scan, ScannerVersion, WriteEvidence, Accept,
        ArtifactContract, Deploy, Reverify, Collect, Close, Fail, Die, At
  <2> QED BY <2>1, <2>2 DEF IInv, SealInv, WorldInv
<1>1. "report" \notin Present /\ (~edited => Faithful)
  BY <1>0 DEF FaithInv
<1>2. CASE Close
  <2>1. run'.at = "ended"
    BY <1>0, <1>2 DEF Close, Goto, Fields
  <2>2. SealedBundlesVerify'
    <3>1. CASE edited
      BY <1>0, <3>1 DEF SealedBundlesVerify
    <3> QED BY <1>2, <3>1, SealVerifies
  <2> QED BY <2>1, <2>2 DEF FaithInv
<1>3. CASE Die
  <2>1. run'.at = "ended" /\ ~Sealed'
    BY <1>0, <1>3 DEF Die, Goto, Fields, Sealed
  <2> QED BY <2>1 DEF FaithInv, SealedBundlesVerify
<1>4. CASE ~Close /\ ~Die
  <2>1. ~Sealed'
    BY <1>0, <1>4
    DEF Step, Build, Resolve, Recheck, Sbom, Scan, ScannerVersion, WriteEvidence, Accept,
        ArtifactContract, Deploy, Reverify, Collect, Fail, Sealed
  <2>2. "report" \notin Present'
    BY <1>1, <1>4
    DEF Step, Build, Resolve, Recheck, Sbom, Scan, ScannerVersion, WriteEvidence, Accept,
        ArtifactContract, Deploy, Reverify, Collect, Fail, Files, Present, Prefixes, EvidenceNames
  <2>3. ASSUME ~edited PROVE Faithful'
    <3>1. CASE Fail
      BY <1>0, <1>1, <2>3, <3>1, FailureIsFaithful DEF Fail, Faithful
    <3> QED
      BY <1>1, <1>4, <2>3, <3>1, BeginningIsFaithful, EvidenceIsFaithful, AcceptIsFaithful,
         DeploymentIsFaithful, CollectIsFaithful DEF Step
  <2> QED BY <1>0, <2>1, <2>2, <2>3 DEF FaithInv, SealedBundlesVerify
<1> QED BY <1>2, <1>3, <1>4

LEMMA NextIsFaithful ==
    IInv /\ FaithInv /\ [Next]_vars => FaithInv'
<1> SUFFICES ASSUME IInv, FaithInv, [Next]_vars PROVE FaithInv'
  OBVIOUS
<1>1. CASE Step
  BY <1>1, StepIsFaithful
<1>2. CASE UNCHANGED <<run, files, sums, edited>>
  <2>1. SealedBundlesVerify'
    <3>1. CASE edited
      BY <1>2, <3>1 DEF SealedBundlesVerify
    <3> QED BY <1>2, <3>1, SealedStays DEF FaithInv
  <2>2. run.at # "ended" /\ ~edited => Faithful'
    BY <1>2
    DEF FaithInv, Faithful, StageInv, RecordsInv, VerificationInv, Reverified, Matches,
        EvidenceHolds, Present, At, Contract, RecordsNamed
  <2> QED BY <1>2, <2>1, <2>2 DEF FaithInv, Present
<1>3. CASE Others /\ SomebodyEdits
  <2>1. edited' = TRUE /\ UNCHANGED run /\ Present' = Present
    BY <1>3 DEF SomebodyEdits, Files, Present
  <2> QED BY <2>1 DEF FaithInv, SealedBundlesVerify
<1> QED
  BY <1>1, <1>2, <1>3 DEF Next, Others, SomebodyPushes, ToolIsReplaced, DayEnds, vars

\* Every bundle that a run sealed and nobody edited is accepted by `artifact
\* verify`, whatever failed on the way, unless the run failed between the
\* record of its deployment and the second verification.
THEOREM SealedIsAccepted == Spec => []SealedBundlesVerify
<1>1. Init => FaithInv
  BY DEF Init, Start, FaithInv, Faithful, StageInv, RecordsInv, VerificationInv, Matches,
      Present, SealedBundlesVerify, Sealed, Examining, Unaccepted
<1>2. FaithInv => SealedBundlesVerify
  BY DEF FaithInv
<1> QED BY <1>1, <1>2, Invariance, NextIsFaithful, PTL DEF Spec

-----------------------------------------------------------------------------
(* Every vulnerability policy, not only the one of the run: its verdict is  *)
(* monotone.                                                                *)

\* The violations of fewer findings are no more, and finitely many findings
\* have finitely many violations.
LEMMA FewerViolations ==
    ASSUME NEW few, NEW many, few \subseteq many, IsFiniteSet(many),
           NEW policy, NEW otherPolicy, NEW date, NEW otherDate,
           Violating(few, policy, date) \subseteq Violating(many, otherPolicy, otherDate)
    PROVE  /\ Cardinality(Violating(few, policy, date)) \in Nat
           /\ Cardinality(Violating(many, otherPolicy, otherDate)) \in Nat
           /\ Cardinality(Violating(few, policy, date))
              <= Cardinality(Violating(many, otherPolicy, otherDate))
<1>1. Violating(many, otherPolicy, otherDate) \subseteq many
  BY DEF Violating, Matching
<1>2. IsFiniteSet(Violating(many, otherPolicy, otherDate))
  BY <1>1, FS_Subset
<1>3. /\ IsFiniteSet(Violating(few, policy, date))
      /\ Cardinality(Violating(few, policy, date))
         <= Cardinality(Violating(many, otherPolicy, otherDate))
  BY <1>2, FS_Subset
<1> QED BY <1>2, <1>3, FS_CardinalityType

\* An image of which less is known to be vulnerable passes wherever the other
\* does (policies.py:333-388).
THEOREM FewerFindingsPass ==
    ASSUME NEW few, NEW many, few \subseteq many, IsFiniteSet(many),
           NEW policy, policy.maximum \in Nat, NEW date,
           PolicyPasses(many, policy, date)
    PROVE  PolicyPasses(few, policy, date)
<1>1. Violating(few, policy, date) \subseteq Violating(many, policy, date)
  BY DEF Violating, Matching
<1>2. Cardinality(Violating(few, policy, date)) <= policy.maximum
  BY <1>1, FewerViolations DEF PolicyPasses
<1>3. Unrated(few) = {}
  BY DEF PolicyPasses, Unrated
<1> QED BY <1>2, <1>3 DEF PolicyPasses

\* Time only takes away: what a policy accepts on a day it accepted on every day
\* before, of the same findings, since exceptions expire and none begins
\* (policies.py:296-305, 346-362).
THEOREM EarlierDaysPass ==
    ASSUME NEW findings, IsFiniteSet(findings),
           NEW policy, policy.maximum \in Nat,
           \A entry \in policy.allowlist : entry.expires \in Nat,
           NEW later \in Nat, NEW earlier \in Nat, earlier <= later,
           PolicyPasses(findings, policy, later)
    PROVE  PolicyPasses(findings, policy, earlier)
<1>1. Expired(policy, earlier) = {}
  BY DEF PolicyPasses, Expired
<1>2. Active(policy, later) \subseteq Active(policy, earlier)
  BY DEF Active
<1>3. Violating(findings, policy, earlier) \subseteq Violating(findings, policy, later)
  BY <1>2 DEF Violating, Allowed
<1>4. Cardinality(Violating(findings, policy, earlier)) <= policy.maximum
  BY <1>3, FewerViolations DEF PolicyPasses
<1> QED BY <1>1, <1>4 DEF PolicyPasses

\* A policy that counts more severities, ignores nothing the other counts,
\* allows no more and tolerates no more accepts nothing the other refuses.
THEOREM StricterPoliciesPassLess ==
    ASSUME NEW findings, IsFiniteSet(findings), NEW date,
           NEW loose, NEW strict, loose.maximum \in Nat, strict.maximum \in Nat,
           loose.severities \subseteq strict.severities,
           strict.ignoreUnfixed => loose.ignoreUnfixed,
           loose.allowlist = strict.allowlist,
           strict.maximum <= loose.maximum,
           PolicyPasses(findings, strict, date)
    PROVE  PolicyPasses(findings, loose, date)
<1>1. Violating(findings, loose, date) \subseteq Violating(findings, strict, date)
  BY DEF Violating, Matching, Ignored, Allowed, Active
<1>2. Cardinality(Violating(findings, loose, date)) <= loose.maximum
  BY <1>1, FewerViolations DEF PolicyPasses
<1>3. Expired(loose, date) = {}
  BY DEF PolicyPasses, Expired
<1> QED BY <1>2, <1>3 DEF PolicyPasses
=============================================================================
