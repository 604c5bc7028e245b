------------------------------- MODULE Upgrade -------------------------------
(***************************************************************************)
(* src/src/upgrade.rs: `cymail upgrade`.  Any number of upgraders run      *)
(* against one installed binary and one release feed; each can crash       *)
(* between any two steps.  The feed follows .github/workflows/release.yml: *)
(* a release becomes visible, then its binary, then checksums.txt.         *)
(***************************************************************************)
EXTENDS Naturals

CONSTANTS
  Procs,        \* process ids; the temp file of p is .cymail-upgrade-<p>
  MaxVersion    \* bound: the last release published

Platforms == {"linux", "macos", "windows"}

ASSUME ConstantsAssumption ==
  /\ Procs # {} /\ MaxVersion \in Nat \ {0}

Versions == 0..MaxVersion
Assets   == {"binary", "checksums"}

(* What a file holds: nothing, part of a download, the genuine binary of a *)
(* release, or a response body that is not the asset (an error page).      *)
File   == [kind : {"absent", "partial", "binary", "page"}, ver : Versions]
Absent == [kind |-> "absent", ver |-> 0]
Whole  == [kind : {"binary", "page"}, ver : Versions]

VARIABLES
  platform,  \* where the upgraders run, fixed
  latest,    \* tag of the latest published release, 0 when there is none
  assets,    \* [Versions -> SUBSET Assets]: what each release has so far
  exe,       \* the file at the installed path
  stray,     \* the file at "<installed path> (deleted)", see Target
  tmp,       \* [Procs -> File]: the temp files next to it
  replaced,  \* running processes whose own image was renamed over
  pc,        \* [Procs -> Pcs]
  run        \* [Procs -> RunType]: the locals of upgrade()

feed == <<platform, latest, assets>>
disk == <<exe, stray, tmp, replaced>>
vars == <<feed, disk, pc, run>>

Pcs == {"idle", "release", "download", "checksums", "create", "write", "signature",
        "swap", "done"}
Results == {"none", "ok", "dryRun", "Network", "AlreadyLatest", "NoMatchingAsset",
            "DownloadFailed", "ChecksumMismatch", "SignatureRejected", "SwapFailed"}
RunType ==
  [current : Versions,            \* CARGO_PKG_VERSION of the running image
   tag     : Versions,            \* the release picked
   checks  : BOOLEAN,             \* checks_url is Some
   bytes   : Whole \cup {Absent}, \* the download
   vouched : BOOLEAN,             \* a checksum line matched the download
   target  : {"exe", "stray"},    \* the file current_exe() named
   result  : Results]

NoRun == [current |-> 0, tag |-> 0, checks |-> FALSE, bytes |-> Absent,
          vouched |-> FALSE, target |-> "exe", result |-> "none"]

Init ==
  /\ platform \in Platforms /\ latest = 0 /\ assets = [v \in Versions |-> {}]
  /\ exe = [kind |-> "binary", ver |-> 0] /\ stray = Absent
  /\ tmp = [p \in Procs |-> Absent] /\ replaced = {}
  /\ pc = [p \in Procs |-> "idle"] /\ run = [p \in Procs |-> NoRun]

------------------------------------------------------------------------------
(* The release feed. *)

Publish ==
  /\ latest < MaxVersion
  /\ latest' = latest + 1
  /\ UNCHANGED <<platform, assets, disk, pc, run>>

(* The newest release is deleted: releases/latest names the one before it. *)
Withdraw ==
  /\ latest > 0
  /\ latest' = latest - 1 /\ assets' = [assets EXCEPT ![latest] = {}]
  /\ UNCHANGED <<platform, disk, pc, run>>

Upload(v, a) ==
  /\ v \in 1..latest /\ a \notin assets[v]
  /\ a = "checksums" => "binary" \in assets[v]
  /\ assets' = [assets EXCEPT ![v] = @ \cup {a}]
  /\ UNCHANGED <<platform, latest, disk, pc, run>>

------------------------------------------------------------------------------
(* upgrade(). *)

Goto(p, l) == pc' = [pc EXCEPT ![p] = l]
Return(p, res) == Goto(p, "done") /\ run' = [run EXCEPT ![p].result = res]

(* The user runs the installed binary.                                     *)
Start(p) ==
  /\ pc[p] = "idle" /\ exe.kind = "binary"
  /\ Goto(p, "release")
  /\ run' = [run EXCEPT ![p] = [NoRun EXCEPT !.current = exe.ver]]
  /\ UNCHANGED <<feed, disk>>

(* is_newer *)
IsNewer(a, b) == a > b

(* releases/latest.  The HTTP status is not looked at: a JSON error body   *)
(* has no tag_name, and the empty tag is not newer.                        *)
FetchRelease(p) ==
  /\ pc[p] = "release"
  /\ LET current == run[p].current IN
     \/ Return(p, "Network")
     \/ Return(p, "AlreadyLatest")                    \* JSON error body
     \/ ~IsNewer(latest, current) /\ Return(p, "AlreadyLatest")
     \/ /\ IsNewer(latest, current) /\ "binary" \notin assets[latest]
        /\ Return(p, "NoMatchingAsset")
     \/ /\ IsNewer(latest, current) /\ "binary" \in assets[latest]
        /\ \/ Return(p, "dryRun")
           \/ /\ Goto(p, "download")
              /\ run' = [run EXCEPT ![p].tag = latest,
                                    ![p].checks = "checksums" \in assets[latest]]
  /\ UNCHANGED <<feed, disk>>

(* Mutants: a body cut short is accepted; a failed download starts over.   *)
Download_Truncated(p) ==
  /\ pc[p] = "download"
  /\ run' = [run EXCEPT ![p].bytes = [kind |-> "partial", ver |-> run[p].tag]]
  /\ Goto(p, IF run[p].checks THEN "checksums" ELSE "create")
  /\ UNCHANGED <<feed, disk>>

Download_StartsOver(p) ==
  /\ pc[p] = "download"
  /\ \/ Goto(p, "release") /\ UNCHANGED run
     \/ /\ run' = [run EXCEPT ![p].bytes = [kind |-> "binary", ver |-> run[p].tag]]
        /\ Goto(p, IF run[p].checks THEN "checksums" ELSE "create")
  /\ UNCHANGED <<feed, disk>>

(* The asset URL names the release; an error page downloads like it.       *)
Download(p) ==
  /\ pc[p] = "download"
  /\ \/ Return(p, "DownloadFailed")
     \/ \E kind \in {"binary", "page"} :
          /\ run' = [run EXCEPT ![p].bytes = [kind |-> kind, ver |-> run[p].tag]]
          /\ Goto(p, IF run[p].checks THEN "checksums" ELSE "create")
  /\ UNCHANGED <<feed, disk>>

(* checksums.txt: a line for the asset is compared; no line (an error page *)
(* again) and the download goes unchecked.                                 *)
Checksums(p) ==
  /\ pc[p] = "checksums"
  /\ \/ Return(p, "DownloadFailed")
     \/ Goto(p, "create") /\ UNCHANGED run            \* no matching line
     \/ /\ run[p].bytes.kind = "binary"
        /\ Goto(p, "create") /\ run' = [run EXCEPT ![p].vouched = TRUE]
     \/ run[p].bytes.kind # "binary" /\ Return(p, "ChecksumMismatch")
  /\ UNCHANGED <<feed, disk>>

(* What current_exe() names.  On Linux it is the link /proc/self/exe,      *)
(* which reads "<path> (deleted)" once the image was renamed over.         *)
Target(p) == IF platform = "linux" /\ p \in replaced THEN "stray" ELSE "exe"

(* Mutant: the download is written over the binary itself.                 *)
CreateTmp_InPlace(p) ==
  /\ pc[p] = "create"
  /\ exe' = [kind |-> "partial", ver |-> run[p].tag]
  /\ Goto(p, "write")
  /\ UNCHANGED <<feed, stray, tmp, replaced, run>>

(* current_exe() is asked once, then fs::write(tmp): create or truncate,   *)
(* then fill.                                                              *)
CreateTmp(p) ==
  /\ pc[p] = "create"
  /\ \/ /\ tmp' = [tmp EXCEPT ![p] = [kind |-> "partial", ver |-> run[p].tag]]
        /\ Goto(p, "write") /\ run' = [run EXCEPT ![p].target = Target(p)]
     \/ Return(p, "SwapFailed") /\ UNCHANGED tmp
  /\ UNCHANGED <<feed, exe, stray, replaced>>

WriteTmp(p) ==
  /\ pc[p] = "write"
  /\ \/ /\ tmp' = [tmp EXCEPT ![p] = run[p].bytes]
        /\ Goto(p, IF platform = "windows" THEN "signature" ELSE "swap")
        /\ UNCHANGED run
     \/ Return(p, "SwapFailed") /\ UNCHANGED tmp
  /\ UNCHANGED <<feed, exe, stray, replaced>>

(* Mutant: the signature is looked at but its subject is not.              *)
VerifySignature_AnySubject(p) ==
  /\ pc[p] = "signature"
  /\ Goto(p, "swap") /\ UNCHANGED <<feed, disk, run>>

(* verify_windows_signature: only the genuine binary can pass.             *)
VerifySignature(p) ==
  /\ pc[p] = "signature"
  /\ \/ tmp[p].kind = "binary" /\ Goto(p, "swap") /\ UNCHANGED <<tmp, run>>
     \/ tmp' = [tmp EXCEPT ![p] = Absent] /\ Return(p, "SignatureRejected")
  /\ UNCHANGED <<feed, exe, stray, replaced>>

Running == {p \in Procs : pc[p] # "idle"}

(* Mutant: the temp file has no process id in its name.                    *)
Rename_SharedName(p) ==
  \E r \in Procs :
    /\ tmp[r] # Absent /\ tmp' = [tmp EXCEPT ![r] = Absent]
    /\ exe' = tmp[r] /\ replaced' = Running /\ UNCHANGED stray

Rename(p) ==
  /\ tmp' = [tmp EXCEPT ![p] = Absent]
  /\ IF run[p].target = "stray"
       THEN stray' = tmp[p] /\ UNCHANGED <<exe, replaced>>
       ELSE exe' = tmp[p] /\ replaced' = Running /\ UNCHANGED stray

Swap(p) ==
  /\ pc[p] = "swap"
  /\ \/ Rename(p) /\ Return(p, "ok")
     \/ Return(p, "SwapFailed") /\ UNCHANGED <<exe, stray, tmp, replaced>>
  /\ UNCHANGED feed

(* The process ends; a crash leaves the disk as it is.                     *)
Leave(p) ==
  /\ Goto(p, "idle") /\ run' = [run EXCEPT ![p] = NoRun]
  /\ replaced' = replaced \ {p}
  /\ UNCHANGED <<feed, exe, stray, tmp>>

Exit(p)  == pc[p] = "done" /\ Leave(p)
Crash(p) == pc[p] # "idle" /\ Leave(p)

Step(p) ==
  \/ FetchRelease(p) \/ Download(p) \/ Checksums(p) \/ CreateTmp(p) \/ WriteTmp(p)
  \/ VerifySignature(p) \/ Swap(p) \/ Exit(p)

Next ==
  \/ Publish \/ Withdraw
  \/ \E v \in Versions, a \in Assets : Upload(v, a)
  \/ \E p \in Procs : Start(p) \/ Step(p) \/ Crash(p)

Spec == Init /\ [][Next]_vars

(* Every await of upgrade() ends: http_timeout bounds the HTTP calls.      *)
FairSpec == Spec /\ \A p \in Procs : WF_vars(Step(p))

------------------------------------------------------------------------------
TypeOK ==
  /\ platform \in Platforms /\ latest \in Versions /\ assets \in [Versions -> SUBSET Assets]
  /\ exe \in File /\ stray \in File /\ tmp \in [Procs -> File]
  /\ replaced \subseteq Running
  /\ pc \in [Procs -> Pcs] /\ run \in [Procs -> RunType]

(* The installed path always holds one whole file, a crash at any step     *)
(* included ("atomically replace current_exe()").                          *)
ExeIsWhole == exe \in Whole

(* A binary is replaced only by the download of one run, of a release      *)
(* newer than that run's own version, and by the genuine one whenever a    *)
(* checksum line was found for it.                                         *)
SwapIsJustified ==
  [][exe' # exe =>
       \E p \in Procs :
         /\ exe' = run[p].bytes /\ exe'.ver = run[p].tag
         /\ run[p].tag > run[p].current
         /\ run[p].vouched => exe'.kind = "binary"]_vars

(* The installed version never goes back, whatever becomes of the release  *)
(* feed meanwhile (proved of a single upgrader, refuted for two).          *)
NeverDowngrades == [][exe'.ver >= exe.ver]_vars

(* On Windows nothing is installed but what passed the signature check.    *)
OnlySignedOnWindows == platform = "windows" => exe.kind = "binary"

(* Every run ends.                                                         *)
EveryRunEnds == \A p \in Procs : pc[p] # "idle" ~> pc[p] = "idle"

------------------------------------------------------------------------------
(* What the documentation says and the code does not keep: each, given as  *)
(* INVARIANT or PROPERTY to Upgrade.cfg, is refuted.                       *)

(* "sha256-verify against the release's checksums.txt": what is installed  *)
(* is a release binary.                                                    *)
ExeIsGenuine == exe.kind = "binary"

(* "already on latest version".                                            *)
AlreadyLatestIsTrue ==
  [][\A p \in Procs :
       pc[p] = "release" /\ run'[p].result = "AlreadyLatest"
         => ~IsNewer(latest, run[p].current)]_vars

(* "upgraded {current} -> {latest}": the new binary is the installed one.  *)
UpgradedMeansInstalled ==
  [][\A p \in Procs :
       pc[p] = "swap" /\ run'[p].result = "ok" => exe' = run[p].bytes]_vars
==============================================================================
