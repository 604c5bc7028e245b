---------------------------- MODULE Upgrade_proofs ----------------------------
(* Safety of `cymail upgrade` for any set of upgraders, any number of      *)
(* releases and every platform.                                            *)
EXTENDS Upgrade, TLAPS

(* What a run knows at each step: the release picked is newer than itself  *)
(* from the moment it is picked, the download is a whole file of that      *)
(* release from the moment it arrives, and is what the temp file holds     *)
(* from the moment that is written until it is renamed.                    *)
Picked     == {"download", "checksums", "create", "write", "signature", "swap"}
Downloaded == Picked \ {"download"}

RunInv(p) ==
  /\ pc[p] \in Picked => run[p].tag > run[p].current
  /\ pc[p] \in Downloaded =>
       /\ run[p].bytes \in Whole /\ run[p].bytes.ver = run[p].tag
       /\ run[p].vouched => run[p].bytes.kind = "binary"
  /\ pc[p] \in {"download", "release"} => ~run[p].vouched
  /\ pc[p] \in {"signature", "swap"} => tmp[p] = run[p].bytes
  /\ pc[p] = "swap" /\ platform = "windows" => tmp[p].kind = "binary"

IInv ==
  /\ TypeOK /\ ExeIsWhole /\ OnlySignedOnWindows
  /\ \A p \in Procs : RunInv(p)

LEMMA FileFacts == Whole \subseteq File /\ Absent \in File
<1>1. 0 \in Versions
  BY ConstantsAssumption DEF Versions
<1>2. Absent \in File
  BY <1>1 DEF Absent, File
<1>3. ASSUME NEW f \in Whole PROVE f \in File
  BY <1>3 DEF Whole, File
<1>4. QED
  BY <1>2, <1>3

LEMMA IInvInit == ASSUME Init PROVE IInv
<1>1. NoRun \in RunType
  BY ConstantsAssumption DEF NoRun, RunType, Versions, Results
<1>2. [kind |-> "binary", ver |-> 0] \in Whole
  BY ConstantsAssumption DEF Whole, Versions
<1>3. TypeOK
  BY <1>1, <1>2, FileFacts, ConstantsAssumption
     DEF Init, TypeOK, Versions, Assets, Pcs, Running
<1>4. ASSUME NEW p \in Procs PROVE RunInv(p)
  BY DEF Init, RunInv, Picked, Downloaded
<1>5. QED
  BY <1>2, <1>3, <1>4 DEF IInv, Init, ExeIsWhole, OnlySignedOnWindows

(* A step of p that moves it from one await to the next, or returns.       *)
LEMMA TypeStep ==
  ASSUME TypeOK, NEW p \in Procs, NEW l \in Pcs \ {"idle"},
         pc[p] # "idle", Goto(p, l), run' \in [Procs -> RunType],
         exe' \in File, stray' \in File, tmp' \in [Procs -> File],
         replaced' \in {replaced, Running}, UNCHANGED feed
  PROVE  TypeOK'
<1>1. Running' = Running /\ pc' \in [Procs -> Pcs]
  BY DEF Goto, Running, TypeOK
<1>2. QED
  BY <1>1 DEF TypeOK, feed

LEMMA ReturnType ==
  ASSUME TypeOK, NEW p \in Procs, NEW r \in Results, Return(p, r)
  PROVE  run' \in [Procs -> RunType] /\ Goto(p, "done")
<1>1. [run[p] EXCEPT !.result = r] \in RunType
  BY DEF TypeOK, RunType
<1>2. QED
  BY <1>1 DEF TypeOK, Return

LEMMA PlatformFixed == ASSUME [Next]_vars PROVE platform' = platform
BY DEF Next, Step, Publish, Withdraw, Upload, Start, FetchRelease, Download, Checksums,
       CreateTmp, WriteTmp, VerifySignature, Swap, Exit, Crash, Leave, vars, feed

(* The runs an action does not touch keep what they know.                  *)
LEMMA OtherRuns ==
  ASSUME TypeOK, NEW p \in Procs, RunInv(p), platform' = platform,
         pc'[p] = pc[p], run'[p] = run[p], tmp'[p] = tmp[p]
  PROVE  RunInv(p)'
BY DEF RunInv

LEMMA RunInvNext == ASSUME TypeOK, \A p \in Procs : RunInv(p), [Next]_vars
                    PROVE  \A p \in Procs : RunInv(p)'
<1> SUFFICES ASSUME NEW q \in Procs PROVE RunInv(q)'
  OBVIOUS
<1> /\ pc \in [Procs -> Pcs] /\ run \in [Procs -> RunType] /\ tmp \in [Procs -> File]
    /\ RunInv(q) /\ run[q] \in RunType /\ latest \in Versions
    /\ platform' = platform
  BY PlatformFixed DEF TypeOK
<1> USE DEF Goto, Return
<1>1. CASE UNCHANGED <<pc, run, tmp>>
  BY <1>1, OtherRuns
<1>2. ASSUME NEW p \in Procs, Start(p) PROVE RunInv(q)'
  BY <1>2 DEF Start, RunInv, Picked, Downloaded, NoRun, disk
<1>3. ASSUME NEW p \in Procs, FetchRelease(p) PROVE RunInv(q)'
  BY <1>3 DEF FetchRelease, RunInv, Picked, Downloaded, RunType, disk, IsNewer
<1>4. ASSUME NEW p \in Procs, Download(p) PROVE RunInv(q)'
  <2>1. UNCHANGED tmp /\ (q # p => pc'[q] = pc[q] /\ run'[q] = run[q])
    BY <1>4 DEF Download, disk
  <2>2. CASE q = p /\ Return(p, "DownloadFailed")
    BY <1>4, <2>1, <2>2 DEF Download, RunInv, Picked, Downloaded
  <2>3. ASSUME q = p, NEW kind \in {"binary", "page"},
               run' = [run EXCEPT ![p].bytes = [kind |-> kind, ver |-> run[p].tag]],
               pc' = [pc EXCEPT ![p] = IF run[p].checks THEN "checksums" ELSE "create"]
        PROVE  RunInv(q)'
    <3>1. /\ run'[q].tag = run[q].tag /\ run'[q].current = run[q].current
          /\ run'[q].vouched = run[q].vouched
          /\ run'[q].bytes = [kind |-> kind, ver |-> run[q].tag]
      BY <2>3 DEF RunType
    <3>2. run'[q].bytes \in Whole /\ run'[q].bytes.ver = run'[q].tag
      BY <3>1 DEF Whole, RunType
    <3>3. pc[q] = "download" /\ ~run[q].vouched /\ run[q].tag > run[q].current
      BY <1>4, <2>3 DEF Download, RunInv, Picked
    <3>4. pc'[q] \in {"checksums", "create"}
      BY <2>3
    <3>5. QED
      BY <3>1, <3>2, <3>3, <3>4 DEF RunInv, Picked, Downloaded
  <2>4. QED
    BY <1>4, <2>1, <2>2, <2>3, OtherRuns DEF Download
<1>5. ASSUME NEW p \in Procs, Checksums(p) PROVE RunInv(q)'
  BY <1>5 DEF Checksums, RunInv, Picked, Downloaded, RunType, disk
<1>6. ASSUME NEW p \in Procs, CreateTmp(p) PROVE RunInv(q)'
  <2>1. /\ pc[p] = "create" /\ pc'[p] \in {"write", "done"}
        /\ q # p => pc'[q] = pc[q] /\ run'[q] = run[q] /\ tmp'[q] = tmp[q]
    BY <1>6 DEF CreateTmp
  <2>2. /\ run'[p].tag = run[p].tag /\ run'[p].current = run[p].current
        /\ run'[p].vouched = run[p].vouched /\ run'[p].bytes = run[p].bytes
    BY <1>6 DEF CreateTmp, RunType
  <2>3. CASE q = p
    BY <2>1, <2>2, <2>3 DEF RunInv, Picked, Downloaded
  <2>4. QED
    BY <2>1, <2>3, OtherRuns
<1>7. ASSUME NEW p \in Procs, WriteTmp(p) PROVE RunInv(q)'
  BY <1>7 DEF WriteTmp, RunInv, Picked, Downloaded, RunType
<1>8. ASSUME NEW p \in Procs, VerifySignature(p) PROVE RunInv(q)'
  BY <1>8 DEF VerifySignature, RunInv, Picked, Downloaded, RunType
<1>9. ASSUME NEW p \in Procs, Swap(p) PROVE RunInv(q)'
  BY <1>9 DEF Swap, Rename, RunInv, Picked, Downloaded, RunType
<1>10. ASSUME NEW p \in Procs, Exit(p) \/ Crash(p) PROVE RunInv(q)'
  BY <1>10 DEF Exit, Crash, Leave, RunInv, Picked, Downloaded
<1>11. QED
  BY <1>1, <1>2, <1>3, <1>4, <1>5, <1>6, <1>7, <1>8, <1>9, <1>10
     DEF Next, Step, Publish, Withdraw, Upload, disk, vars

(* The file at the installed path: only Rename writes it, with the temp    *)
(* file of a run that has its download whole and, on Windows, signed.      *)
LEMMA ExeNext ==
  ASSUME IInv, [Next]_vars
  PROVE  /\ ExeIsWhole' /\ OnlySignedOnWindows'
         /\ exe' # exe => \E p \in Procs : Swap(p) /\ exe' = run[p].bytes
<1> USE DEF IInv
<1>1. ASSUME NEW p \in Procs, Swap(p), exe' # exe
      PROVE  /\ exe' = tmp[p] /\ tmp[p] = run[p].bytes /\ run[p].bytes \in Whole
             /\ platform = "windows" => tmp[p].kind = "binary"
  <2>1. pc[p] = "swap" /\ RunInv(p)
    BY <1>1 DEF Swap
  <2>2. exe' = tmp[p]
    BY <1>1 DEF Swap, Rename
  <2>3. QED
    BY <2>1, <2>2 DEF RunInv, Downloaded, Picked
<1>2. CASE exe' = exe
  BY <1>2, PlatformFixed DEF ExeIsWhole, OnlySignedOnWindows
<1>3. ASSUME exe' # exe PROVE \E p \in Procs : Swap(p)
  BY <1>3 DEF Next, Step, Publish, Withdraw, Upload, Start, FetchRelease, Download,
              Checksums, CreateTmp, WriteTmp, VerifySignature, Exit, Crash, Leave, vars, disk
<1>4. QED
  BY <1>1, <1>2, <1>3, PlatformFixed DEF ExeIsWhole, OnlySignedOnWindows

LEMMA TypeNext == ASSUME IInv, [Next]_vars PROVE TypeOK'
<1> USE DEF IInv
<1> /\ pc \in [Procs -> Pcs] /\ run \in [Procs -> RunType] /\ tmp \in [Procs -> File]
    /\ latest \in Versions /\ assets \in [Versions -> SUBSET Assets]
    /\ exe \in File /\ stray \in File
    /\ replaced \subseteq Running
  BY DEF TypeOK
<1>1. CASE Publish \/ Withdraw
  BY <1>1, ConstantsAssumption DEF Publish, Withdraw, TypeOK, disk, Running, Versions
<1>2. ASSUME NEW v \in Versions, NEW a \in Assets, Upload(v, a) PROVE TypeOK'
  BY <1>2 DEF Upload, TypeOK, disk, Running
<1>3. ASSUME NEW p \in Procs, Start(p) PROVE TypeOK'
  <2>1. NoRun \in RunType /\ exe.ver \in Versions
    BY ConstantsAssumption DEF NoRun, RunType, Versions, Results, File
  <2>2. [NoRun EXCEPT !.current = exe.ver] \in RunType
    BY <2>1 DEF RunType
  <2>3. Running \subseteq Running' /\ pc' \in [Procs -> Pcs]
    BY <1>3 DEF Start, Goto, Running, Pcs
  <2>4. QED
    BY <1>3, <2>2, <2>3 DEF Start, TypeOK, disk, feed
<1> "done" \in Pcs \ {"idle"}
  BY DEF Pcs
<1>4. ASSUME NEW p \in Procs, FetchRelease(p) PROVE TypeOK'
  <2>1. UNCHANGED <<feed, disk>> /\ pc[p] # "idle"
    BY <1>4 DEF FetchRelease
  <2>2. ASSUME NEW r \in Results, Return(p, r) PROVE TypeOK'
    BY <2>1, <2>2, ReturnType, TypeStep DEF disk
  <2>3. ASSUME Goto(p, "download"),
               run' = [run EXCEPT ![p].tag = latest,
                                  ![p].checks = "checksums" \in assets[latest]]
        PROVE  TypeOK'
    <3>1. ("checksums" \in assets[latest]) \in BOOLEAN
      OBVIOUS
    <3>2. [run[p] EXCEPT !.tag = latest, !.checks = "checksums" \in assets[latest]]
             \in RunType
      BY <3>1 DEF RunType
    <3>3. run' \in [Procs -> RunType]
      BY <2>3, <3>2
    <3>4. QED
      BY <2>1, <2>3, <3>3, TypeStep DEF disk, Pcs
  <2>4. QED
    BY <1>4, <2>2, <2>3 DEF FetchRelease, Results
<1>5. ASSUME NEW p \in Procs, Download(p) PROVE TypeOK'
  <2>1. UNCHANGED <<feed, disk>> /\ pc[p] # "idle"
    BY <1>5 DEF Download
  <2>2. CASE Return(p, "DownloadFailed")
    BY <2>1, <2>2, ReturnType, TypeStep DEF disk, Results
  <2>3. ASSUME NEW kind \in {"binary", "page"},
               run' = [run EXCEPT ![p].bytes = [kind |-> kind, ver |-> run[p].tag]],
               Goto(p, IF run[p].checks THEN "checksums" ELSE "create")
        PROVE  TypeOK'
    <3>1. [run[p] EXCEPT !.bytes = [kind |-> kind, ver |-> run[p].tag]] \in RunType
      BY DEF RunType, Whole
    <3>2. run' \in [Procs -> RunType]
      BY <2>3, <3>1
    <3>3. (IF run[p].checks THEN "checksums" ELSE "create") \in Pcs \ {"idle"}
      BY DEF Pcs
    <3>4. QED
      BY <2>1, <2>3, <3>2, <3>3, TypeStep DEF disk
  <2>4. QED
    BY <1>5, <2>2, <2>3 DEF Download
<1>6. ASSUME NEW p \in Procs, Checksums(p) PROVE TypeOK'
  <2>1. UNCHANGED <<feed, disk>> /\ pc[p] # "idle"
    BY <1>6 DEF Checksums
  <2>2. ASSUME NEW r \in Results, Return(p, r) PROVE TypeOK'
    BY <2>1, <2>2, ReturnType, TypeStep DEF disk
  <2>3. ASSUME Goto(p, "create"), run' \in {run, [run EXCEPT ![p].vouched = TRUE]}
        PROVE  TypeOK'
    <3>1. [run[p] EXCEPT !.vouched = TRUE] \in RunType
      BY DEF RunType
    <3>2. run' \in [Procs -> RunType]
      BY <2>3, <3>1
    <3>3. QED
      BY <2>1, <2>3, <3>2, TypeStep DEF disk, Pcs
  <2>4. QED
    BY <1>6, <2>2, <2>3 DEF Checksums, Results
<1>7. ASSUME NEW p \in Procs, CreateTmp(p) PROVE TypeOK'
  <2>1. /\ UNCHANGED <<feed, exe, stray, replaced>> /\ pc[p] # "idle"
        /\ run[p].tag \in Versions
    BY <1>7 DEF CreateTmp, RunType
  <2>2. CASE Return(p, "SwapFailed") /\ UNCHANGED tmp
    BY <2>1, <2>2, ReturnType, TypeStep DEF Results
  <2>3. ASSUME tmp' = [tmp EXCEPT ![p] = [kind |-> "partial", ver |-> run[p].tag]],
               Goto(p, "write"), run' = [run EXCEPT ![p].target = Target(p)]
        PROVE  TypeOK'
    <3>1. [run[p] EXCEPT !.target = Target(p)] \in RunType
      BY DEF RunType, Target
    <3>2. run' \in [Procs -> RunType]
      BY <2>3, <3>1
    <3>3. tmp' \in [Procs -> File]
      BY <2>1, <2>3 DEF File
    <3>4. QED
      BY <2>1, <2>3, <3>2, <3>3, TypeStep DEF Pcs
  <2>4. QED
    BY <1>7, <2>2, <2>3 DEF CreateTmp
<1>8. ASSUME NEW p \in Procs, WriteTmp(p) PROVE TypeOK'
  <2>1. /\ UNCHANGED <<feed, exe, stray, replaced>> /\ pc[p] # "idle"
        /\ run[p].bytes \in File
    BY <1>8, FileFacts DEF WriteTmp, RunType
  <2>2. CASE Return(p, "SwapFailed") /\ UNCHANGED tmp
    BY <2>1, <2>2, ReturnType, TypeStep DEF Results
  <2>3. ASSUME tmp' = [tmp EXCEPT ![p] = run[p].bytes], UNCHANGED run,
               Goto(p, IF platform = "windows" THEN "signature" ELSE "swap")
        PROVE  TypeOK'
    <3>1. (IF platform = "windows" THEN "signature" ELSE "swap") \in Pcs \ {"idle"}
      BY DEF Pcs
    <3>2. QED
      BY <2>1, <2>3, <3>1, TypeStep
  <2>4. QED
    BY <1>8, <2>2, <2>3 DEF WriteTmp
<1>9. ASSUME NEW p \in Procs, VerifySignature(p) PROVE TypeOK'
  <2>1. UNCHANGED <<feed, exe, stray, replaced>> /\ pc[p] # "idle"
    BY <1>9 DEF VerifySignature
  <2>2. CASE tmp' = [tmp EXCEPT ![p] = Absent] /\ Return(p, "SignatureRejected")
    BY <2>1, <2>2, ReturnType, TypeStep, FileFacts DEF Results
  <2>3. CASE Goto(p, "swap") /\ UNCHANGED <<tmp, run>>
    BY <2>1, <2>3, TypeStep DEF Pcs
  <2>4. QED
    BY <1>9, <2>2, <2>3 DEF VerifySignature
<1>10. ASSUME NEW p \in Procs, Swap(p) PROVE TypeOK'
  <2>1. UNCHANGED feed /\ pc[p] # "idle" /\ tmp[p] \in File
    BY <1>10 DEF Swap
  <2>2. CASE Return(p, "SwapFailed") /\ UNCHANGED <<exe, stray, tmp, replaced>>
    BY <2>1, <2>2, ReturnType, TypeStep DEF Results
  <2>3. CASE Rename(p) /\ Return(p, "ok")
    <3>1. /\ exe' \in File /\ stray' \in File /\ replaced' \in {replaced, Running}
          /\ tmp' \in [Procs -> File]
      BY <2>1, <2>3, FileFacts DEF Rename
    <3>2. QED
      BY <2>1, <2>3, <3>1, ReturnType, TypeStep DEF Results
  <2>4. QED
    BY <1>10, <2>2, <2>3 DEF Swap
<1>11. ASSUME NEW p \in Procs, Leave(p) PROVE TypeOK'
  <2>1. NoRun \in RunType
    BY ConstantsAssumption DEF NoRun, RunType, Versions, Results
  <2>2. Running' = Running \ {p} /\ pc' \in [Procs -> Pcs]
    BY <1>11 DEF Leave, Goto, Running, Pcs
  <2>3. QED
    BY <1>11, <2>1, <2>2 DEF Leave, TypeOK, feed
<1>12. CASE UNCHANGED vars
  BY <1>12 DEF vars, feed, disk, TypeOK, Running
<1>13. QED
  BY <1>1, <1>2, <1>3, <1>4, <1>5, <1>6, <1>7, <1>8, <1>9, <1>10, <1>11, <1>12
     DEF Next, Step, Exit, Crash

(* The inductive invariant.                                                *)
THEOREM Invariance == Spec => []IInv
<1>1. Init => IInv
  BY IInvInit
<1>2. IInv /\ [Next]_vars => IInv'
  BY TypeNext, ExeNext, RunInvNext DEF IInv
<1>3. QED
  BY <1>1, <1>2, PTL DEF Spec

(* Type correctness of the upgraders, the feed and the files.              *)
THEOREM TypeCorrect == Spec => []TypeOK
<1>1. IInv => TypeOK
  BY DEF IInv
<1>2. QED
  BY <1>1, Invariance, PTL

(* The installed path holds one whole file at every moment, whatever       *)
(* crashes and whoever else is upgrading (the rename in upgrade()).        *)
THEOREM InstalledFileIsWhole == Spec => []ExeIsWhole
<1>1. IInv => ExeIsWhole
  BY DEF IInv
<1>2. QED
  BY <1>1, Invariance, PTL

(* On Windows only what passed verify_windows_signature is installed.      *)
THEOREM SignedOnWindows == Spec => []OnlySignedOnWindows
<1>1. IInv => OnlySignedOnWindows
  BY DEF IInv
<1>2. QED
  BY <1>1, Invariance, PTL

(* Each replacement installs one run's own download, of a release newer    *)
(* than that run, checked whenever a checksum line was found.              *)
THEOREM EverySwapIsJustified == Spec => SwapIsJustified
<1>1. ASSUME IInv, [Next]_vars, exe' # exe
      PROVE  \E p \in Procs :
               /\ exe' = run[p].bytes /\ exe'.ver = run[p].tag
               /\ run[p].tag > run[p].current
               /\ run[p].vouched => exe'.kind = "binary"
  <2>1. PICK p \in Procs : Swap(p) /\ exe' = run[p].bytes
    BY <1>1, ExeNext
  <2>2. RunInv(p) /\ pc[p] = "swap"
    BY <1>1, <2>1 DEF IInv, Swap
  <2>3. QED
    BY <2>1, <2>2 DEF RunInv, Picked, Downloaded
<1>2. QED
  BY <1>1, Invariance, PTL DEF Spec, SwapIsJustified

------------------------------------------------------------------------------
(* One upgrader.  Nobody else replaces the binary under a run, so until it *)
(* returns, its own version is the installed one.                          *)
OwnVersionInstalled ==
  \A p \in Procs : pc[p] \notin {"idle", "done"} => run[p].current = exe.ver

LEMMA OwnVersionNext ==
  ASSUME \A p, q \in Procs : p = q, IInv, OwnVersionInstalled, [Next]_vars
  PROVE  OwnVersionInstalled'
<1> USE DEF OwnVersionInstalled
<1> SUFFICES ASSUME NEW q \in Procs, pc'[q] \notin {"idle", "done"}
             PROVE  run'[q].current = exe'.ver
  OBVIOUS
<1> pc \in [Procs -> Pcs] /\ run \in [Procs -> RunType]
  BY DEF IInv, TypeOK
<1>1. ASSUME NEW p \in Procs, Start(p) PROVE run'[q].current = exe'.ver
  BY <1>1 DEF Start, disk, NoRun
<1>2. CASE UNCHANGED <<pc, run, exe>>
  BY <1>2
<1>3. ASSUME NEW p \in Procs, Swap(p) \/ Leave(p) PROVE FALSE
  BY <1>3 DEF Swap, Return, Leave, Goto
<1>4. ASSUME NEW p \in Procs, exe' = exe, pc[p] \notin {"idle", "done"},
             run'[p].current = run[p].current
      PROVE  run'[q].current = exe'.ver
  BY <1>4
<1>5. ASSUME NEW p \in Procs, Step(p), ~Swap(p), ~Leave(p)
      PROVE  /\ exe' = exe /\ pc[p] \notin {"idle", "done"}
             /\ run'[p].current = run[p].current
  BY <1>5 DEF Step, FetchRelease, Download, Checksums, CreateTmp, WriteTmp,
              VerifySignature, Exit, Return, Goto, disk, RunType
<1>6. QED
  BY <1>1, <1>2, <1>3, <1>4, <1>5
     DEF Next, Publish, Withdraw, Upload, disk, vars, Step, Exit, Crash

(* A sole upgrader never takes the installed version back, whatever the    *)
(* release feed does between two of its runs (is_newer in upgrade()).      *)
THEOREM SoleUpgraderNeverDowngrades ==
  ASSUME \A p, q \in Procs : p = q
  PROVE  Spec => NeverDowngrades
<1>1. Init => OwnVersionInstalled
  BY DEF Init, OwnVersionInstalled
<1>2. IInv /\ OwnVersionInstalled /\ [Next]_vars => OwnVersionInstalled'
  BY OwnVersionNext
<1>3. ASSUME IInv, OwnVersionInstalled, [Next]_vars
      PROVE  exe'.ver >= exe.ver
  <2>1. exe.ver \in Nat
    BY <1>3, ConstantsAssumption DEF IInv, ExeIsWhole, Whole, Versions
  <2>2. CASE exe' = exe
    BY <2>1, <2>2
  <2>3. CASE exe' # exe
    <3>1. PICK p \in Procs : Swap(p) /\ exe' = run[p].bytes
      BY <1>3, <2>3, ExeNext
    <3>2. RunInv(p) /\ pc[p] = "swap"
      BY <1>3, <3>1 DEF IInv, Swap
    <3>3. exe'.ver = run[p].tag /\ run[p].tag > run[p].current
      BY <3>1, <3>2 DEF RunInv, Picked, Downloaded
    <3>4. run[p].current = exe.ver /\ run[p].tag \in Nat
      BY <1>3, <3>2, ConstantsAssumption
         DEF OwnVersionInstalled, IInv, TypeOK, RunType, Versions
    <3>5. QED
      BY <2>1, <3>3, <3>4
  <2>4. QED
    BY <2>2, <2>3
<1>4. QED
  BY <1>1, <1>2, <1>3, Invariance, PTL DEF Spec, NeverDowngrades
==============================================================================
