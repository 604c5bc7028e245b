---------------------------- MODULE Serve_proofs ----------------------------
(***************************************************************************)
(* Proofs about Serve: of the scan, the reputation report and the leak     *)
(* report that any request runs, for any keys, records, documents, names,  *)
(* numbers of selectors and formats.                                       *)
(***************************************************************************)
EXTENDS Serve, DataTheorems

(***************************************************************************)
(* What a scan keeps at each of its steps, for any keys and any number of  *)
(* selectors, and what follows of its verdicts when it is done.            *)
(***************************************************************************)
Stages == {"idle", "spf", "dkim", "dmarc", "score", "done"}
Verdicts == {"absent", "strict", "soft", "permissive", "selector", "reject", "quarantine", "none"}
Issues ==
  {"DNS failed", "No SPF record", "Permissive +all", "No DKIM found", "DKIM-KEY-WEAK", "No DMARC",
   "policy_is_none", "no_aggregate_reporting", "sp_missing_when_p_none", "sp_weaker_than_p"}
ProtoResult == [configured : BOOLEAN, policy : Verdicts, issues : SUBSET Issues]
AnswerType(Texts) == [code : {"ok", "nx", "failed"}, txt : SUBSET Texts]
ZoneType ==
  [spf : AnswerType(SpfText), dkim : Seq(AnswerType(Keys)), dmarc : AnswerType(DmarcText)]
ScanType ==
  [at : Stages, spf : ProtoResult, dkim : ProtoResult, dmarc : ProtoResult,
   points : 0..100, grade : {"absent", "A", "B", "C", "D", "F"},
   findings : SUBSET {"spf", "dkim", "dmarc"}, zone : ZoneType]

(* A result is that of the record found, or of none.                       *)
SpfRead ==
  \/ scan.zone.spf.txt = {} /\ ~scan.spf.configured /\ scan.spf.policy = "absent"
  \/ \E t \in SpfText : scan.zone.spf.txt = {t} /\ scan.spf = SpfResult(t)
DmarcRead ==
  \/ scan.zone.dmarc.txt = {} /\ ~scan.dmarc.configured /\ scan.dmarc.policy = "absent"
  \/ \E t \in DmarcText : scan.zone.dmarc.txt = {t} /\ scan.dmarc = DmarcResult(t)
(* The selectors before the last that was asked have no record.            *)
Missed(n) == \A i \in 1..n : scan.zone.dkim[i].txt = {}
DkimRead ==
  LET n == Len(scan.zone.dkim) IN
  /\ n > 0 /\ Missed(n - 1)
  /\ \/ scan.zone.dkim[n].txt = {} /\ n = Selectors /\ ~scan.dkim.configured
     \/ \E k \in Keys : scan.zone.dkim[n].txt = {k} /\ scan.dkim = DkimResult(k)

(* ScoreIsEarned speaks of finished reports; what it needs is kept from    *)
(* the check that establishes it to the score that adds it up.             *)
ScanInv ==
  /\ scan \in ScanType
  /\ scan.at \in {"idle", "spf", "dkim"} => Len(scan.zone.dkim) < Selectors /\ Missed(Len(scan.zone.dkim))
  /\ scan.at \in {"dkim", "dmarc", "score", "done"} => SpfRead
  /\ scan.at \in {"dmarc", "score", "done"} => DkimRead
  /\ scan.at \in {"score", "done"} => DmarcRead
  /\ scan.at = "done" => /\ scan.points = Points(scan.spf, scan.dkim, scan.dmarc)
                         /\ scan.grade = Grade(scan.points)
                         /\ scan.findings = {f \in {"spf", "dkim", "dmarc"} : ~scan[f].configured}

(* Any record or failure is an answer of the right type.                   *)
LEMMA AnswersTyped ==
  ASSUME NEW Texts, NEW a \in Answers(Texts)
  PROVE  /\ a \in AnswerType(Texts)
         /\ a.txt = {} \/ \E t \in Texts : a.txt = {t} /\ TheText(a) = t
<1>1. CASE \E c \in {"ok", "nx", "failed"} : a = [Answer EXCEPT !.code = c]
  BY <1>1 DEF AnswerType, Answer
<1>2. CASE \E t \in Texts : a = [Answer EXCEPT !.txt = {t}]
  <2>1. PICK t \in Texts : a = [Answer EXCEPT !.txt = {t}]
    BY <1>2
  <2>2. a.txt = {t} /\ a.code = "ok" /\ a \in AnswerType(Texts)
    BY <2>1 DEF AnswerType, Answer
  <2>3. TheText(a) = t
    BY <2>2 DEF TheText
  <2>4. QED BY <2>2, <2>3
<1>3. QED BY <1>1, <1>2 DEF Answers

(* A result without a record.                                              *)
LEMMA NoResultTyped ==
  ASSUME NEW issues \in SUBSET Issues
  PROVE  /\ NoResult(issues) \in ProtoResult
         /\ ~NoResult(issues).configured /\ NoResult(issues).policy = "absent"
BY DEF NoResult, ProtoResult, Verdicts

(* No scan, at the start and after each request.                           *)
LEMMA IdleTyped ==
  /\ ScanIdle \in ScanType
  /\ ScanIdle.at = "idle" /\ ScanIdle.zone.dkim = <<>>
<1>1. NoResult({}) \in ProtoResult
  BY NoResultTyped
<1>2. Answer \in AnswerType(SpfText) /\ Answer \in AnswerType(DmarcText)
  BY DEF Answer, AnswerType
<1>3. [spf |-> Answer, dkim |-> <<>>, dmarc |-> Answer] \in ZoneType
  BY <1>2 DEF ZoneType
<1>4. ASSUME NEW none \in ProtoResult, NEW zone \in ZoneType
      PROVE  [at |-> "idle", spf |-> none, dkim |-> none, dmarc |-> none, points |-> 0,
              grade |-> "absent", findings |-> {}, zone |-> zone] \in ScanType
  BY DEF ScanType, Stages
<1>5. ScanIdle \in ScanType
  BY <1>1, <1>3, <1>4 DEF ScanIdle
<1>6. QED BY <1>5 DEF ScanIdle

(* Such a scan keeps the invariant, before a step and after it.            *)
LEMMA IdleInv == scan = ScanIdle => ScanInv
BY IdleTyped, SelectorsAssumption DEF ScanInv, Missed

LEMMA ResetInv == scan' = ScanIdle => ScanInv'
BY IdleTyped, SelectorsAssumption DEF ScanInv, Missed

(* Starting a scan keeps it.                                               *)
LEMMA ScanDomainInv == ScanInv /\ ScanDomain => ScanInv'
<1> SUFFICES ASSUME ScanInv, ScanDomain PROVE ScanInv'
  OBVIOUS
<1>1. scan.at = "idle" /\ scan \in ScanType /\ scan' = [scan EXCEPT !.at = "spf"]
  BY DEF ScanDomain, ScanIdle, ScanInv
<1>2. scan' \in ScanType /\ scan'.at = "spf" /\ scan'.zone = scan.zone
  BY <1>1 DEF ScanType, Stages
<1>3. QED BY <1>1, <1>2 DEF ScanInv, Missed

(* Each check keeps it, and what was read before.                          *)
LEMMA CheckSpfInv == ScanInv /\ CheckSpf => ScanInv'
<1> SUFFICES ASSUME ScanInv, CheckSpf PROVE ScanInv'
  OBVIOUS
<1>1. PICK a \in Answers(SpfText) :
        scan' = [scan EXCEPT !.at = "dkim", !.zone.spf = a,
                   !.spf = IF a.txt = {} THEN Missing(a, "No SPF record") ELSE SpfResult(TheText(a))]
  BY DEF CheckSpf
<1>2. scan \in ScanType /\ scan.zone \in ZoneType /\ scan.at = "spf"
  BY DEF ScanInv, CheckSpf, ScanType
<1>3. scan'.at = "dkim" /\ scan'.zone = [scan.zone EXCEPT !.spf = a]
  BY <1>1, <1>2 DEF ScanType
<1>4. scan'.spf \in ProtoResult /\ SpfRead'
  <2>1. a \in AnswerType(SpfText) /\ (a.txt = {} \/ \E t \in SpfText : a.txt = {t} /\ TheText(a) = t)
    BY AnswersTyped
  <2>2. scan'.zone.spf = a /\ scan'.spf = IF a.txt = {} THEN Missing(a, "No SPF record") ELSE SpfResult(TheText(a))
    BY <1>1, <1>2, <1>3 DEF ScanType, ZoneType
  <2>3. CASE a.txt = {}
    <3>1. PICK i \in Issues : scan'.spf = NoResult({i})
      BY <2>2, <2>3 DEF Missing, Issues
    <3>2. scan'.zone.spf.txt = {}
      BY <2>2, <2>3
    <3>3. scan'.spf \in ProtoResult /\ ~scan'.spf.configured /\ scan'.spf.policy = "absent"
      BY <3>1, NoResultTyped
    <3>4. QED BY <3>2, <3>3 DEF SpfRead
  <2>4. CASE a.txt # {}
    <3>1. PICK t \in SpfText : a.txt = {t} /\ TheText(a) = t
      BY <2>1, <2>4
    <3>2. scan'.spf = SpfResult(t)
      BY <2>2, <2>4, <3>1
    <3>3. SpfResult(t) \in ProtoResult
      BY DEF SpfResult, Result, ProtoResult, Verdicts, Issues
    <3>4. QED BY <2>2, <3>1, <3>2, <3>3 DEF SpfRead
  <2>5. QED BY <2>3, <2>4
<1>5. scan'.zone \in ZoneType /\ scan'.zone.dkim = scan.zone.dkim
  <2>1. a \in AnswerType(SpfText)
    BY AnswersTyped
  <2>2. QED BY <1>2, <1>3, <2>1 DEF ZoneType
<1>6. scan' \in ScanType
  BY <1>1, <1>2, <1>4, <1>5 DEF ScanType, Stages
<1>7. Len(scan'.zone.dkim) < Selectors /\ Missed(Len(scan.zone.dkim))'
  BY <1>2, <1>5 DEF ScanInv, Missed
<1>8. QED BY <1>3, <1>4, <1>5, <1>6, <1>7 DEF ScanInv

(* The selectors before the one asked now have no record, and it is the    *)
(* last or has none either, or the search is over.                         *)
LEMMA CheckDkimInv == ScanInv /\ CheckDkim => ScanInv'
<1> SUFFICES ASSUME ScanInv, CheckDkim PROVE ScanInv'
  OBVIOUS
<1> DEFINE old == scan.zone.dkim
           result(a) == IF a.txt = {} THEN NoResult({"No DKIM found"}) ELSE DkimResult(TheText(a))
<1>1. PICK a \in Answers(Keys) :
        scan' = [scan EXCEPT !.zone.dkim = Append(old, a),
                   !.at = IF Searched(Append(old, a)) THEN "dmarc" ELSE @,
                   !.dkim = result(a)]
  BY DEF CheckDkim
<1>2. scan \in ScanType /\ scan.zone \in ZoneType /\ scan.at = "dkim" /\ old \in Seq(AnswerType(Keys))
  BY DEF ScanInv, CheckDkim, ScanType, ZoneType
<1>3. a \in AnswerType(Keys) /\ (a.txt = {} \/ \E k \in Keys : a.txt = {k} /\ TheText(a) = k)
  BY AnswersTyped
<1>4. Len(old) < Selectors /\ Missed(Len(old)) /\ SpfRead
  BY <1>2 DEF ScanInv
<1>5. /\ scan'.zone = [scan.zone EXCEPT !.dkim = Append(old, a)]
      /\ scan'.at = IF Searched(Append(old, a)) THEN "dmarc" ELSE "dkim"
      /\ scan'.dkim = result(a) /\ scan'.spf = scan.spf /\ scan'.dmarc = scan.dmarc
  BY <1>1, <1>2 DEF ScanType
<1>6. scan'.zone \in ZoneType /\ scan'.zone.dkim = Append(old, a) /\ scan'.zone.spf = scan.zone.spf
  <2>1. Append(old, a) \in Seq(AnswerType(Keys))
    BY <1>2, <1>3
  <2>2. scan'.zone = [scan.zone EXCEPT !.dkim = Append(old, a)]
    BY <1>5
  <2> HIDE DEF old
  <2>3. QED BY <1>2, <2>1, <2>2 DEF ZoneType
<1>7. result(a) \in ProtoResult
  <2>1. CASE a.txt = {}
    BY <2>1, NoResultTyped DEF Issues
  <2>2. CASE a.txt # {}
    BY <2>2 DEF DkimResult, Result, ProtoResult, Verdicts, Issues
  <2>3. QED BY <2>1, <2>2
<1>8. scan' \in ScanType
  BY <1>1, <1>2, <1>5, <1>6, <1>7 DEF ScanType, Stages
<1>9. SpfRead'
  BY <1>4, <1>5, <1>6 DEF SpfRead
<1>10. LET n == Len(scan'.zone.dkim) IN
       n = Len(old) + 1 /\ scan'.zone.dkim[n] = a /\ \A i \in 1..n - 1 : scan'.zone.dkim[i].txt = {}
  BY <1>2, <1>3, <1>4, <1>6 DEF Missed
<1>11. Searched(Append(old, a)) <=> a.txt # {} \/ Len(scan'.zone.dkim) = Selectors
  BY <1>6, <1>10 DEF Searched
<1>12. CASE Searched(Append(old, a))
  <2>1. DkimRead'
    <3>1. Missed(Len(scan.zone.dkim) - 1)' /\ Len(scan'.zone.dkim) > 0
      BY <1>2, <1>10 DEF Missed
    <3>2. CASE a.txt = {}
      BY <3>1, <3>2, <1>5, <1>10, <1>11, <1>12, NoResultTyped DEF DkimRead, Issues
    <3>3. CASE a.txt # {}
      BY <3>1, <3>3, <1>3, <1>5, <1>10 DEF DkimRead
    <3>4. QED BY <3>2, <3>3
  <2>2. QED BY <1>5, <1>8, <1>9, <1>12, <2>1 DEF ScanInv
<1>13. CASE ~Searched(Append(old, a))
  <2>1. Len(scan'.zone.dkim) < Selectors /\ Missed(Len(scan.zone.dkim))'
    <3>1. a.txt = {} /\ Len(scan'.zone.dkim) # Selectors
      BY <1>11, <1>13
    <3>2. Missed(Len(scan.zone.dkim))'
      BY <1>2, <1>10, <3>1 DEF Missed
    <3>3. QED BY <1>2, <1>4, <1>10, <3>1, <3>2, SelectorsAssumption
  <2>2. QED BY <1>5, <1>8, <1>9, <1>13, <2>1 DEF ScanInv
<1>14. QED BY <1>12, <1>13

(* The DMARC check keeps what the two before it found.                     *)
LEMMA CheckDmarcInv == ScanInv /\ CheckDmarc => ScanInv'
<1> SUFFICES ASSUME ScanInv, CheckDmarc PROVE ScanInv'
  OBVIOUS
<1> DEFINE result(a) == IF a.txt = {} THEN Missing(a, "No DMARC") ELSE DmarcResult(TheText(a))
<1>1. PICK a \in Answers(DmarcText) :
        scan' = [scan EXCEPT !.at = "score", !.zone.dmarc = a, !.dmarc = result(a)]
  BY DEF CheckDmarc
<1>2. scan \in ScanType /\ scan.zone \in ZoneType /\ scan.at = "dmarc" /\ SpfRead /\ DkimRead
  BY DEF ScanInv, CheckDmarc, ScanType
<1>3. a \in AnswerType(DmarcText) /\ (a.txt = {} \/ \E t \in DmarcText : a.txt = {t} /\ TheText(a) = t)
  BY AnswersTyped
<1>4. /\ scan'.at = "score" /\ scan'.zone = [scan.zone EXCEPT !.dmarc = a]
      /\ scan'.dmarc = result(a) /\ scan'.spf = scan.spf /\ scan'.dkim = scan.dkim
  BY <1>1, <1>2 DEF ScanType
<1>5. /\ scan'.zone \in ZoneType /\ scan'.zone.dmarc = a
      /\ scan'.zone.spf = scan.zone.spf /\ scan'.zone.dkim = scan.zone.dkim
  BY <1>2, <1>3, <1>4 DEF ZoneType
<1>6. result(a) \in ProtoResult /\ DmarcRead'
  <2>1. CASE a.txt = {}
    <3>1. PICK i \in Issues : result(a) = NoResult({i})
      BY <2>1 DEF Missing, Issues
    <3>2. result(a) \in ProtoResult /\ ~result(a).configured /\ result(a).policy = "absent"
      BY <3>1, NoResultTyped
    <3>3. QED BY <1>4, <1>5, <2>1, <3>2 DEF DmarcRead
  <2>2. CASE a.txt # {}
    <3>1. PICK t \in DmarcText : a.txt = {t} /\ TheText(a) = t
      BY <1>3, <2>2
    <3>2. result(a) = DmarcResult(t)
      BY <2>2, <3>1
    <3>3. DmarcResult(t) \in ProtoResult
      BY DEF DmarcResult, PolicyOf, Result, ProtoResult, Verdicts, Issues
    <3>4. QED BY <1>4, <1>5, <3>1, <3>2, <3>3 DEF DmarcRead
  <2>3. QED BY <2>1, <2>2
<1>7. scan' \in ScanType
  BY <1>1, <1>2, <1>4, <1>5, <1>6 DEF ScanType, Stages
<1>8. SpfRead' /\ DkimRead'
  BY <1>2, <1>4, <1>5 DEF SpfRead, DkimRead, Missed
<1>9. QED BY <1>4, <1>6, <1>7, <1>8 DEF ScanInv

(* The points of a report, by its three verdicts.                          *)
LEMMA PointsTyped ==
  ASSUME NEW spf \in ProtoResult, NEW dkim \in ProtoResult, NEW dmarc \in ProtoResult
  PROVE  /\ Points(spf, dkim, dmarc) \in 15..90
         /\ Points(spf, dkim, dmarc) = 90 <=>
              /\ spf.configured /\ spf.policy = "strict"
              /\ dkim.configured
              /\ dmarc.configured /\ dmarc.policy = "reject"
BY DEF Points, ProtoResult

(* The score adds up what the three checks found, and changes none of it.  *)
LEMMA CalculateInv == ScanInv /\ Calculate => ScanInv'
<1> SUFFICES ASSUME ScanInv, Calculate PROVE ScanInv'
  OBVIOUS
<1> DEFINE s == Points(scan.spf, scan.dkim, scan.dmarc)
           missing == {f \in {"spf", "dkim", "dmarc"} : ~scan[f].configured}
<1>1. scan' = [scan EXCEPT !.at = "done", !.points = s, !.grade = Grade(s), !.findings = missing]
  BY DEF Calculate
<1>2. scan \in ScanType /\ scan.at = "score" /\ SpfRead /\ DkimRead /\ DmarcRead
  BY DEF ScanInv, Calculate
<1>3. s \in 0..100 /\ Grade(s) \in {"absent", "A", "B", "C", "D", "F"}
  <2>1. s \in 15..90
    BY <1>2, PointsTyped DEF ScanType
  <2>2. QED BY <2>1 DEF Grade
<1>4. missing \in SUBSET {"spf", "dkim", "dmarc"}
  OBVIOUS
<1>5. /\ scan' \in ScanType /\ scan'.at = "done" /\ scan'.points = s /\ scan'.grade = Grade(s)
      /\ scan'.zone = scan.zone /\ scan'.spf = scan.spf
      /\ scan'.dkim = scan.dkim /\ scan'.dmarc = scan.dmarc
  <2> HIDE DEF s, missing
  <2> QED BY <1>1, <1>2, <1>3, <1>4 DEF ScanType, Stages
<1>6. SpfRead' /\ DkimRead' /\ DmarcRead'
  BY <1>2, <1>5 DEF SpfRead, DkimRead, DmarcRead, Missed
<1>7. scan'.findings = {f \in {"spf", "dkim", "dmarc"} : ~scan'[f].configured}
  <2>1. scan'.findings = missing
    <3> HIDE DEF s, missing
    <3> QED BY <1>1, <1>2 DEF ScanType
  <2>2. \A f \in {"spf", "dkim", "dmarc"} : scan'[f] = scan[f]
    BY <1>5
  <2>3. QED BY <2>1, <2>2
<1>8. QED BY <1>5, <1>6, <1>7 DEF ScanInv

(* Every step of a scan keeps the invariant.                               *)
LEMMA ScanStepInv == ScanInv /\ ScanStep => ScanInv'
BY CheckSpfInv, CheckDkimInv, CheckDmarcInv, CalculateInv DEF ScanStep

------------------------------------------------------------------------------
(* Of one plainly written DMARC record: where the text p= of a policy      *)
(* occurs is its own tag or that of a subdomain policy no stronger.        *)
LEMMA PlainPolicy ==
  ASSUME NEW t \in DmarcText, t.style = "plain", Strength(t.sp) <= Strength(t.p)
  PROVE  PolicyOf(t) = t.p
<1>1. t.p \in {"none", "quarantine", "reject"} /\ t.sp \in {"none", "quarantine", "reject", "absent"}
  BY DEF DmarcText, Policies
<1>2. t.sp = "reject" => t.p = "reject"
  BY <1>1 DEF Strength
<1>3. t.sp = "quarantine" => t.p \in {"quarantine", "reject"}
  BY <1>1 DEF Strength
<1>4. QED BY <1>1, <1>2, <1>3 DEF PolicyOf, Mentions

(* Of such a record the subdomain policy is reported when it is weaker, or *)
(* missing where the domain's is none.                                     *)
LEMMA PlainSubdomainPolicy ==
  ASSUME NEW t \in DmarcText, t.style = "plain", Strength(t.sp) <= Strength(t.p)
  PROVE  LET issues == DmarcResult(t).issues IN
         /\ "sp_weaker_than_p" \in issues <=> t.sp # "absent" /\ Strength(t.sp) < Strength(t.p)
         /\ "sp_missing_when_p_none" \in issues <=> t.sp = "absent" /\ t.p = "none"
<1>1. PolicyOf(t) = t.p /\ ExtractSp(t) = t.sp
  BY PlainPolicy DEF ExtractSp
<1>2. t.p \in Policies /\ t.sp \in Policies \cup {"absent"}
  BY DEF DmarcText
<1>3. /\ "sp_weaker_than_p" \in DmarcResult(t).issues <=>
            (t.p # "none" /\ t.sp = "none") \/ (t.p = "reject" /\ t.sp = "quarantine")
      /\ "sp_missing_when_p_none" \in DmarcResult(t).issues <=> t.p = "none" /\ t.sp = "absent"
  BY <1>1 DEF DmarcResult, Result
<1>4. t.p \in {"none", "quarantine", "reject"} /\ t.sp \in {"none", "quarantine", "reject", "absent"}
  BY <1>2 DEF Policies
<1>5. t.sp # "absent" /\ Strength(t.sp) < Strength(t.p) <=>
        (t.p # "none" /\ t.sp = "none") \/ (t.p = "reject" /\ t.sp = "quarantine")
  <2>1. /\ Strength("none") = 0 /\ Strength("absent") = 0
        /\ Strength("quarantine") = 1 /\ Strength("reject") = 2
    BY DEF Strength
  <2>2. CASE t.sp \in {"none", "absent"}
    BY <1>4, <2>1, <2>2
  <2>3. CASE t.sp \in {"quarantine", "reject"}
    BY <1>4, <2>1, <2>3
  <2>4. QED BY <1>4, <2>2, <2>3
<1>6. QED BY <1>3, <1>5

(* A plain SPF record is strict when its own last term is -all.            *)
LEMMA PlainSpf ==
  ASSUME NEW t \in SpfText, t.within = {}
  PROVE  SpfResult(t).configured /\ (SpfResult(t).policy = "strict" <=> t.all = "-all")
BY DEF SpfResult, Result, SpfHas, SpfText

(* What a finished scan says of plain records is what they say.            *)
LEMMA InvEarned == ScanInv => ScoreIsEarned
<1> SUFFICES ASSUME ScanInv, Scanned, Plain PROVE Earned
  BY DEF ScoreIsEarned
<1>1. SpfRead /\ DkimRead /\ DmarcRead /\ scan \in ScanType /\ scan.zone \in ZoneType
  BY DEF ScanInv, Scanned, ScanType
<1>2. /\ scan.spf.configured = (Zone.spf.txt # {})
      /\ (scan.spf.policy = "strict") = Strict
  <2>1. CASE Zone.spf.txt = {}
    <3>1. ~scan.spf.configured /\ scan.spf.policy = "absent"
      BY <2>1, <1>1 DEF SpfRead, Zone
    <3>2. QED BY <2>1, <3>1, <1>1 DEF Strict, ScanType, ProtoResult
  <2>2. CASE Zone.spf.txt # {}
    <3>1. PICK t \in SpfText : Zone.spf.txt = {t} /\ scan.spf = SpfResult(t)
      BY <2>2, <1>1 DEF SpfRead, Zone
    <3>2. t.within = {}
      BY <3>1 DEF Plain
    <3>3. QED BY <3>1, <3>2, PlainSpf DEF Strict
  <2>3. QED BY <2>1, <2>2
<1>3. scan.dkim.configured = HasKey /\ (HasKey \/ Len(Zone.dkim) = Selectors)
  <2> DEFINE n == Len(Zone.dkim)
  <2>1. n \in Nat \ {0} /\ DOMAIN Zone.dkim = 1..n /\ \A i \in 1..n - 1 : Zone.dkim[i].txt = {}
    BY <1>1 DEF DkimRead, Missed, Zone, ZoneType
  <2>2. CASE Zone.dkim[n].txt = {}
    <3>1. n = Selectors /\ ~scan.dkim.configured
      BY <2>2, <1>1 DEF DkimRead, Zone
    <3>2. ~HasKey
      BY <2>1, <2>2 DEF HasKey
    <3>3. QED BY <3>1, <3>2, <1>1 DEF ScanType, ProtoResult, HasKey
  <2>3. CASE Zone.dkim[n].txt # {}
    <3>1. PICK k \in Keys : Zone.dkim[n].txt = {k} /\ scan.dkim = DkimResult(k)
      BY <2>3, <1>1 DEF DkimRead, Zone
    <3>2. n \in DOMAIN Zone.dkim /\ k \in Zone.dkim[n].txt
      BY <2>1, <3>1
    <3>3. HasKey
      BY <3>2 DEF HasKey, Plain
    <3>4. scan.dkim.configured
      BY <3>1 DEF DkimResult, Result
    <3>5. QED BY <3>3, <3>4
  <2>4. QED BY <2>2, <2>3
<1>4. /\ scan.dmarc.policy = IF Zone.dmarc.txt = {} THEN "absent" ELSE TheText(Zone.dmarc).p
      /\ (scan.dmarc.configured /\ scan.dmarc.policy = "reject") <=> \E t \in Zone.dmarc.txt : t.p = "reject"
  <2>1. CASE Zone.dmarc.txt = {}
    BY <2>1, <1>1 DEF DmarcRead, Zone
  <2>2. CASE Zone.dmarc.txt # {}
    <3>1. PICK t \in DmarcText : Zone.dmarc.txt = {t} /\ scan.dmarc = DmarcResult(t)
      BY <2>2, <1>1 DEF DmarcRead, Zone
    <3>2. t.style = "plain" /\ Strength(t.sp) <= Strength(t.p)
      BY <3>1 DEF Plain
    <3>3. scan.dmarc.configured /\ scan.dmarc.policy = t.p
      <4>1. DmarcResult(t).configured /\ DmarcResult(t).policy = PolicyOf(t)
        BY DEF DmarcResult, Result
      <4>2. QED BY <3>1, <3>2, <4>1, PlainPolicy
    <3>4. TheText(Zone.dmarc) = t
      BY <3>1 DEF TheText
    <3>5. QED BY <3>1, <3>3, <3>4
  <2>3. QED BY <2>1, <2>2
<1>5. (scan.grade = "A") = (Strict /\ HasKey /\ \E t \in Zone.dmarc.txt : t.p = "reject")
  <2> DEFINE s == Points(scan.spf, scan.dkim, scan.dmarc)
  <2>1. s \in 15..90 /\ (s = 90 <=> /\ scan.spf.configured /\ scan.spf.policy = "strict"
                                    /\ scan.dkim.configured
                                    /\ scan.dmarc.configured /\ scan.dmarc.policy = "reject")
    <3>1. scan.spf \in ProtoResult /\ scan.dkim \in ProtoResult /\ scan.dmarc \in ProtoResult
      BY <1>1 DEF ScanType
    <3>2. QED BY <3>1, PointsTyped
  <2>2. scan.grade = "A" <=> s = 90
    <3>1. scan.grade = Grade(s)
      BY DEF ScanInv, Scanned
    <3>2. QED BY <2>1, <3>1 DEF Grade
  <2>3. scan.spf.configured /\ scan.spf.policy = "strict" <=> Strict
    BY <1>2 DEF Strict
  <2>4. QED BY <1>3, <1>4, <2>1, <2>2, <2>3
<1>6. QED BY <1>2, <1>3, <1>4, <1>5 DEF Earned

(* And so does a finished scan of its DMARC record.                        *)
LEMMA InvSubdomainPolicy == ScanInv => SubdomainPolicyIsJudged
<1> SUFFICES ASSUME ScanInv, Scanned, Plain, NEW t \in Zone.dmarc.txt
             PROVE  /\ "sp_weaker_than_p" \in scan.dmarc.issues <=> t.sp # "absent" /\ Strength(t.sp) < Strength(t.p)
                    /\ "sp_missing_when_p_none" \in scan.dmarc.issues <=> t.sp = "absent" /\ t.p = "none"
  BY DEF SubdomainPolicyIsJudged
<1>1. PICK u \in DmarcText : Zone.dmarc.txt = {u} /\ scan.dmarc = DmarcResult(u)
  BY DEF ScanInv, Scanned, DmarcRead, Zone
<1>2. u = t /\ t.style = "plain" /\ Strength(t.sp) <= Strength(t.p)
  BY <1>1 DEF Plain
<1>3. QED BY <1>1, <1>2, PlainSubdomainPolicy

------------------------------------------------------------------------------
(* The pages and the requests are what their types say.                    *)
PageInv == page \in Page /\ req \in Request

(* A page with nothing chosen is a page; no request is a request.          *)
LEMMA Blanks == NoRequest \in Request /\ \A shows \in Shows : Blank(shows) \in Page
BY DEF Blank, Page, Modes, NoRequest, Request

(* So is the page of a report: the selector shows one of its options.      *)
LEMMA ReportsPage ==
  ASSUME req \in Request
  PROVE  ReportPage \in Page
<1>1. req.mode \in Modes /\ req.dotted \in BOOLEAN
  BY DEF Request
<1> DEFINE p == [Blank("report") EXCEPT !.mode = req.mode, !.dotted = req.dotted]
           o == IF Selected(req.mode) = {} THEN "scan" ELSE CHOOSE option \in Selected(req.mode) : TRUE
<1>2. p \in Page
  BY <1>1, Blanks DEF Page, Shows
<1>3. o \in Modes
  BY DEF Selected, Modes
<1>4. NewScanForm(p, req.mode) = [p EXCEPT !.action = req.mode, !.select = o]
  BY DEF NewScanForm
<1>5. ReportPage = NewScanForm(p, req.mode)
  BY DEF ReportPage
<1> HIDE DEF p, o
<1>6. QED BY <1>1, <1>2, <1>3, <1>4, <1>5 DEF Page

(* A request is sent and its page is left.                                 *)
LEMMA SendInv ==
  ASSUME PageInv, NEW mode \in Modes, NEW as \in {"page"} \cup Formats,
         NEW domain \in BOOLEAN, NEW dotted \in BOOLEAN, Send(mode, as, domain, dotted)
  PROVE  PageInv'
<1>1. req' \in Request
  BY DEF Send, Request
<1>2. page' \in Page
  BY Blanks DEF Send, Shows
<1>3. QED BY <1>1, <1>2 DEF PageInv

LEMMA PageInvInit == Init => PageInv
BY Blanks DEF Init, PageInv, Shows

(* Every action keeps it: the two that choose a mode, those that send a    *)
(* request, and those that answer one.                                     *)
LEMMA PageInvNext == PageInv /\ [Next]_vars => PageInv'
<1> SUFFICES ASSUME PageInv, [Next]_vars PROVE PageInv'
  OBVIOUS
<1> USE DEF PageInv
<1>1. CASE Landing \/ HandleAttest
  BY <1>1, Blanks DEF Landing, HandleAttest, Shows
<1>2. CASE SelectMode \/ ClickCard
  <2>1. \E m \in Modes : \/ page' = [page EXCEPT !.select = m, !.action = m]
                        \/ page' = [page EXCEPT !.select = m]
    BY <1>2 DEF SelectMode, ClickCard
  <2>2. QED BY <1>2, <2>1 DEF Page, SelectMode, ClickCard
<1>3. CASE Submit
  BY <1>3, SendInv DEF Submit, Page
<1>4. CASE TypeUrl
  BY <1>4, SendInv DEF TypeUrl
<1>5. CASE FollowExport
  BY <1>5, SendInv DEF FollowExport, Page
<1>6. CASE RequireDomain \/ Respond
  <2>1. req' \in Request
    BY <1>6, Blanks DEF RequireDomain, Respond
  <2>2. page' \in Page
    BY <1>6, Blanks, ReportsPage DEF RequireDomain, Respond, Shows
  <2>3. QED BY <2>1, <2>2
<1>7. CASE Handle \/ Await \/ UNCHANGED vars
  BY <1>7 DEF Handle, Await, vars
<1>8. QED BY <1>1, <1>2, <1>3, <1>4, <1>5, <1>6, <1>7 DEF Next, Server

------------------------------------------------------------------------------
(* A request runs a scan by its own steps, or leaves it alone, or ends it. *)
LEMMA ScanInvNext == ScanInv /\ [Next]_vars => ScanInv'
<1> SUFFICES ASSUME ScanInv, [Next]_vars PROVE ScanInv'
  OBVIOUS
<1>1. CASE ScanDomain
  BY <1>1, ScanDomainInv
<1>2. CASE ScanStep
  BY <1>2, ScanStepInv
<1>3. CASE scan' = ScanIdle
  BY <1>3, ResetInv
<1>4. CASE scan' = scan
  BY <1>4 DEF ScanInv, SpfRead, DkimRead, DmarcRead, Missed
<1>5. ScanDomain \/ ScanStep \/ scan' = ScanIdle \/ scan' = scan
  BY DEF Next, Server, Landing, HandleAttest, SelectMode, ClickCard, Submit, TypeUrl, FollowExport,
         Browsing, RequireDomain, Handle, Await, Respond, vars
<1>6. QED BY <1>1, <1>2, <1>3, <1>4, <1>5

(* At the start there is no scan.                                          *)
LEMMA ScanInvInit == Init => ScanInv
BY IdleInv DEF Init

(* The invariant of Posture holds of every scan a request runs.            *)
THEOREM ScansKeepTheirInvariant == Spec => []ScanInv
BY ScanInvInit, ScanInvNext, PTL DEF Spec

(* The grade of plainly written records is theirs, whichever lookups fail, *)
(* for any keys and selectors: scan.rs, dkim.rs, dmarc.rs, scoring.rs.     *)
THEOREM ScoresAreEarned == Spec => []ScoreIsEarned
BY ScansKeepTheirInvariant, InvEarned, PTL

(* Their subdomain policy is reported exactly when it is the weaker one:   *)
(* dmarc.rs, although it reads both policies as substrings of one text.    *)
THEOREM SubdomainPoliciesAreJudged == Spec => []SubdomainPolicyIsJudged
BY ScansKeepTheirInvariant, InvSubdomainPolicy, PTL

------------------------------------------------------------------------------
(* One component works at a time: a request starts one when none does, and *)
(* leaves them all idle.                                                   *)
Alone ==
  \/ rep = RepIdle /\ leak = LeakIdle
  \/ scan = ScanIdle /\ leak = LeakIdle
  \/ scan = ScanIdle /\ rep = RepIdle

(* What is idle takes no step of its own.                                  *)
LEMMA IdleRests ==
  /\ ScanStep => scan # ScanIdle
  /\ RepStep => rep # RepIdle
  /\ LeakStep => leak # LeakIdle
<1>1. ScanIdle.at = "idle" /\ RepIdle.at = "idle" /\ LeakIdle.at = "idle"
  BY DEF ScanIdle, RepIdle, LeakIdle
<1>2. ScanStep => scan.at # "idle"
  BY DEF ScanStep, CheckSpf, CheckDkim, CheckDmarc, Calculate
<1>3. RepStep => rep.at # "idle"
  BY DEF RepStep, ResolveMx, DnsblQuery, BimiLookup, DnssecProbe, SpfRecord, SpfInclude, DkimHygiene
<1>4. LeakStep => leak.at # "idle"
  BY DEF LeakStep, Hibp, Github, GenerateLookalikes, AskCrtSh, SortHits, RunFeeds
<1>5. QED BY <1>1, <1>2, <1>3, <1>4

LEMMA AloneNext == Alone /\ [Next]_vars => Alone'
<1> SUFFICES ASSUME Alone, [Next]_vars PROVE Alone'
  OBVIOUS
<1>1. CASE Landing \/ HandleAttest \/ SelectMode \/ ClickCard \/ Submit \/ TypeUrl \/ FollowExport
           \/ RequireDomain \/ UNCHANGED vars
  BY <1>1 DEF Landing, HandleAttest, SelectMode, ClickCard, Submit, TypeUrl, FollowExport, Browsing,
              RequireDomain, vars, Alone
<1>2. CASE Handle
  BY <1>2 DEF Handle, Idle, Alone
<1>3. CASE Await
  BY <1>3, IdleRests DEF Await, Alone
<1>4. CASE Respond
  BY <1>4 DEF Respond, Alone
<1>5. QED BY <1>1, <1>2, <1>3, <1>4 DEF Next, Server

(* So at most one of the three is not idle.                                *)
LEMMA AtMostOne ==
  ASSUME Alone
  PROVE  Cardinality({c \in {"scan", "reputation", "leak"} :
           CASE c = "scan" -> scan # ScanIdle [] c = "leak" -> leak # LeakIdle [] OTHER -> rep # RepIdle}) <= 1
<1> DEFINE W == {c \in {"scan", "reputation", "leak"} :
                   CASE c = "scan" -> scan # ScanIdle [] c = "leak" -> leak # LeakIdle [] OTHER -> rep # RepIdle}
<1>1. W = {} \/ \E c : W = {c}
  <2>1. \A c, d \in W : c = d
    BY DEF Alone
  <2> HIDE DEF W
  <2>2. QED BY <2>1
<1> HIDE DEF W
<1>2. Cardinality(W) <= 1
  <2>1. Cardinality(W) = 0 \/ Cardinality(W) = 1
    BY <1>1, FS_EmptySet, FS_Singleton
  <2>2. QED BY <2>1
<1>3. QED BY <1>2 DEF W

(* The pages, the requests and the score have their types, and no two      *)
(* components work at once: server.rs awaits one before it responds.       *)
THEOREM Typed == Spec => []TypeOK
<1>1. Init => Alone
  BY DEF Init, Alone
<1>2. PageInv /\ ScanInv /\ Alone => TypeOK
  <2> SUFFICES ASSUME PageInv, ScanInv, Alone PROVE TypeOK
    OBVIOUS
  <2>1. scan.points \in 0..100 /\ scan.grade \in {"absent", "A", "B", "C", "D", "F"}
    BY DEF ScanInv, ScanType
  <2>2. QED BY <2>1, AtMostOne DEF PageInv, TypeOK
<1>3. QED BY <1>1, <1>2, PageInvInit, PageInvNext, ScansKeepTheirInvariant, AloneNext, PTL DEF Spec

------------------------------------------------------------------------------
(* A reputation report has its fields, whichever sections have written     *)
(* theirs; its keys are keys, and the verdict on the mark is that of what  *)
(* was fetched.                                                            *)
Judged == rep.svg \in Fetches(Logos) /\ rep.vmc \in Fetches(Marks) /\ rep.valid = Valid(rep.svg, rep.vmc)
RepInv ==
  /\ DOMAIN rep = DOMAIN RepIdle
  /\ rep.signed \in BOOLEAN /\ rep.keys \in Seq(Keys)
  /\ Judged

(* Nothing fetched is a fetch, and no valid mark.                          *)
LEMMA NothingFetched ==
  /\ \A Docs : NoFetch \in Fetches(Docs)
  /\ \A vmc : Valid(NoFetch, vmc) = FALSE
<1>1. ASSUME NEW Docs
      PROVE  NoFetch \in Fetches(Docs)
  <2>1. NoFetch \in [how : {"no url"}, doc : {{}}]
    BY DEF NoFetch
  <2>2. NoFetch = [NoFetch EXCEPT !.how = "no url"]
    BY <2>1
  <2>3. QED BY <2>2 DEF Fetches
<1>2. QED BY <1>1 DEF Valid, NoFetch

LEMMA RepIdleInv == (rep = RepIdle => RepInv) /\ (rep' = RepIdle => RepInv')
<1>1. RepIdle.signed = FALSE /\ RepIdle.keys = << >>
  BY DEF RepIdle
<1>2. RepIdle.svg = NoFetch /\ RepIdle.vmc = NoFetch /\ RepIdle.valid = FALSE
  BY DEF RepIdle
<1>3. << >> \in Seq(Keys)
  OBVIOUS
<1>4. QED BY <1>1, <1>2, <1>3, NothingFetched DEF RepInv, Judged

(* A section that writes neither keys nor the mark keeps both.             *)
Keeps(f) == rep'[f] = rep[f]
LEMMA RepKept ==
  ASSUME RepInv, DOMAIN rep' = DOMAIN rep, rep'.signed \in BOOLEAN,
         Keeps("keys"), Keeps("svg"), Keeps("vmc"), Keeps("valid")
  PROVE  RepInv'
BY DEF RepInv, Judged, Keeps

LEMMA RepFields ==
  DOMAIN RepIdle = {"at", "focus", "ips", "dnsbl", "listings", "svg", "vmc", "valid", "signed", "count", "includes",
                    "over", "zone", "lost", "keys"}
BY DEF RepIdle

(* Every step of a report keeps its invariant.                             *)
LEMMA RepStepInv == RepInv /\ (ReputationOf \/ RepStep) => RepInv'
<1> SUFFICES ASSUME RepInv, ReputationOf \/ RepStep PROVE RepInv'
  OBVIOUS
<1>1. DOMAIN rep = {"at", "focus", "ips", "dnsbl", "listings", "svg", "vmc", "valid", "signed", "count", "includes",
                    "over", "zone", "lost", "keys"} /\ rep.signed \in BOOLEAN
  BY RepFields DEF RepInv
<1>2. CASE ReputationOf
  <2>1. PICK s \in Sections : rep' = [rep EXCEPT !.at = "mx", !.focus = s]
    BY <1>2 DEF ReputationOf
  <2>2. QED BY <1>1, <2>1, RepKept DEF Keeps
<1>3. CASE ResolveMx
  <2>1. PICK ips : rep' = [rep EXCEPT !.at = "lists", !.ips = ips]
    BY <1>3 DEF ResolveMx
  <2>2. QED BY <1>1, <2>1, RepKept DEF Keeps
<1>4. CASE DnsblQuery
  <2>1. rep' = [rep EXCEPT !.at = "bimi"] \/ \E q, n : rep' = [rep EXCEPT !.dnsbl = q, !.listings = n]
    BY <1>4 DEF DnsblQuery
  <2>2. CASE rep' = [rep EXCEPT !.at = "bimi"]
    BY <1>1, <2>2, RepKept DEF Keeps
  <2>3. CASE \E q, n : rep' = [rep EXCEPT !.dnsbl = q, !.listings = n]
    BY <1>1, <2>3, RepKept DEF Keeps
  <2>4. QED BY <2>1, <2>2, <2>3
<1>5. CASE BimiLookup
  <2>1. PICK svg \in OneAtATime("bimi", NoFetch, Fetches(Logos)),
             vmc \in OneAtATime("bimi", NoFetch, Fetches(Marks)) :
          LET asked == IF svg.how = "cut" THEN NoFetch ELSE vmc IN
          rep' = [rep EXCEPT !.at = "dnssec", !.svg = svg, !.vmc = asked, !.valid = Valid(svg, asked)]
    BY <1>5 DEF BimiLookup
  <2> DEFINE asked == IF svg.how = "cut" THEN NoFetch ELSE vmc
  <2>2. svg \in Fetches(Logos) /\ asked \in Fetches(Marks)
    BY NothingFetched DEF OneAtATime
  <2>3. rep' = [rep EXCEPT !.at = "dnssec", !.svg = svg, !.vmc = asked, !.valid = Valid(svg, asked)]
    BY <2>1
  <2> HIDE DEF asked
  <2>4. /\ DOMAIN rep' = DOMAIN rep /\ rep'.signed = rep.signed /\ rep'.keys = rep.keys
        /\ rep'.svg = svg /\ rep'.vmc = asked /\ rep'.valid = Valid(svg, asked)
    BY <1>1, <2>3
  <2>5. QED BY <2>2, <2>4 DEF RepInv, Judged
<1>6. CASE DnssecProbe
  <2>1. PICK key \in BOOLEAN, ds \in BOOLEAN : rep' = [rep EXCEPT !.at = "spf", !.signed = key /\ ds]
    BY <1>6 DEF DnssecProbe, OneAtATime
  <2>2. DOMAIN rep' = DOMAIN rep /\ rep'.signed \in BOOLEAN
    BY <1>1, <2>1
  <2>3. Keeps("keys") /\ Keeps("svg") /\ Keeps("vmc") /\ Keeps("valid")
    BY <1>1, <2>1 DEF Keeps
  <2>4. QED BY <2>2, <2>3, RepKept
<1>7. CASE SpfRecord
  <2>1. PICK zone, count, includes :
          rep' = [rep EXCEPT !.at = "include", !.zone = zone, !.count = count, !.includes = includes]
    BY <1>7 DEF SpfRecord
  <2>2. QED BY <1>1, <2>1, RepKept DEF Keeps
<1>8. CASE SpfInclude
  <2>1. CASE rep.includes = << >>
    <3>1. rep' = [rep EXCEPT !.at = "dkim", !.over = OverLimit(rep.count)]
      BY <1>8, <2>1 DEF SpfInclude
    <3>2. QED BY <1>1, <3>1, RepKept DEF Keeps
  <2>2. CASE rep.includes # << >>
    <3>1. PICK lost \in BOOLEAN :
            rep' = [rep EXCEPT !.includes = Tail(@), !.lost = @ \/ lost,
                      !.count = IF lost THEN @ ELSE @ + CountSpfLookups(rep.zone[Head(rep.includes)])]
      BY <1>8, <2>2 DEF SpfInclude
    <3>2. QED BY <1>1, <3>1, RepKept DEF Keeps
  <2>3. QED BY <2>1, <2>2
<1>9. CASE DkimHygiene
  <2>1. PICK n \in OneAtATime("dkim", 0, 0..RepSelectors) :
          \E keys \in [1..n -> Keys] : rep' = [rep EXCEPT !.at = "done", !.keys = keys]
    BY <1>9 DEF DkimHygiene
  <2>2. PICK keys \in [1..n -> Keys] : rep' = [rep EXCEPT !.at = "done", !.keys = keys]
    BY <2>1
  <2>3. keys \in Seq(Keys)
    <3>1. n \in Nat
      BY ReputationAssumption DEF OneAtATime
    <3>2. QED BY <3>1
  <2>4. /\ DOMAIN rep' = DOMAIN rep /\ rep'.signed = rep.signed /\ rep'.keys = keys
        /\ rep'.svg = rep.svg /\ rep'.vmc = rep.vmc /\ rep'.valid = rep.valid
    BY <1>1, <2>2
  <2>5. QED BY <2>3, <2>4 DEF RepInv, Judged
<1>10. QED BY <1>2, <1>3, <1>4, <1>5, <1>6, <1>7, <1>8, <1>9 DEF RepStep

LEMMA RepInvNext == RepInv /\ [Next]_vars => RepInv'
<1> SUFFICES ASSUME RepInv, [Next]_vars PROVE RepInv'
  OBVIOUS
<1>1. ReputationOf \/ RepStep \/ rep' = RepIdle \/ rep' = rep
  BY DEF Next, Server, Landing, HandleAttest, SelectMode, ClickCard, Submit, TypeUrl, FollowExport,
         Browsing, RequireDomain, Handle, Await, Respond, vars
<1>2. CASE rep' = rep
  BY <1>2 DEF RepInv, Judged
<1>3. QED BY <1>1, <1>2, RepStepInv, RepIdleInv

THEOREM ReportsKeepTheirInvariant == Spec => []RepInv
<1>1. Init => RepInv
  BY RepIdleInv DEF Init
<1>2. QED BY <1>1, RepInvNext, PTL DEF Spec

------------------------------------------------------------------------------
(* The size that the length of an RSA key's DER tells, for the usual sizes *)
(* with an exponent of up to eight bytes: it is the size of the modulus.   *)
LEMMA LengthTellsTheSize ==
  ASSUME NEW k \in KeyType, k.form = "spki", Usual(k)
  PROVE  Estimate(DerLength(k)) = 8 * k.mod
<1>1. k.mod \in {64, 128, 256, 384, 512} /\ k.exp \in 1..8
  BY DEF Usual
<1>2. AlgorithmLength = 15
  BY DEF AlgorithmLength, Tlv
<1>3. Tlv(k.exp) = k.exp + 2
  BY <1>1 DEF Tlv
<1>4. DerLength(k) = Tlv(15 + Tlv(1 + Tlv(Tlv(k.mod + 1) + (k.exp + 2))))
  BY <1>2, <1>3 DEF DerLength, Pkcs1Length
<1>5. QED BY <1>1, <1>4 DEF Tlv, Estimate

(* So the two judgements of a key are one.                                 *)
LEMMA JudgedAlike ==
  ASSUME NEW k \in KeyType, Usual(k), k.form \notin {"pkcs1", "junk"}
  PROVE  /\ IsWeak(k) <=> Analyse(k).hygiene \in {"weak", "deprecated"}
         /\ k.form = "spki" => Analyse(k).bits = ExtractBits(k)
<1>1. CASE k.form = "spki"
  <2>1. k.mod \in {64, 128, 256, 384, 512}
    BY <1>1 DEF Usual
  <2>2. /\ Analyse(k).bits = 8 * k.mod
        /\ Analyse(k).hygiene = IF 8 * k.mod >= 2048 THEN "ok" ELSE IF 8 * k.mod = 1024 THEN "weak" ELSE "deprecated"
    BY <1>1, LengthTellsTheSize DEF Analyse
  <2>3. IsWeak(k) <=> 8 * k.mod < 2048
    <3>1. ExtractBits(k) = 8 * k.mod
      BY <1>1 DEF ExtractBits
    <3>2. PICK m \in {64, 128, 256, 384, 512} : k.mod = m
      BY <2>1
    <3>3. 8 * k.mod \in 1..2047 <=> 8 * k.mod < 2048
      <4>1. 8 * m \in 1..2047 <=> 8 * m < 2048
        OBVIOUS
      <4>2. QED BY <3>2, <4>1
    <3>4. IsWeak(k) <=> 8 * k.mod \in 1..2047
      BY <3>1 DEF IsWeak
    <3>5. QED BY <3>3, <3>4
  <2>4. Analyse(k).hygiene \in {"weak", "deprecated"} <=> 8 * k.mod < 2048
    BY <2>1, <2>2
  <2>5. QED BY <1>1, <2>2, <2>3, <2>4 DEF ExtractBits
<1>2. CASE k.form = "ed25519"
  <2>1. Analyse(k).hygiene = "ok"
    BY <1>2 DEF Analyse
  <2>2. QED BY <1>2, <2>1 DEF IsWeak, ExtractBits
<1>3. CASE k.form = "empty"
  <2>1. Analyse(k).hygiene = "missing"
    BY <1>3 DEF Analyse
  <2>2. QED BY <1>3, <2>1 DEF IsWeak, ExtractBits
<1>4. QED BY <1>1, <1>2, <1>3 DEF KeyType, KeyKinds

(* dkim.rs and reputation.rs agree on every key of the usual sizes.        *)
THEOREM KeysAreJudgedAlike == Spec => []JudgesAgree
<1>1. RepInv => JudgesAgree
  <2> SUFFICES ASSUME RepInv, NEW i \in DOMAIN rep.keys
               PROVE  LET k == rep.keys[i] IN
                      Usual(k) /\ k.form \notin {"pkcs1", "junk"} =>
                        /\ IsWeak(k) <=> Analyse(k).hygiene \in {"weak", "deprecated"}
                        /\ k.form = "spki" => Analyse(k).bits = ExtractBits(k)
    BY DEF JudgesAgree
  <2>1. rep.keys[i] \in KeyType
    BY KeysAssumption DEF RepInv
  <2>2. QED BY <2>1, JudgedAlike
<1>2. QED BY <1>1, ReportsKeepTheirInvariant, PTL

------------------------------------------------------------------------------
(* The PEM reader is the function its recursion describes: there is one.   *)
Reads(f, text) ==
  f = [n \in 0..Len(text) |-> IF n = 0 THEN NothingRead ELSE PemLine(f[n - 1], text[n])]

ReadsTo(f, text, k) == \A n \in 0..k : f[n] = IF n = 0 THEN NothingRead ELSE PemLine(f[n - 1], text[n])

LEMMA ReadsExists ==
  ASSUME NEW text, Len(text) \in Nat
  PROVE  \E f : Reads(f, text)
<1> DEFINE S == {k \in Nat : \E f : ReadsTo(f, text, k)}
<1>1. 0 \in S
  <2>1. ReadsTo([n \in {0} |-> NothingRead], text, 0)
    BY DEF ReadsTo
  <2>2. QED BY <2>1
<1>2. ASSUME NEW k \in Nat, k \in S
      PROVE  k + 1 \in S
  <2>1. PICK g : ReadsTo(g, text, k)
    BY <1>2
  <2> DEFINE f == [n \in 0..(k + 1) |-> IF n <= k THEN g[n] ELSE PemLine(g[k], text[n])]
  <2>2. ASSUME NEW n \in 0..(k + 1)
        PROVE  f[n] = IF n = 0 THEN NothingRead ELSE PemLine(f[n - 1], text[n])
    <3>1. CASE n <= k /\ n # 0
      <4>1. n \in 0..k /\ n - 1 \in 0..(k + 1) /\ n - 1 <= k
        BY <3>1
      <4>2. f[n] = g[n] /\ f[n - 1] = g[n - 1]
        BY <3>1, <4>1
      <4>3. QED BY <2>1, <3>1, <4>1, <4>2 DEF ReadsTo
    <3>2. CASE n = 0
      <4>1. f[n] = g[n] /\ n \in 0..k
        BY <3>2
      <4>2. QED BY <2>1, <3>2, <4>1 DEF ReadsTo
    <3>3. CASE n = k + 1
      <4>1. ~(n <= k) /\ n # 0 /\ n - 1 = k /\ k \in 0..(k + 1) /\ k <= k
        BY <3>3
      <4>2. f[n] = PemLine(g[k], text[n]) /\ f[k] = g[k]
        BY <4>1
      <4>3. QED BY <4>1, <4>2
    <3>4. QED BY <3>1, <3>2, <3>3
  <2> HIDE DEF f
  <2>3. ReadsTo(f, text, k + 1)
    BY <2>2 DEF ReadsTo
  <2>4. QED BY <2>3
<1>3. Len(text) \in S
  <2> HIDE DEF S
  <2>1. QED BY <1>1, <1>2, NatInduct
<1>4. PICK g : ReadsTo(g, text, Len(text))
  BY <1>3
<1> DEFINE f == [n \in 0..Len(text) |-> g[n]]
<1>5. ASSUME NEW n \in 0..Len(text)
      PROVE  f[n] = IF n = 0 THEN NothingRead ELSE PemLine(f[n - 1], text[n])
  <2>1. n # 0 => n - 1 \in 0..Len(text)
    OBVIOUS
  <2>2. QED BY <1>4, <2>1 DEF ReadsTo
<1>6. Reads(f, text)
  BY <1>5 DEF Reads
<1>7. QED BY <1>6

LEMMA PemReads ==
  ASSUME NEW text \in Seq(Lines)
  PROVE  /\ Len(text) \in Nat
         /\ PemRead(text)[0] = NothingRead
         /\ \A n \in 1..Len(text) : PemRead(text)[n] = PemLine(PemRead(text)[n - 1], text[n])
<1>1. Len(text) \in Nat
  BY LenProperties
<1> DEFINE F == CHOOSE f : Reads(f, text)
<1>2. Reads(F, text)
  BY <1>1, ReadsExists
<1>3. PemRead(text) = F
  BY DEF PemRead, Reads
<1> HIDE DEF F
<1>4. \A n \in 0..Len(text) : F[n] = IF n = 0 THEN NothingRead ELSE PemLine(F[n - 1], text[n])
  BY <1>2 DEF Reads
<1>5. QED BY <1>1, <1>3, <1>4

(* Of an orderly text, after n lines: the reader is within a block exactly *)
(* after BEGIN and after the certificate that follows it, which is all it  *)
(* has; and the first block it has closed is the first certificate written *)
(* whole, if there is one.                                                 *)
First(text, i) == Whole(text, i) /\ \A j \in 1..(i - 1) : ~Whole(text, j)
Begun(text, n) == n >= 1 /\ text[n] = "begin"
Filled(text, n) == n >= 2 /\ text[n - 1] = "begin"
PemState == [in : BOOLEAN, acc : Seq(Lines), chain : Seq(Seq(Lines))]
ReadSoFar(text, n) ==
  LET s == PemRead(text)[n] IN
  /\ s \in PemState
  /\ s.in <=> Begun(text, n) \/ Filled(text, n)
  /\ Begun(text, n) => s.acc = << >>
  /\ Filled(text, n) => s.acc = << text[n] >>
  /\ \/ s.chain = << >> /\ \A i \in 1..(n - 2) : ~Whole(text, i)
     \/ s.chain # << >> /\ \E i \in 1..(n - 2) : First(text, i) /\ s.chain[1] = << text[i + 1] >>

(* A line that ends no block leaves the chain alone.                       *)
LEMMA LineRead ==
  ASSUME NEW s \in PemState, NEW line \in Lines, line # "end"
  PROVE  /\ PemLine(s, line) \in PemState /\ PemLine(s, line).chain = s.chain
         /\ line = "begin" => PemLine(s, line).in /\ PemLine(s, line).acc = << >>
         /\ line # "begin" => /\ PemLine(s, line).in <=> s.in
                              /\ s.in => PemLine(s, line).acc = Append(s.acc, line)
<1>1. CASE line = "begin"
  <2>1. PemLine(s, line) = [s EXCEPT !.in = TRUE, !.acc = << >>]
    BY <1>1 DEF PemLine
  <2>2. << >> \in Seq(Lines)
    OBVIOUS
  <2>3. QED BY <1>1, <2>1, <2>2 DEF PemState
<1>2. CASE line # "begin"
  <2> DEFINE acc == IF s.in THEN Append(s.acc, line) ELSE s.acc
  <2>1. PemLine(s, line) = [s EXCEPT !.acc = acc]
    BY <1>2 DEF PemLine
  <2>2. acc \in Seq(Lines) /\ (s.in => acc = Append(s.acc, line))
    BY DEF PemState
  <2> HIDE DEF acc
  <2>3. QED BY <1>2, <2>1, <2>2 DEF PemState
<1>3. QED BY <1>1, <1>2

LEMMA ReadNext ==
  ASSUME NEW text \in Seq(Lines), Orderly(text), NEW n \in Nat, n + 1 \in 1..Len(text), ReadSoFar(text, n)
  PROVE  ReadSoFar(text, n + 1)
<1> DEFINE s == PemRead(text)[n]
           t == PemRead(text)[n + 1]
           line == text[n + 1]
           None(m) == \A i \in 1..(m - 2) : ~Whole(text, i)
           Found(c, m) == c # << >> /\ \E i \in 1..(m - 2) : First(text, i) /\ c[1] = << text[i + 1] >>
<1>1. /\ Len(text) \in Nat /\ (n + 1) - 1 = n /\ (n + 1) - 2 = n - 1
      /\ DOMAIN text = 1..Len(text) /\ line \in Lines
      /\ n \in 1..Len(text) \/ n = 0
  BY LenProperties
<1>2. t = PemLine(s, line)
  BY <1>1, PemReads
<1>3. /\ s \in PemState
      /\ s.in <=> Begun(text, n) \/ Filled(text, n)
      /\ Begun(text, n) => s.acc = << >>
      /\ Filled(text, n) => s.acc = << text[n] >>
      /\ (s.chain = << >> /\ None(n)) \/ Found(s.chain, n)
  BY DEF ReadSoFar
<1> HIDE DEF s, t
<1>4. Begun(text, n + 1) <=> line = "begin"
  BY DEF Begun
<1>5. Filled(text, n + 1) <=> Begun(text, n)
  BY <1>1 DEF Filled, Begun
<1>6. CASE line = "begin"
  <2>1. t.in /\ t.acc = << >> /\ t.chain = s.chain /\ t \in PemState
    BY <1>1, <1>2, <1>3, <1>6, LineRead
  <2>2. ~Begun(text, n)
    <3>1. SUFFICES ASSUME n >= 1, text[n] = "begin"
                   PROVE  FALSE
      BY DEF Begun
    <3>2. n \in DOMAIN text
      BY <1>1, <3>1
    <3>3. Whole(text, n)
      BY <3>1, <3>2 DEF Orderly
    <3>4. QED BY <1>6, <3>3 DEF Whole
  <2>3. None(n) => None(n + 1)
    <3>1. ASSUME None(n), NEW i \in 1..(n - 1)
          PROVE  ~Whole(text, i)
      <4>1. CASE i = n - 1
        <5>1. i + 2 = n + 1
          BY <4>1
        <5>2. QED BY <1>6, <5>1 DEF Whole
      <4>2. CASE i # n - 1
        <5>1. i \in 1..(n - 2)
          BY <4>2
        <5>2. QED BY <3>1, <5>1
      <4>3. QED BY <4>1, <4>2
    <3>2. QED BY <1>1, <3>1
  <2>4. Found(s.chain, n) => Found(t.chain, n + 1)
    <3>1. \A i \in 1..(n - 2) : i \in 1..((n + 1) - 2)
      OBVIOUS
    <3>2. QED BY <2>1, <3>1
  <2>5. (t.chain = << >> /\ None(n + 1)) \/ Found(t.chain, n + 1)
    BY <1>3, <2>1, <2>3, <2>4
  <2> HIDE DEF None, Found
  <2>6. QED BY <1>4, <1>5, <1>6, <2>1, <2>2, <2>5 DEF ReadSoFar, t, None, Found
<1>7. CASE line = "end"
  <2>1. t = [in |-> FALSE, acc |-> << >>, chain |-> Append(s.chain, s.acc)]
    BY <1>2, <1>7 DEF PemLine
  <2>2. n >= 2 /\ Whole(text, n - 1)
    <3>1. n + 1 \in DOMAIN text /\ text[n + 1] = "end" /\ (n + 1) - 2 = n - 1
      BY <1>1, <1>7
    <3>2. n + 1 > 2 /\ Whole(text, (n + 1) - 2)
      BY <3>1 DEF Orderly
    <3>3. QED BY <3>1, <3>2
  <2>3. text[n - 1] = "begin" /\ text[n] \in {"leaf", "ca"}
    <3>1. (n - 1) + 1 = n
      OBVIOUS
    <3>2. QED BY <2>2, <3>1 DEF Whole
  <2>4. s.acc = << text[n] >> /\ ~Begun(text, n)
    BY <1>3, <2>2, <2>3 DEF Filled, Begun
  <2>5. t \in PemState /\ ~t.in
    <3>1. s.chain \in Seq(Seq(Lines)) /\ s.acc \in Seq(Lines) /\ << >> \in Seq(Lines)
      BY <1>3 DEF PemState
    <3>2. Append(s.chain, s.acc) \in Seq(Seq(Lines))
      BY <3>1, AppendProperties
    <3>3. QED BY <2>1, <3>1, <3>2 DEF PemState
  <2>6. Found(t.chain, n + 1)
    <3>1. s.chain \in Seq(Seq(Lines)) /\ s.acc \in Seq(Lines)
      BY <1>3 DEF PemState
    <3>2. t.chain = Append(s.chain, s.acc) /\ t.chain # << >>
      <4>1. ASSUME NEW E, NEW c \in Seq(E), NEW e \in E
            PROVE  Append(c, e) # << >>
        BY AppendProperties
      <4>2. QED BY <2>1, <3>1, <4>1
    <3>3. CASE s.chain = << >> /\ None(n)
      <4>1. t.chain[1] = << text[n] >>
        BY <2>4, <3>2, <3>3
      <4>2. First(text, n - 1)
        <5>1. (n - 1) - 1 = n - 2
          OBVIOUS
        <5>2. QED BY <2>2, <3>3, <5>1 DEF First
      <4>3. n - 1 \in 1..((n + 1) - 2) /\ (n - 1) + 1 = n
        BY <2>2
      <4>4. QED BY <3>2, <4>1, <4>2, <4>3
    <3>4. CASE Found(s.chain, n)
      <4>1. t.chain[1] = s.chain[1]
        BY <3>1, <3>2, <3>4
      <4>2. \A i \in 1..(n - 2) : i \in 1..((n + 1) - 2)
        OBVIOUS
      <4>3. QED BY <3>2, <3>4, <4>1, <4>2
    <3>5. QED BY <1>3, <3>3, <3>4
  <2>7. ~Begun(text, n + 1) /\ ~Filled(text, n + 1)
    BY <1>4, <1>5, <1>7, <2>4
  <2> HIDE DEF None, Found
  <2>8. QED BY <2>5, <2>6, <2>7 DEF ReadSoFar, t, Found
<1>8. CASE line \notin {"begin", "end"}
  <2>1. /\ t \in PemState /\ (t.in <=> s.in) /\ t.chain = s.chain
        /\ s.in => t.acc = Append(s.acc, line)
    BY <1>1, <1>2, <1>3, <1>8, LineRead
  <2>2. ~Filled(text, n)
    <3>1. SUFFICES ASSUME n >= 2, text[n - 1] = "begin"
                   PROVE  FALSE
      BY DEF Filled
    <3>2. n - 1 \in DOMAIN text /\ (n - 1) + 2 = n + 1
      BY <1>1, <3>1
    <3>3. Whole(text, n - 1)
      BY <3>1, <3>2 DEF Orderly
    <3>4. QED BY <1>8, <3>2, <3>3 DEF Whole
  <2>3. t.in <=> Filled(text, n + 1)
    BY <1>3, <1>5, <2>1, <2>2
  <2>4. Filled(text, n + 1) => t.acc = << line >>
    <3>1. SUFFICES ASSUME Begun(text, n)
                   PROVE  t.acc = << line >>
      BY <1>5
    <3>2. s.in /\ s.acc = << >>
      BY <1>3, <3>1
    <3>3. QED BY <2>1, <3>2
  <2>5. None(n) => None(n + 1)
    <3>1. ASSUME None(n), NEW i \in 1..(n - 1)
          PROVE  ~Whole(text, i)
      <4>1. CASE i = n - 1
        <5>1. i + 2 = n + 1
          BY <4>1
        <5>2. QED BY <1>8, <5>1 DEF Whole
      <4>2. CASE i # n - 1
        <5>1. i \in 1..(n - 2)
          BY <4>2
        <5>2. QED BY <3>1, <5>1
      <4>3. QED BY <4>1, <4>2
    <3>2. QED BY <1>1, <3>1
  <2>6. Found(s.chain, n) => Found(t.chain, n + 1)
    <3>1. \A i \in 1..(n - 2) : i \in 1..((n + 1) - 2)
      OBVIOUS
    <3>2. QED BY <2>1, <3>1
  <2>7. (t.chain = << >> /\ None(n + 1)) \/ Found(t.chain, n + 1)
    BY <1>3, <2>1, <2>5, <2>6
  <2>8. ~Begun(text, n + 1)
    BY <1>4, <1>8
  <2> HIDE DEF None, Found
  <2>9. QED BY <2>1, <2>3, <2>4, <2>7, <2>8 DEF ReadSoFar, t, None, Found
<1>9. QED BY <1>6, <1>7, <1>8

(* So after the last line.                                                 *)
LEMMA ReadWhole ==
  ASSUME NEW text \in Seq(Lines), Orderly(text)
  PROVE  ReadSoFar(text, Len(text))
<1> DEFINE S == {n \in Nat : n <= Len(text) => ReadSoFar(text, n)}
<1>1. Len(text) \in Nat
  BY LenProperties
<1>2. 0 \in S
  <2>1. PemRead(text)[0] = NothingRead
    BY PemReads
  <2>2. NothingRead \in PemState
    BY DEF NothingRead, PemState
  <2>3. ~Begun(text, 0) /\ ~Filled(text, 0) /\ 1..(0 - 2) = {}
    BY DEF Begun, Filled
  <2>4. ReadSoFar(text, 0)
    BY <2>1, <2>2, <2>3 DEF ReadSoFar, NothingRead
  <2>5. QED BY <2>4
<1>3. ASSUME NEW n \in Nat, n \in S
      PROVE  n + 1 \in S
  <2>1. ASSUME n + 1 <= Len(text)
        PROVE  ReadSoFar(text, n + 1)
    BY <1>1, <1>3, <2>1, ReadNext
  <2>2. QED BY <2>1
<1>4. QED
  <2> HIDE DEF S
  <2>1. Len(text) \in S
    BY <1>1, <1>2, <1>3, NatInduct
  <2>2. QED BY <1>1, <2>1 DEF S

(* The leaf of a mark certificate is judged exactly if it is the first     *)
(* certificate written whole in the text.                                  *)
LEMMA FirstIsJudged ==
  ASSUME NEW d \in VmcType, Orderly(d.text)
  PROVE  \/ FirstWhole(d.text) = {} /\ Leaves(d) = {}
         \/ FirstWhole(d.text) = {"leaf"} /\ Leaves(d) = {d.leaf}
         \/ FirstWhole(d.text) = {"ca"} /\ Leaves(d) = {Authority}
<1> DEFINE text == d.text
           chain == ParsePemChain(text)
<1>1. text \in Seq(Lines) /\ Len(text) \in Nat /\ DOMAIN text = 1..Len(text)
  BY LenProperties DEF VmcType
<1>2. \/ chain = << >> /\ \A i \in 1..(Len(text) - 2) : ~Whole(text, i)
      \/ chain # << >> /\ \E i \in 1..(Len(text) - 2) : First(text, i) /\ chain[1] = << text[i + 1] >>
  BY <1>1, ReadWhole DEF ReadSoFar, ParsePemChain
<1> HIDE DEF chain
<1>3. \A i \in DOMAIN text : Whole(text, i) => i \in 1..(Len(text) - 2)
  BY <1>1 DEF Whole
<1>4. CASE chain = << >> /\ \A i \in 1..(Len(text) - 2) : ~Whole(text, i)
  <2>1. FirstWhole(text) = {}
    BY <1>3, <1>4 DEF FirstWhole
  <2>2. Leaves(d) = {}
    BY <1>4 DEF Leaves, chain
  <2>3. QED BY <2>1, <2>2
<1>5. CASE chain # << >> /\ \E i \in 1..(Len(text) - 2) : First(text, i) /\ chain[1] = << text[i + 1] >>
  <2>1. PICK i \in 1..(Len(text) - 2) : First(text, i) /\ chain[1] = << text[i + 1] >>
    BY <1>5
  <2>2. i \in DOMAIN text /\ text[i + 1] \in {"leaf", "ca"}
    BY <1>1, <2>1 DEF First, Whole
  <2>3. \A j \in DOMAIN text : First(text, j) => j = i
    <3>1. ASSUME NEW j \in DOMAIN text, First(text, j), j # i
          PROVE  FALSE
      <4>1. j \in 1..(i - 1) \/ i \in 1..(j - 1)
        BY <1>1, <2>2, <3>1
      <4>2. QED BY <2>1, <3>1, <4>1 DEF First
    <3>2. QED BY <3>1
  <2>4. FirstWhole(text) = {text[i + 1]}
    <3>1. FirstWhole(text) = {text[j + 1] : j \in {j \in DOMAIN text : First(text, j)}}
      BY DEF FirstWhole, First
    <3>2. {j \in DOMAIN text : First(text, j)} = {i}
      BY <2>1, <2>2, <2>3
    <3>3. QED BY <3>1, <3>2
  <2>5. chain[1] # << >> /\ chain[1][1] = text[i + 1]
    BY <2>1
  <2>6. CASE text[i + 1] = "leaf"
    <3>1. Leaves(d) = {d.leaf}
      BY <1>5, <2>5, <2>6 DEF Leaves, chain
    <3>2. QED BY <2>4, <2>6, <3>1
  <2>7. CASE text[i + 1] = "ca"
    <3>1. Leaves(d) = {Authority}
      BY <1>5, <2>5, <2>7 DEF Leaves, chain
    <3>2. QED BY <2>4, <2>7, <3>1
  <2>8. QED BY <2>2, <2>6, <2>7
<1>6. QED BY <1>2, <1>4, <1>5

(* A fetch has one document of its kind, or none.                          *)
LEMMA FetchForm ==
  ASSUME NEW Docs, NEW f \in Fetches(Docs)
  PROVE  \/ f.doc = {}
         \/ f.how = "doc" /\ \E d \in Docs : f.doc = {d}
<1>1. CASE \E h \in {"no url", "failed", "cut"} : f = [NoFetch EXCEPT !.how = h]
  BY <1>1 DEF NoFetch
<1>2. CASE f \in {[how |-> "doc", doc |-> {d}] : d \in Docs}
  BY <1>2
<1>3. QED BY <1>1, <1>2 DEF Fetches

(* Valid is what is asked of the documents, where the text is orderly.     *)
LEMMA ValidIsEarned ==
  ASSUME NEW svg \in Fetches(Logos), NEW vmc \in Fetches(Marks)
  PROVE  VerdictIsEarned(Valid(svg, vmc), svg, vmc)
<1>1. Valid(svg, vmc) => svg.doc # {} /\ vmc.doc # {}
  BY DEF Valid
<1>2. ASSUME \A d \in vmc.doc : Orderly(d.text)
      PROVE  Valid(svg, vmc) <=> MarkIsGood(svg, vmc)
  <2>1. (\E d \in svg.doc : SvgPasses(d)) <=>
          \E d \in svg.doc : d.mime /\ d.fits /\ d.svg /\ ~d.script /\ ~d.external
    BY DEF SvgPasses
  <2>2. svg.how = "cut" => svg.doc = {}
    BY FetchForm
  <2>3. ASSUME NEW d \in vmc.doc
        PROVE  (\E c \in Leaves(d) : LeafPasses(c)) <=>
                 /\ "leaf" \in FirstWhole(d.text) /\ d.leaf.oid /\ d.leaf.window /\ d.leaf.marker
                 /\ d.leaf.cn \/ d.leaf.san
    <3>1. d \in VmcType /\ Orderly(d.text)
      BY <1>2, FetchForm, BimiAssumption
    <3>2. ~LeafPasses(Authority)
      BY DEF LeafPasses, Authority
    <3>3. CASE FirstWhole(d.text) = {} /\ Leaves(d) = {}
      BY <3>3
    <3>4. CASE FirstWhole(d.text) = {"leaf"} /\ Leaves(d) = {d.leaf}
      BY <3>4 DEF LeafPasses
    <3>5. CASE FirstWhole(d.text) = {"ca"} /\ Leaves(d) = {Authority}
      BY <3>2, <3>5
    <3>6. QED BY <3>1, <3>3, <3>4, <3>5, FirstIsJudged
  <2>4. (\E d \in vmc.doc : \E c \in Leaves(d) : LeafPasses(c)) <=>
          \E d \in vmc.doc :
            /\ "leaf" \in FirstWhole(d.text) /\ d.leaf.oid /\ d.leaf.window /\ d.leaf.marker
            /\ d.leaf.cn \/ d.leaf.san
    BY <2>3
  <2>5. QED BY <2>1, <2>2, <2>4 DEF Valid, MarkIsGood
<1>3. QED BY <1>1, <1>2 DEF VerdictIsEarned

(* A mark is valid exactly when both documents were fetched and hold all   *)
(* that is asked of them, for any logo and for any orderly text of any     *)
(* length: bimi/mod.rs, validate and parse_pem_chain.                      *)
THEOREM MarksAreEarned == Spec => []BimiValidIsEarned
<1>1. RepInv => BimiValidIsEarned
  BY ValidIsEarned DEF RepInv, Judged, BimiValidIsEarned
<1>2. QED BY <1>1, ReportsKeepTheirInvariant, PTL

------------------------------------------------------------------------------
(* What Leak asks crt.sh about, what it is answered, and what it reports.  *)
Variants == UNION {Lookalikes(n) : n \in Names}
HitType ==
  [variant : Variants, recent : SUBSET Nat,
   kind : {"brand-suffix", "dash-insert", "delete-char", "homoglyph", "swap-char", "tld-swap"}]
AskType == [variant : Variants, answer : [how : {"none", "error", "junk", "list"}, ages : SUBSET Nat]]

(* No variant twice.                                                       *)
Distinct(s) == \A i, j \in DOMAIN s : s[i].variant = s[j].variant => i = j
(* Those with a certificate first.                                         *)
Sorted(s) == \A i, j \in DOMAIN s : s[j].recent # {} /\ i < j => s[i].recent # {}

LEMMA ToSetAppend ==
  ASSUME NEW E, NEW s \in Seq(E), NEW e \in E
  PROVE  ToSet(Append(s, e)) = ToSet(s) \cup {e}
<1>1. /\ Len(s) \in Nat /\ DOMAIN s = 1..Len(s) /\ DOMAIN Append(s, e) = 1..(Len(s) + 1)
      /\ \A i \in 1..Len(s) : Append(s, e)[i] = s[i]
      /\ Append(s, e)[Len(s) + 1] = e
  BY LenProperties, AppendProperties
<1>2. 1..(Len(s) + 1) = 1..Len(s) \cup {Len(s) + 1}
  BY <1>1
<1> DEFINE t == Append(s, e)
<1> HIDE DEF t
<1>3. {t[i] : i \in 1..(Len(s) + 1)} = {t[i] : i \in 1..Len(s)} \cup {t[Len(s) + 1]}
  BY <1>2
<1>4. QED BY <1>1, <1>3 DEF ToSet, t

LEMMA DistinctAppend ==
  ASSUME NEW E, NEW s \in Seq(E), NEW e \in E, Distinct(s), \A x \in ToSet(s) : x.variant # e.variant
  PROVE  Distinct(Append(s, e))
<1>1. /\ Len(s) \in Nat /\ DOMAIN s = 1..Len(s) /\ DOMAIN Append(s, e) = 1..(Len(s) + 1)
      /\ \A i \in 1..Len(s) : Append(s, e)[i] = s[i]
      /\ Append(s, e)[Len(s) + 1] = e
  BY LenProperties, AppendProperties
<1>2. \A i \in 1..Len(s) : s[i] \in ToSet(s)
  BY <1>1 DEF ToSet
<1> DEFINE t == Append(s, e)
<1> HIDE DEF t
<1>3. SUFFICES ASSUME NEW i \in 1..(Len(s) + 1), NEW j \in 1..(Len(s) + 1), t[i].variant = t[j].variant
               PROVE  i = j
  BY <1>1 DEF Distinct, t
<1>4. CASE i \in 1..Len(s) /\ j \in 1..Len(s)
  <2>1. s[i].variant = s[j].variant
    BY <1>1, <1>3, <1>4 DEF t
  <2>2. QED BY <1>1, <1>4, <2>1 DEF Distinct
<1>5. CASE i = Len(s) + 1 /\ j \in 1..Len(s)
  BY <1>1, <1>2, <1>3, <1>5 DEF t
<1>6. CASE i \in 1..Len(s) /\ j = Len(s) + 1
  BY <1>1, <1>2, <1>3, <1>6 DEF t
<1>7. QED BY <1>1, <1>4, <1>5, <1>6

LEMMA DistinctConcat ==
  ASSUME NEW E, NEW s \in Seq(E), NEW t \in Seq(E), Distinct(s), Distinct(t),
         \A x \in ToSet(s), y \in ToSet(t) : x.variant # y.variant
  PROVE  Distinct(s \o t)
<1>1. /\ Len(s) \in Nat /\ DOMAIN s = 1..Len(s) /\ Len(t) \in Nat /\ DOMAIN t = 1..Len(t)
      /\ DOMAIN (s \o t) = 1..(Len(s) + Len(t))
      /\ \A i \in 1..(Len(s) + Len(t)) : (s \o t)[i] = IF i <= Len(s) THEN s[i] ELSE t[i - Len(s)]
  BY LenProperties, ConcatProperties
<1>2. (\A i \in 1..Len(s) : s[i] \in ToSet(s)) /\ \A i \in 1..Len(t) : t[i] \in ToSet(t)
  BY <1>1 DEF ToSet
<1> DEFINE u == s \o t
<1> HIDE DEF u
<1>3. SUFFICES ASSUME NEW i \in 1..(Len(s) + Len(t)), NEW j \in 1..(Len(s) + Len(t)), u[i].variant = u[j].variant
               PROVE  i = j
  BY <1>1 DEF Distinct, u
<1>4. \A k \in 1..(Len(s) + Len(t)) : \/ k \in 1..Len(s) /\ u[k] = s[k]
                                      \/ k > Len(s) /\ k - Len(s) \in 1..Len(t) /\ u[k] = t[k - Len(s)]
  BY <1>1 DEF u
<1>5. CASE i \in 1..Len(s) /\ u[i] = s[i] /\ j \in 1..Len(s) /\ u[j] = s[j]
  BY <1>1, <1>3, <1>5 DEF Distinct
<1>6. CASE /\ i > Len(s) /\ i - Len(s) \in 1..Len(t) /\ u[i] = t[i - Len(s)]
           /\ j > Len(s) /\ j - Len(s) \in 1..Len(t) /\ u[j] = t[j - Len(s)]
  <2>1. i - Len(s) = j - Len(s)
    BY <1>1, <1>3, <1>6 DEF Distinct
  <2>2. QED BY <1>1, <2>1
<1>7. CASE i \in 1..Len(s) /\ u[i] = s[i] /\ j - Len(s) \in 1..Len(t) /\ u[j] = t[j - Len(s)]
  BY <1>2, <1>3, <1>7
<1>8. CASE j \in 1..Len(s) /\ u[j] = s[j] /\ i - Len(s) \in 1..Len(t) /\ u[i] = t[i - Len(s)]
  BY <1>2, <1>3, <1>8
<1>9. QED BY <1>4, <1>5, <1>6, <1>7, <1>8

------------------------------------------------------------------------------
(* The hits of one group are those hits, each as often as before.          *)
Own(h, b) == IF h.recent # {} <=> b THEN << h >> ELSE << >>

LEMMA GroupForm ==
  ASSUME NEW hits \in Seq(HitType), NEW b \in BOOLEAN
  PROVE  /\ [i \in DOMAIN hits |-> Own(hits[i], b)] \in Seq(Seq(HitType))
         /\ Group(hits, b) = FlattenSeq([i \in DOMAIN hits |-> Own(hits[i], b)])
         /\ Group(hits, b) \in Seq(HitType)
<1>1. Len(hits) \in Nat /\ DOMAIN hits = 1..Len(hits) /\ \A i \in DOMAIN hits : hits[i] \in HitType
  BY LenProperties
<1>2. \A h \in HitType : Own(h, b) \in Seq(HitType)
  BY DEF Own
<1>3. [i \in DOMAIN hits |-> Own(hits[i], b)] \in Seq(Seq(HitType))
  BY <1>1, <1>2
<1>4. Group(hits, b) = FlattenSeq([i \in DOMAIN hits |-> Own(hits[i], b)])
  BY DEF Group, Own
<1>5. QED BY <1>3, <1>4, FlattenTyped

LEMMA GroupAppend ==
  ASSUME NEW hits \in Seq(HitType), NEW h \in HitType, NEW b \in BOOLEAN
  PROVE  Group(Append(hits, h), b) = IF h.recent # {} <=> b THEN Append(Group(hits, b), h) ELSE Group(hits, b)
<1> DEFINE s == [i \in DOMAIN hits |-> Own(hits[i], b)]
           t == Append(hits, h)
<1>1. /\ Len(hits) \in Nat /\ DOMAIN hits = 1..Len(hits) /\ DOMAIN t = 1..(Len(hits) + 1)
      /\ \A i \in 1..Len(hits) : t[i] = hits[i]
      /\ t[Len(hits) + 1] = h /\ t \in Seq(HitType)
  BY LenProperties, AppendProperties
<1>2. s \in Seq(Seq(HitType)) /\ Len(s) = Len(hits) /\ Own(h, b) \in Seq(HitType)
  BY <1>1, GroupForm DEF Own
<1>3. [i \in DOMAIN t |-> Own(t[i], b)] = Append(s, Own(h, b))
  <2> HIDE DEF t
  <2>1. /\ Append(s, Own(h, b)) \in Seq(Seq(HitType)) /\ DOMAIN Append(s, Own(h, b)) = 1..(Len(hits) + 1)
        /\ \A i \in 1..Len(hits) : Append(s, Own(h, b))[i] = Own(hits[i], b)
        /\ Append(s, Own(h, b))[Len(hits) + 1] = Own(h, b)
    BY <1>1, <1>2, AppendProperties
  <2>2. \A i \in 1..(Len(hits) + 1) : i \in 1..Len(hits) \/ i = Len(hits) + 1
    BY <1>1
  <2> DEFINE u == Append(s, Own(h, b))
  <2>3. u = [i \in 1..(Len(hits) + 1) |-> u[i]]
    BY <2>1
  <2> HIDE DEF u
  <2>4. \A i \in 1..(Len(hits) + 1) : u[i] = Own(t[i], b)
    BY <1>1, <2>1, <2>2 DEF u
  <2>5. QED BY <1>1, <2>3, <2>4 DEF u
<1>4. Group(t, b) = Group(hits, b) \o Own(h, b)
  <2>1. Group(t, b) = FlattenSeq([i \in DOMAIN t |-> Own(t[i], b)])
    <3> HIDE DEF t
    <3>1. QED BY <1>1, GroupForm
  <2>2. FlattenSeq(Append(s, Own(h, b))) = FlattenSeq(s) \o Own(h, b)
    BY <1>2, FlattenAppend
  <2>3. Group(hits, b) = FlattenSeq(s)
    BY GroupForm
  <2>4. QED BY <1>3, <2>1, <2>2, <2>3
<1>5. Group(hits, b) \in Seq(HitType)
  BY GroupForm
<1>6. CASE h.recent # {} <=> b
  BY <1>4, <1>5, <1>6, AppendIsConcat DEF Own
<1>7. CASE ~(h.recent # {} <=> b)
  BY <1>4, <1>5, <1>7, ConcatEmptySeq DEF Own
<1>8. QED BY <1>6, <1>7

LEMMA GroupFacts ==
  ASSUME NEW hits \in Seq(HitType), NEW b \in BOOLEAN
  PROVE  /\ ToSet(Group(hits, b)) = {h \in ToSet(hits) : h.recent # {} <=> b}
         /\ Distinct(hits) => Distinct(Group(hits, b))
<1> DEFINE Those(u) == {h \in ToSet(u) : h.recent # {} <=> b}
           Good(u) == ToSet(Group(u, b)) = Those(u) /\ (Distinct(u) => Distinct(Group(u, b)))
           S == {k \in Nat : \A u \in Seq(HitType) : Len(u) = k => Good(u)}
<1>1. 0 \in S
  <2>1. ASSUME NEW u \in Seq(HitType), Len(u) = 0
        PROVE  Good(u)
    <3>1. u = << >>
      BY <2>1, EmptySeq
    <3>2. Group(u, b) = << >>
      <4>1. Len([i \in DOMAIN u |-> Own(u[i], b)]) = 0
        BY <3>1
      <4>2. QED BY <4>1, GroupForm, FlattenForm
    <3>3. ToSet(<< >>) = {} /\ Distinct(<< >>)
      BY DEF ToSet, Distinct
    <3>4. QED BY <3>1, <3>2, <3>3
  <2>2. QED BY <2>1
<1>2. ASSUME NEW n \in Nat, n \in S
      PROVE  n + 1 \in S
  <2> SUFFICES ASSUME NEW u \in Seq(HitType), Len(u) = n + 1
               PROVE  Good(u)
    OBVIOUS
  <2>1. PICK v \in Seq(HitType), h \in HitType : u = Append(v, h)
    <3>1. u # << >>
      BY EmptySeq
    <3>2. QED BY <3>1, SequenceEmptyOrAppend
  <2>2. Len(v) = n
    BY <2>1, AppendProperties, LenProperties
  <2>3. Good(v)
    BY <1>2, <2>2
  <2>4. ToSet(u) = ToSet(v) \cup {h}
    BY <2>1, ToSetAppend
  <2>5. Group(v, b) \in Seq(HitType)
    BY GroupForm
  <2>6. Distinct(u) => Distinct(v) /\ \A x \in ToSet(v) : x.variant # h.variant
    <3>1. /\ Len(v) \in Nat /\ DOMAIN v = 1..Len(v) /\ DOMAIN u = 1..(Len(v) + 1)
          /\ \A i \in 1..Len(v) : u[i] = v[i]
          /\ u[Len(v) + 1] = h
      BY <2>1, LenProperties, AppendProperties
    <3>2. QED BY <3>1 DEF Distinct, ToSet
  <2>7. CASE h.recent # {} <=> b
    <3>1. Group(u, b) = Append(Group(v, b), h)
      BY <2>1, <2>7, GroupAppend
    <3>2. ToSet(Group(u, b)) = ToSet(Group(v, b)) \cup {h}
      BY <2>5, <3>1, ToSetAppend
    <3>3. Those(u) = Those(v) \cup {h}
      BY <2>4, <2>7
    <3>4. Distinct(u) => Distinct(Group(u, b))
      BY <2>3, <2>5, <2>6, <3>1, DistinctAppend
    <3>5. QED BY <2>3, <3>2, <3>3, <3>4
  <2>8. CASE ~(h.recent # {} <=> b)
    <3>1. Group(u, b) = Group(v, b)
      BY <2>1, <2>8, GroupAppend
    <3>2. Those(u) = Those(v)
      BY <2>4, <2>8
    <3>3. QED BY <2>3, <2>6, <3>1, <3>2
  <2>9. QED BY <2>7, <2>8
<1>3. Len(hits) \in S
  <2>1. Len(hits) \in Nat
    BY LenProperties
  <2> HIDE DEF S
  <2>2. QED BY <1>1, <1>2, <2>1, NatInduct
<1>4. QED BY <1>3

(* The sorted hits are the hits, with those that have a certificate first. *)
LEMMA SortedHits ==
  ASSUME NEW hits \in Seq(HitType), Distinct(hits)
  PROVE  LET s == Group(hits, TRUE) \o Group(hits, FALSE) IN
         s \in Seq(HitType) /\ ToSet(s) = ToSet(hits) /\ Distinct(s) /\ Sorted(s)
<1> DEFINE a == Group(hits, TRUE)
           b == Group(hits, FALSE)
<1>1. a \in Seq(HitType) /\ b \in Seq(HitType)
  BY GroupForm
<1>2. /\ ToSet(a) = {h \in ToSet(hits) : h.recent # {}} /\ Distinct(a)
      /\ ToSet(b) = {h \in ToSet(hits) : h.recent = {}} /\ Distinct(b)
  <2>1. ToSet(a) = {h \in ToSet(hits) : h.recent # {} <=> TRUE} /\ Distinct(a)
    BY GroupFacts
  <2>2. ToSet(b) = {h \in ToSet(hits) : h.recent # {} <=> FALSE} /\ Distinct(b)
    BY GroupFacts
  <2> HIDE DEF a, b
  <2>3. QED BY <2>1, <2>2
<1> HIDE DEF a, b
<1>3. a \o b \in Seq(HitType)
  BY <1>1, ConcatProperties
<1>4. ToSet(a \o b) = ToSet(hits)
  <2>1. Range(a \o b) = Range(a) \cup Range(b)
    BY <1>1, RangeConcatenation
  <2>2. ToSet(a \o b) = ToSet(a) \cup ToSet(b)
    BY <2>1 DEF Range, ToSet
  <2>3. QED BY <1>2, <2>2
<1>5. Distinct(a \o b)
  <2>1. \A x, y \in ToSet(hits) : x.variant = y.variant => x = y
    BY DEF Distinct, ToSet
  <2>2. \A x \in ToSet(a), y \in ToSet(b) : x.variant # y.variant
    BY <1>2, <2>1
  <2>3. QED BY <1>1, <1>2, <2>2, DistinctConcat
<1>6. Sorted(a \o b)
  <2>1. /\ Len(a) \in Nat /\ DOMAIN a = 1..Len(a) /\ Len(b) \in Nat /\ DOMAIN b = 1..Len(b)
        /\ DOMAIN (a \o b) = 1..(Len(a) + Len(b))
        /\ \A i \in 1..(Len(a) + Len(b)) : (a \o b)[i] = IF i <= Len(a) THEN a[i] ELSE b[i - Len(a)]
    BY <1>1, LenProperties, ConcatProperties
  <2>2. (\A i \in 1..Len(a) : a[i].recent # {}) /\ \A i \in 1..Len(b) : b[i].recent = {}
    BY <1>2, <2>1 DEF ToSet
  <2> DEFINE u == a \o b
  <2> HIDE DEF u
  <2>3. SUFFICES ASSUME NEW i \in 1..(Len(a) + Len(b)), NEW j \in 1..(Len(a) + Len(b)), u[j].recent # {}, i < j
                 PROVE  u[i].recent # {}
    BY <2>1 DEF Sorted, u
  <2>4. j <= Len(a)
    <3>1. SUFFICES ASSUME ~(j <= Len(a))
                   PROVE  FALSE
      OBVIOUS
    <3>2. j - Len(a) \in 1..Len(b) /\ u[j] = b[j - Len(a)]
      BY <2>1, <3>1 DEF u
    <3>3. QED BY <2>2, <2>3, <3>2
  <2>5. i \in 1..Len(a) /\ u[i] = a[i]
    BY <2>1, <2>3, <2>4 DEF u
  <2>6. QED BY <2>2, <2>5
<1>7. QED BY <1>3, <1>4, <1>5, <1>6 DEF a, b

------------------------------------------------------------------------------
(* A leak report has its fields.  Every variant is asked about once, and   *)
(* those that crt.sh answered about are reported once, with the date of    *)
(* their own youngest certificate: it has to be kept until all are asked   *)
(* and sorted.                                                             *)
HitOf(h, q) == h.variant = q.variant /\ q.answer.how # "none" /\ h.recent = Recent(q.answer.ages)
HitsAreAnswers(hits, asked) ==
  /\ \A h \in hits : \E q \in asked : HitOf(h, q)
  /\ \A q \in asked : q.answer.how # "none" => \E h \in hits : h.variant = q.variant
AskedOnce ==
  /\ Distinct(leak.asked) /\ leak.pending \subseteq Lookalikes(leak.name)
  /\ \A q \in ToSet(leak.asked) : q.variant \in Lookalikes(leak.name) \ leak.pending
LeakInv ==
  /\ DOMAIN leak = DOMAIN LeakIdle
  /\ leak.breaches \in Nat /\ leak.github \in Nat
  /\ leak.hits \in Seq(HitType) /\ leak.asked \in Seq(AskType)
  /\ leak.at # "idle" => leak.name \in Names
  /\ leak.at \in {"idle", "hibp", "github", "generate"} =>
       leak.hits = << >> /\ leak.asked = << >> /\ leak.pending = {}
  /\ AskedOnce
  /\ Distinct(leak.hits) /\ HitsAreAnswers(ToSet(leak.hits), ToSet(leak.asked))
  /\ leak.at \in {"feeds", "done"} => Sorted(leak.hits)

LEMMA LeakFields ==
  DOMAIN LeakIdle = {"at", "focus", "name", "breaches", "github", "pending", "hits", "legacy", "sources",
                     "answers", "asked", "feeds"}
BY DEF LeakIdle

LEMMA NoHits ==
  /\ << >> \in Seq(HitType) /\ << >> \in Seq(AskType)
  /\ ToSet(<< >>) = {} /\ Distinct(<< >>) /\ Sorted(<< >>) /\ HitsAreAnswers({}, {})
BY DEF ToSet, Distinct, Sorted, HitsAreAnswers

LEMMA LeakIdleInv == (leak = LeakIdle => LeakInv) /\ (leak' = LeakIdle => LeakInv')
<1>1. /\ LeakIdle.at = "idle" /\ LeakIdle.breaches = 0 /\ LeakIdle.github = 0
      /\ LeakIdle.hits = << >> /\ LeakIdle.asked = << >> /\ LeakIdle.pending = {}
  BY DEF LeakIdle
<1>2. ASSUME leak = LeakIdle PROVE LeakInv
  <2>1. /\ leak.at = "idle" /\ leak.breaches = 0 /\ leak.github = 0
        /\ leak.hits = << >> /\ leak.asked = << >> /\ leak.pending = {}
    BY <1>1, <1>2
  <2>2. AskedOnce
    BY <2>1, NoHits DEF AskedOnce
  <2>3. HitsAreAnswers(ToSet(leak.hits), ToSet(leak.asked)) /\ Distinct(leak.hits) /\ Sorted(leak.hits)
    BY <2>1, NoHits
  <2>4. /\ DOMAIN leak = DOMAIN LeakIdle /\ leak.breaches \in Nat /\ leak.github \in Nat
        /\ leak.hits \in Seq(HitType) /\ leak.asked \in Seq(AskType)
    BY <1>2, <2>1, NoHits
  <2>5. QED BY <2>1, <2>2, <2>3, <2>4 DEF LeakInv
<1>3. ASSUME leak' = LeakIdle PROVE LeakInv'
  <2>1. /\ leak'.at = "idle" /\ leak'.breaches = 0 /\ leak'.github = 0
        /\ leak'.hits = << >> /\ leak'.asked = << >> /\ leak'.pending = {}
    BY <1>1, <1>3
  <2>2. AskedOnce'
    BY <2>1, NoHits DEF AskedOnce
  <2>3. HitsAreAnswers(ToSet(leak'.hits), ToSet(leak'.asked)) /\ Distinct(leak'.hits) /\ Sorted(leak'.hits)
    BY <2>1, NoHits
  <2>4. /\ DOMAIN leak' = DOMAIN LeakIdle /\ leak'.breaches \in Nat /\ leak'.github \in Nat
        /\ leak'.hits \in Seq(HitType) /\ leak'.asked \in Seq(AskType)
    BY <1>3, <2>1, NoHits
  <2>5. QED BY <2>1, <2>2, <2>3, <2>4 DEF LeakInv
<1>4. QED BY <1>2, <1>3

(* A step that writes neither the hits nor what they answer keeps them, if *)
(* it comes before the first of them or after the last.                    *)
KeepsOf(f) == leak'[f] = leak[f]
LEMMA LeakKept ==
  ASSUME LeakInv, DOMAIN leak' = DOMAIN leak, leak'.breaches \in Nat, leak'.github \in Nat,
         KeepsOf("name"), KeepsOf("pending"), KeepsOf("hits"), KeepsOf("asked"), leak.at # "idle",
         \/ leak.at \in {"hibp", "github", "generate"} /\ leak'.at \in {"github", "generate", "feeds"}
         \/ leak.at = "feeds" /\ leak'.at = "done"
  PROVE  LeakInv'
<1>1. leak'.at # "idle" /\ (leak'.at \in {"idle", "hibp", "github", "generate"} => leak.at \in {"hibp", "github", "generate"})
  OBVIOUS
<1>2. Sorted(leak.hits)
  BY NoHits DEF LeakInv
<1>3. QED BY <1>1, <1>2 DEF LeakInv, AskedOnce, KeepsOf

(* crt.sh is asked about one variant more.                                 *)
LEMMA AskCrtShInv ==
  ASSUME LeakInv, AskCrtSh
  PROVE  LeakInv'
<1>1. /\ DOMAIN leak = {"at", "focus", "name", "breaches", "github", "pending", "hits", "legacy", "sources",
                        "answers", "asked", "feeds"}
      /\ leak.at = "lookalikes" /\ leak.pending # {} /\ leak.name \in Names
  BY LeakFields DEF LeakInv, AskCrtSh
<1> DEFINE v == CHOOSE v \in leak.pending : TRUE
<1>2. v \in leak.pending /\ v \in Lookalikes(leak.name) /\ v \in Variants
  BY <1>1 DEF LeakInv, AskedOnce, Variants
<1> HIDE DEF v
<1>3. PICK a \in OneSection("lookalikes", NoCerts, IF Remarkable < MaxAnswers THEN CrtShAnswers ELSE {NoCerts}) :
        LET hit == [variant |-> v, kind |-> KindOf(leak.name, v), recent |-> Recent(a.ages)]
        IN leak' = [leak EXCEPT !.pending = @ \ {v}, !.asked = Append(@, [variant |-> v, answer |-> a]),
                      !.hits = IF a.how = "none" THEN @ ELSE Append(@, hit)]
  BY DEF AskCrtSh, v
<1> DEFINE hit == [variant |-> v, kind |-> KindOf(leak.name, v), recent |-> Recent(a.ages)]
           q == [variant |-> v, answer |-> a]
           more == IF a.how = "none" THEN leak.hits ELSE Append(leak.hits, hit)
<1>4. a \in [how : {"none", "error", "junk", "list"}, ages : SUBSET Nat]
  <2>1. NoCerts \in [how : {"none", "error", "junk", "list"}, ages : SUBSET Nat]
    BY DEF NoCerts
  <2>2. CrtShAnswers \subseteq [how : {"none", "error", "junk", "list"}, ages : SUBSET Nat]
    BY LeakAssumption DEF CrtShAnswers
  <2>3. QED BY <2>1, <2>2 DEF OneSection
<1>5. q \in AskType /\ hit \in HitType
  <2>1. Recent(a.ages) \in SUBSET Nat
    BY <1>4 DEF Recent, Youngest
  <2>2. KindOf(leak.name, v) \in {"brand-suffix", "dash-insert", "delete-char", "homoglyph", "swap-char", "tld-swap"}
    BY DEF KindOf
  <2>3. QED BY <1>2, <1>4, <2>1, <2>2 DEF AskType, HitType
<1>6. /\ q.variant = v /\ q.answer = a /\ hit.variant = v /\ hit.recent = Recent(a.ages)
  OBVIOUS
<1>7. leak' = [leak EXCEPT !.pending = @ \ {v}, !.asked = Append(@, q), !.hits = more]
  BY <1>3
<1> HIDE DEF hit, q
<1>8. (a.how = "none" => more = leak.hits) /\ (a.how # "none" => more = Append(leak.hits, hit))
  BY Zenon
<1> HIDE DEF more
<1>9. /\ DOMAIN leak' = DOMAIN leak /\ leak'.at = leak.at /\ leak'.name = leak.name
      /\ leak'.breaches = leak.breaches /\ leak'.github = leak.github
      /\ leak'.pending = leak.pending \ {v} /\ leak'.asked = Append(leak.asked, q) /\ leak'.hits = more
  BY <1>1, <1>7
<1>10. /\ leak.hits \in Seq(HitType) /\ leak.asked \in Seq(AskType)
       /\ Distinct(leak.asked) /\ Distinct(leak.hits)
       /\ HitsAreAnswers(ToSet(leak.hits), ToSet(leak.asked))
       /\ \A p \in ToSet(leak.asked) : p.variant \in Lookalikes(leak.name) \ leak.pending
       /\ leak.pending \subseteq Lookalikes(leak.name)
  BY DEF LeakInv, AskedOnce
<1>11. /\ leak'.asked \in Seq(AskType) /\ ToSet(leak'.asked) = ToSet(leak.asked) \cup {q}
       /\ Distinct(leak'.asked)
  <2>1. \A p \in ToSet(leak.asked) : p.variant # q.variant
    BY <1>2, <1>6, <1>10
  <2>2. QED BY <1>5, <1>9, <1>10, <2>1, ToSetAppend, DistinctAppend, AppendProperties
<1>12. /\ leak'.hits \in Seq(HitType) /\ Distinct(leak'.hits)
       /\ ToSet(leak'.hits) = IF a.how = "none" THEN ToSet(leak.hits) ELSE ToSet(leak.hits) \cup {hit}
  <2>1. \A h \in ToSet(leak.hits) : h.variant # hit.variant
    BY <1>2, <1>6, <1>10 DEF HitsAreAnswers, HitOf
  <2>2. CASE a.how = "none"
    BY <1>8, <1>9, <1>10, <2>2
  <2>3. CASE a.how # "none"
    <3>1. leak'.hits = Append(leak.hits, hit)
      BY <1>8, <1>9, <2>3
    <3>2. Append(leak.hits, hit) \in Seq(HitType)
      BY <1>5, <1>10, AppendProperties
    <3>3. ToSet(Append(leak.hits, hit)) = ToSet(leak.hits) \cup {hit} /\ Distinct(Append(leak.hits, hit))
      BY <1>5, <1>10, <2>1, ToSetAppend, DistinctAppend
    <3>4. QED BY <2>3, <3>1, <3>2, <3>3
  <2>4. QED BY <2>2, <2>3
<1>13. HitsAreAnswers(ToSet(leak'.hits), ToSet(leak'.asked))
  <2>1. a.how # "none" => HitOf(hit, q)
    BY <1>6 DEF HitOf
  <2>2. QED BY <1>6, <1>10, <1>11, <1>12, <2>1 DEF HitsAreAnswers, HitOf
<1>14. AskedOnce'
  BY <1>2, <1>6, <1>9, <1>10, <1>11 DEF AskedOnce
<1>15. QED BY <1>1, <1>9, <1>11, <1>12, <1>13, <1>14 DEF LeakInv

(* What a service lists is counted.                                        *)
LEMMA CountsTyped ==
  ASSUME NEW o \in OneSection("services", Clean, Outcomes), NEW use \in BOOLEAN
  PROVE  (IF use THEN o.n ELSE 0) \in Nat
<1>1. Clean.n \in Nat
  BY DEF Clean
<1>2. \A x \in Outcomes : x.n \in Nat
  BY LeakAssumption DEF Outcomes
<1>3. o.n \in Nat
  BY <1>1, <1>2 DEF OneSection
<1>4. QED BY <1>3

(* Every other step of a report, and what starts one.                      *)
LEMMA LeakStepInv == LeakInv /\ (LeakOf \/ LeakStep) => LeakInv'
<1> SUFFICES ASSUME LeakInv, LeakOf \/ LeakStep PROVE LeakInv'
  OBVIOUS
<1>1. /\ DOMAIN leak = {"at", "focus", "name", "breaches", "github", "pending", "hits", "legacy", "sources",
                        "answers", "asked", "feeds"}
      /\ leak.breaches \in Nat /\ leak.github \in Nat
  BY LeakFields DEF LeakInv
<1>2. CASE LeakOf
  <2>1. PICK s \in LeakSections, n \in Names : leak' = [leak EXCEPT !.at = "hibp", !.focus = s, !.name = n]
    BY <1>2 DEF LeakOf
  <2>2. /\ DOMAIN leak' = DOMAIN leak /\ leak'.at = "hibp" /\ leak'.name = n
        /\ leak'.breaches = leak.breaches /\ leak'.github = leak.github
        /\ leak'.pending = leak.pending /\ leak'.asked = leak.asked /\ leak'.hits = leak.hits
    BY <1>1, <2>1
  <2>3. leak.at = "idle"
    BY <1>2 DEF LeakOf, LeakIdle
  <2>4. leak.hits = << >> /\ leak.asked = << >> /\ leak.pending = {}
    BY <2>3 DEF LeakInv
  <2>5. AskedOnce'
    BY <2>2, <2>4, NoHits DEF AskedOnce
  <2>6. QED BY <2>2, <2>4, <2>5, NoHits DEF LeakInv
<1>3. CASE Hibp
  <2>1. leak.at = "hibp" /\ Asked("haveibeenpwned.com", "breaches", "github")
    BY <1>3 DEF Hibp
  <2>2. PICK o \in OneSection("services", Clean, Outcomes), use \in BOOLEAN :
          leak' = [leak EXCEPT !.at = "github", !["breaches"] = IF use THEN o.n ELSE 0,
                     !.sources = IF use THEN @ \cup {"haveibeenpwned.com"} ELSE @,
                     !.answers = IF use THEN Append(@, [service |-> "haveibeenpwned.com", how |-> o.how, n |-> o.n]) ELSE @]
    BY <2>1 DEF Asked
  <2> DEFINE n == IF use THEN o.n ELSE 0
  <2>3. n \in Nat
    BY CountsTyped
  <2> HIDE DEF n
  <2>4. /\ DOMAIN leak' = DOMAIN leak /\ leak'.at = "github" /\ leak'.breaches = n
        /\ leak'.github = leak.github
        /\ KeepsOf("name") /\ KeepsOf("pending") /\ KeepsOf("hits") /\ KeepsOf("asked")
    BY <1>1, <2>2 DEF KeepsOf, n
  <2>5. QED BY <1>1, <2>1, <2>3, <2>4, LeakKept
<1>4. CASE Github
  <2>1. leak.at = "github" /\ Asked("github-code-search", "github", "generate")
    BY <1>4 DEF Github
  <2>2. PICK o \in OneSection("services", Clean, Outcomes), use \in BOOLEAN :
          leak' = [leak EXCEPT !.at = "generate", !["github"] = IF use THEN o.n ELSE 0,
                     !.sources = IF use THEN @ \cup {"github-code-search"} ELSE @,
                     !.answers = IF use THEN Append(@, [service |-> "github-code-search", how |-> o.how, n |-> o.n]) ELSE @]
    BY <2>1 DEF Asked
  <2> DEFINE n == IF use THEN o.n ELSE 0
  <2>3. n \in Nat
    BY CountsTyped
  <2> HIDE DEF n
  <2>4. /\ DOMAIN leak' = DOMAIN leak /\ leak'.at = "generate" /\ leak'.github = n
        /\ leak'.breaches = leak.breaches
        /\ KeepsOf("name") /\ KeepsOf("pending") /\ KeepsOf("hits") /\ KeepsOf("asked")
    BY <1>1, <2>2 DEF KeepsOf, n
  <2>5. QED BY <1>1, <2>1, <2>3, <2>4, LeakKept
<1>5. CASE GenerateLookalikes
  <2>1. leak.at = "generate"
    BY <1>5 DEF GenerateLookalikes
  <2>2. CASE leak' = [leak EXCEPT !.at = "feeds"]
    BY <1>1, <2>1, <2>2, LeakKept DEF KeepsOf
  <2>3. CASE leak' = [leak EXCEPT !.at = "lookalikes", !.sources = @ \cup {"crt.sh-lookalikes"},
                        !.pending = Lookalikes(leak.name)]
    <3>1. /\ DOMAIN leak' = DOMAIN leak /\ leak'.at = "lookalikes" /\ leak'.name = leak.name
          /\ leak'.breaches = leak.breaches /\ leak'.github = leak.github
          /\ leak'.pending = Lookalikes(leak.name) /\ leak'.asked = leak.asked /\ leak'.hits = leak.hits
      BY <1>1, <2>3
    <3>2. leak.hits = << >> /\ leak.asked = << >> /\ leak.name \in Names
      BY <2>1 DEF LeakInv
    <3>3. AskedOnce'
      BY <3>1, <3>2, NoHits DEF AskedOnce
    <3>4. QED BY <3>1, <3>2, <3>3, NoHits DEF LeakInv
  <2>4. QED BY <1>5, <2>2, <2>3 DEF GenerateLookalikes
<1>6. CASE SortHits
  <2> DEFINE s == Group(leak.hits, TRUE) \o Group(leak.hits, FALSE)
  <2>1. leak.at = "lookalikes" /\ leak' = [leak EXCEPT !.at = "feeds", !.hits = s]
    BY <1>6 DEF SortHits
  <2>2. s \in Seq(HitType) /\ ToSet(s) = ToSet(leak.hits) /\ Distinct(s) /\ Sorted(s)
    BY SortedHits DEF LeakInv
  <2> HIDE DEF s
  <2>3. /\ DOMAIN leak' = DOMAIN leak /\ leak'.at = "feeds" /\ leak'.name = leak.name
        /\ leak'.breaches = leak.breaches /\ leak'.github = leak.github
        /\ leak'.pending = leak.pending /\ leak'.asked = leak.asked /\ leak'.hits = s
    BY <1>1, <2>1
  <2>4. AskedOnce'
    BY <2>3 DEF LeakInv, AskedOnce
  <2>5. QED BY <2>1, <2>2, <2>3, <2>4 DEF LeakInv
<1>7. CASE RunFeeds
  <2>1. PICK fs, sources, legacy :
          leak' = [leak EXCEPT !.at = "done", !.feeds = fs, !.sources = sources, !.legacy = legacy]
    BY <1>7 DEF RunFeeds
  <2>2. leak.at = "feeds"
    BY <1>7 DEF RunFeeds
  <2>3. QED BY <1>1, <2>1, <2>2, LeakKept DEF KeepsOf
<1>8. QED BY <1>2, <1>3, <1>4, <1>5, <1>6, <1>7, AskCrtShInv DEF LeakStep

LEMMA LeakInvNext == LeakInv /\ [Next]_vars => LeakInv'
<1> SUFFICES ASSUME LeakInv, [Next]_vars PROVE LeakInv'
  OBVIOUS
<1>1. LeakOf \/ LeakStep \/ leak' = LeakIdle \/ leak' = leak
  BY DEF Next, Server, Landing, HandleAttest, SelectMode, ClickCard, Submit, TypeUrl, FollowExport,
         Browsing, RequireDomain, Handle, Await, Respond, vars
<1>2. CASE leak' = leak
  BY <1>2 DEF LeakInv, AskedOnce
<1>3. QED BY <1>1, <1>2, LeakStepInv, LeakIdleInv

THEOREM LeaksKeepTheirInvariant == Spec => []LeakInv
<1>1. Init => LeakInv
  BY LeakIdleInv DEF Init
<1>2. QED BY <1>1, LeakInvNext, PTL DEF Spec

------------------------------------------------------------------------------
(* A variant of a name is another name, or the same with two equal letters *)
(* swapped: the others differ in their length, in a letter, or in what     *)
(* follows the name.                                                       *)
LEMMA VariantsDiffer ==
  ASSUME NEW n \in Names, Domain(n) \in Lookalikes(n)
  PROVE  Doubled(n)
<1> DEFINE v == Domain(n)
           E == STRING \cup {"-"} \cup BrandSuffixes
<1>1. n \in Seq(STRING) /\ Len(n) \in Nat /\ DOMAIN n = 1..Len(n)
  BY LeakAssumption, LenProperties
<1>2. n \in Seq(E)
  <2>1. ASSUME NEW A, NEW B, NEW s \in Seq(A), A \subseteq B
        PROVE  s \in Seq(B)
    BY <2>1
  <2>2. STRING \subseteq E
    OBVIOUS
  <2> HIDE DEF E
  <2>3. QED BY <1>1, <2>1, <2>2
<1>3. \A m : v = Domain(m) => m = n
  BY DEF Domain
<1>4. UpTo(n, DashLimit) \subseteq 1..Len(n) /\ UpTo(n, EditLimit) \subseteq 1..Len(n)
  BY <1>1, LeakAssumption DEF UpTo
<1>5. v \notin Swapped(n)
  BY DEF Swapped, Domain
<1> HIDE DEF v, E
<1>6. v \notin Dashed(n)
  <2>1. SUFFICES ASSUME NEW i \in 1..Len(n),
                        v = Domain(SubSeq(n, 1, i) \o <<"-">> \o SubSeq(n, i + 1, Len(n)))
                 PROVE  FALSE
    BY <1>4 DEF Dashed
  <2>2. "-" \in E
    BY DEF E
  <2>3. ASSUME NEW F, NEW s \in Seq(F), NEW x \in F, NEW j \in 1..Len(s)
        PROVE  Len(SubSeq(s, 1, j) \o <<x>> \o SubSeq(s, j + 1, Len(s))) = Len(s) + 1
    <3>1. /\ SubSeq(s, 1, j) \in Seq(F) /\ Len(SubSeq(s, 1, j)) = j
          /\ SubSeq(s, j + 1, Len(s)) \in Seq(F) /\ Len(SubSeq(s, j + 1, Len(s))) = Len(s) - j
      BY LenProperties, SubSeqProperties
    <3> DEFINE a == SubSeq(s, 1, j)
               o == <<x>>
               c == SubSeq(s, j + 1, Len(s))
    <3>2. o \in Seq(F) /\ Len(o) = 1
      OBVIOUS
    <3>3. a \in Seq(F) /\ Len(a) = j /\ c \in Seq(F) /\ Len(c) = Len(s) - j
      BY <3>1
    <3> HIDE DEF a, o, c
    <3>4. a \o o \in Seq(F) /\ Len(a \o o) = Len(a) + Len(o)
      BY <3>2, <3>3, ConcatLen
    <3>5. Len((a \o o) \o c) = Len(a \o o) + Len(c)
      BY <3>3, <3>4, ConcatLen
    <3>6. Len(s) \in Nat /\ j \in Nat
      BY LenProperties
    <3>7. Len((a \o o) \o c) = Len(s) + 1
      BY <3>2, <3>3, <3>4, <3>5, <3>6
    <3>8. QED BY <3>7 DEF a, o, c
  <2>4. Len(SubSeq(n, 1, i) \o <<"-">> \o SubSeq(n, i + 1, Len(n))) = Len(n) + 1
    BY <1>2, <2>2, <2>3
  <2>5. SubSeq(n, 1, i) \o <<"-">> \o SubSeq(n, i + 1, Len(n)) = n
    BY <1>3, <2>1
  <2>6. Len(n) = Len(n) + 1
    BY <2>4, <2>5
  <2>7. QED BY <1>1, <2>6
<1>7. v \notin Homographs(n)
  <2>1. SUFFICES ASSUME NEW h \in Homoglyphs, h[1] \in ToSet(n),
                        v = Domain([i \in DOMAIN n |-> IF n[i] = h[1] THEN h[2] ELSE n[i]])
                 PROVE  FALSE
    BY DEF Homographs
  <2>2. PICK i \in DOMAIN n : n[i] = h[1]
    BY <2>1 DEF ToSet
  <2>3. n = [j \in DOMAIN n |-> IF n[j] = h[1] THEN h[2] ELSE n[j]]
    BY <1>3, <2>1
  <2>4. n[i] = h[2]
    BY <2>2, <2>3
  <2>5. QED BY <2>2, <2>4, LeakAssumption
<1>8. v \notin Deleted(n)
  <2>1. SUFFICES ASSUME NEW i \in 1..Len(n), v = Domain(RemoveAt(n, i))
                 PROVE  FALSE
    BY <1>4 DEF Deleted
  <2>2. ASSUME NEW F, NEW s \in Seq(F), NEW j \in 1..Len(s)
        PROVE  Len(SubSeq(s, 1, j - 1) \o SubSeq(s, j + 1, Len(s))) = Len(s) - 1
    <3>1. Len(s) \in Nat
      BY LenProperties
    <3>2. /\ SubSeq(s, 1, j - 1) \in Seq(F) /\ Len(SubSeq(s, 1, j - 1)) = j - 1
          /\ SubSeq(s, j + 1, Len(s)) \in Seq(F) /\ Len(SubSeq(s, j + 1, Len(s))) = Len(s) - j
      BY <3>1, SubSeqProperties
    <3> DEFINE a == SubSeq(s, 1, j - 1)
               c == SubSeq(s, j + 1, Len(s))
    <3>3. a \in Seq(F) /\ Len(a) = j - 1 /\ c \in Seq(F) /\ Len(c) = Len(s) - j
      BY <3>2
    <3> HIDE DEF a, c
    <3>4. Len(a \o c) = Len(a) + Len(c)
      BY <3>3, ConcatLen
    <3>5. Len(a \o c) = Len(s) - 1
      BY <3>1, <3>3, <3>4
    <3>6. QED BY <3>5 DEF a, c
  <2>3. Len(RemoveAt(n, i)) = Len(n) - 1
    BY <1>2, <2>2 DEF RemoveAt
  <2>4. RemoveAt(n, i) = n
    BY <1>3, <2>1
  <2>5. QED BY <1>1, <2>3, <2>4
<1>9. v \notin Branded(n)
  <2>1. SUFFICES ASSUME NEW s \in BrandSuffixes, v = Domain(n \o <<s>>)
                 PROVE  FALSE
    BY DEF Branded
  <2>2. <<s>> \in Seq(E) /\ Len(<<s>>) = 1
    BY DEF E
  <2>3. Len(n \o <<s>>) = Len(n) + 1
    BY <1>2, <2>2, ConcatProperties
  <2>4. n \o <<s>> = n
    BY <1>3, <2>1
  <2>5. Len(n) = Len(n) + 1
    BY <2>3, <2>4
  <2>6. QED BY <1>1, <2>5
<1>10. CASE v \in Transposed(n)
  <2>1. PICK i \in UpTo(n, EditLimit) \ {Len(n)} : v = Domain([n EXCEPT ![i] = n[i+1], ![i+1] = n[i]])
    BY <1>10 DEF Transposed
  <2>2. i \in DOMAIN n /\ i + 1 \in DOMAIN n
    BY <1>1, <1>4, <2>1
  <2>3. n = [n EXCEPT ![i] = n[i+1], ![i+1] = n[i]]
    BY <1>3, <2>1
  <2>4. n[i] = n[i+1]
    <3>1. [n EXCEPT ![i] = n[i+1], ![i+1] = n[i]][i+1] = n[i]
      BY <1>1, <2>2
    <3>2. QED BY <2>3, <3>1
  <2>5. QED BY <2>1, <2>4 DEF Doubled
<1>11. QED BY <1>5, <1>6, <1>7, <1>8, <1>9, <1>10 DEF Lookalikes, v

(* The age of a hit is the youngest within the window, and no other.       *)
LEMMA RecentIsTheYoungest ==
  ASSUME NEW ages \in SUBSET Nat, NEW age
  PROVE  age \in Recent(ages) <=> age < Lookback /\ age \in ages /\ \A b \in ages : age <= b
<1>1. age \in Recent(ages) <=>
        age \in ages /\ age < Lookback /\ \A b \in ages : b < Lookback => age <= b
  BY DEF Recent, Youngest
<1>2. ASSUME NEW a \in Nat, NEW b \in Nat, a < Lookback, b < Lookback => a <= b
      PROVE  a <= b
  BY <1>2, LeakAssumption
<1>3. QED BY <1>1, <1>2

(* What a finished report says of one variant that was asked about.        *)
LEMMA ReportedOnce ==
  ASSUME LeakInv, Reported, NEW i \in DOMAIN leak.asked
  PROVE  LET v == leak.asked[i].variant
             a == leak.asked[i].answer IN
         /\ Cardinality({j \in DOMAIN leak.hits : leak.hits[j].variant = v}) = (IF a.how = "none" THEN 0 ELSE 1)
         /\ \A h \in {h \in ToSet(leak.hits) : h.variant = v} : h.recent = Recent(a.ages)
         /\ a.ages \in SUBSET Nat /\ v \in Lookalikes(leak.name)
<1> DEFINE q == leak.asked[i]
           J == {j \in DOMAIN leak.hits : leak.hits[j].variant = q.variant}
<1>1. /\ leak.asked \in Seq(AskType) /\ DOMAIN leak.asked = 1..Len(leak.asked)
      /\ Distinct(leak.hits) /\ Distinct(leak.asked)
      /\ HitsAreAnswers(ToSet(leak.hits), ToSet(leak.asked))
      /\ \A p \in ToSet(leak.asked) : p.variant \in Lookalikes(leak.name)
  BY LenProperties DEF LeakInv, AskedOnce
<1>2. q \in AskType /\ q \in ToSet(leak.asked)
  BY <1>1 DEF ToSet
<1>3. \A p \in ToSet(leak.asked) : p.variant = q.variant => p = q
  BY <1>1 DEF Distinct, ToSet
<1>4. \A h \in ToSet(leak.hits) : h.variant = q.variant => HitOf(h, q)
  BY <1>1, <1>3 DEF HitsAreAnswers, HitOf
<1>5. \A j \in DOMAIN leak.hits : leak.hits[j] \in ToSet(leak.hits)
  BY DEF ToSet
<1>6. CASE q.answer.how = "none"
  <2>1. J = {}
    BY <1>4, <1>5, <1>6 DEF HitOf
  <2>2. Cardinality(J) = 0
    BY <2>1, FS_EmptySet
  <2>3. QED BY <1>1, <1>2, <1>4, <1>6, <2>2 DEF HitOf, AskType
<1>7. CASE q.answer.how # "none"
  <2>1. PICK h \in ToSet(leak.hits) : h.variant = q.variant
    BY <1>1, <1>2, <1>7 DEF HitsAreAnswers
  <2>2. PICK j \in DOMAIN leak.hits : leak.hits[j] = h
    BY <2>1 DEF ToSet
  <2>3. J = {j}
    BY <1>1, <2>1, <2>2 DEF Distinct
  <2>4. Cardinality(J) = 1
    BY <2>3, FS_Singleton
  <2>5. QED BY <1>1, <1>2, <1>4, <1>7, <2>4 DEF HitOf, AskType
<1>8. QED BY <1>6, <1>7

(* Each variant that crt.sh answered about is reported once, with its own  *)
(* youngest certificate, and those with one come first: for any names and  *)
(* answers, leak.rs, lookalike_scan and generate_lookalikes.               *)
THEOREM LookalikesAreReported == Spec => []LookalikesAreAnswered
<1>1. LeakInv => LookalikesAreAnswered
  <2> SUFFICES ASSUME LeakInv, Reported PROVE LookalikesAreAnswered
    BY DEF LookalikesAreAnswered
  <2> DEFINE of(v) == {h \in ToSet(leak.hits) : h.variant = v}
  <2>1. ASSUME NEW i \in DOMAIN leak.asked
        PROVE  LET v == leak.asked[i].variant
                   a == leak.asked[i].answer IN
               /\ Cardinality({j \in DOMAIN leak.hits : leak.hits[j].variant = v}) = (IF a.how = "none" THEN 0 ELSE 1)
               /\ \A h \in of(v) : \A age \in UNION CertLists :
                    age \in h.recent <=> /\ age < Lookback /\ age \in a.ages
                                         /\ \A b \in a.ages : age <= b
               /\ v = Domain(leak.name) => Doubled(leak.name)
    <3>1. leak.name \in Names
      BY DEF LeakInv, Reported
    <3>2. QED BY <3>1, ReportedOnce, RecentIsTheYoungest, VariantsDiffer
  <2>2. \A i, j \in DOMAIN leak.hits : leak.hits[j].recent # {} /\ i < j => leak.hits[i].recent # {}
    BY DEF LeakInv, Reported, Sorted
  <2>3. QED BY <2>1, <2>2 DEF LookalikesAreAnswered
<1>2. QED BY <1>1, LeaksKeepTheirInvariant, PTL

------------------------------------------------------------------------------
(* The SPF count.  What a record costs on its own, and what the records of *)
(* a list of names do.                                                     *)
Costs(r) == [i \in DOMAIN r |-> IF r[i].kind \in {"all", "ip"} THEN 0 ELSE 1]
CountsOf(zone, names) == [i \in DOMAIN names |-> CountSpfLookups(zone[names[i]])]
Due(zone, names) == Total(CountsOf(zone, names))
Zones == [Domains -> Seq(Terms)]

LEMMA CountTyped ==
  ASSUME NEW r \in Seq(Terms)
  PROVE  Costs(r) \in Seq(Nat) /\ CountSpfLookups(r) \in Nat /\ CountSpfLookups(r) = Total(Costs(r))
<1>1. Len(r) \in Nat /\ DOMAIN r = 1..Len(r)
  BY LenProperties
<1>2. Costs(r) \in Seq(Nat)
  BY <1>1 DEF Costs
<1>3. CountSpfLookups(r) = Total(Costs(r))
  BY DEF CountSpfLookups, Costs
<1>4. QED BY <1>2, <1>3, TotalNat

LEMMA DueTyped ==
  ASSUME NEW zone \in Zones, NEW names \in Seq(Domains)
  PROVE  /\ CountsOf(zone, names) \in Seq(Nat) /\ Due(zone, names) \in Nat
         /\ Len(CountsOf(zone, names)) = Len(names)
<1>1. Len(names) \in Nat /\ DOMAIN names = 1..Len(names) /\ \A i \in 1..Len(names) : names[i] \in Domains
  BY LenProperties
<1>2. \A i \in 1..Len(names) : CountSpfLookups(zone[names[i]]) \in Nat
  BY <1>1, CountTyped DEF Zones
<1>3. CountsOf(zone, names) \in Seq(Nat) /\ Len(CountsOf(zone, names)) = Len(names)
  BY <1>1, <1>2 DEF CountsOf
<1>4. QED BY <1>3, TotalNat DEF Due

(* A name is taken off the list with its count.                            *)
LEMMA DueHead ==
  ASSUME NEW zone \in Zones, NEW names \in Seq(Domains), names # << >>
  PROVE  /\ Tail(names) \in Seq(Domains) /\ Head(names) \in Domains
         /\ CountSpfLookups(zone[Head(names)]) \in Nat
         /\ Due(zone, names) = CountSpfLookups(zone[Head(names)]) + Due(zone, Tail(names))
<1> DEFINE w == CountsOf(zone, names)
<1>1. w \in Seq(Nat) /\ Len(w) = Len(names) /\ Len(names) \in Nat /\ Len(names) # 0
  BY DueTyped, LenProperties, EmptySeq
<1>2. /\ Tail(names) \in Seq(Domains) /\ Head(names) \in Domains /\ Head(names) = names[1]
      /\ Len(Tail(names)) = Len(names) - 1
      /\ \A i \in 1..(Len(names) - 1) : Tail(names)[i] = names[i + 1]
  BY <1>1, HeadTailProperties, LenProperties
<1>3. w # << >> /\ Head(w) = CountSpfLookups(zone[Head(names)])
  BY <1>1, <1>2, LenProperties DEF CountsOf
<1>4. Tail(w) = CountsOf(zone, Tail(names))
  <2>1. /\ Tail(w) \in Seq(Nat) /\ Len(Tail(w)) = Len(names) - 1
        /\ \A i \in 1..(Len(names) - 1) : Tail(w)[i] = w[i + 1]
    BY <1>1, <1>3, HeadTailProperties
  <2>2. CountsOf(zone, Tail(names)) \in Seq(Nat) /\ Len(CountsOf(zone, Tail(names))) = Len(names) - 1
    BY <1>2, DueTyped
  <2>3. \A i \in 1..(Len(names) - 1) : Tail(w)[i] = CountsOf(zone, Tail(names))[i]
    <3> TAKE i \in 1..(Len(names) - 1)
    <3>1. i + 1 \in DOMAIN names /\ i \in DOMAIN Tail(names)
      BY <1>1, <1>2, LenProperties
    <3>2. w[i + 1] = CountSpfLookups(zone[names[i + 1]])
      BY <3>1 DEF CountsOf
    <3>3. CountsOf(zone, Tail(names))[i] = CountSpfLookups(zone[Tail(names)[i]])
      BY <3>1 DEF CountsOf
    <3>4. QED BY <1>2, <2>1, <3>2, <3>3
  <2> HIDE DEF w
  <2>4. QED BY <2>1, <2>2, <2>3, SeqEqual
<1>5. CountSpfLookups(zone[Head(names)]) \in Nat
  BY <1>2, CountTyped DEF Zones
<1> HIDE DEF w
<1>6. Total(w) = Head(w) + Total(Tail(w))
  BY <1>1, <1>3, TotalHead
<1>7. QED BY <1>2, <1>3, <1>4, <1>5, <1>6 DEF Due, w

(* Where an include is followed, and what the record it names counts.      *)
Nested(zone, r) ==
  [i \in DOMAIN r |-> IF r[i].kind = "include" THEN CountSpfLookups(zone[r[i].of]) ELSE 0]
Picks(r) == [i \in DOMAIN r |-> IF r[i].kind = "include" THEN << r[i].of >> ELSE << >>]

LEMMA TermTyped ==
  ASSUME NEW r \in Seq(Terms)
  PROVE  /\ Len(r) \in Nat /\ DOMAIN r = 1..Len(r)
         /\ \A i \in 1..Len(r) : r[i].kind \in Kinds /\ r[i].of \in Domains
<1>1. Len(r) \in Nat /\ DOMAIN r = 1..Len(r) /\ \A i \in 1..Len(r) : r[i] \in Terms
  BY LenProperties
<1>2. QED BY <1>1 DEF Terms

LEMMA PicksTyped ==
  ASSUME NEW r \in Seq(Terms)
  PROVE  /\ Picks(r) \in Seq(Seq(Domains)) /\ Len(Picks(r)) = Len(r)
         /\ IncludesOf(r) = FlattenSeq(Picks(r)) /\ IncludesOf(r) \in Seq(Domains)
<1>1. Picks(r) \in Seq(Seq(Domains)) /\ Len(Picks(r)) = Len(r)
  <2>1. \A i \in 1..Len(r) : (IF r[i].kind = "include" THEN << r[i].of >> ELSE << >>) \in Seq(Domains)
    BY TermTyped
  <2>2. DOMAIN r = 1..Len(r) /\ Len(r) \in Nat
    BY TermTyped
  <2>3. Picks(r) = [i \in 1..Len(r) |-> Picks(r)[i]] /\ \A i \in 1..Len(r) : Picks(r)[i] \in Seq(Domains)
    BY <2>1, <2>2 DEF Picks
  <2> HIDE DEF Picks
  <2>4. QED BY <2>2, <2>3
<1>2. IncludesOf(r) = FlattenSeq(Picks(r))
  BY DEF IncludesOf, Picks
<1>3. QED BY <1>1, <1>2, FlattenTyped

LEMMA NestedTyped ==
  ASSUME NEW zone \in Zones, NEW r \in Seq(Terms)
  PROVE  Nested(zone, r) \in Seq(Nat) /\ Len(Nested(zone, r)) = Len(r)
<1>1. \A i \in 1..Len(r) : CountSpfLookups(zone[r[i].of]) \in Nat
  BY TermTyped, CountTyped DEF Zones
<1>2. QED BY <1>1, TermTyped DEF Nested

(* Adding up along the includes is adding up along the record.             *)
LEMMA DueIsNested ==
  ASSUME NEW zone \in Zones, NEW r \in Seq(Terms)
  PROVE  Due(zone, IncludesOf(r)) = Total(Nested(zone, r))
<1> DEFINE S == {s \in Seq(Terms) : Due(zone, IncludesOf(s)) = Total(Nested(zone, s))}
<1>1. << >> \in S
  <2>1. Picks(<< >>) = << >> /\ Nested(zone, << >>) = << >> /\ << >> \in Seq(Terms)
    BY DEF Picks, Nested
  <2>2. IncludesOf(<< >>) = << >>
    <3>1. << >> \in Seq(Seq(Domains)) /\ Len(<< >>) = 0
      OBVIOUS
    <3>2. QED BY <2>1, <3>1, PicksTyped, FlattenForm
  <2>3. CountsOf(zone, << >>) = << >>
    BY DEF CountsOf
  <2>4. QED BY <2>1, <2>2, <2>3 DEF Due
<1>2. ASSUME NEW s \in Seq(Terms), NEW t \in Terms, s \in S
      PROVE  Append(s, t) \in S
  <2> DEFINE u == Append(s, t)
             p == IF t.kind = "include" THEN << t.of >> ELSE << >>
             c == IF t.kind = "include" THEN CountSpfLookups(zone[t.of]) ELSE 0
  <2>1. /\ u \in Seq(Terms) /\ Len(u) = Len(s) + 1 /\ u[Len(s) + 1] = t
        /\ \A i \in 1..Len(s) : u[i] = s[i]
    BY AppendProperties
  <2>2. t.of \in Domains /\ CountSpfLookups(zone[t.of]) \in Nat
    BY CountTyped DEF Terms, Zones
  <2>3. p \in Seq(Domains) /\ c \in Nat
    BY <2>2
  <2>4. Picks(u) = Append(Picks(s), p)
    <3>1. Append(Picks(s), p) \in Seq(Seq(Domains)) /\ Len(Append(Picks(s), p)) = Len(s) + 1
      BY <2>3, PicksTyped, AppendProperties
    <3>2. ASSUME NEW i \in 1..(Len(s) + 1)
          PROVE  Picks(u)[i] = Append(Picks(s), p)[i]
      <4>1. CASE i = Len(s) + 1
        <5>1. Append(Picks(s), p)[i] = p
          BY <2>3, <4>1, PicksTyped, AppendProperties
        <5>2. i \in DOMAIN u /\ u[i] = t
          BY <2>1, <4>1, TermTyped
        <5>3. QED BY <5>1, <5>2 DEF Picks
      <4>2. CASE i \in 1..Len(s)
        <5>1. Append(Picks(s), p)[i] = Picks(s)[i]
          BY <2>3, <4>2, PicksTyped, AppendProperties
        <5>2. i \in DOMAIN u /\ i \in DOMAIN s /\ u[i] = s[i]
          BY <2>1, <4>2, TermTyped
        <5>3. QED BY <5>1, <5>2 DEF Picks
      <4>3. i = Len(s) + 1 \/ i \in 1..Len(s)
        BY LenProperties
      <4>4. QED BY <4>1, <4>2, <4>3
    <3> HIDE DEF u, p
    <3>3. Picks(u) \in Seq(Seq(Domains)) /\ Len(Picks(u)) = Len(s) + 1
      BY <2>1, PicksTyped
    <3>4. QED BY <3>1, <3>2, <3>3, SeqEqual
  <2>5. Nested(zone, u) = Append(Nested(zone, s), c)
    <3>1. Append(Nested(zone, s), c) \in Seq(Nat) /\ Len(Append(Nested(zone, s), c)) = Len(s) + 1
      BY <2>3, NestedTyped, AppendProperties
    <3>2. ASSUME NEW i \in 1..(Len(s) + 1)
          PROVE  Nested(zone, u)[i] = Append(Nested(zone, s), c)[i]
      <4>1. CASE i = Len(s) + 1
        <5>1. Append(Nested(zone, s), c)[i] = c
          BY <2>3, <4>1, NestedTyped, AppendProperties
        <5>2. i \in DOMAIN u /\ u[i] = t
          BY <2>1, <4>1, TermTyped
        <5>3. QED BY <5>1, <5>2 DEF Nested
      <4>2. CASE i \in 1..Len(s)
        <5>1. Append(Nested(zone, s), c)[i] = Nested(zone, s)[i]
          BY <2>3, <4>2, NestedTyped, AppendProperties
        <5>2. i \in DOMAIN u /\ i \in DOMAIN s /\ u[i] = s[i]
          BY <2>1, <4>2, TermTyped
        <5>3. QED BY <5>1, <5>2 DEF Nested
      <4>3. i = Len(s) + 1 \/ i \in 1..Len(s)
        BY LenProperties
      <4>4. QED BY <4>1, <4>2, <4>3
    <3> HIDE DEF u, c
    <3>3. Nested(zone, u) \in Seq(Nat) /\ Len(Nested(zone, u)) = Len(s) + 1
      BY <2>1, NestedTyped
    <3>4. QED BY <3>1, <3>2, <3>3, SeqEqual
  <2>6. IncludesOf(u) = IncludesOf(s) \o p
    <3> HIDE DEF u, p
    <3>1. QED BY <2>1, <2>3, <2>4, PicksTyped, FlattenAppend
  <2>7. Total(Nested(zone, u)) = Total(Nested(zone, s)) + c
    <3> HIDE DEF u, c
    <3>1. QED BY <2>3, <2>5, NestedTyped, TotalAppend
  <2>8. Due(zone, IncludesOf(u)) = Due(zone, IncludesOf(s)) + c
    <3> DEFINE names == IncludesOf(s)
    <3>1. names \in Seq(Domains) /\ Len(names) \in Nat /\ DOMAIN names = 1..Len(names)
      BY PicksTyped, LenProperties
    <3>2. CASE t.kind = "include"
      <4>1. IncludesOf(u) = names \o << t.of >> /\ c = CountSpfLookups(zone[t.of])
        BY <2>6, <3>2
      <4> HIDE DEF names, u, c
      <4>2. names \o << t.of >> = Append(names, t.of)
        BY <2>2, <3>1
      <4>3. CountsOf(zone, Append(names, t.of)) = Append(CountsOf(zone, names), c)
        BY <2>2, <3>1, <4>1 DEF CountsOf
      <4>4. CountsOf(zone, names) \in Seq(Nat)
        BY <3>1, DueTyped
      <4>5. Total(CountsOf(zone, Append(names, t.of))) = Total(CountsOf(zone, names)) + c
        BY <2>3, <4>3, <4>4, TotalAppend
      <4>6. QED BY <4>1, <4>2, <4>5 DEF Due, names
    <3>3. CASE t.kind # "include"
      <4>1. IncludesOf(u) = names \o << >> /\ c = 0
        BY <2>6, <3>3
      <4> HIDE DEF names, u, c
      <4>2. names \o << >> = names
        BY <3>1, ConcatEmptySeq
      <4>3. Due(zone, names) \in Nat
        BY <3>1, DueTyped
      <4>4. QED BY <4>1, <4>2, <4>3 DEF names
    <3>4. QED BY <3>2, <3>3
  <2>9. Due(zone, IncludesOf(s)) = Total(Nested(zone, s))
    BY <1>2
  <2>10. QED BY <2>1, <2>7, <2>8, <2>9
<1>3. Seq(Terms) \subseteq S
  <2> HIDE DEF S
  <2>1. QED BY <1>1, <1>2, SeqInduct
<1>4. QED BY <1>3

(* What the count can come to, and how far it has come: a lookup that is   *)
(* lost leaves it behind.                                                  *)
InAll(zone) == CountSpfLookups(zone["self"]) + Due(zone, IncludesOf(zone["self"]))
Behind(count, whole) == count <= whole /\ (~rep.lost => count = whole)
SpfInv ==
  /\ DOMAIN rep = DOMAIN RepIdle
  /\ rep.lost \in BOOLEAN /\ rep.count \in Nat
  /\ rep.zone \in Zones /\ rep.includes \in Seq(Domains)
  /\ rep.at = "include" => Behind(rep.count + Due(rep.zone, rep.includes), InAll(rep.zone))
  /\ rep.at \in {"dkim", "done"} => Behind(rep.count, InAll(rep.zone)) /\ rep.over = OverLimit(rep.count)

LEMMA SpfIdleInv == (rep = RepIdle => SpfInv) /\ (rep' = RepIdle => SpfInv')
<1>1. << >> \in Seq(Terms) /\ << >> \in Seq(Domains)
  OBVIOUS
<1>2. [d \in Domains |-> << >>] \in Zones
  BY <1>1 DEF Zones
<1>3. /\ RepIdle.lost = FALSE /\ RepIdle.count = 0 /\ RepIdle.includes = << >> /\ RepIdle.at = "idle"
      /\ RepIdle.zone = [d \in Domains |-> << >>]
  BY DEF RepIdle
<1>4. ~(RepIdle.at = "include") /\ ~(RepIdle.at \in {"dkim", "done"})
  BY <1>3
<1>5. RepIdle.lost \in BOOLEAN /\ RepIdle.count \in Nat /\ RepIdle.zone \in Zones /\ RepIdle.includes \in Seq(Domains)
  <2> HIDE DEF Zones
  <2>1. RepIdle.count \in Nat /\ RepIdle.lost \in BOOLEAN
    <3>1. RepIdle.count \in Nat
      BY ONLY <1>3
    <3>2. RepIdle.lost \in BOOLEAN
      BY ONLY <1>3, Zenon
    <3>3. QED BY <3>1, <3>2
  <2>2. RepIdle.includes \in Seq(Domains)
    BY <1>1, <1>3
  <2>3. RepIdle.zone \in Zones
    BY ONLY <1>2, <1>3
  <2>4. QED BY <2>1, <2>2, <2>3
<1>6. QED BY <1>4, <1>5 DEF SpfInv

LEMMA InAllTyped ==
  ASSUME NEW zone \in Zones
  PROVE  /\ zone["self"] \in Seq(Terms) /\ IncludesOf(zone["self"]) \in Seq(Domains)
         /\ CountSpfLookups(zone["self"]) \in Nat /\ InAll(zone) \in Nat
<1>1. zone["self"] \in Seq(Terms)
  BY ReputationAssumption DEF Zones
<1>2. QED BY <1>1, CountTyped, PicksTyped, DueTyped DEF InAll

(* A section before or after the count leaves it alone.                    *)
LEMMA SpfKept ==
  ASSUME SpfInv, DOMAIN rep' = DOMAIN rep,
         Keeps("lost"), Keeps("count"), Keeps("zone"), Keeps("includes"), Keeps("over"),
         rep'.at # "include", rep'.at \in {"dkim", "done"} => rep.at \in {"dkim", "done"}
  PROVE  SpfInv'
BY DEF SpfInv, Keeps, Behind

LEMMA SpfStepInv == SpfInv /\ (ReputationOf \/ RepStep) => SpfInv'
<1> SUFFICES ASSUME SpfInv, ReputationOf \/ RepStep PROVE SpfInv'
  OBVIOUS
<1>1. DOMAIN rep = {"at", "focus", "ips", "dnsbl", "listings", "svg", "vmc", "valid", "signed", "count", "includes",
                    "over", "zone", "lost", "keys"}
  BY RepFields DEF SpfInv
<1>2. CASE ReputationOf
  <2>1. PICK s \in Sections : rep' = [rep EXCEPT !.at = "mx", !.focus = s]
    BY <1>2 DEF ReputationOf
  <2>2. QED BY <1>1, <2>1, SpfKept DEF Keeps
<1>3. CASE ResolveMx
  <2>1. PICK ips : rep' = [rep EXCEPT !.at = "lists", !.ips = ips]
    BY <1>3 DEF ResolveMx
  <2>2. QED BY <1>1, <2>1, SpfKept DEF Keeps
<1>4. CASE DnsblQuery
  <2>1. rep.at = "lists" /\ (rep' = [rep EXCEPT !.at = "bimi"]
                               \/ \E q, n : rep' = [rep EXCEPT !.dnsbl = q, !.listings = n])
    BY <1>4 DEF DnsblQuery
  <2>2. CASE rep' = [rep EXCEPT !.at = "bimi"]
    BY <1>1, <2>2, SpfKept DEF Keeps
  <2>3. CASE \E q, n : rep' = [rep EXCEPT !.dnsbl = q, !.listings = n]
    BY <1>1, <2>1, <2>3, SpfKept DEF Keeps
  <2>4. QED BY <2>1, <2>2, <2>3
<1>5. CASE BimiLookup
  <2>1. PICK svg, vmc, valid : rep' = [rep EXCEPT !.at = "dnssec", !.svg = svg, !.vmc = vmc, !.valid = valid]
    BY <1>5 DEF BimiLookup
  <2>2. QED BY <1>1, <2>1, SpfKept DEF Keeps
<1>6. CASE DnssecProbe
  <2>1. PICK signed : rep' = [rep EXCEPT !.at = "spf", !.signed = signed]
    BY <1>6 DEF DnssecProbe
  <2>2. QED BY <1>1, <2>1, SpfKept DEF Keeps
<1>7. CASE SpfRecord
  <2>1. PICK zone \in Zones :
          rep' = [rep EXCEPT !.at = "include", !.zone = zone, !.count = CountSpfLookups(zone["self"]),
                    !.includes = IncludesOf(zone["self"])]
    <3>1. [Domains -> Records] \subseteq Zones
      BY ReputationAssumption DEF Zones
    <3>2. RepIdle.zone \in Zones
      <4>1. << >> \in Seq(Terms)
        OBVIOUS
      <4>2. QED BY <4>1 DEF Zones, RepIdle
    <3>3. QED BY <1>7, <3>1, <3>2 DEF SpfRecord, OneAtATime
  <2>2. /\ DOMAIN rep' = DOMAIN rep /\ rep'.lost = rep.lost /\ rep'.at = "include" /\ rep'.zone = zone
        /\ rep'.count = CountSpfLookups(zone["self"]) /\ rep'.includes = IncludesOf(zone["self"])
    BY <1>1, <2>1
  <2>3. InAll(zone) \in Nat /\ InAll(zone) = rep'.count + Due(zone, rep'.includes)
    BY <2>2, InAllTyped DEF InAll
  <2>4. QED BY <2>2, <2>3, InAllTyped DEF SpfInv, Behind
<1>8. CASE SpfInclude
  <2>1. CASE rep.includes = << >>
    <3>1. rep' = [rep EXCEPT !.at = "dkim", !.over = OverLimit(rep.count)] /\ rep.at = "include"
      BY <1>8, <2>1 DEF SpfInclude
    <3>2. /\ DOMAIN rep' = DOMAIN rep /\ rep'.lost = rep.lost /\ rep'.at = "dkim" /\ rep'.zone = rep.zone
          /\ rep'.count = rep.count /\ rep'.includes = rep.includes /\ rep'.over = OverLimit(rep.count)
      BY <1>1, <3>1
    <3>3. Due(rep.zone, rep.includes) = 0
      <4>1. CountsOf(rep.zone, << >>) = << >>
        BY DEF CountsOf
      <4>2. QED BY <2>1, <4>1, TotalEmpty DEF Due
    <3>4. Behind(rep.count, InAll(rep.zone))
      BY <3>1, <3>3 DEF SpfInv
    <3>5. QED BY <3>2, <3>4 DEF SpfInv, Behind
  <2>2. CASE rep.includes # << >>
    <3> DEFINE n == CountSpfLookups(rep.zone[Head(rep.includes)])
    <3>1. PICK lost \in BOOLEAN :
            rep' = [rep EXCEPT !.includes = Tail(@), !.lost = @ \/ lost,
                      !.count = IF lost THEN @ ELSE @ + CountSpfLookups(rep.zone[Head(rep.includes)])]
      BY <1>8, <2>2 DEF SpfInclude
    <3>2. /\ DOMAIN rep' = DOMAIN rep /\ rep'.lost = (rep.lost \/ lost) /\ rep'.at = rep.at
          /\ rep'.zone = rep.zone /\ rep'.includes = Tail(rep.includes)
          /\ rep'.count = (IF lost THEN rep.count ELSE rep.count + n)
      BY <1>1, <3>1
    <3>3. /\ Tail(rep.includes) \in Seq(Domains) /\ n \in Nat
          /\ Due(rep.zone, rep.includes) = n + Due(rep.zone, Tail(rep.includes))
      BY <2>2, DueHead DEF SpfInv
    <3>4. Due(rep.zone, Tail(rep.includes)) \in Nat /\ InAll(rep.zone) \in Nat /\ rep.count \in Nat
      BY <3>3, DueTyped, InAllTyped DEF SpfInv
    <3>5. rep.at = "include" /\ Behind(rep.count + Due(rep.zone, rep.includes), InAll(rep.zone))
      BY <1>8 DEF SpfInclude, SpfInv
    <3> DEFINE d == Due(rep.zone, Tail(rep.includes))
               w == InAll(rep.zone)
    <3> HIDE DEF n, d, w
    <3>6. /\ d \in Nat /\ w \in Nat /\ n \in Nat /\ rep.count \in Nat /\ rep.lost \in BOOLEAN
          /\ rep.count + (n + d) <= w /\ (~rep.lost => rep.count + (n + d) = w)
      BY <3>3, <3>4, <3>5 DEF Behind, d, w, SpfInv
    <3>7. /\ rep'.count \in Nat /\ rep'.count + d <= w /\ (~rep'.lost => rep'.count + d = w)
          /\ rep'.lost \in BOOLEAN
      <4>1. CASE lost
        <5>1. rep'.count = rep.count /\ rep'.lost
          BY <3>2, <4>1
        <5>2. rep.count + d <= w
          BY <3>6
        <5>3. QED BY <3>2, <3>6, <5>1, <5>2
      <4>2. CASE ~lost
        <5>1. rep'.count = rep.count + n /\ rep'.lost = rep.lost
          BY <3>2, <3>6, <4>2
        <5>2. (rep.count + n) + d = rep.count + (n + d)
          BY <3>6
        <5>3. QED BY <3>6, <5>1, <5>2
      <4>3. QED BY <4>1, <4>2
    <3>8. Due(rep'.zone, rep'.includes) = d /\ InAll(rep'.zone) = w
      BY <3>2 DEF d, w
    <3>9. Behind(rep.count + Due(rep.zone, rep.includes), InAll(rep.zone))'
      BY <3>7, <3>8 DEF Behind
    <3>10. QED BY <3>2, <3>3, <3>5, <3>7, <3>9 DEF SpfInv
  <2>3. QED BY <2>1, <2>2
<1>9. CASE DkimHygiene
  <2>1. PICK keys : rep' = [rep EXCEPT !.at = "done", !.keys = keys] /\ rep.at = "dkim"
    BY <1>9 DEF DkimHygiene
  <2>2. QED BY <1>1, <2>1, SpfKept DEF Keeps
<1>10. QED BY <1>2, <1>3, <1>4, <1>5, <1>6, <1>7, <1>8, <1>9 DEF RepStep

LEMMA SpfInvNext == SpfInv /\ [Next]_vars => SpfInv'
<1> SUFFICES ASSUME SpfInv, [Next]_vars PROVE SpfInv'
  OBVIOUS
<1>1. ReputationOf \/ RepStep \/ rep' = RepIdle \/ rep' = rep
  BY DEF Next, Server, Landing, HandleAttest, SelectMode, ClickCard, Submit, TypeUrl, FollowExport,
         Browsing, RequireDomain, Handle, Await, Respond, vars
<1>2. CASE rep' = rep
  BY <1>2 DEF SpfInv, Behind
<1>3. QED BY <1>1, <1>2, SpfStepInv, SpfIdleInv

(* The count never runs ahead of the lookups of the record and of those it *)
(* includes, and is behind only when one was lost.                         *)
THEOREM SpfIsCounted == Spec => []SpfInv
<1>1. Init => SpfInv
  BY SpfIdleInv DEF Init
<1>2. QED BY <1>1, SpfInvNext, PTL DEF Spec

(* What RFC 7208 counts of each record, level by level.                    *)
Levels(f, zone) ==
  f = [n \in 0..Limit + 2 |-> [d \in Domains |-> IF n = 0 THEN 0 ELSE Cost(zone[d], f[n - 1])]]
Paid(r, below) ==
  [i \in DOMAIN r |-> IF r[i].kind = "address" THEN 1
                      ELSE IF Followed(r, r[i]) THEN 1 + below[r[i].of] ELSE 0]

LEMMA PaidTyped ==
  ASSUME NEW r \in Seq(Terms), NEW below \in [Domains -> Nat]
  PROVE  /\ Paid(r, below) \in Seq(Nat) /\ Len(Paid(r, below)) = Len(r)
         /\ Cost(r, below) = Total(Paid(r, below)) /\ Cost(r, below) \in Nat
<1>1. \A i \in 1..Len(r) : below[r[i].of] \in Nat
  BY TermTyped
<1>2. Paid(r, below) \in Seq(Nat) /\ Len(Paid(r, below)) = Len(r)
  BY <1>1, TermTyped DEF Paid
<1>3. Cost(r, below) = Total(Paid(r, below))
  BY DEF Cost, Paid
<1>4. QED BY <1>2, <1>3, TotalNat

LEMMA LevelsExist ==
  ASSUME NEW zone \in Zones
  PROVE  \E f : Levels(f, zone)
<1> DEFINE N == Limit + 2
           S == [Domains -> Nat]
           a == [d \in Domains |-> 0]
           F == [i \in 1..N |-> [c \in S |-> [d \in Domains |-> Cost(zone[d], c)]]]
<1>1. N \in Nat /\ a \in S
  BY ReputationAssumption
<1>2. F \in [1..N -> [S -> S]]
  <2>1. \A c \in S : [d \in Domains |-> Cost(zone[d], c)] \in S
    BY PaidTyped DEF Zones
  <2>2. QED BY <2>1
<1>3. \A i \in 1..N : \A c \in S : F[i][c] = [d \in Domains |-> Cost(zone[d], c)]
  OBVIOUS
<1>4. \E f : Recurs(f, N, S, a, F)
  <2> HIDE DEF N, S, a, F
  <2>1. QED BY <1>1, <1>2, RecursionExists
<1>5. PICK f : Recurs(f, N, S, a, F)
  BY <1>4
<1> HIDE DEF F
<1>6. /\ f \in [0..N -> S] /\ f[0] = a
      /\ \A i \in 1..N : f[i] = F[i][f[i - 1]]
  BY <1>5 DEF Recurs
<1>7. ASSUME NEW n \in 0..N
      PROVE  f[n] = [d \in Domains |-> IF n = 0 THEN 0 ELSE Cost(zone[d], f[n - 1])]
  <2>1. CASE n = 0
    BY <1>6, <2>1
  <2>2. CASE n # 0
    <3>1. n \in 1..N /\ n - 1 \in 0..N
      BY <1>1, <2>2
    <3>2. f[n - 1] \in S /\ f[n] = F[n][f[n - 1]]
      BY <1>6, <3>1
    <3>3. f[n] = [d \in Domains |-> Cost(zone[d], f[n - 1])]
      BY <1>3, <3>1, <3>2
    <3>4. QED BY <2>2, <3>3
  <2>3. QED BY <2>1, <2>2
<1>8. f = [n \in 0..N |-> [d \in Domains |-> IF n = 0 THEN 0 ELSE Cost(zone[d], f[n - 1])]]
  BY <1>6, <1>7
<1>9. QED BY <1>8 DEF Levels

LEMMA Rfc7208Form ==
  ASSUME rep.zone \in Zones
  PROVE  \E f \in [0..Limit + 2 -> [Domains -> Nat]] :
           /\ \A n \in 1..Limit + 2 : \A d \in Domains : f[n][d] = Cost(rep.zone[d], f[n - 1])
           /\ Rfc7208 = f[Limit + 2]["self"]
<1> DEFINE f == CHOOSE f : Levels(f, rep.zone)
           N == Limit + 2
<1>1. Levels(f, rep.zone)
  BY LevelsExist
<1>2. Rfc7208 = f[N]["self"]
  BY DEF Rfc7208, Levels
<1>3. N \in Nat
  BY ReputationAssumption
<1> HIDE DEF f
<1>4. f = [n \in 0..N |-> [d \in Domains |-> IF n = 0 THEN 0 ELSE Cost(rep.zone[d], f[n - 1])]]
  BY <1>1 DEF Levels
<1> HIDE DEF N
<1>5. \A n \in 0..N : f[n] = [d \in Domains |-> IF n = 0 THEN 0 ELSE Cost(rep.zone[d], f[n - 1])]
  BY <1>4
<1> DEFINE T == {k \in Nat : k <= N => f[k] \in [Domains -> Nat]}
<1>6. Nat \subseteq T
  <2>1. 0 \in T
    <3>1. f[0] = [d \in Domains |-> 0]
      BY <1>3, <1>5
    <3>2. QED BY <3>1
  <2>2. ASSUME NEW k \in Nat, k \in T PROVE k + 1 \in T
    <3> SUFFICES ASSUME k + 1 <= N PROVE f[k + 1] \in [Domains -> Nat]
      OBVIOUS
    <3>1. k + 1 \in 0..N /\ k + 1 # 0 /\ (k + 1) - 1 = k /\ f[k] \in [Domains -> Nat]
      BY <1>3, <2>2
    <3>2. f[k + 1] = [d \in Domains |-> Cost(rep.zone[d], f[k])]
      BY <1>5, <3>1
    <3>3. \A d \in Domains : Cost(rep.zone[d], f[k]) \in Nat
      BY <3>1, PaidTyped DEF Zones
    <3>4. QED BY <3>2, <3>3
  <2> HIDE DEF T
  <2>3. QED BY <2>1, <2>2, NatInduct
<1>7. f \in [0..N -> [Domains -> Nat]]
  <2>1. \A n \in 0..N : f[n] \in [Domains -> Nat]
    BY <1>3, <1>6
  <2>2. DOMAIN f = 0..N /\ f = [n \in 0..N |-> f[n]]
    BY <1>4
  <2>3. QED BY <2>1, <2>2
<1>8. ASSUME NEW n \in 1..N, NEW d \in Domains
      PROVE  f[n][d] = Cost(rep.zone[d], f[n - 1])
  <2>1. n \in 0..N /\ n # 0
    BY <1>3
  <2>2. QED BY <1>5, <2>1
<1>9. QED BY <1>2, <1>7, <1>8 DEF N

(* A record without odd modifiers, and with no redirect beside an all,     *)
(* costs at least what the code counts of it; if nothing in it leads       *)
(* further, exactly that.                                                  *)
Even(r) == ~Has(r, {"odd"}) /\ ~(Has(r, {"all"}) /\ Has(r, {"redirect"}))
Flat(r) == ~Has(r, {"include", "qualified include", "redirect"})

LEMMA OwnCost ==
  ASSUME NEW r \in Seq(Terms), NEW below \in [Domains -> Nat], Even(r)
  PROVE  CountSpfLookups(r) <= Cost(r, below) /\ (Flat(r) => CountSpfLookups(r) = Cost(r, below))
<1>1. /\ Costs(r) \in Seq(Nat) /\ Len(Costs(r)) = Len(r) /\ CountSpfLookups(r) = Total(Costs(r))
      /\ Paid(r, below) \in Seq(Nat) /\ Len(Paid(r, below)) = Len(r) /\ Cost(r, below) = Total(Paid(r, below))
      /\ CountSpfLookups(r) \in Nat /\ Cost(r, below) \in Nat
  <2>1. Len(Costs(r)) = Len(r)
    BY TermTyped DEF Costs
  <2>2. QED BY <2>1, CountTyped, PaidTyped
<1>2. ASSUME NEW i \in 1..Len(r)
      PROVE  Costs(r)[i] <= Paid(r, below)[i] /\ (Flat(r) => Costs(r)[i] = Paid(r, below)[i])
  <2>1. i \in DOMAIN r /\ r[i].kind \in Kinds /\ below[r[i].of] \in Nat
    BY TermTyped
  <2>2. /\ Costs(r)[i] = (IF r[i].kind \in {"all", "ip"} THEN 0 ELSE 1)
        /\ Paid(r, below)[i] = (IF r[i].kind = "address" THEN 1
                                ELSE IF Followed(r, r[i]) THEN 1 + below[r[i].of] ELSE 0)
    BY <2>1 DEF Costs, Paid
  <2>3. r[i].kind # "odd" /\ (r[i].kind = "redirect" => Followed(r, r[i]))
    BY <2>1 DEF Even, Has, Followed
  <2>4. r[i].kind \in {"include", "qualified include"} => Followed(r, r[i])
    BY DEF Followed
  <2>5. r[i].kind \in {"all", "ip"} => ~Followed(r, r[i])
    BY DEF Followed
  <2>6. Flat(r) => r[i].kind \in {"address", "all", "ip"}
    BY <2>1, <2>3 DEF Flat, Has, Kinds
  <2>7. r[i].kind \in {"address", "include", "qualified include", "redirect", "all", "ip"}
    BY <2>1, <2>3 DEF Kinds
  <2>8. CASE r[i].kind \in {"all", "ip"}
    <3>1. Costs(r)[i] = 0 /\ Paid(r, below)[i] = 0
      BY <2>2, <2>5, <2>8
    <3>2. QED BY <3>1
  <2>9. CASE r[i].kind = "address"
    <3>1. Costs(r)[i] = 1 /\ Paid(r, below)[i] = 1
      BY <2>2, <2>9
    <3>2. QED BY <3>1
  <2>10. CASE r[i].kind \in {"include", "qualified include", "redirect"}
    <3>1. Costs(r)[i] = 1 /\ Paid(r, below)[i] = 1 + below[r[i].of] /\ ~Flat(r)
      BY <2>2, <2>3, <2>4, <2>6, <2>10
    <3>2. QED BY <2>1, <3>1
  <2>11. QED BY <2>7, <2>8, <2>9, <2>10
<1>3. CountSpfLookups(r) <= Cost(r, below)
  BY <1>1, <1>2, TotalMono
<1>4. ASSUME Flat(r)
      PROVE  CountSpfLookups(r) = Cost(r, below)
  <2>1. Costs(r) = Paid(r, below)
    BY <1>1, <1>2, <1>4, SeqEqual
  <2>2. QED BY <1>1, <2>1
<1>5. QED BY <1>3, <1>4

(* With every include followed one level down, the domain's own record     *)
(* costs at least what the code counts; if it goes no further, that.       *)
LEMMA InAllCost ==
  ASSUME rep.zone \in Zones, Regular
  PROVE  InAll(rep.zone) <= Rfc7208 /\ Rfc7208 \in Nat /\ (Shallow => InAll(rep.zone) = Rfc7208)
<1> DEFINE r == rep.zone["self"]
           N == Limit + 2
<1>1. PICK f \in [0..Limit + 2 -> [Domains -> Nat]] :
        /\ \A n \in 1..Limit + 2 : \A d \in Domains : f[n][d] = Cost(rep.zone[d], f[n - 1])
        /\ Rfc7208 = f[Limit + 2]["self"]
  BY Rfc7208Form
<1> DEFINE below == f[N - 1]
           c == Costs(r)
           b == Nested(rep.zone, r)
           p == Paid(r, below)
           t == [i \in 1..Len(r) |-> c[i] + b[i]]
<1>2. /\ N \in 1..N /\ N - 1 \in 1..N /\ (N - 1) - 1 \in 0..N /\ N - 1 \in 0..N
      /\ "self" \in Domains
  BY ReputationAssumption
<1>3. r \in Seq(Terms) /\ Len(r) \in Nat /\ DOMAIN r = 1..Len(r)
  BY InAllTyped, LenProperties
<1>4. below \in [Domains -> Nat] /\ Rfc7208 = Cost(r, below)
  BY <1>1, <1>2
<1>5. \A d \in Domains : below[d] = Cost(rep.zone[d], f[(N - 1) - 1]) /\ f[(N - 1) - 1] \in [Domains -> Nat]
  BY <1>1, <1>2
<1>6. /\ c \in Seq(Nat) /\ Len(c) = Len(r) /\ CountSpfLookups(r) = Total(c)
      /\ b \in Seq(Nat) /\ Len(b) = Len(r) /\ Due(rep.zone, IncludesOf(r)) = Total(b)
      /\ p \in Seq(Nat) /\ Len(p) = Len(r) /\ Cost(r, below) = Total(p)
  <2>1. Len(c) = Len(r)
    BY <1>3 DEF Costs
  <2> HIDE DEF r, below
  <2>2. QED BY <1>3, <1>4, <2>1, CountTyped, NestedTyped, DueIsNested, PaidTyped
<1>7. ASSUME NEW i \in 1..Len(r)
      PROVE  c[i] + b[i] <= p[i] /\ (Shallow => c[i] + b[i] = p[i])
  <2> DEFINE k == r[i].kind
             q == rep.zone[r[i].of]
             x == CountSpfLookups(q)
             y == below[r[i].of]
  <2>1. i \in DOMAIN r /\ k \in Kinds /\ r[i].of \in Domains
    BY <1>3, TermTyped
  <2>2. /\ c[i] = (IF k \in {"all", "ip"} THEN 0 ELSE 1)
        /\ b[i] = (IF k = "include" THEN x ELSE 0)
        /\ p[i] = (IF k = "address" THEN 1 ELSE IF Followed(r, r[i]) THEN 1 + y ELSE 0)
    BY <2>1 DEF Costs, Nested, Paid
  <2>3. x \in Nat /\ y \in Nat /\ q \in Seq(Terms)
    BY <1>4, <2>1, CountTyped DEF Zones
  <2>4. k # "odd" /\ (k = "redirect" => Followed(r, r[i]))
    <3>1. Even(r)
      BY DEF Regular, Even
    <3>2. QED BY <2>1, <3>1 DEF Even, Has, Followed
  <2>5. k \in {"include", "qualified include"} => Followed(r, r[i])
    BY DEF Followed
  <2>6. k \in {"all", "ip"} => ~Followed(r, r[i])
    BY DEF Followed
  <2>7. k = "include" => r[i].of \in Included
    <3> SUFFICES ASSUME k = "include" PROVE r[i].of \in Included
      OBVIOUS
    <3>1. Picks(r)[i] = << r[i].of >> /\ Len(Picks(r)) = Len(r)
      BY <1>3, <2>1, PicksTyped DEF Picks
    <3>2. r[i].of \in ToSet(Picks(r)[i])
      <4>1. << r[i].of >>[1] = r[i].of /\ 1 \in DOMAIN << r[i].of >>
        OBVIOUS
      <4>2. QED BY <3>1, <4>1 DEF ToSet
    <3>3. Picks(r) \in Seq(Seq(Domains)) /\ IncludesOf(r) = FlattenSeq(Picks(r))
      BY <1>3, PicksTyped
    <3>4. ToSet(FlattenSeq(Picks(r))) = UNION {ToSet(Picks(r)[j]) : j \in 1..Len(Picks(r))}
      BY <3>3, FlattenToSet
    <3>5. QED BY <3>1, <3>2, <3>3, <3>4 DEF Included
  <2>8. CASE k = "include"
    <3>1. Even(q) /\ (Shallow => Flat(q))
      BY <2>7, <2>8 DEF Regular, Even, Shallow, OneLevel, Flat
    <3>2. y = Cost(q, f[(N - 1) - 1]) /\ f[(N - 1) - 1] \in [Domains -> Nat]
      BY <1>5, <2>1
    <3> HIDE DEF q
    <3>3. x <= y /\ (Shallow => x = y)
      BY <2>3, <3>1, <3>2, OwnCost
    <3>4. c[i] = 1 /\ b[i] = x /\ p[i] = 1 + y
      BY <2>2, <2>5, <2>8
    <3> HIDE DEF x, y, c, b, p
    <3>5. QED BY <2>3, <3>3, <3>4
  <2>9. CASE k \in {"qualified include", "redirect"}
    <3>1. c[i] = 1 /\ b[i] = 0 /\ p[i] = 1 + y
      BY <2>2, <2>4, <2>5, <2>9
    <3>2. ~Shallow
      BY <2>1, <2>9 DEF Shallow, Has
    <3>3. QED BY <2>3, <3>1, <3>2
  <2>10. CASE k \in {"all", "ip"}
    <3>1. c[i] = 0 /\ b[i] = 0 /\ p[i] = 0
      BY <2>2, <2>6, <2>10
    <3>2. QED BY <3>1
  <2>11. CASE k = "address"
    <3>1. c[i] = 1 /\ b[i] = 0 /\ p[i] = 1
      BY <2>2, <2>11
    <3>2. QED BY <3>1
  <2>12. QED BY <2>1, <2>4, <2>8, <2>9, <2>10, <2>11 DEF Kinds
<1> HIDE DEF r, c, b, p, below
<1>8. \A i \in 1..Len(r) : c[i] \in Nat /\ b[i] \in Nat /\ c[i] + b[i] \in Nat
  BY <1>6, LenProperties
<1>9. t \in Seq(Nat) /\ Len(t) = Len(r) /\ \A i \in 1..Len(r) : t[i] = c[i] + b[i]
  BY <1>3, <1>8
<1> HIDE DEF t
<1>10. Total(t) = Total(c) + Total(b)
  BY <1>6, <1>9, TotalPlus
<1>11. Total(t) <= Total(p) /\ (Shallow => Total(t) = Total(p))
  <2>1. Total(t) <= Total(p)
    BY <1>6, <1>7, <1>9, TotalMono
  <2>2. ASSUME Shallow PROVE t = p
    BY <1>6, <1>7, <1>9, <2>2, SeqEqual
  <2>3. QED BY <2>1, <2>2
<1>12. Total(p) \in Nat
  BY <1>6, TotalNat
<1>13. InAll(rep.zone) = Total(c) + Total(b)
  BY <1>6 DEF InAll, r
<1>14. QED BY <1>4, <1>6, <1>10, <1>11, <1>12, <1>13

(* reputation.rs, count_spf_lookups and spf_lookup_count: whatever the     *)
(* records, a report of too many lookups is right by RFC 7208's recursive  *)
(* count, and where one level is all there is none is missed.              *)
THEOREM OverTheLimit == Spec => []OverLimitIsReal
<1>1. SpfInv => OverLimitIsReal
  <2> SUFFICES ASSUME SpfInv, Reputed, Regular
               PROVE  /\ rep.over => Rfc7208 > Limit
                      /\ Shallow => (rep.over <=> Rfc7208 > Limit)
    BY DEF OverLimitIsReal
  <2>1. rep.zone \in Zones /\ rep.count \in Nat /\ Behind(rep.count, InAll(rep.zone))
    BY DEF SpfInv, Reputed
  <2>2. rep.over = OverLimit(rep.count) /\ OverLimit(rep.count) = (rep.count > Limit)
    BY DEF SpfInv, Reputed, OverLimit
  <2>3. InAll(rep.zone) <= Rfc7208 /\ Rfc7208 \in Nat /\ (Shallow => InAll(rep.zone) = Rfc7208)
    BY <2>1, InAllCost
  <2>4. InAll(rep.zone) \in Nat /\ Limit \in Nat
    BY <2>1, InAllTyped, ReputationAssumption
  <2>5. Shallow => ~rep.lost
    BY DEF Shallow, OneLevel
  <2>6. rep.count <= InAll(rep.zone) /\ (Shallow => rep.count = InAll(rep.zone))
    BY <2>1, <2>5 DEF Behind
  <2>7. rep.over <=> rep.count > Limit
    BY <2>2
  <2>8. QED BY <2>1, <2>3, <2>4, <2>6, <2>7
<1>2. QED BY <1>1, SpfIsCounted, PTL
------------------------------------------------------------------------------
(* The documents of one report.  The e-mail report shows what its findings *)
(* and its checks have in common: by ScanInv a finding is a check that did *)
(* not pass.                                                               *)
LEMMA EmailsAgree ==
  ASSUME ScanInv, scan.at = "done"
  PROVE  EmailAgrees(scan)
<1> DEFINE Checks == {"spf", "dkim", "dmarc"}
           Found == scan.findings
<1>1. Found = {f \in Checks : ~scan[f].configured}
  BY DEF ScanInv
<1>2. \A f \in Found : SarifLevel(Severity(f)) = "error" /\ Class(Severity(f)) = "err"
  BY DEF SarifLevel, Severity, Class
<1>3. EmailSarif(scan) = [f \in Found |-> "error"]
  BY <1>2 DEF EmailSarif
<1>4. /\ EmailHtml(scan).pass = {p \in Checks : scan[p].configured}
      /\ EmailHtml(scan).rows = [f \in Found |-> "err"]
  BY <1>2 DEF EmailHtml
<1>5. EmailHtmlBody(scan).rows =
        [f \in Found |-> IF Severity(f) = "critical" THEN "crit" ELSE EmailHtml(scan).rows[f]]
  BY DEF EmailHtmlBody, EmailHtml
<1>6. EmailHtmlBody(scan).rows = [f \in Found |-> IF Severity(f) = "critical" THEN "crit" ELSE "err"]
  BY <1>4, <1>5
<1>7. EmailCsv(scan) \ {"score"} = Found
  BY <1>1 DEF EmailCsv
<1> HIDE DEF Found
<1>8. WithLevel(EmailSarif(scan), "error") = Found /\ WithLevel(EmailHtml(scan).rows, "err") = Found
  BY <1>3, <1>4 DEF WithLevel
<1>9. WithLevel(EmailHtmlBody(scan).rows, "err") \cup WithLevel(EmailHtmlBody(scan).rows, "crit") = Found
  BY <1>6 DEF WithLevel
<1>10. DOMAIN EmailSarif(scan) = Found
  BY <1>3
<1>11. EmailHtml(scan).pass \cap Found = {} /\ EmailHtml(scan).pass \cup Found = Checks
  BY <1>1, <1>4
<1>12. QED BY <1>7, <1>8, <1>9, <1>10, <1>11 DEF EmailAgrees

(* The listings: what the report counts as the answers come is how many of *)
(* the answers kept are listings by a block list.                          *)
Black(hit) == hit.listed /\ hit.kind = "blacklist"
BlackOf(hits) == {i \in DOMAIN hits : Black(hits[i])}
ListInv ==
  /\ DOMAIN rep = DOMAIN RepIdle
  /\ \E S : rep.dnsbl \in Seq(S)
  /\ rep.listings = Cardinality(BlackOf(rep.dnsbl))

LEMMA ListIdleInv == (rep = RepIdle => ListInv) /\ (rep' = RepIdle => ListInv')
<1>1. RepIdle.dnsbl = << >> /\ RepIdle.listings = 0
  BY DEF RepIdle
<1>2. << >> \in Seq({}) /\ BlackOf(<< >>) = {}
  BY DEF BlackOf
<1>3. QED BY <1>1, <1>2, FS_EmptySet DEF ListInv

(* One answer more is one listing more, or none.                           *)
LEMMA BlackAppend ==
  ASSUME NEW S, NEW hits \in Seq(S), NEW hit
  PROVE  LET longer == Append(hits, hit) IN
         /\ \E T : longer \in Seq(T)
         /\ Cardinality(BlackOf(longer))
              = IF Black(hit) THEN Cardinality(BlackOf(hits)) + 1 ELSE Cardinality(BlackOf(hits))
<1> DEFINE longer == Append(hits, hit)
           n == Len(hits)
<1>1. hits \in Seq(S \cup {hit}) /\ n \in Nat /\ DOMAIN hits = 1..n
  BY LenProperties
<1>2. /\ longer \in Seq(S \cup {hit}) /\ DOMAIN longer = 1..(n + 1)
      /\ longer[n + 1] = hit /\ \A i \in 1..n : longer[i] = hits[i]
  BY <1>1, AppendProperties, LenProperties
<1> HIDE DEF longer, n
<1>3. BlackOf(longer) = IF Black(hit) THEN BlackOf(hits) \cup {n + 1} ELSE BlackOf(hits)
  <2>1. \A i : i \in BlackOf(longer) <=> (i \in BlackOf(hits) \/ (i = n + 1 /\ Black(hit)))
    <3>1. 1..(n + 1) = (1..n) \cup {n + 1} /\ n + 1 \notin 1..n
      BY <1>1
    <3>2. QED BY <1>1, <1>2, <3>1, Zenon DEF BlackOf
  <2>2. CASE Black(hit)
    BY <2>1, <2>2
  <2>3. CASE ~Black(hit)
    BY <2>1, <2>3
  <2>4. QED BY <2>2, <2>3
<1>4. IsFiniteSet(BlackOf(hits)) /\ n + 1 \notin BlackOf(hits)
  <2>1. BlackOf(hits) \subseteq 1..n
    BY <1>1 DEF BlackOf
  <2>2. IsFiniteSet(1..n)
    BY <1>1, FS_Interval
  <2>3. QED BY <1>1, <2>1, <2>2, FS_Subset
<1>5. Cardinality(BlackOf(hits) \cup {n + 1}) = Cardinality(BlackOf(hits)) + 1
  BY <1>4, FS_AddElement
<1>6. QED BY <1>2, <1>3, <1>5 DEF longer

(* A section that is not that of the lists leaves its part alone.          *)
LEMMA ListKept ==
  ASSUME ListInv, DOMAIN rep' = DOMAIN rep, Keeps("dnsbl"), Keeps("listings")
  PROVE  ListInv'
BY DEF ListInv, Keeps

LEMMA ListStepInv == ListInv /\ (ReputationOf \/ RepStep) => ListInv'
<1> SUFFICES ASSUME ListInv, ReputationOf \/ RepStep PROVE ListInv'
  OBVIOUS
<1>1. DOMAIN rep = {"at", "focus", "ips", "dnsbl", "listings", "svg", "vmc", "valid", "signed", "count",
                    "includes", "over", "zone", "lost", "keys"}
  BY RepFields DEF ListInv
<1>2. CASE ReputationOf
  <2>1. PICK s \in Sections : rep' = [rep EXCEPT !.at = "mx", !.focus = s]
    BY <1>2 DEF ReputationOf
  <2>2. QED BY <1>1, <2>1, ListKept DEF Keeps
<1>3. CASE ResolveMx
  <2>1. PICK ips : rep' = [rep EXCEPT !.at = "lists", !.ips = ips]
    BY <1>3 DEF ResolveMx
  <2>2. QED BY <1>1, <2>1, ListKept DEF Keeps
<1>4. CASE DnsblQuery
  <2>1. CASE rep' = [rep EXCEPT !.at = "bimi"]
    BY <1>1, <2>1, ListKept DEF Keeps
  <2>2. ASSUME NEW hit,
               rep' = [rep EXCEPT !.dnsbl = Append(@, hit), !.listings = IF Black(hit) THEN @ + 1 ELSE @]
        PROVE  ListInv'
    <3>1. PICK S : rep.dnsbl \in Seq(S)
      BY DEF ListInv
    <3>2. /\ DOMAIN rep' = DOMAIN rep /\ rep'.dnsbl = Append(rep.dnsbl, hit)
          /\ rep'.listings = IF Black(hit) THEN rep.listings + 1 ELSE rep.listings
      BY <1>1, <2>2
    <3>3. QED BY <3>1, <3>2, BlackAppend DEF ListInv
  <2>3. ASSUME rep' # [rep EXCEPT !.at = "bimi"]
        PROVE  \E hit : rep' = [rep EXCEPT !.dnsbl = Append(@, hit),
                                  !.listings = IF Black(hit) THEN @ + 1 ELSE @]
    BY <1>4, <2>3 DEF DnsblQuery, Black
  <2>4. QED BY <2>1, <2>2, <2>3
<1>5. CASE BimiLookup
  <2>1. PICK svg, vmc, valid : rep' = [rep EXCEPT !.at = "dnssec", !.svg = svg, !.vmc = vmc, !.valid = valid]
    BY <1>5 DEF BimiLookup
  <2>2. QED BY <1>1, <2>1, ListKept DEF Keeps
<1>6. CASE DnssecProbe
  <2>1. PICK signed : rep' = [rep EXCEPT !.at = "spf", !.signed = signed]
    BY <1>6 DEF DnssecProbe
  <2>2. QED BY <1>1, <2>1, ListKept DEF Keeps
<1>7. CASE SpfRecord
  <2>1. PICK zone, count, includes :
          rep' = [rep EXCEPT !.at = "include", !.zone = zone, !.count = count, !.includes = includes]
    BY <1>7 DEF SpfRecord
  <2>2. QED BY <1>1, <2>1, ListKept DEF Keeps
<1>8. CASE SpfInclude
  <2>1. CASE rep.includes = << >>
    <3>1. rep' = [rep EXCEPT !.at = "dkim", !.over = OverLimit(rep.count)]
      BY <1>8, <2>1 DEF SpfInclude
    <3>2. QED BY <1>1, <3>1, ListKept DEF Keeps
  <2>2. CASE rep.includes # << >>
    <3>1. PICK lost \in BOOLEAN :
            rep' = [rep EXCEPT !.includes = Tail(@), !.lost = @ \/ lost,
                      !.count = IF lost THEN @ ELSE @ + CountSpfLookups(rep.zone[Head(rep.includes)])]
      BY <1>8, <2>2 DEF SpfInclude
    <3>2. QED BY <1>1, <3>1, ListKept DEF Keeps
  <2>3. QED BY <2>1, <2>2
<1>9. CASE DkimHygiene
  <2>1. PICK keys : rep' = [rep EXCEPT !.at = "done", !.keys = keys]
    BY <1>9 DEF DkimHygiene
  <2>2. QED BY <1>1, <2>1, ListKept DEF Keeps
<1>10. QED BY <1>2, <1>3, <1>4, <1>5, <1>6, <1>7, <1>8, <1>9 DEF RepStep

LEMMA ListInvNext == ListInv /\ [Next]_vars => ListInv'
<1> SUFFICES ASSUME ListInv, [Next]_vars PROVE ListInv'
  OBVIOUS
<1>1. ReputationOf \/ RepStep \/ rep' = RepIdle \/ rep' = rep
  BY DEF Next, Server, Landing, HandleAttest, SelectMode, ClickCard, Submit, TypeUrl, FollowExport,
         Browsing, RequireDomain, Handle, Await, Respond, vars
<1>2. CASE rep' = rep
  BY <1>2 DEF ListInv
<1>3. QED BY <1>1, <1>2, ListStepInv, ListIdleInv

THEOREM ListingsAreCounted == Spec => []ListInv
<1>1. Init => ListInv
  BY ListIdleInv DEF Init
<1>2. QED BY <1>1, ListInvNext, PTL DEF Spec

(* The reputation report: by ListInv the number of its heading is that of  *)
(* the rows set off below it, and by SpfInv the two numbers HTML shows of  *)
(* the SPF record say what the flag of the other two does.                 *)
LEMMA ReputationsAgree ==
  ASSUME RepInv, SpfInv, ListInv, rep.at = "done"
  PROVE  ReputationAgrees(rep, Limit)
<1> DEFINE html == ReputationHtml(rep, Limit)
           sarif == ReputationSarif(rep)
           csv == ReputationCsv(rep)
           black == BlackOf(rep.dnsbl)
           K == DOMAIN rep.keys
           h(i) == HygieneOf(rep.keys[i])
<1>1. /\ sarif.dnsbl = black /\ sarif.spf = rep.over /\ sarif.dnssec = ~rep.signed
      /\ sarif.dkim = [i \in {i \in K : h(i) # "ok"} |-> IF h(i) = "weak" THEN "warning" ELSE "error"]
  BY DEF ReputationSarif, BlackOf, Black
<1>2. /\ html.signed = rep.signed /\ html.listings = rep.listings
      /\ html.lookups[1] = rep.count /\ html.lookups[2] = Limit
      /\ html.dnsbl = [i \in DOMAIN rep.dnsbl |-> IF Black(rep.dnsbl[i]) THEN "err"
                                                  ELSE IF rep.dnsbl[i].listed THEN "ok" ELSE "plain"]
      /\ html.dkim = [i \in K |-> CASE h(i) = "ok" -> "ok" [] h(i) = "weak" -> "warn" [] OTHER -> "err"]
  BY DEF ReputationHtml, Black
<1>3. /\ csv.dnsbl = {i \in DOMAIN rep.dnsbl : rep.dnsbl[i].listed} /\ csv.signed = rep.signed
      /\ csv.over = rep.over /\ csv.dkim = [i \in K |-> h(i)]
  BY DEF ReputationCsv
<1>4. rep.signed \in BOOLEAN /\ rep.listings = Cardinality(black)
  BY DEF RepInv, ListInv
<1>5. rep.over = (rep.count > Limit)
  BY DEF SpfInv, OverLimit
<1> HIDE DEF html, sarif, csv, h, K
<1>6. WithLevel(html.dnsbl, "err") = black
  BY <1>2 DEF WithLevel, BlackOf
<1>7. csv.dnsbl = WithLevel(html.dnsbl, "err") \cup WithLevel(html.dnsbl, "ok")
  BY <1>2, <1>3 DEF WithLevel, Black
<1>8. WithLevel(sarif.dkim, "error") = WithLevel(html.dkim, "err")
  BY <1>1, <1>2 DEF WithLevel
<1>9. WithLevel(sarif.dkim, "warning") = WithLevel(html.dkim, "warn")
  BY <1>1, <1>2 DEF WithLevel
<1>10. \A i \in K : csv.dkim[i] # "ok" <=> i \in DOMAIN sarif.dkim
  BY <1>1, <1>3
<1>11. csv.over = sarif.spf /\ (sarif.spf <=> html.lookups[1] > html.lookups[2])
  BY <1>1, <1>2, <1>3, <1>5
<1>12. html.signed # sarif.dnssec /\ csv.signed = html.signed
  BY <1>1, <1>2, <1>3, <1>4
<1> HIDE DEF black
<1>13. html.listings = Cardinality(sarif.dnsbl)
  BY <1>1, <1>2, <1>4
<1>14. QED BY <1>1, <1>6, <1>7, <1>8, <1>9, <1>10, <1>11, <1>12, <1>13
           DEF ReputationAgrees, html, sarif, csv, K

(* The leak report: the lookalikes of the three documents are the same,    *)
(* and a document that says "None" throughout goes with one of no result.  *)
LEMMA LeaksAgree ==
  ASSUME LeakInv
  PROVE  LeakAgrees(leak)
<1> DEFINE C == {i \in DOMAIN leak.hits : CertIssued(leak.hits[i])}
           Parts == {"breaches", "github", "lookalikes"}
<1>1. LeakHtml(leak).none = {s \in Parts : CASE s = "lookalikes" -> C = {} [] OTHER -> leak[s] = 0}
  BY DEF LeakHtml
<1>2. LeakHtml(leak).lookalikes = Cardinality(C) /\ LeakHtml(leak).rows = C
  BY DEF LeakHtml
<1>3. LeakSarif(leak) = [breach |-> leak.breaches, github |-> leak.github, lookalike |-> C]
  BY DEF LeakSarif
<1>4. LeakCsv(leak).lookalike = C
  BY DEF LeakCsv
<1> HIDE DEF C
<1>5. LeakHtml(leak).none = Parts <=> leak.breaches = 0 /\ leak.github = 0 /\ C = {}
  BY <1>1
<1>6. LeakSarif(leak) = [breach |-> 0, github |-> 0, lookalike |-> {}]
        <=> leak.breaches = 0 /\ leak.github = 0 /\ C = {}
  BY <1>3
<1>7. QED BY <1>2, <1>3, <1>4, <1>5, <1>6 DEF LeakAgrees

(* export.rs, of a finished scan, reputation report or leak report: SARIF, *)
(* CSV and HTML, which filter, count and class each on its own, show the   *)
(* same findings, block listings, keys below "ok", DNSSEC state and        *)
(* lookalikes; the number of listings counted during the run is that of    *)
(* the rows; and the flag of SARIF and CSV for the SPF limit is what the   *)
(* two numbers of HTML say.  What only one of them shows, and the report   *)
(* of /discover, it is not about.                                          *)
THEOREM ExportsFlagAlike == Spec => []ExportsAgree
<1>1. ScanInv /\ RepInv /\ SpfInv /\ ListInv /\ LeakInv => ExportsAgree
  BY EmailsAgree, ReputationsAgree, LeaksAgree DEF ExportsAgree
<1>2. QED BY <1>1, ScansKeepTheirInvariant, ReportsKeepTheirInvariant, SpfIsCounted, ListingsAreCounted,
             LeaksKeepTheirInvariant, PTL
=============================================================================
