------------------------------ MODULE Posture ------------------------------
(***************************************************************************)
(* `cymail scan`: scan.rs runs spf.rs, dkim.rs and dmarc.rs one after the  *)
(* other, and scoring.rs over what they found.  Each of the three reads    *)
(* its DNS TXT record by substring.                                        *)
(***************************************************************************)
EXTENDS Integers, Sequences, DkimKey

CONSTANT Selectors       \* how many DKIM selectors are tried (7)
ASSUME SelectorsAssumption == Selectors \in Nat \ {0}

VARIABLE scan            \* the report in the making; zone: the answers, history

(* An SPF record: the term that ends it, if any, and the all-terms that    *)
(* occur within other terms (include:mail-all.example).                    *)
Alls == {"-all", "~all", "?all", "+all", "all", "absent"}
SpfText == [all : Alls, within : SUBSET {"-all"}]

(* A DMARC record: its tags and how it is written: plainly, in capitals,   *)
(* or with spaces around "=", as RFC 7489 allows.                          *)
Policies == {"none", "quarantine", "reject"}
DmarcText == [p : Policies, sp : Policies \cup {"absent"}, rua : BOOLEAN,
              style : {"plain", "capital", "spaced"}]

(* The answer to a TXT lookup: a record of the kind asked for, or none of  *)
(* that kind ("ok"), no TXT record at all ("nx"), or a failure; to the     *)
(* resolver's caller the last two are errors.                              *)
Answer == [code |-> "ok", txt |-> {}]
Answers(Texts) ==
  {[Answer EXCEPT !.code = c] : c \in {"ok", "nx", "failed"}}
    \cup {[Answer EXCEPT !.txt = {t}] : t \in Texts}
TheText(a) == CHOOSE t \in a.txt : TRUE

(* A ProtoResult, without the text of the record.                          *)
Result(policy, issues) == [configured |-> TRUE, policy |-> policy, issues |-> issues]
NoResult(issues) == [configured |-> FALSE, policy |-> "absent", issues |-> issues]
Missing(a, issue) == NoResult({IF a.code = "ok" THEN issue ELSE "DNS failed"})

ScanIdle ==
  [at |-> "idle", spf |-> NoResult({}), dkim |-> NoResult({}), dmarc |-> NoResult({}),
   points |-> 0, grade |-> "absent", findings |-> {},
   zone |-> [spf |-> Answer, dkim |-> <<>>, dmarc |-> Answer]]

------------------------------------------------------------------------------
SpfHas(t, all) == all \in {t.all} \cup t.within

SpfResult(t) ==
  Result(IF SpfHas(t, "-all") THEN "strict" ELSE IF SpfHas(t, "~all") THEN "soft" ELSE "permissive",
         {i \in {"Permissive +all"} : SpfHas(t, "+all")})

CheckSpf ==
  /\ scan.at = "spf"
  /\ \E a \in Answers(SpfText) :
       scan' = [scan EXCEPT !.at = "dkim", !.zone.spf = a,
                  !.spf = IF a.txt = {} THEN Missing(a, "No SPF record") ELSE SpfResult(TheText(a))]

(* Mutant: a lookup that fails ends the search.                            *)
Searched_UntilError(answers) ==
  LET a == answers[Len(answers)] IN a.txt # {} \/ a.code # "ok" \/ Len(answers) = Selectors

(* The selectors are tried until one has a p= tag; a failed lookup is like *)
(* an absent record.                                                       *)
Searched(answers) ==
  LET a == answers[Len(answers)] IN a.txt # {} \/ Len(answers) = Selectors

DkimResult(k) == Result("selector", {i \in {"DKIM-KEY-WEAK"} : IsWeak(k)})

CheckDkim ==
  /\ scan.at = "dkim"
  /\ \E a \in Answers(Keys) :
       LET answers == Append(scan.zone.dkim, a) IN
       scan' = [scan EXCEPT !.zone.dkim = answers,
                  !.at = IF Searched(answers) THEN "dmarc" ELSE @,
                  !.dkim = IF a.txt = {} THEN NoResult({"No DKIM found"}) ELSE DkimResult(TheText(a))]

(* contains("p=...") is as true of sp=... .                                *)
Mentions(t, policy) == t.style = "plain" /\ policy \in {t.p, t.sp}

(* Mutant: the weaker policy is looked for first.                          *)
PolicyOf_WeakerFirst(t) ==
  IF Mentions(t, "quarantine") THEN "quarantine" ELSE IF Mentions(t, "reject") THEN "reject" ELSE "none"

PolicyOf(t) ==
  IF Mentions(t, "reject") THEN "reject" ELSE IF Mentions(t, "quarantine") THEN "quarantine" ELSE "none"

ExtractSp(t) == IF t.style = "spaced" THEN "absent" ELSE t.sp

DmarcResult(t) ==
  LET p == PolicyOf(t)
      sp == ExtractSp(t)
      holds == [policy_is_none |-> p = "none",
                no_aggregate_reporting |-> t.style # "plain" \/ ~t.rua,
                sp_missing_when_p_none |-> p = "none" /\ sp = "absent",
                sp_weaker_than_p |-> \/ p # "none" /\ sp = "none"
                                     \/ p = "reject" /\ sp = "quarantine"]
  IN Result(p, {i \in DOMAIN holds : holds[i]})

CheckDmarc ==
  /\ scan.at = "dmarc"
  /\ \E a \in Answers(DmarcText) :
       scan' = [scan EXCEPT !.at = "score", !.zone.dmarc = a,
                  !.dmarc = IF a.txt = {} THEN Missing(a, "No DMARC") ELSE DmarcResult(TheText(a))]

------------------------------------------------------------------------------
(* Mutant: TLS and MTA-STS are given their 15 points each.                 *)
Points_TwoPlaceholders(spf, dkim, dmarc) ==
  30 + (IF ~spf.configured THEN 0 ELSE IF spf.policy = "strict" THEN 25 ELSE 20)
     + (IF dkim.configured THEN 25 ELSE 0) + (IF dmarc.configured THEN 25 ELSE 0)

(* scoring.rs; 15 points stand for TLS and MTA-STS, which nothing checks.  *)
Points(spf, dkim, dmarc) ==
  15 + (IF ~spf.configured THEN 0 ELSE IF spf.policy = "strict" THEN 25 ELSE 20)
     + (IF dkim.configured THEN 25 ELSE 0)
     + (IF ~dmarc.configured THEN 0
        ELSE CASE dmarc.policy = "reject"     -> 25
               [] dmarc.policy = "quarantine" -> 20
               [] OTHER                       -> 15)

Grade(s) ==
  CASE s \in 90..100 -> "A" [] s \in 75..89 -> "B" [] s \in 60..74 -> "C"
    [] s \in 40..59  -> "D" [] OTHER -> "F"

Calculate ==
  /\ scan.at = "score"
  /\ LET s == Points(scan.spf, scan.dkim, scan.dmarc) IN
     scan' = [scan EXCEPT !.at = "done", !.points = s, !.grade = Grade(s),
                !.findings = {f \in {"spf", "dkim", "dmarc"} : ~scan[f].configured}]

ScanDomain == scan = ScanIdle /\ scan' = [scan EXCEPT !.at = "spf"]
ScanStep == CheckSpf \/ CheckDkim \/ CheckDmarc \/ Calculate

------------------------------------------------------------------------------
(* What the records themselves say, by RFC 7208, 6376 and 7489.            *)
Strength(policy) == CASE policy = "reject" -> 2 [] policy = "quarantine" -> 1 [] OTHER -> 0
Scanned == scan.at = "done"
Zone == scan.zone
HasKey == \E i \in DOMAIN Zone.dkim : \E k \in Zone.dkim[i].txt : k.form \notin {"empty", "junk"}
Strict == \E t \in Zone.spf.txt : t.all = "-all"

(* Records in which a substring is the tag: lower case, no spaces, no      *)
(* all-term within another term, a subdomain policy no stronger than the   *)
(* domain's, a key that is not revoked.                                    *)
Plain ==
  /\ \A t \in Zone.spf.txt : t.within = {}
  /\ \A i \in DOMAIN Zone.dkim : \A k \in Zone.dkim[i].txt : k.form \notin {"empty", "junk"}
  /\ \A t \in Zone.dmarc.txt : t.style = "plain" /\ Strength(t.sp) <= Strength(t.p)

Earned ==
  /\ scan.spf.configured = (Zone.spf.txt # {})
  /\ (scan.spf.policy = "strict") = Strict
  /\ scan.dkim.configured = HasKey /\ (HasKey \/ Len(Zone.dkim) = Selectors)
  /\ scan.dmarc.policy = IF Zone.dmarc.txt = {} THEN "absent" ELSE TheText(Zone.dmarc).p
  /\ (scan.grade = "A") = (Strict /\ HasKey /\ \E t \in Zone.dmarc.txt : t.p = "reject")

(* Of plain records every protocol is rated by what its record says, and   *)
(* only -all with a key and p=reject gets the best grade, whichever        *)
(* lookups fail; no key is reported only when every selector was asked.    *)
ScoreIsEarned == Scanned /\ Plain => Earned

(* A subdomain policy weaker than the domain's, or one that is missing     *)
(* where the domain's is none, is reported, and nothing else is: although  *)
(* both are looked for as substrings of one text, of every record in plain *)
(* writing whose subdomain policy is not the stronger of the two.          *)
SubdomainPolicyIsJudged ==
  Scanned /\ Plain =>
    \A t \in Zone.dmarc.txt :
      /\ "sp_weaker_than_p" \in scan.dmarc.issues <=> t.sp # "absent" /\ Strength(t.sp) < Strength(t.p)
      /\ "sp_missing_when_p_none" \in scan.dmarc.issues <=> t.sp = "absent" /\ t.p = "none"

------------------------------------------------------------------------------
(* What the documentation says and the code does not keep.                 *)

(* "Tags are case-insensitive per RFC 7489": the verdicts are those of the *)
(* records however they are written.  sp=reject makes p=none a reject, a   *)
(* revoked key counts, P=REJECT is none.                                   *)
EveryRecordIsRead == Scanned => Earned

(* "No SPF", "fully spoofable": also of a domain whose lookup failed.      *)
AbsenceIsObserved ==
  Scanned => /\ "spf" \in scan.findings => Zone.spf.code # "failed"
             /\ "dmarc" \in scan.findings => Zone.dmarc.code # "failed"
=============================================================================
