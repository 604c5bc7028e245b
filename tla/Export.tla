------------------------------- MODULE Export -------------------------------
(***************************************************************************)
(* src/src/export.rs: what SARIF, CSV and HTML show of a finished report   *)
(* of Posture, Reputation, Leak or Discover.  A document is the entries it *)
(* has; layout and wording are left out.                                   *)
(***************************************************************************)
EXTENDS Integers, Sequences, FiniteSets, DkimKey

Severity(finding) == IF finding = "dmarc" THEN "critical" ELSE "high"
SarifLevel(severity) ==
  CASE severity \in {"critical", "high"}  -> "error"
    [] severity \in {"medium", "warning"} -> "warning"
    [] severity \in {"low", "info"}       -> "note"
    [] OTHER -> "none"
Class(severity) ==
  CASE severity \in {"critical", "high"} -> "err" [] severity = "medium" -> "warn" [] OTHER -> "ok"

EmailSarif(r) == [f \in r.findings |-> SarifLevel(Severity(f))]
(* Without findings one row has the score alone.                           *)
EmailCsv(r) == IF r.findings = {} THEN {"score"} ELSE r.findings
(* The document of the command, and the page of the web UI, which sets a   *)
(* critical finding off from a high one.                                   *)
EmailHtml(r) ==
  [pass |-> {p \in {"spf", "dkim", "dmarc"} : r[p].configured},
   rows |-> [f \in r.findings |-> Class(Severity(f))]]
EmailHtmlBody(r) ==
  [EmailHtml(r) EXCEPT !.rows = [f \in r.findings |-> IF Severity(f) = "critical" THEN "crit" ELSE @[f]]]

------------------------------------------------------------------------------
HygieneOf(k) == Analyse(k).hygiene

(* Mutant: every list that knows the address is taken for a block list.    *)
ReputationSarif_AnyList(r) ==
  [dnsbl  |-> {i \in DOMAIN r.dnsbl : r.dnsbl[i].listed},
   spf    |-> r.over,
   dkim   |-> [i \in {i \in DOMAIN r.keys : HygieneOf(r.keys[i]) # "ok"} |->
                 IF HygieneOf(r.keys[i]) = "weak" THEN "warning" ELSE "error"],
   dnssec |-> ~r.signed]

(* The results, by rule; those of a rule for keys with their levels.       *)
ReputationSarif(r) ==
  [dnsbl  |-> {i \in DOMAIN r.dnsbl : r.dnsbl[i].listed /\ r.dnsbl[i].kind = "blacklist"},
   spf    |-> r.over,
   dkim   |-> [i \in {i \in DOMAIN r.keys : HygieneOf(r.keys[i]) # "ok"} |->
                 IF HygieneOf(r.keys[i]) = "weak" THEN "warning" ELSE "error"],
   dnssec |-> ~r.signed]
(* A row per listing, which does not tell of which kind the list is.       *)
ReputationCsv(r) ==
  [dnsbl |-> {i \in DOMAIN r.dnsbl : r.dnsbl[i].listed}, over |-> r.over, signed |-> r.signed,
   dkim  |-> [i \in DOMAIN r.keys |-> HygieneOf(r.keys[i])]]
(* Every query has a row.  Of the SPF record only its lookups and their    *)
(* limit are shown, not that they exceed it.                               *)
ReputationHtml(r, limit) ==
  [listings |-> r.listings, signed |-> r.signed, lookups |-> <<r.count, limit>>,
   dnsbl |-> [i \in DOMAIN r.dnsbl |-> IF r.dnsbl[i].listed /\ r.dnsbl[i].kind = "blacklist" THEN "err"
                                       ELSE IF r.dnsbl[i].listed THEN "ok" ELSE "plain"],
   dkim  |-> [i \in DOMAIN r.keys |-> LET h == HygieneOf(r.keys[i]) IN
                CASE h = "ok" -> "ok" [] h = "weak" -> "warn" [] OTHER -> "err"]]

------------------------------------------------------------------------------
(* The lookalikes shown, by their place in the report; cert_issued is that *)
(* a recent certificate was found.                                         *)
CertIssued(hit) == hit.recent # {}
LeakSarif(r) ==
  [breach |-> r.breaches, github |-> r.github, lookalike |-> {i \in DOMAIN r.hits : CertIssued(r.hits[i])}]

(* Mutant: the rows are those of all the variants.                         *)
LeakCsv_Every(r) == [breach |-> r.breaches, github |-> r.github, lookalike |-> DOMAIN r.hits]
LeakCsv(r) ==
  [breach |-> r.breaches, github |-> r.github, lookalike |-> {i \in DOMAIN r.hits : CertIssued(r.hits[i])}]
(* Three numbers, and three sections of rows or of the word "None".        *)
LeakHtml(r) ==
  LET cert == {i \in DOMAIN r.hits : CertIssued(r.hits[i])} IN
  [breaches |-> r.breaches, github |-> r.github,
   lookalikes |-> Cardinality({i \in DOMAIN r.hits : CertIssued(r.hits[i])}), rows |-> cert,
   none |-> {s \in {"breaches", "github", "lookalikes"} :
               CASE s = "lookalikes" -> cert = {} [] OTHER -> r[s] = 0}]

------------------------------------------------------------------------------
Flags == {"blacklisted", "malicious", "credentials_leaked", "data_breach"}
(* The level of an address: each flag that is set overrides the one before.*)
DiscoveryLevel(flags) ==
  IF flags \cap {"credentials_leaked", "data_breach"} # {} THEN "warning"
  ELSE IF flags # {} THEN "error" ELSE "note"
DiscoveryBadges(flags) ==
  {IF f \in {"blacklisted", "malicious"} THEN "err" ELSE "warn" : f \in flags}

------------------------------------------------------------------------------
(* Where the documents of one report show the same thing, they agree on    *)
(* it.                                                                     *)
WithLevel(f, level) == {x \in DOMAIN f : f[x] = level}

(* E-mail: SARIF's errors are the rows both forms of HTML set off, and the *)
(* rows of CSV; and they are the checks that HTML does not show as passed. *)
EmailAgrees(r) ==
  /\ WithLevel(EmailSarif(r), "error") = WithLevel(EmailHtml(r).rows, "err")
  /\ DOMAIN EmailSarif(r) = WithLevel(EmailHtmlBody(r).rows, "err") \cup WithLevel(EmailHtmlBody(r).rows, "crit")
  /\ DOMAIN EmailSarif(r) = EmailCsv(r) \ {"score"}
  /\ EmailHtml(r).pass \cap DOMAIN EmailSarif(r) = {}
  /\ EmailHtml(r).pass \cup DOMAIN EmailSarif(r) = {"spf", "dkim", "dmarc"}

(* Reputation: the listings of SARIF are the rows HTML sets off and are as *)
(* many as its heading says; those of CSV are the rows HTML shows as       *)
(* listed, trust lists among them.  SARIF and CSV say that the SPF record  *)
(* is over the limit exactly when HTML's two numbers do.                   *)
ReputationAgrees(r, limit) ==
  LET html == ReputationHtml(r, limit)
      sarif == ReputationSarif(r)
      csv == ReputationCsv(r) IN
  /\ sarif.dnsbl = WithLevel(html.dnsbl, "err")
  /\ html.listings = Cardinality(sarif.dnsbl)
  /\ csv.dnsbl = WithLevel(html.dnsbl, "err") \cup WithLevel(html.dnsbl, "ok")
  /\ WithLevel(sarif.dkim, "error") = WithLevel(html.dkim, "err")
  /\ WithLevel(sarif.dkim, "warning") = WithLevel(html.dkim, "warn")
  /\ \A i \in DOMAIN r.keys : csv.dkim[i] # "ok" <=> i \in DOMAIN sarif.dkim
  /\ csv.over = sarif.spf /\ (sarif.spf <=> html.lookups[1] > html.lookups[2])
  /\ html.signed # sarif.dnssec /\ csv.signed = html.signed

(* Leak: the same lookalikes in all three, as many as HTML's number says;  *)
(* and HTML says "None" three times exactly when SARIF has no result.      *)
LeakAgrees(r) ==
  LET html == LeakHtml(r)
      sarif == LeakSarif(r)
      csv == LeakCsv(r) IN
  /\ sarif.lookalike = html.rows /\ csv.lookalike = html.rows
  /\ html.lookalikes = Cardinality(sarif.lookalike)
  /\ html.none = {"breaches", "github", "lookalikes"}
       <=> sarif = [breach |-> 0, github |-> 0, lookalike |-> {}]

(* What the documentation says and the code does not keep.                 *)
(* level is "error" for the worst of an address' flags, as its badge is.   *)
WorstFlagCounts == \A flags \in SUBSET Flags : DiscoveryLevel(flags) = "error" <=> "err" \in DiscoveryBadges(flags)
=============================================================================
