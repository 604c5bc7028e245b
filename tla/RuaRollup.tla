------------------------------- MODULE RuaRollup -------------------------------
(***************************************************************************)
(* src/src/rua/aggregate.rs: `cymail rua aggregate`.  Every report file of *)
(* a directory is parsed (xml, gz and zip), reports are kept once per      *)
(* report_id, and what they say of the domain is added up by sending       *)
(* address and by organisation.  The directory is read in any order.       *)
(***************************************************************************)
EXTENDS Naturals, Sequences, SequencesExt, FiniteSetsExt, Functions, Sums

CONSTANTS
  Reports,    \* the reports that the parser returns in this instance
  Files,      \* names of the directory
  Contents,   \* what a file may hold
  Domain      \* expected_domain; AnyDomain is ""

AnyDomain == "any"
NoDate == 0

Recs(R) == UNION {ToSet(r.records) : r \in R}
Ips(R)  == {rec.source_ip : rec \in Recs(R)}
Orgs(R) == {r.org_name : r \in R}

ASSUME ReportsAssumption ==
  \A r \in Reports :
    /\ r.begin \in Nat /\ r.records \in Seq(Recs(Reports))
    /\ \A rec \in ToSet(r.records) :
         rec.count \in Nat /\ rec.dkim_aligned \in BOOLEAN /\ rec.spf_aligned \in BOOLEAN

(* A file's kind, and for each of its documents the outcome of parse():    *)
(* a report, or not.  An archive's member that cannot be read is "broken". *)
Document == [is : {"report"}, report : Reports] \cup [is : {"malformed", "broken", "other"}]

ASSUME ConstantsAssumption ==
  Contents \subseteq [kind : {"xml", "gz", "zip", "ignored"}, docs : Seq(Document)]

VARIABLES
  dir,        \* Files -> Contents, fixed
  pending,    \* directory entries not yet visited
  seen,       \* seen_report_ids
  reports,    \* all_reports
  rollup      \* << >>, or the RuaRollup

vars == <<dir, pending, seen, reports, rollup>>

Init ==
  /\ dir \in [Files -> Contents] /\ pending = Files
  /\ seen = {} /\ reports = << >> /\ rollup = << >>

------------------------------------------------------------------------------
(* parse_file()                                                            *)

ReportsIn(docs) ==
  FlattenSeq([i \in DOMAIN docs |->
    IF docs[i].is = "report" THEN <<docs[i].report>> ELSE << >>])

(* A malformed member of an archive is skipped; an unreadable one fails    *)
(* the file, with the reports already taken from it.                       *)
Parsed(file) ==
  IF file.kind = "ignored" THEN << >>
  ELSE IF file.kind = "zip" /\ \E i \in DOMAIN file.docs : file.docs[i].is = "broken" THEN << >>
  ELSE ReportsIn(file.docs)

(* rollup_dir(): the first report of an id is kept.                        *)
Insert(acc, r) ==
  IF r.report_id \in acc.seen THEN acc
  ELSE [seen |-> acc.seen \cup {r.report_id}, kept |-> Append(acc.kept, r)]

Inserted(acc, rs) ==
  LET into[i \in 0..Len(rs)] == IF i = 0 THEN acc ELSE Insert(into[i - 1], rs[i])
  IN  into[Len(rs)]

Visit ==
  /\ \E f \in pending :
       LET acc == Inserted([seen |-> seen, kept |-> reports], Parsed(dir[f]))
       IN  seen' = acc.seen /\ reports' = acc.kept /\ pending' = pending \ {f}
  /\ UNCHANGED <<dir, rollup>>

------------------------------------------------------------------------------
(* rollup_from_reports()                                                   *)

NoIp  == [messages |-> 0, dkim_aligned |-> 0, spf_aligned |-> 0,
          none |-> 0, quarantine |-> 0, reject |-> 0, header_froms |-> {}]
NoOrg == [reports |-> 0, messages_seen |-> 0]

(* HashMap::entry(k).or_insert_with(d), then changed to v.                 *)
Entry_Fresh(map, k, d) == d      \* mutant: the old entry is overwritten
Entry(map, k, d) == IF k \in DOMAIN map THEN map[k] ELSE d
Put(map, k, v) == [x \in DOMAIN map \cup {k} |-> IF x = k THEN v ELSE map[x]]

Foreign(r) == Domain # AnyDomain /\ r.policy_domain # Domain
Count(cond, rec) == IF cond THEN rec.count ELSE 0

IpWith(ip, rec) ==
  [messages     |-> ip.messages + rec.count,
   dkim_aligned |-> ip.dkim_aligned + Count(rec.dkim_aligned, rec),
   spf_aligned  |-> ip.spf_aligned + Count(rec.spf_aligned, rec),
   none         |-> ip.none + Count(rec.disposition = "none", rec),
   quarantine   |-> ip.quarantine + Count(rec.disposition = "quarantine", rec),
   reject       |-> ip.reject + Count(rec.disposition = "reject", rec),
   header_froms |-> ip.header_froms \cup ToSet(rec.header_from)]

Aligned_Both(rec) == rec.dkim_aligned /\ rec.spf_aligned      \* mutant
Aligned(rec) == rec.dkim_aligned \/ rec.spf_aligned

AddRecord(acc, rec) ==
  [acc EXCEPT !.records_seen = @ + 1,
              !.messages_total = @ + rec.count,
              !.messages_aligned = @ + Count(Aligned(rec), rec),
              !.seen = @ + rec.count,
              !.by_ip = Put(@, rec.source_ip, IpWith(Entry(@, rec.source_ip, NoIp), rec))]

AddRecords(acc, recs) ==
  LET with[i \in 0..Len(recs)] == IF i = 0 THEN acc ELSE AddRecord(with[i - 1], recs[i])
  IN  with[Len(recs)]

Counts(r) == [i \in DOMAIN r.records |-> r.records[i].count]

Earlier(a, b) == IF a = NoDate \/ (b # NoDate /\ b < a) THEN b ELSE a

(* Dates and the organisation's bucket come before the domain is looked at.*)
AddReport(acc, r) ==
  LET org == Entry(acc.by_org, r.org_name, NoOrg)
      dated == [acc EXCEPT !.begin = Earlier(@, r.begin), !.seen = 0]
      a == IF Foreign(r)
             THEN [dated EXCEPT !.orphan_records = @ + Total(Counts(r))]
             ELSE AddRecords(dated, r.records)
  IN  [a EXCEPT !.by_org = Put(@, r.org_name,
                  [reports |-> org.reports + 1, messages_seen |-> org.messages_seen + a.seen])]

NoRollup == [begin |-> NoDate, records_seen |-> 0, messages_total |-> 0, messages_aligned |-> 0,
             seen |-> 0, orphan_records |-> 0, by_ip |-> << >>, by_org |-> << >>]

RollupOf(rs) ==
  LET of[i \in 0..Len(rs)] == IF i = 0 THEN NoRollup ELSE AddReport(of[i - 1], rs[i])
  IN  of[Len(rs)]

Rollup ==
  /\ pending = {} /\ rollup = << >>
  /\ rollup' = <<RollupOf(reports)>>
  /\ UNCHANGED <<dir, pending, seen, reports>>

Next == Visit \/ Rollup

Spec == Init /\ [][Next]_vars

------------------------------------------------------------------------------
(* What the directory holds, in no order: the reports of its readable      *)
(* files, and the lines of those about the domain.  A line is a place in a *)
(* report, as two of its records may be the same.                          *)

Held == UNION {ToSet(Parsed(dir[f])) : f \in Files}
Own(R) == {r \in R : ~Foreign(r)}
Lines(R) == UNION {{<<r, i>> : i \in DOMAIN r.records} : r \in R}
RecordAt(l) == l[1].records[l[2]]

All == Recs(Reports)
OfIp(ip) == {rec \in All : rec.source_ip = ip}
DkimAligned == {rec \in All : rec.dkim_aligned}
SpfAligned  == {rec \in All : rec.spf_aligned}

(* The messages of those lines of L whose record is in Q.                  *)
Sum(L, Q) == SumFunction([l \in L |-> Count(RecordAt(l) \in Q, RecordAt(l))])

(* No two reports with the same id.                                        *)
IdsIdentify == \A r, s \in Held : r.report_id = s.report_id => r = s

(* The rollup is that of the reports the directory holds, whatever the     *)
(* order in which its entries are read and however often a report is in    *)
(* it, as long as a report_id identifies a report.                         *)
RollupIsOfTheDirectory ==
  (rollup # << >> /\ IdsIdentify) =>
    LET R == rollup[1]
        L == Lines(Own(Held))
    IN  /\ DOMAIN R.by_ip = Ips(Own(Held))
        /\ \A ip \in DOMAIN R.by_ip :
             /\ R.by_ip[ip].messages = Sum(L, OfIp(ip))
             /\ R.by_ip[ip].dkim_aligned = Sum(L, OfIp(ip) \cap DkimAligned)
             /\ R.by_ip[ip].spf_aligned = Sum(L, OfIp(ip) \cap SpfAligned)
        /\ R.messages_aligned = Sum(L, DkimAligned \cup SpfAligned)
        /\ R.records_seen = Cardinality(L)
        /\ DOMAIN R.by_org = Orgs(Held)

(* No message is lost or counted twice between the tables: those of the    *)
(* addresses and those of the organisations both make up the total, the    *)
(* total and the orphans make up all that was reported, and no address has *)
(* more dispositions or alignments than messages.                          *)
MessagesAreConserved ==
  rollup # << >> =>
    LET R == rollup[1] IN
      /\ SumFunction([ip \in DOMAIN R.by_ip |-> R.by_ip[ip].messages]) = R.messages_total
      /\ SumFunction([o \in DOMAIN R.by_org |-> R.by_org[o].messages_seen]) = R.messages_total
      /\ SumFunction([o \in DOMAIN R.by_org |-> R.by_org[o].reports]) = Len(reports)
      /\ R.messages_total + R.orphan_records = Sum(Lines(ToSet(reports)), All)
      /\ R.messages_aligned <= R.messages_total
      /\ \A ip \in DOMAIN R.by_ip :
           LET x == R.by_ip[ip] IN
             /\ x.none + x.quarantine + x.reject <= x.messages
             /\ x.dkim_aligned <= x.messages /\ x.spf_aligned <= x.messages

(* "Skip reports unrelated to the domain we asked for": the date range is  *)
(* that of the domain's reports.  The dates are taken before; given as     *)
(* INVARIANT to RuaRollup.cfg this is refuted.                             *)
DatesAreTheDomains ==
  (rollup # << >> /\ Own(Held) # {} /\ IdsIdentify) =>
    \E r \in Own(Held) : rollup[1].begin = r.begin
==============================================================================
