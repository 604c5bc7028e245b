----------------------------- MODULE MCRuaRollup -----------------------------
EXTENDS RuaRollup

Rec(ip, n, dk, sp, disp) ==
  [source_ip |-> ip, count |-> n, dkim_aligned |-> dk, spf_aligned |-> sp,
   disposition |-> disp, header_from |-> IF disp = "other" THEN << >> ELSE <<"h">>]
Rep(id, org, dom, b, recs) ==
  [report_id |-> id, org_name |-> org, policy_domain |-> dom, begin |-> b, records |-> recs]

(* Two organisations about the domain, one of them twice about an address; *)
(* a report about another domain, older than the others and from one of    *)
(* the organisations; and one that reuses a report_id of the other         *)
(* organisation.                                                           *)
A == Rep("i1", "google", "d", 3, <<Rec("ip1", 2, TRUE, FALSE, "none"), Rec("ip2", 1, FALSE, FALSE, "reject")>>)
B == Rep("i2", "yahoo", "d", 2, <<Rec("ip1", 4, FALSE, TRUE, "quarantine"), Rec("ip1", 1, TRUE, TRUE, "other")>>)
C == Rep("i3", "google", "e", 1, <<Rec("ip3", 8, FALSE, FALSE, "none")>>)
D == Rep("i1", "yahoo", "d", NoDate, <<Rec("ip2", 16, TRUE, TRUE, "none")>>)
MCReports == {A, B, C, D}

Ok(r) == [is |-> "report", report |-> r]
Bad == [is |-> "malformed"]
Broken == [is |-> "broken"]
Other == [is |-> "other"]
File(k, docs) == [kind |-> k, docs |-> docs]
MCContents ==
  {File("xml", <<Ok(r)>>) : r \in MCReports}
  \cup {File("gz", <<Bad>>), File("ignored", <<Ok(A)>>), File("zip", << >>)}
  \cup {File("zip", <<Ok(A), Bad, Ok(B)>>), File("zip", <<Ok(C), Other, Ok(C)>>),
        File("zip", <<Ok(D), Ok(A)>>), File("zip", <<Ok(B), Broken>>)}
==============================================================================
