------------------------------- MODULE RuaParse -------------------------------
(***************************************************************************)
(* src/src/rua/xml_parser.rs: parse() walks the events quick-xml makes of  *)
(* a DMARC aggregate report.  The same names occur in several places of a  *)
(* report (dkim and spf in policy_evaluated and in auth_results, domain in *)
(* policy_published and in auth_results), so where a value goes is decided *)
(* from the names on the parser's stack.  The document is written by the   *)
(* environment, event by event, along RFC 7489's schema; it may stop       *)
(* anywhere.  It has no self-closing element (<spf/>, Event::Empty) and no  *)
(* CDATA: parse() ignores both, as it does every event but these four.     *)
(* Of the fields alike in the code, one or two are kept.                   *)
(***************************************************************************)
EXTENDS Naturals, Sequences, SequencesExt

CONSTANTS MaxStarts    \* bound: elements of a document

ASSUME BoundAssumption == MaxStarts \in Nat

VARIABLES
  dom,      \* the document so far: for each open element (and the root) its node
  starts,   \* elements it has
  stack, cur_text, rpt, cur_record, cur_dkim, cur_spf,   \* parse()'s locals
  result    \* "parsing", "ok" (rpt is returned), "err"

parser == <<stack, cur_text, rpt, cur_record, cur_dkim, cur_spf>>
parseVars == <<dom, starts, parser, result>>

(* A text is the sequence of its words; an Option is << >> or <<x>>.       *)
NoText == << >>
Pass == <<"pass">>
EmptyAuth   == [domain |-> NoText, result |-> NoText]
EmptyRecord == [source_ip |-> NoText, count |-> 0, disposition |-> NoText,
                dkim_aligned |-> FALSE, spf_aligned |-> FALSE, header_from |-> << >>,
                auth_dkim |-> << >>, auth_spf |-> << >>]
EmptyReport == [org_name |-> NoText, report_id |-> NoText, date_begin |-> << >>,
                policy_domain |-> NoText, policy_p |-> << >>, records |-> << >>]

Node(tag) == [tag |-> tag, text |-> NoText, kids |-> << >>]

ParseInit ==
  /\ dom = <<Node("document")>> /\ starts = 0
  /\ stack = << >> /\ cur_text = NoText /\ rpt = EmptyReport
  /\ cur_record = << >> /\ cur_dkim = << >> /\ cur_spf = << >> /\ result = "parsing"

------------------------------------------------------------------------------
(* The document.  RFC 7489's schema: the children of an element, in order. *)

Schema(tag, parent) ==
  CASE tag = "document" -> <<"feedback">>
    [] tag = "feedback" -> <<"report_metadata", "policy_published", "record">>
    [] tag = "report_metadata"  -> <<"org_name", "report_id", "date_range">>
    [] tag = "date_range"       -> <<"begin">>
    [] tag = "policy_published" -> <<"domain", "p">>
    [] tag = "record"           -> <<"row", "identifiers", "auth_results">>
    [] tag = "row"              -> <<"source_ip", "count", "policy_evaluated">>
    [] tag = "policy_evaluated" -> <<"disposition", "dkim", "spf">>
    [] tag = "identifiers"      -> <<"header_from">>
    [] tag = "auth_results"     -> <<"dkim", "spf">>
    [] tag \in {"dkim", "spf"} /\ parent = "auth_results" -> <<"domain", "result">>
    [] OTHER -> << >>

Repeats(tag, parent) == tag = "record" \/ (tag \in {"dkim", "spf"} /\ parent = "auth_results")

Top == Last(dom)
ParentTag == IF Len(dom) > 1 THEN dom[Len(dom) - 1].tag ELSE ""
Content == Schema(Top.tag, ParentTag)

(* What may follow the children written: in the schema's order, and twice  *)
(* only what repeats.                                                      *)
MayStart ==
  {Content[j] : j \in {j \in DOMAIN Content : \A k \in ToSet(Top.kids) :
     \E i \in 1..j : Content[i] = k.tag /\ (i = j => Repeats(k.tag, Top.tag))}}

Words(tag) == IF tag \in {"count", "begin"} THEN {<<"7">>, <<"?">>} ELSE {Pass}
Number(v) == IF v = <<"7">> THEN <<7>> ELSE << >>      \* str::parse().ok()

DomStart(tag) == dom' = Append(dom, Node(tag)) /\ starts' = starts + 1
DomText(v) == dom' = [dom EXCEPT ![Len(dom)].text = v] /\ UNCHANGED starts
DomEnd ==
  /\ dom' = [Front(dom) EXCEPT ![Len(dom) - 1].kids = Append(@, Top)]
  /\ UNCHANGED starts

------------------------------------------------------------------------------
(* parse()                                                                 *)

In(tag) == tag \in ToSet(stack)

Opened_Anywhere(tag, name, opt) ==      \* mutant: the context is not looked at
  IF name = tag THEN <<EmptyAuth>> ELSE opt

Opened(tag, name, opt) ==
  IF name = tag /\ "auth_results" \in ToSet(stack) \cup {name} THEN <<EmptyAuth>> ELSE opt

Start(name) ==
  /\ stack' = Append(stack, name) /\ cur_text' = NoText
  /\ cur_record' = IF name = "record" THEN <<EmptyRecord>> ELSE cur_record
  /\ cur_dkim' = Opened("dkim", name, cur_dkim) /\ cur_spf' = Opened("spf", name, cur_spf)
  /\ UNCHANGED rpt

Text(v) ==
  cur_text' = cur_text \o v /\ UNCHANGED <<stack, rpt, cur_record, cur_dkim, cur_spf>>

(* The branch that the stack selects: the first context that applies.      *)
Context ==
  CASE In("report_metadata")  -> IF In("date_range") THEN "date_range" ELSE "metadata"
    [] ~In("report_metadata") /\ In("policy_published") -> "policy"
    [] OTHER -> IF cur_record = << >> THEN "none"
                ELSE IF In("row") THEN "row"
                ELSE IF In("identifiers") THEN "identifiers"
                ELSE IF In("auth_results") THEN "auth" ELSE "record"

InReport(name) ==
  CASE Context = "date_range" /\ name = "begin" -> [rpt EXCEPT !.date_begin = Number(cur_text)]
    [] Context = "metadata" /\ name \in {"org_name", "report_id"} -> [rpt EXCEPT ![name] = cur_text]
    [] Context = "policy" /\ name = "domain" -> [rpt EXCEPT !.policy_domain = cur_text]
    [] Context = "policy" /\ name = "p" -> [rpt EXCEPT !.policy_p = <<cur_text>>]
    [] OTHER -> rpt

CountOf(v) == IF Number(v) = << >> THEN 0 ELSE Number(v)[1]      \* unwrap_or(0)

Aligns_ByName(name, tag) == name = tag      \* mutant: the stack is not looked at
Aligns(name, tag) == Context = "row" /\ name = tag

InRecord(name) ==
  LET r == cur_record[1] IN
  CASE Context = "row" /\ name \in {"source_ip", "disposition"} -> [r EXCEPT ![name] = cur_text]
    [] Context = "row" /\ name = "count" ->
         [r EXCEPT !.count = CountOf(cur_text)]
    [] Aligns(name, "dkim") -> [r EXCEPT !.dkim_aligned = (cur_text = Pass)]
    [] Aligns(name, "spf") -> [r EXCEPT !.spf_aligned = (cur_text = Pass)]
    [] Context = "identifiers" /\ name = "header_from" -> [r EXCEPT !.header_from = <<cur_text>>]
    [] Context = "auth" /\ name = "dkim" -> [r EXCEPT !.auth_dkim = @ \o cur_dkim]
    [] Context = "auth" /\ name = "spf"  -> [r EXCEPT !.auth_spf = @ \o cur_spf]
    [] OTHER -> r

(* cur_dkim and cur_spf: their fields, and None once pushed.               *)
InAuth(tag, name, opt) ==
  IF Context # "auth" \/ opt = << >> THEN opt
  ELSE IF name = tag THEN << >>
  ELSE IF name \in {"domain", "result"} THEN <<[opt[1] EXCEPT ![name] = cur_text]>>
  ELSE opt

End ==
  LET name == Last(stack)
      inRecord == Context \in {"row", "identifiers", "auth", "record"}
  IN  /\ IF inRecord /\ name = "record"
           THEN /\ rpt' = [rpt EXCEPT !.records = Append(@, InRecord(name))]
                /\ cur_record' = << >>
           ELSE /\ rpt' = InReport(name)
                /\ cur_record' = IF inRecord THEN <<InRecord(name)>> ELSE cur_record
      /\ cur_dkim' = InAuth("dkim", name, cur_dkim) /\ cur_spf' = InAuth("spf", name, cur_spf)
      /\ stack' = Front(stack) /\ cur_text' = NoText

------------------------------------------------------------------------------
Parsing == result = "parsing" /\ UNCHANGED result

StartEvent == /\ Parsing /\ starts < MaxStarts
              /\ \E tag \in MayStart : DomStart(tag) /\ Start(tag)

(* A leaf's text; if it does not unescape the event is ignored.            *)
TextEvent ==
  /\ Parsing /\ Content = << >> /\ Top.text = NoText
  /\ \E v \in Words(Top.tag) : DomText(v) /\ Text(v)

EndEvent == Parsing /\ Len(dom) > 1 /\ DomEnd /\ End

(* The input ends: after the document, or before.                          *)
Eof ==
  /\ result = "parsing"
  /\ result' = IF rpt.org_name = NoText THEN "err" ELSE "ok"
  /\ UNCHANGED <<dom, starts, parser>>

(* The input stops inside a tag, or an end tag has the wrong name.         *)
Malformed == result = "parsing" /\ result' = "err" /\ UNCHANGED <<dom, starts, parser>>

ParseNext == StartEvent \/ TextEvent \/ EndEvent \/ Eof \/ Malformed

ParseSpec == ParseInit /\ [][ParseNext]_parseVars

------------------------------------------------------------------------------
(* What a report says, read off the finished document.                     *)

Named(n, tag) ==
  FlattenSeq([i \in DOMAIN n.kids |-> IF n.kids[i].tag = tag THEN <<n.kids[i]>> ELSE << >>])
Child(n, tag) == IF Named(n, tag) = << >> THEN Node("absent") ELSE Last(Named(n, tag))
TextAt(n, tag) == Child(n, tag).text
OptionAt(n, tag) == IF Child(n, tag).tag = "absent" THEN << >> ELSE <<TextAt(n, tag)>>

AuthOf(n) == [domain |-> TextAt(n, "domain"), result |-> TextAt(n, "result")]
AuthsOf(n, tag) == [i \in DOMAIN Named(n, tag) |-> AuthOf(Named(n, tag)[i])]

RecordFrom(row, evaluated, identifiers, auth) ==
  [source_ip    |-> TextAt(row, "source_ip"),
   count        |-> CountOf(TextAt(row, "count")),
   disposition  |-> TextAt(evaluated, "disposition"),
   dkim_aligned |-> TextAt(evaluated, "dkim") = Pass,
   spf_aligned  |-> TextAt(evaluated, "spf") = Pass,
   header_from  |-> OptionAt(identifiers, "header_from"),
   auth_dkim    |-> AuthsOf(auth, "dkim"),
   auth_spf     |-> AuthsOf(auth, "spf")]

RecordOf(n) ==
  LET row == Child(n, "row")
  IN  RecordFrom(row, Child(row, "policy_evaluated"), Child(n, "identifiers"),
                 Child(n, "auth_results"))

ReportFrom(metadata, dates, policy, records) ==
  [org_name      |-> TextAt(metadata, "org_name"),
   report_id     |-> TextAt(metadata, "report_id"),
   date_begin    |-> Number(TextAt(dates, "begin")),
   policy_domain |-> TextAt(policy, "domain"),
   policy_p      |-> OptionAt(policy, "p"),
   records       |-> [i \in DOMAIN records |-> RecordOf(records[i])]]

ReportOf(n) ==
  LET metadata == Child(n, "report_metadata")
  IN  ReportFrom(metadata, Child(metadata, "date_range"), Child(n, "policy_published"),
                 Named(n, "record"))

Complete == Len(dom) = 1 /\ Top.kids # << >>

(* The parser is inside a record, a dkim or an spf result exactly while    *)
(* the document is.                                                        *)
Texts == {NoText, Pass}
AuthType == [domain : Texts, result : Texts]
RecordType == [source_ip : Texts, count : {0, 7}, disposition : Texts,
               dkim_aligned : BOOLEAN, spf_aligned : BOOLEAN,
               header_from : {<< >>} \cup {<<t>> : t \in Texts},
               auth_dkim : Seq(AuthType), auth_spf : Seq(AuthType)]
TypeOK ==
  /\ result \in {"parsing", "ok", "err"} /\ starts \in 0..MaxStarts
  /\ Len(stack) = Len(dom) - 1 /\ \A i \in DOMAIN stack : stack[i] = dom[i + 1].tag
  /\ cur_record \in Seq(RecordType)
  /\ cur_record = << >> <=> ~In("record")
  /\ cur_dkim = << >> <=> ~(In("auth_results") /\ In("dkim"))
  /\ cur_spf = << >> <=> ~(In("auth_results") /\ In("spf"))

(* A report that was read to its end says what the document says, each     *)
(* value where its element stands: no result of auth_results is taken for  *)
(* the alignment of policy_evaluated, none moves to another record or to   *)
(* another mechanism, and no record is lost or doubled.                    *)
SaysWhatTheDocumentSays ==
  (Complete /\ result # "err") => rpt = ReportOf(Child(Top, "feedback"))

------------------------------------------------------------------------------
(* What the comments say and the code does not keep: each, given as        *)
(* INVARIANT to RuaParse.cfg, is refuted.                                  *)

(* "Returns Err on malformed XML": a document that stops before its end is *)
(* refused.  quick-xml's Eof is not checked against the stack.             *)
MalformedIsRefused == result = "ok" => Complete

(* "... or missing required fields (org_name/policy_domain)": the domain   *)
(* is never asked for.                                                     *)
RequiredFieldsArePresent ==
  (result = "ok" /\ Complete) => (rpt.org_name # NoText /\ rpt.policy_domain # NoText)
==============================================================================
