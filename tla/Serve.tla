------------------------------- MODULE Serve -------------------------------
(***************************************************************************)
(* `cymail serve`, src/src/server.rs: a browser at the web UI, and the     *)
(* scan, the reputation report or the leak report that a request starts,   *)
(* shown as a page or exported.  Requests share nothing, so that one at a  *)
(* time is enough; /discover is the module Discover.                       *)
(***************************************************************************)
EXTENDS Posture, Reputation, Leak, Export

CONSTANT
  Formats     \* of the exports: "html", whose handler is the page's, and others

VARIABLES
  page,     \* what the browser shows
  req       \* the request under way; scan, rep and leak: see its components

vars == <<page, req, scan, rep, leak>>

Modes == {"scan", "discover", "reputation", "leak"}

(* action: where the form of the page is sent to; select: the mode it      *)
(* shows.  "dotted": the domain asked for is the one typed with a format's *)
(* ending.                                                                 *)
Shows == {"home", "attest", "report", "document", "bad request"}
Page == [shows : Shows, action : Modes, select : Modes, mode : Modes, dotted : BOOLEAN]
Blank(shows) ==
  [shows |-> shows, action |-> "scan", select |-> "scan", mode |-> "scan", dotted |-> FALSE]
(* The form of a report is sent to its mode.  Of the selector each option  *)
(* is compared with the mode; with none selected the browser shows the     *)
(* first.                                                                  *)
Selected(mode) == {option \in Modes : option = mode}
NewScanForm(p, mode) ==
  [p EXCEPT !.action = mode,
            !.select = IF Selected(mode) = {} THEN "scan" ELSE CHOOSE option \in Selected(mode) : TRUE]
HasForm == page.shows \in {"home", "attest", "report"}

(* as: "page", or the format of an export.                                 *)
Request == [on : BOOLEAN, mode : Modes, as : {"page"} \cup Formats, domain : BOOLEAN, dotted : BOOLEAN]
NoRequest == [on |-> FALSE, mode |-> "scan", as |-> "page", domain |-> FALSE, dotted |-> FALSE]

Init ==
  /\ page = Blank("home") /\ req = NoRequest
  /\ scan = ScanIdle /\ rep = RepIdle /\ leak = LeakIdle

------------------------------------------------------------------------------
(* The browser.  While a request is under way its page is gone; a page     *)
(* that a download leaves standing is one that was seen before it.         *)
Browsing == ~req.on /\ UNCHANGED <<scan, rep, leak>>
Send(mode, as, domain, dotted) ==
  /\ req' = [on |-> TRUE, mode |-> mode, as |-> as, domain |-> domain, dotted |-> dotted]
  /\ page' = Blank("home")

Landing == Browsing /\ page' = Blank("home") /\ UNCHANGED req
HandleAttest == Browsing /\ page' = Blank("attest") /\ UNCHANGED req

(* The mode is chosen in the selector, whose change event sets the action  *)
(* of the form.                                                            *)
SelectMode ==
  /\ Browsing /\ HasForm /\ UNCHANGED req
  /\ \E m \in Modes \ {page.select} :
       page' = [page EXCEPT !.select = m, !.action = m]

(* A card assigns to the selector, which fires no event.                   *)
ClickCard ==
  /\ Browsing /\ page.shows = "home" /\ UNCHANGED req
  /\ \E m \in Modes : page' = [page EXCEPT !.select = m]

Submit == Browsing /\ HasForm /\ Send(page.action, "page", TRUE, FALSE)

(* Any route may be typed, with a domain or without one.                   *)
TypeUrl ==
  /\ Browsing
  /\ \E m \in Modes, as \in {"page"} \cup Formats, d \in BOOLEAN :
       Send(m, as, d, FALSE)

(* The export links of a report, whichever the format: its own address,    *)
(* query included, with the ending of the format.  (The link for HTML      *)
(* saves what the others show.)  Bound: followed once.                     *)
FollowExport ==
  /\ Browsing /\ page.shows = "report" /\ ~page.dotted
  /\ Send(page.mode, "page", TRUE, TRUE)

------------------------------------------------------------------------------
(* The server: a handler demands a domain and awaits its component.  The   *)
(* commands run the same components, so that their options vary here too.  *)
Idle == scan = ScanIdle /\ rep = RepIdle /\ leak = LeakIdle

RequireDomain ==
  /\ req.on /\ ~req.domain
  /\ page' = Blank("bad request") /\ req' = NoRequest
  /\ UNCHANGED <<scan, rep, leak>>

Handle ==
  /\ req.on /\ req.domain
  /\ \/ req.mode = "scan" /\ Idle /\ ScanDomain /\ UNCHANGED <<rep, leak>>
     \/ req.mode = "reputation" /\ Idle /\ ReputationOf /\ UNCHANGED <<scan, leak>>
     \/ req.mode = "leak" /\ Idle /\ LeakOf /\ UNCHANGED <<scan, rep>>
  /\ UNCHANGED <<page, req>>

Await ==
  /\ \/ ScanStep /\ UNCHANGED <<rep, leak>>
     \/ RepStep /\ UNCHANGED <<scan, leak>>
     \/ LeakStep /\ UNCHANGED <<scan, rep>>
  /\ UNCHANGED <<page, req>>

ReportPage == NewScanForm([Blank("report") EXCEPT !.mode = req.mode, !.dotted = req.dotted], req.mode)

(* The HTML export is the page.                                            *)
Respond ==
  /\ req.on /\ req.domain
  /\ \/ "done" \in {scan.at, rep.at, leak.at}
     \/ req.mode = "discover"
  /\ page' = IF req.as \in {"page", "html"} THEN ReportPage ELSE Blank("document")
  /\ req' = NoRequest
  /\ scan' = ScanIdle /\ rep' = RepIdle /\ leak' = LeakIdle

Server == RequireDomain \/ Handle \/ Await \/ Respond
Next == \/ Landing \/ HandleAttest \/ SelectMode \/ ClickCard \/ Submit \/ TypeUrl \/ FollowExport
        \/ Server

Spec == Init /\ [][Next]_vars

------------------------------------------------------------------------------
TypeOK ==
  /\ page \in Page /\ req \in Request
  /\ scan.points \in 0..100 /\ scan.grade \in {"absent", "A", "B", "C", "D", "F"}
  /\ Cardinality({c \in {"scan", "reputation", "leak"} :
       CASE c = "scan" -> scan # ScanIdle [] c = "leak" -> leak # LeakIdle [] OTHER -> rep # RepIdle}) <= 1

(* SARIF, CSV and HTML, three renderings written apart, agree about a      *)
(* finished scan, reputation report or leak report on what more than one   *)
(* of them shows: on findings, listings, keys, the SPF limit, DNSSEC and   *)
(* lookalikes, as Export says of each.  The report of /discover is not     *)
(* compared: there they do not (WorstFlagCounts).                          *)
ExportsAgree ==
  /\ scan.at = "done" => EmailAgrees(scan)
  /\ rep.at = "done" => ReputationAgrees(rep, Limit)
  /\ leak.at = "done" => LeakAgrees(leak)

------------------------------------------------------------------------------
(* What the documentation says and the code does not keep.                 *)

(* "Drive the form action from the mode selector so we route to the right  *)
(* handler": after a click on a card the form goes elsewhere.              *)
CardGoesToItsMode == HasForm => page.action = page.select

(* "SARIF/CSV/JSON/HTML exports appear in the header": a link asks for a   *)
(* page about another domain, example.com.json.                            *)
ExportIsOfThePage == [][FollowExport => req'.as # "page" /\ ~req'.dotted]_vars
=============================================================================
