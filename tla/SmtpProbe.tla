------------------------------ MODULE SmtpProbe ------------------------------
(***************************************************************************)
(* src/src/smtp.rs: the SMTP posture probe.  The client walks the MX hosts *)
(* of a domain; with each it holds a command/reply conversation under a    *)
(* per-line read timeout and a wall-clock budget per host, and turns what  *)
(* it heard into findings.  The server (external) answers the commands of  *)
(* a connection in order, one final line each, after as many continuation  *)
(* lines as it likes, as late as it likes.                                 *)
(*                                                                         *)
(* conn.owed is the sequence of commands whose final reply line the client *)
(* has not read.  A reply matters only once it is read, so a reply in      *)
(* flight and a reply not yet sent are the same state.                     *)
(***************************************************************************)
EXTENDS Naturals, Sequences, FiniteSets

CONSTANTS
  MaxHosts,        \* bound: the longest MX list
  Profiles,        \* ways a mail server may be set up, see ProfileType
  ConnectTimeout, ReadTimeout, Budget   \* the three limits, in one unit

Leaves  == {"good", "expiring", "expired", "selfSigned", "mismatch", "oldTls"}
Trusted == {"good", "expiring"}      \* handshakes rustls with webpki roots completes
ProfileType ==
  [starttls : BOOLEAN,               \* EHLO advertises STARTTLS
   tls      : Leaves \cup {"refused"},\* STARTTLS answered 220 (then that) or 454
   mail     : BOOLEAN,               \* MAIL FROM answered 250
   relay    : BOOLEAN]               \* RCPT TO a third party answered 250

ASSUME ConstantsAssumption ==
  /\ MaxHosts \in Nat \ {0}
  /\ Profiles # {} /\ Profiles \subseteq ProfileType
  /\ ConnectTimeout \in Nat \ {0} /\ ReadTimeout \in Nat \ {0}
  /\ Budget \in Nat \ {0}

VARIABLES
  world,     \* [1..MaxHosts -> Profiles]: the servers, fixed
  mx,        \* number of MX hosts resolved
  host,      \* index of the host being probed, in preference order
  pc,        \* the await the probe is suspended at
  conn,      \* the TCP connection in use
  probe,     \* the PortProbe being filled in
  waited,    \* time spent in the current await
  elapsed,   \* time spent on the current host
  report     \* the MxHostReports pushed so far, with their findings

vars == <<world, mx, host, pc, conn, probe, waited, elapsed, report>>

Commands == {"GREET", "EHLO", "STARTTLS", "MAIL", "RCPT", "RSET"}
Reading  == {"banner", "ehlo", "starttls", "mail", "rcpt", "rset", "pbanner", "pehlo"}
Awaits   == Reading \cup {"connect", "tls", "pconnect"}

(* The command whose reply the read at p is meant to receive. *)
Expected(p) ==
  CASE p \in {"banner", "pbanner"} -> "GREET"
    [] p \in {"ehlo", "pehlo"}     -> "EHLO"
    [] p = "starttls"              -> "STARTTLS"
    [] p = "mail"                  -> "MAIL"
    [] p = "rcpt"                  -> "RCPT"
    [] p = "rset"                  -> "RSET"

(* Does the server of profile s answer command c with 250?                 *)
Answers250(s, c) ==
  \/ c \in {"EHLO", "RSET"}
  \/ c = "MAIL" /\ s.mail
  \/ c = "RCPT" /\ s.mail /\ s.relay

Relays(s) == Answers250(s, "RCPT")

NoConn  == [up |-> FALSE, owed |-> << >>, slipped |-> FALSE]
NewConn == [up |-> TRUE, owed |-> <<"GREET">>, slipped |-> FALSE]

EmptyProbe ==
  [reachable |-> FALSE, banner |-> FALSE, ehlo |-> "empty", starttls |-> "none",
   cert |-> "none", openRelay |-> "none", error |-> "none"]

Init ==
  /\ world \in [1..MaxHosts -> Profiles]
  /\ mx = 0 /\ host = 0 /\ pc = "resolve"
  /\ conn = NoConn /\ probe = EmptyProbe
  /\ waited = 0 /\ elapsed = 0 /\ report = << >>

------------------------------------------------------------------------------
(* Reading and writing on the connection. *)

Goto(p) == pc' = p /\ waited' = 0

(* read_smtp_response returns the first outstanding reply, Answered's ...  *)
Heard    == conn.up /\ conn.owed # << >>
Answered == Head(conn.owed)
Consumed_FirstLineOnly == conn            \* mutant: stop at the first line
Consumed == [conn EXCEPT !.owed = Tail(@)]
(* ... or an error: the peer closed, or no line came within READ_TIMEOUT.  *)
NothingHeard == ~conn.up \/ waited = ReadTimeout
(* slipped is a history variable: a reply was given up on a connection     *)
(* that stays in use.                                                      *)
GivenUp == [conn EXCEPT !.slipped = @ \/ conn.up]

(* write_all of command c on connection k, then await its reply at p.  A   *)
(* write to a closed peer may still succeed.                               *)
Send(k, c, p) == conn' = [k EXCEPT !.owed = Append(@, c)] /\ Goto(p)
SendFails(k)  == ~k.up /\ conn' = k /\ Goto("emit")
TrySend(k, c, p) == Send(k, c, p) \/ SendFails(k)

------------------------------------------------------------------------------
(* probe / resolve_mx: the MX hosts, the domain itself, or a failure.      *)
Resolve ==
  /\ pc = "resolve"
  /\ \E n \in 0..MaxHosts :
        /\ mx' = n
        /\ host' = IF n = 0 THEN 0 ELSE 1
        /\ Goto(IF n = 0 THEN "done" ELSE "connect")
  /\ UNCHANGED <<world, conn, probe, elapsed, report>>

Connect ==
  /\ pc = "connect"
  /\ \/ /\ conn' = NewConn
        /\ probe' = [probe EXCEPT !.reachable = TRUE]
        /\ Goto("banner")
     \/ /\ conn' = NoConn                     \* refused, or CONNECT_TIMEOUT
        /\ probe' = [probe EXCEPT !.error = "connect"]
        /\ Goto("emit")
  /\ UNCHANGED <<world, mx, host, elapsed, report>>

(* The banner read; its failure is ignored and EHLO is sent all the same.  *)
ReadBanner ==
  /\ pc = "banner"
  /\ \E got \in BOOLEAN :
        /\ IF got THEN Heard ELSE NothingHeard
        /\ LET k == IF got THEN Consumed ELSE GivenUp
               p == [probe EXCEPT !.banner = got]
           IN \/ Send(k, "EHLO", "ehlo") /\ probe' = p
              \/ SendFails(k) /\ probe' = [p EXCEPT !.error = "ehlo"]
  /\ UNCHANGED <<world, mx, host, elapsed, report>>

(* Mutant: only the first line of the EHLO reply is parsed for verbs.      *)
ReadEhlo_FirstLineOnly ==
  /\ pc = "ehlo" /\ Heard
  /\ TrySend(Consumed, "MAIL", "mail")
  /\ probe' = [probe EXCEPT !.ehlo = "noStarttls"]
  /\ UNCHANGED <<world, mx, host, elapsed, report>>

(* The reply read as EHLO's: STARTTLS is seen only in a real EHLO reply.   *)
ReadEhlo ==
  /\ pc = "ehlo"
  /\ \/ /\ Heard /\ Answered = "EHLO" /\ world[host].starttls
        /\ \/ /\ Send(Consumed, "STARTTLS", "starttls")
              /\ probe' = [probe EXCEPT !.ehlo = "starttls"]
           \/ /\ SendFails(Consumed)
              /\ probe' = [probe EXCEPT !.ehlo = "starttls", !.starttls = "failed"]
     \/ /\ Heard /\ ~(Answered = "EHLO" /\ world[host].starttls)
        /\ TrySend(Consumed, "MAIL", "mail")
        /\ probe' = [probe EXCEPT !.ehlo = "noStarttls"]
     \/ /\ NothingHeard
        /\ conn' = conn /\ Goto("emit")
        /\ probe' = [probe EXCEPT !.error = "ehlo"]
  /\ UNCHANGED <<world, mx, host, elapsed, report>>

(* Any reply will do: its code is not looked at.                           *)
ReadStarttls ==
  /\ pc = "starttls"
  /\ \/ Heard /\ conn' = Consumed /\ Goto("tls") /\ UNCHANGED probe
     \/ /\ NothingHeard /\ conn' = conn /\ Goto("emit")
        /\ probe' = [probe EXCEPT !.starttls = "failed"]
  /\ UNCHANGED <<world, mx, host, elapsed, report>>

(* upgrade_to_tls: rustls finishes the handshake only with a leaf it       *)
(* trusts; the socket is dropped after it either way.                      *)
Handshake ==
  /\ pc = "tls"
  /\ \/ /\ world[host].tls \in Trusted
        /\ probe' = [probe EXCEPT !.starttls = "upgraded", !.cert = world[host].tls]
     \/ probe' = [probe EXCEPT !.starttls = "failed"]
  /\ conn' = NoConn /\ Goto("pconnect")
  /\ UNCHANGED <<world, mx, host, elapsed, report>>

------------------------------------------------------------------------------
(* open_relay_via_parallel_connection: banner and EHLO reads both ignored. *)
ParallelConnect ==
  /\ pc = "pconnect"
  /\ \/ conn' = NewConn /\ Goto("pbanner")
     \/ conn' = NoConn /\ Goto("emit")
  /\ UNCHANGED <<world, mx, host, probe, elapsed, report>>

IgnoringRead_Unread(c, p) == TrySend(conn, c, p)   \* mutant: nothing is read

IgnoringRead(c, p) ==
  \/ Heard /\ TrySend(Consumed, c, p)
  \/ NothingHeard /\ TrySend(GivenUp, c, p)

ParallelBanner ==
  /\ pc = "pbanner" /\ IgnoringRead("EHLO", "pehlo")
  /\ UNCHANGED <<world, mx, host, probe, elapsed, report>>

ParallelEhlo ==
  /\ pc = "pehlo" /\ IgnoringRead("MAIL", "mail")
  /\ UNCHANGED <<world, mx, host, probe, elapsed, report>>

------------------------------------------------------------------------------
(* open_relay_probe, on either connection.                                 *)
Is250 == Answers250(world[host], Answered)
Verdict(b) == probe' = [probe EXCEPT !.openRelay = IF b THEN "yes" ELSE "no"]

ReadMail ==
  /\ pc = "mail"
  /\ \/ Heard /\ Is250 /\ TrySend(Consumed, "RCPT", "rcpt") /\ UNCHANGED probe
     \/ Heard /\ ~Is250 /\ conn' = Consumed /\ Goto("emit") /\ Verdict(FALSE)
     \/ NothingHeard /\ conn' = conn /\ Goto("emit") /\ UNCHANGED probe
  /\ UNCHANGED <<world, mx, host, elapsed, report>>

(* The verdict is fixed here; RSET and its reply come before it is         *)
(* returned, so the budget can still discard it.                           *)
ReadRcpt ==
  /\ pc = "rcpt"
  /\ \/ Heard /\ Verdict(Is250) /\ Send(Consumed, "RSET", "rset")
     \/ NothingHeard /\ conn' = conn /\ Goto("emit") /\ UNCHANGED probe
  /\ UNCHANGED <<world, mx, host, elapsed, report>>

ReadRset ==
  /\ pc = "rset" /\ (Heard \/ NothingHeard)
  /\ conn' = conn /\ Goto("emit")
  /\ UNCHANGED <<world, mx, host, probe, elapsed, report>>

------------------------------------------------------------------------------
(* emit_findings, and the next host of the loop.                           *)
CertFinding(cert) ==
  CASE cert = "expired"    -> {"SMTP-CERT-EXPIRED"}
    [] cert = "expiring"   -> {"SMTP-CERT-NEAR-EXPIRY"}
    [] cert = "selfSigned" -> {"SMTP-CERT-SELF-SIGNED"}
    [] cert = "mismatch"   -> {"SMTP-CERT-HOSTNAME-MISMATCH"}
    [] cert = "oldTls"     -> {"SMTP-TLS-WEAK-VERSION"}
    [] OTHER               -> {}

Findings(p) ==
  IF ~p.reachable THEN {"SMTP-UNREACHABLE"}
  ELSE (IF p.banner THEN {} ELSE {"SMTP-NO-BANNER"})
    \cup (IF p.ehlo = "starttls" THEN {} ELSE {"SMTP-STARTTLS-MISSING"})
    \cup (IF p.starttls = "failed" THEN {"SMTP-STARTTLS-FAILED"} ELSE CertFinding(p.cert))
    \cup (IF p.openRelay = "yes" THEN {"SMTP-OPEN-RELAY"} ELSE {})

(* Mutant: a host that did not connect is left out of the report.          *)
Emit_SkipsUnreachable ==
  /\ pc = "emit"
  /\ report' = IF ~probe.reachable THEN report
               ELSE Append(report, [port25 |-> probe, findings |-> Findings(probe),
                                    slipped |-> conn.slipped])
  /\ Goto(IF host < mx THEN "connect" ELSE "done")
  /\ host' = IF host < mx THEN host + 1 ELSE host
  /\ conn' = NoConn /\ probe' = EmptyProbe /\ elapsed' = 0
  /\ UNCHANGED <<world, mx>>

Emit ==
  /\ pc = "emit"
  /\ report' = Append(report, [port25 |-> probe, findings |-> Findings(probe),
                               slipped |-> conn.slipped])
  /\ Goto(IF host < mx THEN "connect" ELSE "done")
  /\ host' = IF host < mx THEN host + 1 ELSE host
  /\ conn' = NoConn /\ probe' = EmptyProbe /\ elapsed' = 0
  /\ UNCHANGED <<world, mx>>

------------------------------------------------------------------------------
(* Time and the peer. *)

Limit == IF pc \in {"connect", "pconnect"} THEN ConnectTimeout ELSE ReadTimeout

(* Mutants: no per-MX budget; a budget that does not stop the awaits.      *)
Tick_NoBudget ==
  /\ pc \in Awaits /\ (pc \in Reading => conn.up)
  /\ waited < Limit
  /\ waited' = waited + 1
  /\ UNCHANGED <<world, mx, host, pc, conn, probe, elapsed, report>>

Tick_LateBudget ==
  /\ pc \in Awaits /\ (pc \in Reading => conn.up)
  /\ waited < Limit /\ elapsed <= Budget
  /\ waited' = waited + 1 /\ elapsed' = elapsed + 1
  /\ UNCHANGED <<world, mx, host, pc, conn, probe, report>>

Tick ==
  /\ pc \in Awaits /\ (pc \in Reading => conn.up)
  /\ waited < Limit /\ elapsed < Budget
  /\ waited' = waited + 1 /\ elapsed' = elapsed + 1
  /\ UNCHANGED <<world, mx, host, pc, conn, probe, report>>

(* timeout(PER_MX_BUDGET, ...): whatever was learnt is dropped.            *)
BudgetExceeded ==
  /\ pc \in Awaits /\ elapsed = Budget
  /\ probe' = [EmptyProbe EXCEPT !.error = "budget"]
  /\ conn' = NoConn /\ Goto("emit")
  /\ UNCHANGED <<world, mx, host, elapsed, report>>

(* A continuation line arrives: the timeout is per line, so it restarts.   *)
ContinuationLine ==
  /\ pc \in Reading /\ conn.up /\ conn.owed # << >> /\ waited > 0
  /\ waited' = 0
  /\ UNCHANGED <<world, mx, host, pc, conn, probe, elapsed, report>>

PeerCloses ==
  /\ pc \in Reading /\ conn.up
  /\ conn' = [conn EXCEPT !.up = FALSE]
  /\ UNCHANGED <<world, mx, host, pc, probe, waited, elapsed, report>>

Next ==
  \/ Resolve \/ Connect \/ ReadBanner \/ ReadEhlo \/ ReadStarttls \/ Handshake
  \/ ParallelConnect \/ ParallelBanner \/ ParallelEhlo
  \/ ReadMail \/ ReadRcpt \/ ReadRset \/ Emit
  \/ Tick \/ BudgetExceeded \/ ContinuationLine \/ PeerCloses

Spec == Init /\ [][Next]_vars

(* The runtime polls a ready future and fires its timers.                  *)
FairSpec == Spec /\ WF_vars(Next)

------------------------------------------------------------------------------
(* Types: what probe_port25 can leave in a PortProbe, per await.           *)
Pcs == Awaits \cup {"resolve", "emit", "done"}
ConnType == [up : BOOLEAN, owed : Seq(Commands), slipped : BOOLEAN]
ProbeType ==
  [reachable : BOOLEAN, banner : BOOLEAN, ehlo : {"empty", "noStarttls", "starttls"},
   starttls : {"none", "failed", "upgraded"}, cert : Leaves \cup {"none"},
   openRelay : {"none", "yes", "no"}, error : {"none", "connect", "ehlo", "budget"}]
FindingIds ==
  {"SMTP-UNREACHABLE", "SMTP-NO-BANNER", "SMTP-STARTTLS-MISSING",
   "SMTP-STARTTLS-FAILED", "SMTP-TLS-WEAK-VERSION", "SMTP-CERT-SELF-SIGNED",
   "SMTP-CERT-EXPIRED", "SMTP-CERT-NEAR-EXPIRY", "SMTP-CERT-HOSTNAME-MISMATCH",
   "SMTP-OPEN-RELAY"}
ReportType == [port25 : ProbeType, findings : SUBSET FindingIds, slipped : BOOLEAN]

(* The state of a probe never leaves the shapes src/src/smtp.rs gives it,  *)
(* and no await outlasts its timeout nor a host its budget.                *)
TypeOK ==
  /\ world \in [1..MaxHosts -> Profiles]
  /\ mx \in 0..MaxHosts /\ host \in 0..mx
  /\ pc \in Pcs /\ (pc \notin {"resolve", "done"} => host \in 1..mx)
  /\ conn \in ConnType /\ probe \in ProbeType
  /\ waited \in 0..Limit /\ elapsed \in 0..Budget
  /\ report \in Seq(ReportType)

(* While no reply was given up on the connection in use, the only reply    *)
(* outstanding is that of the command the client is waiting on: nothing    *)
(* else the probe does can shift its conversation by one reply.            *)
InSync ==
  pc \in Reading /\ conn.up /\ ~conn.slipped => conn.owed = <<Expected(pc)>>

(* The relay verdict of a probe agrees with the server's own answer to the *)
(* RCPT TO of open_relay_probe, in both directions and on whichever of the *)
(* two connections it was obtained, unless a reply was given up on it.     *)
VerdictOf(p, i) == p.openRelay # "none" => (p.openRelay = "yes" <=> Relays(world[i]))
RelayVerdictIsTheServers ==
  \A i \in 1..Len(report) : ~report[i].slipped => VerdictOf(report[i].port25, i)

(* What the probe says of STARTTLS is what the server said of it: seen     *)
(* means advertised (even out of step), a whole reply without it means not *)
(* advertised, failed means advertised, upgraded means a leaf rustls       *)
(* trusts.                                                                 *)
StarttlsOf(p, slipped, s) ==
  /\ p.ehlo = "starttls" \/ p.starttls # "none" => s.starttls
  /\ p.ehlo = "noStarttls" /\ ~slipped => ~s.starttls
  /\ p.starttls = "upgraded" => s.tls = p.cert /\ p.cert \in Trusted
StarttlsVerdictIsTheServers ==
  \A i \in 1..Len(report) :
     StarttlsOf(report[i].port25, report[i].slipped, world[i])

(* Reports come in the preference order of the MX list, one per host:      *)
(* no host is skipped or reported twice whatever happened to the others.   *)
OneReportPerHost ==
  Len(report) = IF pc = "done" THEN mx ELSE IF host = 0 THEN 0 ELSE host - 1

(* Every probe ends with a report for every host, against servers that     *)
(* stall, close, or send continuation lines for ever: PER_MX_BUDGET.       *)
EveryHostReported == <>(pc = "done" /\ Len(report) = mx)

------------------------------------------------------------------------------
(* What the findings say (their titles) and the probe does not keep: each, *)
(* given as INVARIANT or PROPERTY to SmtpProbe.cfg, is refuted.            *)

(* SMTP-OPEN-RELAY: "MX accepted unauthenticated relay to third-party      *)
(* recipient".                                                             *)
OpenRelayMeansRelay ==
  \A i \in 1..Len(report) :
     "SMTP-OPEN-RELAY" \in report[i].findings => Relays(world[i])

(* SMTP-STARTTLS-MISSING: "MX does not advertise STARTTLS on port 25".     *)
MissingMeansNotAdvertised ==
  \A i \in 1..Len(report) :
     "SMTP-STARTTLS-MISSING" \in report[i].findings => ~world[i].starttls

(* SMTP-UNREACHABLE: "MX did not accept TCP on port 25".                   *)
UnreachableMeansNoTcp ==
  [][(pc \in Awaits \ {"connect"} /\ pc' = "emit")
        => "SMTP-UNREACHABLE" \notin Findings(probe')]_vars

(* "STARTTLS upgrade with TLS version + certificate validity checks": the  *)
(* handshake with a server whose leaf is expired yields that finding.      *)
ExpiredLeafIsNamed ==
  [][(pc = "tls" /\ pc' = "pconnect" /\ world[host].tls = "expired")
        => "SMTP-CERT-EXPIRED" \in Findings(probe')]_vars
==============================================================================
