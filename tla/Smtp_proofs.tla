------------------------------ MODULE Smtp_proofs ------------------------------
(***************************************************************************)
(* Safety of the two SMTP clients: of the probe (SmtpProbe), for every MX  *)
(* list length, every set of server profiles and every value of the three  *)
(* limits, and of the discovery (Discover), for any addresses, guesses and *)
(* deadline: what an address's verdict rests on, and which are probed.     *)
(***************************************************************************)
EXTENDS SmtpProbe, Discover, SequenceTheorems, TLAPS

------------------------------------------------------------------------------
(* Typing.                                                                 *)

(* The connection values the actions build are connections.                *)
LEMMA NewConnTypes == NoConn \in ConnType /\ NewConn \in ConnType
BY DEF ConnType, NoConn, NewConn, Commands

LEMMA GivenUpType == ASSUME conn \in ConnType PROVE GivenUp \in ConnType
BY DEF ConnType, GivenUp

LEMMA ConsumedType == ASSUME conn \in ConnType, Heard PROVE Consumed \in ConnType
BY DEF ConnType, Consumed, Heard

LEMMA SendType ==
  ASSUME NEW k \in ConnType, NEW c \in Commands, NEW p, TrySend(k, c, p)
  PROVE  conn' \in ConnType /\ pc' \in {p, "emit"} /\ waited' = 0
<1>1. [k EXCEPT !.owed = Append(@, c)] \in ConnType
  BY DEF ConnType
<1>2. QED
  BY <1>1 DEF TrySend, Send, SendFails, Goto

(* What a probe emits are known findings.                                  *)
LEMMA FindingTypes ==
  ASSUME NEW p \in ProbeType
  PROVE  Findings(p) \subseteq FindingIds
BY DEF Findings, CertFinding, FindingIds, ProbeType, Leaves

LEMMA TypeInit == ASSUME Init PROVE TypeOK
<1>1. NoConn \in ConnType
  BY DEF NoConn, ConnType
<1>2. EmptyProbe \in ProbeType
  BY DEF EmptyProbe, ProbeType
<1>3. QED
  BY <1>1, <1>2, ConstantsAssumption DEF Init, TypeOK, Limit, Pcs

(* The part of the type invariant every action of the client shares: it    *)
(* moves to another await, or out of them, with the clock of the await at  *)
(* zero.                                                                   *)
LEMMA TypeMove ==
  ASSUME TypeOK, pc \notin {"resolve", "done"}, NEW q \in Awaits \cup {"emit"},
         pc' \in {q, "emit"}, waited' = 0, conn' \in ConnType, probe' \in ProbeType,
         UNCHANGED <<world, mx, host, elapsed, report>>
  PROVE  TypeOK'
<1>1. waited' \in 0..Limit'
  BY ConstantsAssumption DEF Limit
<1>2. QED
  BY <1>1 DEF TypeOK, Pcs

LEMMA TypeNext == ASSUME TypeOK, [Next]_vars PROVE TypeOK'
<1> USE ConstantsAssumption
<1> conn \in ConnType /\ probe \in ProbeType
  BY DEF TypeOK
<1>1. CASE Resolve
  BY <1>1 DEF TypeOK, Resolve, Goto, Limit, Pcs, Awaits, Reading
<1>2. CASE Connect
  <2>1. conn' \in ConnType /\ probe' \in ProbeType
    BY <1>2, NewConnTypes DEF Connect, ProbeType
  <2>2. QED
    BY <1>2, <2>1, TypeMove DEF Connect, Goto, Awaits, Reading
<1>3. CASE ReadBanner
  <2>1. PICK got \in BOOLEAN :
          LET k == IF got THEN Consumed ELSE GivenUp
              p == [probe EXCEPT !.banner = got]
          IN  /\ IF got THEN Heard ELSE NothingHeard
              /\ TrySend(k, "EHLO", "ehlo")
              /\ probe' = p \/ probe' = [p EXCEPT !.error = "ehlo"]
    BY <1>3 DEF ReadBanner, TrySend
  <2>2. (IF got THEN Consumed ELSE GivenUp) \in ConnType
    BY <2>1, GivenUpType, ConsumedType
  <2>3. conn' \in ConnType /\ pc' \in {"ehlo", "emit"} /\ waited' = 0
    BY <2>1, <2>2, SendType DEF Commands
  <2>4. probe' \in ProbeType
    BY <2>1 DEF ProbeType
  <2>5. QED
    BY <1>3, <2>3, <2>4, TypeMove DEF ReadBanner, Awaits, Reading
<1>4. CASE ReadEhlo
  <2>1. probe' \in ProbeType
    BY <1>4 DEF ReadEhlo, ProbeType
  <2>2. \/ Heard /\ TrySend(Consumed, "STARTTLS", "starttls")
        \/ Heard /\ TrySend(Consumed, "MAIL", "mail")
        \/ conn' = conn /\ Goto("emit")
    BY <1>4 DEF ReadEhlo, TrySend
  <2>3. /\ conn' \in ConnType /\ waited' = 0
        /\ pc' \in {"starttls", "emit"} \/ pc' \in {"mail", "emit"}
    BY <2>2, ConsumedType, SendType DEF Goto, Commands
  <2>4. QED
    BY <1>4, <2>1, <2>3, TypeMove DEF ReadEhlo, Awaits, Reading
<1>5. CASE ReadStarttls
  <2>1. conn' \in ConnType /\ probe' \in ProbeType
    BY <1>5, ConsumedType DEF ReadStarttls, ProbeType
  <2>2. QED
    BY <1>5, <2>1, TypeMove DEF ReadStarttls, Goto, Awaits, Reading
<1>6. CASE Handshake
  <2>1. conn' \in ConnType /\ probe' \in ProbeType
    BY <1>6, NewConnTypes DEF Handshake, ProbeType, Trusted, Leaves
  <2>2. QED
    BY <1>6, <2>1, TypeMove DEF Handshake, Goto, Awaits
<1>7. CASE ParallelConnect
  BY <1>7, NewConnTypes, TypeMove DEF ParallelConnect, Goto, Awaits, Reading
<1>8. ASSUME NEW c \in {"EHLO", "MAIL"}, NEW q \in Reading, IgnoringRead(c, q),
             pc \in Reading, UNCHANGED <<world, mx, host, probe, elapsed, report>>
      PROVE  TypeOK'
  <2>1. conn' \in ConnType /\ pc' \in {q, "emit"} /\ waited' = 0
    BY <1>8, GivenUpType, ConsumedType, SendType DEF IgnoringRead, Commands
  <2>2. QED
    BY <1>8, <2>1, TypeMove DEF Awaits, Reading
<1>9. CASE ParallelBanner \/ ParallelEhlo
  BY <1>8, <1>9 DEF ParallelBanner, ParallelEhlo, Reading
<1>10. CASE ReadMail
  <2>1. probe' \in ProbeType
    BY <1>10 DEF ReadMail, Verdict, ProbeType
  <2>2. conn' \in ConnType /\ pc' \in {"rcpt", "emit"} /\ waited' = 0
    BY <1>10, ConsumedType, SendType DEF ReadMail, Goto, Commands
  <2>3. QED
    BY <1>10, <2>1, <2>2, TypeMove DEF ReadMail, Awaits, Reading
<1>11. CASE ReadRcpt
  <2>1. probe' \in ProbeType
    BY <1>11 DEF ReadRcpt, Verdict, ProbeType
  <2>2. conn' \in ConnType /\ pc' \in {"rset", "emit"} /\ waited' = 0
    BY <1>11, ConsumedType, SendType DEF ReadRcpt, TrySend, Goto, Commands
  <2>3. QED
    BY <1>11, <2>1, <2>2, TypeMove DEF ReadRcpt, Awaits, Reading
<1>12. CASE ReadRset
  BY <1>12, TypeMove DEF ReadRset, Goto, Awaits, Reading
<1>13. CASE Emit
  <2>1. [port25 |-> probe, findings |-> Findings(probe), slipped |-> conn.slipped]
           \in ReportType
    BY FindingTypes DEF ReportType, ConnType
  <2>2. EmptyProbe \in ProbeType
    BY DEF EmptyProbe, ProbeType
  <2>3. report' \in Seq(ReportType)
    BY <1>13, <2>1 DEF Emit, TypeOK
  <2>4. QED
    BY <1>13, <2>2, <2>3, NewConnTypes
       DEF Emit, TypeOK, Goto, Limit, Pcs, Awaits
<1>14. CASE Tick
  BY <1>14 DEF TypeOK, Tick, Limit
<1>15. CASE BudgetExceeded
  <2>1. probe' \in ProbeType
    BY <1>15 DEF BudgetExceeded, EmptyProbe, ProbeType
  <2>2. QED
    BY <1>15, <2>1, NewConnTypes, TypeMove DEF BudgetExceeded, Goto, Awaits, Reading
<1>16. CASE ContinuationLine
  BY <1>16 DEF TypeOK, ContinuationLine, Limit
<1>17. CASE PeerCloses
  <2>1. conn' \in ConnType
    BY <1>17 DEF PeerCloses, ConnType
  <2>2. QED
    BY <1>17, <2>1 DEF TypeOK, PeerCloses, Limit
<1>18. CASE UNCHANGED vars
  BY <1>18 DEF TypeOK, vars, Limit
<1>19. QED
  BY <1>1, <1>2, <1>3, <1>4, <1>5, <1>6, <1>7, <1>9, <1>10, <1>11, <1>12, <1>13,
     <1>14, <1>15, <1>16, <1>17, <1>18 DEF Next

(* The probe keeps to its types, and to its timeouts and budget, for every *)
(* value of the constants (src/src/smtp.rs, probe and probe_port25).       *)
THEOREM TypeCorrect == Spec => []TypeOK
<1>1. Init => TypeOK
  BY TypeInit
<1>2. TypeOK /\ [Next]_vars => TypeOK'
  BY TypeNext
<1>3. QED
  BY <1>1, <1>2, PTL DEF Spec

------------------------------------------------------------------------------
(* The verdicts.                                                           *)

(* What holds of the host being probed.  InSync gives the meaning of the   *)
(* reply being read; the other conjuncts carry what was learnt from it to  *)
(* the report: which awaits follow an advertised STARTTLS, and that the    *)
(* relay verdict is only set when the conversation is over.                *)
ProbeInv ==
  /\ InSync
  /\ pc \notin {"rset", "emit"} => probe.openRelay = "none"
  /\ pc \in {"starttls", "tls", "pconnect", "pbanner", "pehlo"} => probe.ehlo = "starttls"
  /\ pc = "resolve" => host = 0
  /\ pc \in {"resolve", "connect", "done"} => probe = EmptyProbe
  /\ pc \in {"banner", "ehlo", "starttls", "tls"} => probe.starttls = "none"
  /\ ~conn.slipped => VerdictOf(probe, host)
  /\ StarttlsOf(probe, conn.slipped, world[host])

IInv ==
  /\ TypeOK /\ ProbeInv /\ OneReportPerHost
  /\ RelayVerdictIsTheServers /\ StarttlsVerdictIsTheServers

(* In step, the reply read is that of the command the client waits on.     *)
LEMMA HeardInStep ==
  ASSUME ProbeInv, pc \in Reading, Heard, ~conn.slipped
  PROVE  Answered = Expected(pc)
BY DEF ProbeInv, InSync, Heard, Answered

(* Sending the next command after a reply was read keeps the connection in *)
(* step, or breaks it off ...                                              *)
LEMMA SentAfterReply ==
  ASSUME TypeOK, ProbeInv, pc \in Reading, NEW c \in Commands, NEW p \in Reading,
         Expected(p) = c, Heard, TrySend(Consumed, c, p)
  PROVE  InSync' /\ conn'.slipped = conn.slipped
<1> conn \in ConnType
  BY DEF TypeOK
<1>1. conn'.slipped = conn.slipped
  BY DEF TrySend, Send, SendFails, Consumed, ConnType
<1>2. CASE conn.slipped \/ SendFails(Consumed)
  BY <1>1, <1>2 DEF InSync, SendFails, Goto, Reading
<1>3. CASE ~conn.slipped /\ Send(Consumed, c, p)
  <2>1. conn.owed = <<Expected(pc)>>
    BY <1>3 DEF ProbeInv, InSync, Heard
  <2>2. Consumed \in ConnType /\ Consumed.owed = << >>
    BY <2>1, ConsumedType DEF Consumed, ConnType
  <2>3. conn'.owed = Append(Consumed.owed, c)
    BY <1>3, <2>2 DEF Send, ConnType
  <2>4. conn'.owed = <<c>>
    BY <2>2, <2>3
  <2>5. pc' = p
    BY <1>3 DEF Send, Goto
  <2>6. QED
    BY <1>1, <2>4, <2>5 DEF InSync, Expected
<1>4. QED
  BY <1>2, <1>3 DEF TrySend

(* ... and sending it after a reply was given up makes it slipped, unless  *)
(* the peer is gone and no reply will ever be read.                        *)
LEMMA SentAfterSilence ==
  ASSUME TypeOK, NEW c \in Commands, NEW p \in Reading, TrySend(GivenUp, c, p)
  PROVE  InSync' /\ (conn.slipped => conn'.slipped)
<1> conn \in ConnType
  BY DEF TypeOK
<1>1. conn'.slipped = (conn.slipped \/ conn.up) /\ conn'.up = conn.up
  BY DEF TrySend, Send, SendFails, GivenUp, ConnType
<1>2. QED
  BY <1>1 DEF InSync

(* One step per action: the await it leaves fixes what was learnt, the one *)
(* it enters what is outstanding.                                          *)
LEMMA ProbeInvNext == ASSUME TypeOK, ProbeInv, [Next]_vars PROVE ProbeInv'
<1> conn \in ConnType /\ probe \in ProbeType
  BY DEF TypeOK
<1> USE DEF VerdictOf, StarttlsOf
<1>1. CASE Resolve
  <2>1. conn' = conn /\ probe' = EmptyProbe /\ pc' \in {"connect", "done"}
    BY <1>1 DEF Resolve, Goto, ProbeInv
  <2>2. QED
    BY <2>1 DEF ProbeInv, InSync, Reading, EmptyProbe
<1>2. CASE Connect
  <2>1. probe = EmptyProbe
    BY <1>2 DEF Connect, ProbeInv
  <2>2. /\ probe'.openRelay = "none" /\ probe'.ehlo = "empty"
        /\ probe'.starttls = "none" /\ pc' \in {"banner", "emit"}
    BY <1>2, <2>1 DEF Connect, Goto, EmptyProbe
  <2>3. InSync'
    BY <1>2 DEF Connect, Goto, InSync, NewConn, Reading, Expected
  <2>4. QED
    BY <2>2, <2>3 DEF ProbeInv
<1>3. CASE ReadBanner
  <2>1. /\ \/ Heard /\ TrySend(Consumed, "EHLO", "ehlo")
           \/ NothingHeard /\ TrySend(GivenUp, "EHLO", "ehlo")
        /\ pc' \in {"ehlo", "emit"}
    BY <1>3 DEF ReadBanner, TrySend, Send, SendFails, Goto
  <2>2. InSync' /\ (conn.slipped => conn'.slipped)
    <3>1. Expected("ehlo") = "EHLO" /\ "EHLO" \in Commands /\ "ehlo" \in Reading
      BY DEF Expected, Commands, Reading
    <3>2. pc \in Reading
      BY <1>3 DEF ReadBanner, Reading
    <3>3. QED
      BY <2>1, <3>1, <3>2, SentAfterReply, SentAfterSilence
  <2>3. /\ probe'.openRelay = probe.openRelay /\ probe'.ehlo = probe.ehlo
        /\ probe'.starttls = probe.starttls /\ probe'.cert = probe.cert
    BY <1>3 DEF ReadBanner, ProbeType
  <2>4. QED
    BY <1>3, <2>1, <2>2, <2>3 DEF ReadBanner, ProbeInv
<1>4. CASE ReadEhlo
  <2> Expected("starttls") = "STARTTLS" /\ Expected("mail") = "MAIL"
    BY DEF Expected
  <2>1. pc = "ehlo" /\ pc \in Reading /\ Expected(pc) = "EHLO" /\ "STARTTLS" \in Commands
        /\ "MAIL" \in Commands /\ "starttls" \in Reading /\ "mail" \in Reading
    BY <1>4 DEF ReadEhlo, Reading, Expected, Commands
  <2>2. CASE Heard /\ world[host].starttls /\ TrySend(Consumed, "STARTTLS", "starttls")
             /\ probe'.ehlo = "starttls" /\ probe'.openRelay = probe.openRelay
             /\ \/ pc' = "starttls" /\ probe'.starttls = "none"
                \/ pc' = "emit" /\ probe'.starttls = "failed"
    <3>1. InSync'
      BY <2>1, <2>2, SentAfterReply
    <3>2. QED
      BY <1>4, <2>1, <2>2, <3>1 DEF ReadEhlo, ProbeInv
  <2>3. CASE Heard /\ ~(Answered = "EHLO" /\ world[host].starttls)
             /\ TrySend(Consumed, "MAIL", "mail") /\ pc' \in {"mail", "emit"}
             /\ probe' = [probe EXCEPT !.ehlo = "noStarttls"]
    <3>1. InSync' /\ conn'.slipped = conn.slipped
      BY <2>1, <2>3, SentAfterReply
    <3>2. ~conn.slipped => ~world[host].starttls
      BY <2>1, <2>3, HeardInStep
    <3>3. probe.starttls = "none"
      BY <2>1 DEF ProbeInv
    <3>4. QED
      BY <1>4, <2>1, <2>3, <3>1, <3>2, <3>3 DEF ReadEhlo, ProbeInv, ProbeType
  <2>4. CASE conn' = conn /\ Goto("emit") /\ probe' = [probe EXCEPT !.error = "ehlo"]
    BY <1>4, <2>4 DEF ReadEhlo, Goto, ProbeInv, InSync, Reading, ProbeType
  <2>5. CASE /\ Heard /\ Answered = "EHLO" /\ world[host].starttls
             /\ \/ /\ Send(Consumed, "STARTTLS", "starttls")
                   /\ probe' = [probe EXCEPT !.ehlo = "starttls"]
                \/ /\ SendFails(Consumed)
                   /\ probe' = [probe EXCEPT !.ehlo = "starttls", !.starttls = "failed"]
    <3>1. probe.starttls = "none"
      BY <2>1 DEF ProbeInv
    <3>2. QED
      BY <2>2, <2>5, <3>1 DEF TrySend, Send, SendFails, Goto, ProbeType
  <2>6. CASE /\ Heard /\ ~(Answered = "EHLO" /\ world[host].starttls)
             /\ TrySend(Consumed, "MAIL", "mail")
             /\ probe' = [probe EXCEPT !.ehlo = "noStarttls"]
    BY <2>3, <2>6 DEF TrySend, Send, SendFails, Goto
  <2>7. QED
    BY <1>4, <2>4, <2>5, <2>6 DEF ReadEhlo
<1>5. CASE ReadStarttls
  <2>1. pc' \in {"tls", "emit"}
    BY <1>5 DEF ReadStarttls, Goto
  <2>2. conn'.slipped = conn.slipped
    BY <1>5, ConsumedType DEF ReadStarttls, Consumed, ConnType
  <2>3. probe' = probe \/ (pc' = "emit" /\ probe' = [probe EXCEPT !.starttls = "failed"])
    BY <1>5 DEF ReadStarttls, Goto
  <2>4. pc = "starttls" /\ probe.ehlo = "starttls" /\ probe.starttls = "none"
        /\ probe.openRelay = "none"
    BY <1>5 DEF ReadStarttls, ProbeInv
  <2>5. QED
    BY <1>5, <2>1, <2>2, <2>3, <2>4 DEF ReadStarttls, ProbeInv, InSync, Reading, ProbeType
<1>6. CASE Handshake
  <2>1. pc' = "pconnect" /\ pc = "tls" /\ probe.ehlo = "starttls" /\ probe.openRelay = "none"
    BY <1>6 DEF Handshake, Goto, ProbeInv
  <2>2. world[host].starttls
    BY <2>1 DEF ProbeInv
  <2>3. /\ probe'.ehlo = "starttls" /\ probe'.openRelay = "none"
        /\ \/ probe'.starttls = "failed"
           \/ /\ probe'.starttls = "upgraded" /\ probe'.cert = world[host].tls
              /\ world[host].tls \in Trusted
    BY <1>6, <2>1 DEF Handshake, ProbeType
  <2>4. QED
    BY <1>6, <2>1, <2>2, <2>3 DEF Handshake, ProbeInv, InSync, Reading
<1>7. CASE ParallelConnect
  <2>1. pc = "pconnect" /\ pc' \in {"pbanner", "emit"} /\ probe.ehlo = "starttls"
        /\ probe.openRelay = "none"
    BY <1>7 DEF ParallelConnect, Goto, ProbeInv
  <2>2. InSync'
    BY <1>7 DEF ParallelConnect, Goto, InSync, NewConn, Reading, Expected
  <2>3. QED
    BY <1>7, <2>1, <2>2 DEF ParallelConnect, ProbeInv
<1>8. CASE ParallelBanner \/ ParallelEhlo
  <2>1. /\ pc \in {"pbanner", "pehlo"} /\ pc \in Reading
        /\ UNCHANGED <<world, host, probe>>
    BY <1>8 DEF ParallelBanner, ParallelEhlo, Reading
  <2>2. PICK c \in Commands, p \in {"pehlo", "mail"} :
          Expected(p) = c /\ p \in Reading /\ IgnoringRead(c, p)
    BY <1>8 DEF ParallelBanner, ParallelEhlo, Expected, Commands, Reading
  <2>3. InSync' /\ (conn.slipped => conn'.slipped)
    BY <2>1, <2>2, SentAfterReply, SentAfterSilence DEF IgnoringRead
  <2>4. pc' \in {"pehlo", "mail", "emit"}
    BY <2>2 DEF IgnoringRead, TrySend, Send, SendFails, Goto
  <2>5. QED
    BY <2>1, <2>3, <2>4 DEF ProbeInv
<1>9. CASE ReadMail
  <2>1. pc = "mail" /\ pc \in Reading /\ Expected(pc) = "MAIL" /\ Expected("rcpt") = "RCPT"
        /\ "RCPT" \in Commands /\ "rcpt" \in Reading /\ probe.openRelay = "none"
    BY <1>9 DEF ReadMail, ProbeInv, Reading, Expected, Commands
  <2>2. CASE Heard /\ TrySend(Consumed, "RCPT", "rcpt") /\ UNCHANGED probe
    <3>1. InSync' /\ conn'.slipped = conn.slipped /\ pc' \in {"rcpt", "emit"}
      BY <2>1, <2>2, SentAfterReply DEF TrySend, Send, SendFails, Goto
    <3>2. QED
      BY <1>9, <2>1, <2>2, <3>1 DEF ReadMail, ProbeInv
  <2>3. CASE Heard /\ ~Is250 /\ conn' = Consumed /\ Goto("emit") /\ Verdict(FALSE)
    <3>1. ~conn.slipped => ~Relays(world[host])
      BY <2>1, <2>3, HeardInStep DEF Is250, Relays, Answers250
    <3>2. /\ conn'.slipped = conn.slipped /\ pc' = "emit"
          /\ probe' = [probe EXCEPT !.openRelay = "no"]
      BY <2>3, ConsumedType DEF Consumed, ConnType, Goto, Verdict
    <3>3. QED
      BY <1>9, <2>1, <3>1, <3>2 DEF ReadMail, ProbeInv, InSync, Reading, ProbeType
  <2>4. CASE conn' = conn /\ Goto("emit") /\ UNCHANGED probe
    BY <1>9, <2>1, <2>4 DEF ReadMail, Goto, ProbeInv, InSync, Reading
  <2>5. QED
    BY <1>9, <2>2, <2>3, <2>4 DEF ReadMail
<1>10. CASE ReadRcpt
  <2>1. pc = "rcpt" /\ pc \in Reading /\ Expected(pc) = "RCPT" /\ Expected("rset") = "RSET"
        /\ "RSET" \in Commands /\ "rset" \in Reading /\ probe.openRelay = "none"
    BY <1>10 DEF ReadRcpt, ProbeInv, Reading, Expected, Commands
  <2>2. CASE Heard /\ Verdict(Is250) /\ Send(Consumed, "RSET", "rset")
    <3>1. InSync' /\ conn'.slipped = conn.slipped /\ pc' = "rset"
      BY <2>1, <2>2, SentAfterReply DEF TrySend, Send, Goto
    <3>2. ~conn.slipped => (Is250 <=> Relays(world[host]))
      BY <2>1, <2>2, HeardInStep DEF Is250, Relays
    <3>3. /\ probe' = [probe EXCEPT !.openRelay = IF Is250 THEN "yes" ELSE "no"]
      BY <2>2 DEF Verdict
    <3>4. QED
      BY <1>10, <2>1, <3>1, <3>2, <3>3 DEF ReadRcpt, ProbeInv, ProbeType
  <2>3. CASE conn' = conn /\ Goto("emit") /\ UNCHANGED probe
    BY <1>10, <2>1, <2>3 DEF ReadRcpt, Goto, ProbeInv, InSync, Reading
  <2>4. QED
    BY <1>10, <2>2, <2>3 DEF ReadRcpt
<1>11. CASE ReadRset
  BY <1>11 DEF ReadRset, Goto, ProbeInv, InSync, Reading
<1>12. CASE Emit \/ BudgetExceeded
  <2>1. /\ conn' = NoConn /\ pc' \in {"connect", "done", "emit"}
        /\ \/ probe' = EmptyProbe
           \/ pc' = "emit" /\ probe' = [EmptyProbe EXCEPT !.error = "budget"]
    BY <1>12 DEF Emit, BudgetExceeded, Goto
  <2>2. /\ probe'.openRelay = "none" /\ probe'.ehlo = "empty" /\ probe'.starttls = "none"
        /\ pc' # "emit" => probe' = EmptyProbe
    BY <2>1 DEF EmptyProbe
  <2>3. QED
    BY <2>1, <2>2 DEF ProbeInv, InSync, Reading
<1>13. CASE Tick \/ ContinuationLine
  BY <1>13 DEF Tick, ContinuationLine, ProbeInv, InSync
<1>14. CASE PeerCloses
  <2>1. conn'.slipped = conn.slipped /\ ~conn'.up
    BY <1>14 DEF PeerCloses, ConnType
  <2>2. QED
    BY <1>14, <2>1 DEF PeerCloses, ProbeInv, InSync
<1>15. CASE UNCHANGED vars
  BY <1>15 DEF vars, ProbeInv, InSync
<1>16. QED
  BY <1>1, <1>2, <1>3, <1>4, <1>5, <1>6, <1>7, <1>8, <1>9, <1>10, <1>11, <1>12, <1>13,
     <1>14, <1>15 DEF Next

(* The reports: each is the probe of its host at the time it was emitted.  *)
LEMMA ReportsNext ==
  ASSUME IInv, [Next]_vars
  PROVE  OneReportPerHost' /\ RelayVerdictIsTheServers' /\ StarttlsVerdictIsTheServers'
<1> USE DEF IInv
<1>1. CASE Emit
  <2> DEFINE r == [port25 |-> probe, findings |-> Findings(probe), slipped |-> conn.slipped]
  <2>1. /\ report' = Append(report, r) /\ UNCHANGED <<world, mx>> /\ pc = "emit"
        /\ report \in Seq(ReportType) /\ host \in 1..mx /\ mx \in Nat
    BY <1>1, ConstantsAssumption DEF Emit, TypeOK
  <2>2. Len(report) = host - 1
    BY <2>1 DEF OneReportPerHost
  <2>3. r \in ReportType
    BY FindingTypes DEF TypeOK, ReportType, ConnType
  <2>4. /\ Len(report') = host
        /\ report'[host] = r
        /\ \A i \in 1..Len(report) : report'[i] = report[i]
        /\ \A i \in 1..Len(report') : i \in 1..Len(report) \/ i = host
    BY <2>1, <2>2, <2>3
  <2>5. OneReportPerHost'
    BY <1>1, <2>1, <2>4 DEF Emit, Goto, OneReportPerHost
  <2>6. ~conn.slipped => VerdictOf(probe, host)
    BY DEF ProbeInv
  <2>7. StarttlsOf(probe, conn.slipped, world[host])
    BY DEF ProbeInv
  <2>8. RelayVerdictIsTheServers'
    BY <2>1, <2>4, <2>6 DEF RelayVerdictIsTheServers, VerdictOf
  <2>9. StarttlsVerdictIsTheServers'
    BY <2>1, <2>4, <2>7 DEF StarttlsVerdictIsTheServers
  <2>10. QED
    BY <2>5, <2>8, <2>9
<1>2. CASE Resolve
  <2>1. report' = report /\ world' = world /\ Len(report) = 0
        /\ mx' = (IF pc' = "done" THEN 0 ELSE mx') /\ pc' \in {"connect", "done"}
        /\ host' = IF pc' = "done" THEN 0 ELSE 1
    <3>1. pc = "resolve" /\ host = 0
      BY <1>2, ConstantsAssumption DEF Resolve, TypeOK, ProbeInv
    <3>2. QED
      BY <1>2, <3>1 DEF Resolve, Goto, OneReportPerHost
  <2>2. QED
    BY <2>1 DEF OneReportPerHost, RelayVerdictIsTheServers, StarttlsVerdictIsTheServers
<1>3. CASE pc # "done" /\ pc' # "done" /\ UNCHANGED <<world, mx, host, report>>
  BY <1>3 DEF OneReportPerHost, RelayVerdictIsTheServers, VerdictOf,
              StarttlsVerdictIsTheServers
<1>4. CASE UNCHANGED vars
  BY <1>4 DEF vars, OneReportPerHost, RelayVerdictIsTheServers, VerdictOf,
              StarttlsVerdictIsTheServers
<1>5. CASE Next /\ ~Emit /\ ~Resolve
  <2>1. pc # "done" /\ pc' # "done" /\ UNCHANGED <<world, mx, host, report>>
    BY <1>5 DEF Next, Connect, ReadBanner, ReadEhlo, ReadStarttls, Handshake,
         ParallelConnect, ParallelBanner, ParallelEhlo, IgnoringRead, ReadMail, ReadRcpt,
         ReadRset, Tick, BudgetExceeded, ContinuationLine, PeerCloses, TrySend, Send,
         SendFails, Goto, Awaits, Reading
  <2>2. QED
    BY <1>3, <2>1
<1>6. QED
  BY <1>1, <1>2, <1>4, <1>5

LEMMA IInvInit == ASSUME Init PROVE IInv
<1>1. TypeOK
  BY TypeInit
<1>2. /\ pc = "resolve" /\ host = 0 /\ probe = EmptyProbe /\ conn = NoConn
      /\ report = << >> /\ Len(report) = 0
  BY DEF Init
<1>3. ProbeInv
  BY <1>2 DEF ProbeInv, InSync, Reading, VerdictOf, StarttlsOf, EmptyProbe
<1>4. OneReportPerHost /\ RelayVerdictIsTheServers /\ StarttlsVerdictIsTheServers
  BY <1>2 DEF OneReportPerHost, RelayVerdictIsTheServers, StarttlsVerdictIsTheServers
<1>5. QED
  BY <1>1, <1>3, <1>4 DEF IInv

(* The inductive invariant.                                                *)
THEOREM Invariance == Spec => []IInv
<1>1. Init => IInv
  BY IInvInit
<1>2. IInv /\ [Next]_vars => IInv'
  BY TypeNext, ProbeInvNext, ReportsNext DEF IInv
<1>3. QED
  BY <1>1, <1>2, PTL DEF Spec

(* No action but an ignored read failure can put the conversation out of   *)
(* step (the reads and writes of probe_port25, open_relay_probe and        *)
(* open_relay_via_parallel_connection).                                    *)
THEOREM ConversationInSync == Spec => []InSync
<1>1. IInv => InSync
  BY DEF IInv, ProbeInv
<1>2. QED
  BY <1>1, Invariance, PTL

(* In step, the open-relay verdict is the server's own, both ways.         *)
THEOREM RelayVerdict == Spec => []RelayVerdictIsTheServers
<1>1. IInv => RelayVerdictIsTheServers
  BY DEF IInv
<1>2. QED
  BY <1>1, Invariance, PTL

(* What a report says of STARTTLS is what the server said.                 *)
THEOREM StarttlsVerdict == Spec => []StarttlsVerdictIsTheServers
<1>1. IInv => StarttlsVerdictIsTheServers
  BY DEF IInv
<1>2. QED
  BY <1>1, Invariance, PTL

(* One report per MX host, in order, whatever each host does.              *)
THEOREM ReportPerHost == Spec => []OneReportPerHost
<1>1. IInv => OneReportPerHost
  BY DEF IInv
<1>2. QED
  BY <1>1, Invariance, PTL
------------------------------------------------------------------------------
(* The discovery.                                                          *)

(* While addresses are gathered, those known are those a source named.     *)
Gathering ==
  /\ phase \in {"crt.sh", "dns-soa", "pattern"} => DOMAIN emails = sourced
  /\ phase = "crt.sh" => sourced = {}

(* A dialogue is about the nonce, or about guesses.                        *)
Probing ==
  /\ phase = "catch-all" => session.to = Nonce
  /\ phase = "validate" => session.to \in PatternsOf(emails) /\ todo \subseteq PatternsOf(emails)

(* The next line answers the command just sent.  A greeting of two lines   *)
(* breaks this at EHLO, where the dialogue ends; a two-line reply to MAIL  *)
(* at RCPT, where its second line is taken for the verdict.                *)
Aligned ==
  /\ session.at = "greeting" =>
       Tail(session.lines) = << >> \/ Head(Tail(session.lines)).of = "GREET"
  /\ session.at = "ehlo" =>
       Tail(session.lines) = << >> \/ Head(session.lines).of = "GREET"
  /\ "MAIL" \notin server.long =>
       /\ session.at = "mail" => Tail(session.lines) = << >>
       /\ session.at = "rcpt" /\ Starts250(Head(session.lines)) => session.to \in server.accepts

(* The invariant of the discovery.                                         *)
Inv ==
  /\ DiscoverTypeOK /\ Gathering /\ Probing /\ Aligned
  /\ VerdictIsTheServers /\ SourcedIsNotProbed

------------------------------------------------------------------------------
(* Lines read before others, if there are any, come first.                 *)
LEMMA ReadFirst ==
  ASSUME NEW S, NEW s \in Seq(S), NEW t \in Seq(S), t # << >>
  PROVE  /\ s \o t \in Seq(S) /\ s \o t # << >>
         /\ s = << >> => s \o t = t
         /\ s # << >> => Head(s \o t) = Head(s)
<1>1. s \o t \in Seq(S) /\ s \o t # << >>
  BY ConcatProperties, ConcatEqualIffEmpty
<1>2. s = << >> => s \o t = t
  BY ConcatEmptySeq
<1>3. s # << >> => Head(s \o t) = Head(s)
  BY <1>1, ConcatProperties, EmptySeq
<1>4. QED BY <1>1, <1>2, <1>3

(* A reply has its code on every line, and one line or two.                *)
LEMMA ReplyForm ==
  ASSUME NEW c \in {"GREET", "EHLO", "MAIL", "RCPT"}, NEW ok \in BOOLEAN
  PROVE  /\ Reply(c, ok) \in Seq(LineType) /\ Reply(c, ok) # << >>
         /\ Head(Reply(c, ok)).of = c /\ Head(Reply(c, ok)).ok = ok
         /\ c \notin server.long => Tail(Reply(c, ok)) = << >>
         /\ c \in server.long => Head(Tail(Reply(c, ok))).of = c
<1> DEFINE a == Line(c, ok, FALSE)
           b == Line(c, ok, TRUE)
<1>1. a \in LineType /\ b \in LineType /\ a.of = c /\ a.ok = ok /\ b.of = c /\ b.ok = ok
  BY DEF Line, LineType
<1>2. Reply(c, ok) = IF c \in server.long THEN <<a>> \o <<b>> ELSE << >> \o <<b>>
  BY DEF Reply
<1> HIDE DEF a, b
<1>3. << >> \o <<b>> = <<b>> /\ <<a>> \o <<b>> = <<a, b>>
  <2>1. <<a>> \in Seq(LineType) /\ <<b>> \in Seq(LineType)
    BY <1>1
  <2>2. <<a>> \o <<b>> = <<a, b>>
    <3>1. <<a, b>> \in Seq(LineType) /\ Len(<<a, b>>) = 2 /\ <<a, b>>[1] = a /\ <<a, b>>[2] = b
      BY <1>1
    <3>2. <<a>> \o <<b>> \in Seq(LineType) /\ Len(<<a>> \o <<b>>) = 2
      BY <2>1, ConcatProperties
    <3>3. (<<a>> \o <<b>>)[1] = a /\ (<<a>> \o <<b>>)[2] = b
      BY <2>1, ConcatProperties
    <3>4. \A i \in 1 .. 2 : (<<a>> \o <<b>>)[i] = <<a, b>>[i]
      BY <3>1, <3>3
    <3>5. QED BY <3>1, <3>2, <3>4, SeqEqual
  <2>3. QED BY <2>1, <2>2, ConcatEmptySeq
<1>4. /\ <<b>> \in Seq(LineType) /\ Head(<<b>>) = b /\ Tail(<<b>>) = << >>
      /\ <<a, b>> \in Seq(LineType) /\ Head(<<a, b>>) = a /\ Tail(<<a, b>>) = <<b>>
      /\ <<a, b>> # << >> /\ <<b>> # << >>
  BY <1>1
<1>5. QED BY <1>1, <1>2, <1>3, <1>4

(* A dialogue that goes on has lines to read, the earlier ones first.      *)
LEMMA GoesOn ==
  ASSUME DiscoverTypeOK, NEW p \in {"greeting", "ehlo", "mail", "rcpt"}, NEW read \in Seq(LineType),
         NEW c \in {"GREET", "EHLO", "MAIL", "RCPT"}, NEW ok \in BOOLEAN,
         Goes(p, read, Reply(c, ok))
  PROVE  /\ session' \in SessionType /\ session'.at = p /\ session'.to = session.to
         /\ session'.lines # << >>
         /\ read = << >> => session'.lines = Reply(c, ok)
         /\ read # << >> => Head(session'.lines) = Head(read)
<1> DEFINE ls == read \o Reply(c, ok)
<1>1. /\ ls \in Seq(LineType) /\ ls # << >>
      /\ read = << >> => ls = Reply(c, ok)
      /\ read # << >> => Head(ls) = Head(read)
  <2>1. Reply(c, ok) \in Seq(LineType) /\ Reply(c, ok) # << >>
    BY ReplyForm
  <2>2. QED BY <2>1, ReadFirst
<1>2. session' = [session EXCEPT !.at = p, !.lines = ls]
  BY DEF Goes
<1> HIDE DEF ls
<1>3. QED BY <1>1, <1>2 DEF DiscoverTypeOK, SessionType

(* What a step within a dialogue keeps: all but the dialogue itself.       *)
LEMMA WithinInv ==
  ASSUME Inv, Within, session.at # "closed", session' \in SessionType,
         session'.to = session.to, session'.at # "closed",
         session'.at \in {"greeting", "ehlo", "mail", "rcpt"} => session'.lines # << >>,
         Aligned'
  PROVE  Inv'
<1>1. UNCHANGED <<server, opts, sourced, phase, emails, catchAll, todo>>
  BY DEF Within, Rest
<1>2. DiscoverTypeOK'
  BY <1>1 DEF Inv, DiscoverTypeOK
<1>3. Gathering' /\ Probing'
  BY <1>1 DEF Inv, Gathering, Probing, PatternsOf
<1>4. VerdictIsTheServers' /\ SourcedIsNotProbed'
  BY <1>1 DEF Inv, VerdictIsTheServers, SourcedIsNotProbed, IsCatchAll
<1>5. QED BY <1>2, <1>3, <1>4 DEF Inv

(* The server's greeting is on its way.                                    *)
LEMMA OpenTcpInv ==
  ASSUME Inv, OpenTcp
  PROVE  Inv'
<1>1. PICK ok \in BOOLEAN : Goes("greeting", << >>, Reply("GREET", ok))
  BY DEF OpenTcp
<1>2. << >> \in Seq(LineType)
  BY EmptySeq
<1>3. /\ session' \in SessionType /\ session'.at = "greeting" /\ session'.to = session.to
      /\ session'.lines # << >> /\ session'.lines = Reply("GREET", ok)
  BY <1>1, <1>2, GoesOn DEF Inv
<1>4. Tail(session'.lines) = << >> \/ Head(Tail(session'.lines)).of = "GREET"
  BY <1>3, ReplyForm
<1>5. Aligned'
  BY <1>3, <1>4 DEF Aligned
<1>6. QED BY <1>3, <1>5, WithinInv DEF OpenTcp

(* What the lines of a dialogue are made of.                               *)
LEMMA LinesTyped ==
  ASSUME Inv, session.at \in {"greeting", "ehlo", "mail", "rcpt"}
  PROVE  session.lines \in Seq(LineType) /\ Tail(session.lines) \in Seq(LineType)
<1>1. session.lines \in Seq(LineType) /\ session.lines # << >>
  BY DEF Inv, DiscoverTypeOK, SessionType
<1>2. QED BY <1>1, HeadTailProperties

(* The greeting is read, and EHLO sent.                                    *)
LEMMA GreetingInv ==
  ASSUME Inv, Greeting
  PROVE  Inv'
<1>1. PICK ok \in BOOLEAN : Goes("ehlo", Tail(session.lines), Reply("EHLO", ok))
  BY DEF Greeting
<1>2. session.at = "greeting" /\ Tail(session.lines) \in Seq(LineType)
  BY LinesTyped DEF Greeting
<1>3. /\ session' \in SessionType /\ session'.at = "ehlo" /\ session'.to = session.to
      /\ session'.lines # << >>
      /\ Tail(session.lines) = << >> => session'.lines = Reply("EHLO", ok)
      /\ Tail(session.lines) # << >> => Head(session'.lines) = Head(Tail(session.lines))
  BY <1>1, <1>2, GoesOn DEF Inv
<1>4. "EHLO" \notin server.long /\ server' = server
  BY DEF Inv, DiscoverTypeOK, WorldType, Greeting, Within, Rest
<1>5. Tail(session'.lines) = << >> \/ Head(session'.lines).of = "GREET"
  BY <1>2, <1>3, <1>4, ReplyForm DEF Inv, Aligned
<1>6. Aligned'
  BY <1>3, <1>5 DEF Aligned
<1>7. QED BY <1>2, <1>3, <1>6, WithinInv DEF Greeting

(* The last line of the reply to EHLO is read, and MAIL sent.  A line left *)
(* of the greeting is not it.                                              *)
LEMMA EhloInv ==
  ASSUME Inv, Ehlo
  PROVE  Inv'
<1>1. PICK ok \in BOOLEAN : Goes("mail", Tail(session.lines), Reply("MAIL", ok))
  BY DEF Ehlo
<1>2. session.at = "ehlo" /\ Tail(session.lines) = << >> /\ << >> \in Seq(LineType)
  BY EmptySeq DEF Ehlo, Starts250, Inv, Aligned
<1>3. /\ session' \in SessionType /\ session'.at = "mail" /\ session'.to = session.to
      /\ session'.lines # << >> /\ session'.lines = Reply("MAIL", ok)
  BY <1>1, <1>2, GoesOn DEF Inv
<1>4. "MAIL" \notin server.long => Tail(session'.lines) = << >>
  BY <1>3, ReplyForm
<1>5. server' = server
  BY DEF Ehlo, Within, Rest
<1>6. Aligned'
  BY <1>3, <1>4, <1>5 DEF Aligned
<1>7. QED BY <1>2, <1>3, <1>6, WithinInv DEF Ehlo

(* A further line of that reply only takes its time.                       *)
LEMMA EhloLineInv ==
  ASSUME Inv, EhloLine
  PROVE  Inv'
<1>1. /\ session' \in SessionType /\ session'.at = "ehlo" /\ session.at = "ehlo"
      /\ session'.to = session.to /\ session'.lines = session.lines /\ session.lines # << >>
  BY AddressesAssumption DEF EhloLine, Inv, DiscoverTypeOK, SessionType
<1>2. Aligned'
  BY <1>1 DEF Inv, Aligned
<1>3. QED BY <1>1, <1>2, WithinInv DEF EhloLine

(* The reply to MAIL is read, its first line only, and RCPT sent.          *)
LEMMA MailFromInv ==
  ASSUME Inv, MailFrom
  PROVE  Inv'
<1>1. PICK ok \in BOOLEAN : /\ ok => session.to \in server.accepts
                            /\ Goes("rcpt", Tail(session.lines), Reply("RCPT", ok))
  BY DEF MailFrom
<1>2. session.at = "mail" /\ Tail(session.lines) \in Seq(LineType)
  BY LinesTyped DEF MailFrom
<1>3. /\ session' \in SessionType /\ session'.at = "rcpt" /\ session'.to = session.to
      /\ session'.lines # << >>
      /\ Tail(session.lines) = << >> => session'.lines = Reply("RCPT", ok)
  BY <1>1, <1>2, GoesOn DEF Inv
<1>4. server' = server
  BY DEF MailFrom, Within, Rest
<1>5. "MAIL" \notin server.long /\ Starts250(Head(session'.lines)) => session.to \in server.accepts
  BY <1>1, <1>2, <1>3, ReplyForm DEF Starts250, Inv, Aligned
<1>6. Aligned'
  BY <1>3, <1>4, <1>5 DEF Aligned
<1>7. QED BY <1>2, <1>3, <1>6, WithinInv DEF MailFrom

------------------------------------------------------------------------------
(* The first sources: what they name is not a guess.                       *)
LEMMA AddInv ==
  ASSUME Inv, phase \in {"crt.sh", "dns-soa"}, phase' \in {"dns-soa", "pattern"},
         NEW S \in SUBSET Addr, NEW src \in {"crt.sh", "dns-soa"},
         Add(S, src), sourced' = sourced \cup S,
         UNCHANGED <<server, opts, catchAll, todo, session>>
  PROVE  Inv'
<1>1. DOMAIN emails = sourced /\ session.at = "closed"
  BY DEF Inv, Gathering, DiscoverTypeOK
<1>2. /\ DOMAIN emails' = sourced'
      /\ \A a \in DOMAIN emails : emails'[a] = emails[a]
      /\ \A a \in DOMAIN emails' \ DOMAIN emails : emails'[a] = Entry(src)
  BY <1>1 DEF Add
<1>3. /\ Entry(src) \in EntryType /\ Entry(src).source # "pattern"
      /\ Entry(src).validated = "none"
  BY DEF Entry, EntryType
<1>4. \A a \in DOMAIN emails : /\ emails[a] \in EntryType
                               /\ emails[a].source # "pattern" /\ emails[a].validated = "none"
  BY <1>1 DEF Inv, DiscoverTypeOK, SourcedIsNotProbed
<1>5. \A a \in DOMAIN emails' : /\ emails'[a] \in EntryType
                                /\ emails'[a].source # "pattern" /\ emails'[a].validated = "none"
  BY <1>2, <1>3, <1>4
<1>6. DOMAIN emails \subseteq Addr /\ todo \subseteq DOMAIN emails
  BY DEF Inv, DiscoverTypeOK
<1>7. DiscoverTypeOK'
  BY <1>1, <1>2, <1>5, <1>6 DEF Inv, DiscoverTypeOK
<1>8. Gathering' /\ SourcedIsNotProbed'
  BY <1>1, <1>2, <1>5 DEF Gathering, SourcedIsNotProbed
<1>9. Probing' /\ Aligned'
  BY <1>1 DEF Probing, Aligned
<1>10. VerdictIsTheServers'
  BY <1>5 DEF Inv, VerdictIsTheServers, IsCatchAll
<1>11. QED BY <1>7, <1>8, <1>9, <1>10 DEF Inv

(* What the report under construction says, whatever phase it is in.       *)
Reported ==
  /\ sourced \subseteq DOMAIN emails /\ DOMAIN emails \subseteq Addr
  /\ \A a \in DOMAIN emails : emails[a] \in EntryType
  /\ \A a \in sourced : emails[a].source # "pattern" /\ emails[a].validated = "none"
  /\ catchAll \in {"none", "yes", "no"} /\ VerdictIsTheServers

LEMMA InvReported == Inv => Reported
BY DEF Inv, DiscoverTypeOK, SourcedIsNotProbed, Reported

(* The loop over the confirmed entries is entered, and the dialogue is     *)
(* closed: after the guesses, or after the last verdict.                   *)
LEMMA ReputationInv ==
  ASSUME Inv, Reported', Reputation(emails'), UNCHANGED <<server, opts, sourced>>
  PROVE  Inv'
<1>1. session' = NoSession /\ phase' = "reputation" /\ todo' \subseteq DOMAIN emails'
  BY DEF Reputation, Confirmed
<1>2. session' \in SessionType /\ session'.at = "closed"
  BY <1>1, EmptySeq, AddressesAssumption DEF NoSession, SessionType
<1>3. DiscoverTypeOK'
  BY <1>1, <1>2 DEF Inv, DiscoverTypeOK, Reported
<1>4. Gathering' /\ Probing' /\ Aligned'
  BY <1>1, <1>2 DEF Gathering, Probing, Aligned
<1>5. SourcedIsNotProbed' /\ VerdictIsTheServers'
  BY <1>2 DEF SourcedIsNotProbed, Reported
<1>6. QED BY <1>3, <1>4, <1>5 DEF Inv

(* A dialogue is opened, about the nonce or about a guess.                 *)
LEMMA OpenedInv ==
  ASSUME Inv, Reported', UNCHANGED <<server, opts, sourced>>,
         NEW a \in Addr \cup {Nonce}, session' = Opened(a), todo' \subseteq DOMAIN emails',
         \/ phase' = "catch-all" /\ a = Nonce
         \/ phase' = "validate" /\ ({a} \cup todo') \subseteq PatternsOf(emails')
  PROVE  Inv'
<1>1. /\ session' \in SessionType /\ session'.at = "connect" /\ session'.to = a
  BY EmptySeq, AddressesAssumption DEF Opened, SessionType
<1>2. DiscoverTypeOK'
  BY <1>1 DEF Inv, DiscoverTypeOK, Reported
<1>3. Gathering' /\ Probing' /\ Aligned'
  BY <1>1 DEF Gathering, Probing, Aligned
<1>4. a \notin sourced'
  BY AddressesAssumption DEF Reported, PatternsOf
<1>5. SourcedIsNotProbed' /\ VerdictIsTheServers'
  BY <1>1, <1>4 DEF SourcedIsNotProbed, Reported
<1>6. QED BY <1>2, <1>3, <1>5 DEF Inv

(* The loop of the verdicts goes on to a guess, or is over.                *)
LEMMA EnteredInv ==
  ASSUME Inv, Reported', UNCHANGED <<server, opts, sourced>>,
         NEW S, S \subseteq PatternsOf(emails'), Entered(emails', S)
  PROVE  Inv'
<1>1. CASE S = {}
  BY <1>1, ReputationInv DEF Entered
<1>2. CASE S # {}
  <2>1. PICK a \in S : session' = Opened(a) /\ todo' = S \ {a}
    BY <1>2 DEF Entered
  <2>2. phase' = "validate" /\ S \subseteq DOMAIN emails' /\ a \in Addr
    BY <1>2 DEF Entered, PatternsOf, Reported
  <2>3. QED BY <2>1, <2>2, OpenedInv
<1>3. QED BY <1>1, <1>2

(* The guesses join the addresses the sources named.                       *)
LEMMA PatternInv ==
  ASSUME Inv, Pattern
  PROVE  Inv'
<1>1. /\ DOMAIN emails' = DOMAIN emails \cup Guesses
      /\ \A a \in DOMAIN emails : emails'[a] = emails[a]
      /\ \A a \in DOMAIN emails' \ DOMAIN emails : emails'[a] = Entry("pattern")
  BY DEF Pattern, Add
<1>2. Entry("pattern") \in EntryType /\ Entry("pattern").validated = "none"
  BY DEF Entry, EntryType
<1>3. UNCHANGED <<server, opts, sourced, catchAll>>
  BY DEF Pattern
<1>4. VerdictIsTheServers'
  BY <1>1, <1>2, <1>3 DEF Inv, VerdictIsTheServers, IsCatchAll
<1>5. Reported'
  BY <1>1, <1>2, <1>3, <1>4, InvReported, AddressesAssumption DEF Reported
<1>6. CASE phase' = "catch-all" /\ session' = Opened(Nonce) /\ UNCHANGED todo
  <2>1. todo' \subseteq DOMAIN emails'
    BY <1>1, <1>6 DEF Inv, DiscoverTypeOK
  <2>2. QED BY <1>3, <1>5, <1>6, <2>1, OpenedInv
<1>7. CASE Reputation(emails')
  BY <1>3, <1>5, <1>7, ReputationInv
<1>8. QED BY <1>6, <1>7 DEF Pattern

(* A verdict that is positive only if the server's answer was, unless it   *)
(* answers MAIL with two lines, is entered where it belongs.               *)
LEMMA ReturnInv ==
  ASSUME Inv, session.at # "closed", NEW accepted \in BOOLEAN, Return(accepted), Rest,
         "MAIL" \notin server.long /\ accepted => session.to \in server.accepts
  PROVE  Inv'
<1>1. phase \in {"catch-all", "validate"} /\ UNCHANGED <<server, opts, sourced>>
  BY DEF Inv, DiscoverTypeOK, Rest
<1>2. CASE phase = "catch-all"
  <2>1. /\ catchAll' = IF accepted THEN "yes" ELSE "no"
        /\ Entered(emails, IF accepted THEN {} ELSE PatternsOf(emails))
        /\ emails' = emails
    BY <1>2 DEF Return
  <2>2. session.to = Nonce
    BY <1>2 DEF Inv, Probing
  <2>3. VerdictIsTheServers'
    BY <1>1, <2>1, <2>2 DEF Inv, VerdictIsTheServers, IsCatchAll
  <2>4. Reported'
    BY <1>1, <2>1, <2>3, InvReported DEF Reported
  <2>5. QED BY <1>1, <2>1, <2>4, EnteredInv
<1>3. CASE phase = "validate"
  <2> DEFINE v == IF accepted THEN "yes" ELSE "no"
  <2>1. /\ emails' = [emails EXCEPT ![session.to].validated = v]
        /\ Entered(emails', todo) /\ catchAll' = catchAll
    BY <1>3 DEF Return
  <2>2. session.to \in PatternsOf(emails) /\ todo \subseteq PatternsOf(emails)
    BY <1>3 DEF Inv, Probing
  <2>3. v \in {"yes", "no"} /\ (v = "yes" <=> accepted)
    OBVIOUS
  <2> HIDE DEF v
  <2>4. emails[session.to] \in EntryType /\ session.to \in DOMAIN emails
    BY <2>2 DEF Inv, DiscoverTypeOK, PatternsOf
  <2> DEFINE e == [emails[session.to] EXCEPT !.validated = v]
  <2>5. e \in EntryType /\ e.validated = v /\ e.source = emails[session.to].source
    BY <2>3, <2>4 DEF EntryType
  <2>6. /\ DOMAIN emails' = DOMAIN emails /\ emails'[session.to] = e
        /\ \A a \in DOMAIN emails \ {session.to} : emails'[a] = emails[a]
    BY <2>1, <2>4
  <2> HIDE DEF e
  <2>7. VerdictIsTheServers'
    BY <1>1, <2>1, <2>3, <2>5, <2>6 DEF Inv, VerdictIsTheServers, IsCatchAll
  <2>8. session.to \notin sourced
    BY DEF Inv, SourcedIsNotProbed
  <2>9. Reported'
    BY <1>1, <2>1, <2>5, <2>6, <2>7, <2>8, InvReported DEF Reported
  <2>10. PatternsOf(emails') = PatternsOf(emails)
    BY <2>5, <2>6 DEF PatternsOf
  <2>11. QED BY <1>1, <2>1, <2>2, <2>9, <2>10, EnteredInv
<1>4. QED BY <1>1, <1>2, <1>3

(* One lookup at EmailRep.io leaves source and verdict.                    *)
LEMMA EmailRepInv ==
  ASSUME Inv, EmailRep
  PROVE  Inv'
<1>1. PICK a \in todo, got \in BOOLEAN : emails' = [emails EXCEPT ![a].reputation = got]
  BY DEF EmailRep
<1>2. /\ phase = "reputation" /\ todo' \subseteq todo
      /\ UNCHANGED <<server, opts, phase, sourced, catchAll, session>>
  BY DEF EmailRep
<1>3. a \in DOMAIN emails /\ emails[a] \in EntryType
  BY DEF Inv, DiscoverTypeOK
<1> DEFINE e == [emails[a] EXCEPT !.reputation = got]
<1>4. e \in EntryType /\ e.source = emails[a].source /\ e.validated = emails[a].validated
  BY <1>3 DEF EntryType
<1>5. /\ DOMAIN emails' = DOMAIN emails /\ emails'[a] = e
      /\ \A o \in DOMAIN emails \ {a} : emails'[o] = emails[o]
  BY <1>1, <1>3
<1> HIDE DEF e
<1>6. DiscoverTypeOK'
  BY <1>2, <1>4, <1>5 DEF Inv, DiscoverTypeOK
<1>7. VerdictIsTheServers' /\ SourcedIsNotProbed'
  BY <1>2, <1>4, <1>5 DEF Inv, DiscoverTypeOK, VerdictIsTheServers, SourcedIsNotProbed, IsCatchAll
<1>8. Gathering' /\ Probing' /\ Aligned'
  BY <1>2 DEF Inv, DiscoverTypeOK, Gathering, Probing, Aligned
<1>9. QED BY <1>6, <1>7, <1>8 DEF Inv

------------------------------------------------------------------------------
(* Nothing is known at the start.                                          *)
LEMMA InvInit == DiscoverInit => Inv
<1> SUFFICES ASSUME DiscoverInit PROVE Inv
  OBVIOUS
<1>1. DOMAIN emails = {} /\ session = NoSession /\ phase = "crt.sh" /\ sourced = {} /\ todo = {}
  BY DEF DiscoverInit
<1>2. session \in SessionType /\ session.at = "closed"
  BY <1>1, EmptySeq, AddressesAssumption DEF NoSession, SessionType
<1>3. DiscoverTypeOK
  BY <1>1, <1>2 DEF DiscoverInit, DiscoverTypeOK
<1>4. Gathering /\ Probing /\ Aligned
  BY <1>1, <1>2 DEF Gathering, Probing, Aligned
<1>5. VerdictIsTheServers /\ SourcedIsNotProbed
  BY <1>1, <1>2 DEF DiscoverInit, VerdictIsTheServers, SourcedIsNotProbed
<1>6. QED BY <1>3, <1>4, <1>5 DEF Inv

(* Every step of the discovery keeps what it knows.                        *)
LEMMA InvNext == Inv /\ [DiscoverNext]_discoverVars => Inv'
<1> SUFFICES ASSUME Inv, [DiscoverNext]_discoverVars PROVE Inv'
  OBVIOUS
<1>1. CASE CrtSh
  <2>1. PICK S \in SUBSET Addr : Add(S, "crt.sh") /\ sourced' = S
    BY <1>1 DEF CrtSh
  <2>2. sourced' = sourced \cup S /\ phase = "crt.sh" /\ phase' = "dns-soa"
    BY <1>1, <2>1 DEF CrtSh, Inv, Gathering
  <2>3. UNCHANGED <<server, opts, catchAll, todo, session>>
    BY <1>1 DEF CrtSh
  <2>4. QED BY <2>1, <2>2, <2>3, AddInv
<1>2. CASE DnsSoa
  BY <1>2, AddInv DEF DnsSoa
<1>3. CASE Pattern
  BY <1>3, PatternInv
<1>4. CASE OpenTcp \/ Greeting \/ Ehlo \/ EhloLine \/ MailFrom
  BY <1>4, OpenTcpInv, GreetingInv, EhloInv, EhloLineInv, MailFromInv
<1>5. CASE RcptTo
  <2>1. Starts250(Head(session.lines)) \in BOOLEAN
    BY DEF Starts250
  <2>2. "MAIL" \notin server.long /\ Starts250(Head(session.lines)) => session.to \in server.accepts
    BY <1>5 DEF RcptTo, Inv, Aligned
  <2>3. QED BY <1>5, <2>1, <2>2, ReturnInv DEF RcptTo
<1>6. CASE Refused
  BY <1>6, ReturnInv DEF Refused
<1>7. CASE EmailRep
  BY <1>7, EmailRepInv
<1>8. CASE Done \/ UNCHANGED discoverVars
  BY <1>8 DEF Done, discoverVars, Inv, DiscoverTypeOK, Gathering, Probing, Aligned, PatternsOf,
              VerdictIsTheServers, SourcedIsNotProbed, IsCatchAll
<1>9. QED BY <1>1, <1>2, <1>3, <1>4, <1>5, <1>6, <1>7, <1>8 DEF DiscoverNext

(* The invariant holds of every discovery.                                 *)
LEMMA AlwaysInv == DiscoverSpec => []Inv
BY InvInit, InvNext, PTL DEF DiscoverSpec

(* The types of the report under construction and of the dialogue, which   *)
(* is open exactly while one of the two SMTP loops runs: discover.rs.      *)
THEOREM DiscoverTyped == DiscoverSpec => []DiscoverTypeOK
<1>1. Inv => DiscoverTypeOK
  BY DEF Inv
<1>2. QED BY <1>1, AlwaysInv, PTL

(* A positive verdict is the server's own answer for that address, unless  *)
(* it answers MAIL with two lines: discover.rs, rcpt_to.                   *)
THEOREM VerdictsAreTheServers == DiscoverSpec => []VerdictIsTheServers
<1>1. Inv => VerdictIsTheServers
  BY DEF Inv
<1>2. QED BY <1>1, AlwaysInv, PTL

(* Addresses a source named are not probed, nor taken over by a guess:     *)
(* discover.rs, `seen` and the filter on the source.                       *)
THEOREM SourcedAreNotProbed == DiscoverSpec => []SourcedIsNotProbed
<1>1. Inv => SourcedIsNotProbed
  BY DEF Inv
<1>2. QED BY <1>1, AlwaysInv, PTL
==============================================================================
