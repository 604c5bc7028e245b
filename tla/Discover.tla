------------------------------- MODULE Discover -------------------------------
(***************************************************************************)
(* src/src/discover.rs: `cymail discover`.  Addresses are gathered from    *)
(* three sources, guesses are validated by an SMTP dialogue with the first *)
(* MX (one connection per address, one deadline for the whole dialogue),   *)
(* and confirmed addresses are looked up at EmailRep.io.  The dialogue is  *)
(* modelled line by line: rcpt_to reads one line where a server may answer *)
(* with several.                                                           *)
(***************************************************************************)
EXTENDS Naturals, Sequences

CONSTANTS
  Addr,       \* addresses at the domain (lower case, as in `seen`)
  Guesses,    \* those built from the seed names
  Nonce,      \* the random address of probe_catch_all
  Deadline    \* bound: lines of EHLO text that fit into smtp_timeout

ASSUME AddressesAssumption ==
  Guesses \subseteq Addr /\ Nonce \notin Addr /\ Deadline \in Nat

VARIABLES
  server,     \* WorldType: the first MX, fixed
  opts,       \* use_smtp_validate, use_reputation, and whether there is an MX
  phase,      \* where run() is
  emails,     \* partial function Addr -> EntryType: `emails` and `seen`
  sourced,    \* history: addresses crt.sh or the SOA record named
  catchAll,   \* Option<bool>
  todo,       \* entries the loop of the phase has still to visit
  session     \* the SMTP dialogue of rcpt_to

discoverVars == <<server, opts, phase, emails, sourced, catchAll, todo, session>>

(* accepts: the recipients the server would answer 250 (all of them: a     *)
(* catch-all).  long: the commands it answers with two lines.              *)
WorldType == [accepts : SUBSET (Addr \cup {Nonce}), long : SUBSET {"GREET", "MAIL"}]
OptsType  == [smtp : BOOLEAN, reputation : BOOLEAN, mx : BOOLEAN]
EntryType == [source : {"crt.sh", "dns-soa", "pattern"},
              validated : {"none", "yes", "no"}, reputation : BOOLEAN]

Entry(src) == [source |-> src, validated |-> "none", reputation |-> FALSE]
IsCatchAll == Nonce \in server.accepts

NoSession == [at |-> "closed", to |-> Nonce, lines |-> << >>, left |-> 0]

DiscoverInit ==
  /\ server \in WorldType /\ (IsCatchAll => Addr \subseteq server.accepts)
  /\ opts \in OptsType
  /\ phase = "crt.sh" /\ emails = << >> /\ sourced = {}
  /\ catchAll = "none" /\ todo = {} /\ session = NoSession

------------------------------------------------------------------------------
(* 1-3. The sources.  An address already seen keeps its first entry.       *)

Add_Overwrites(S, src) ==      \* mutant: `seen` is not consulted
  emails' = [a \in DOMAIN emails \cup S |-> IF a \in S THEN Entry(src) ELSE emails[a]]

Add(S, src) ==
  emails' = [a \in DOMAIN emails \cup S |->
               IF a \in DOMAIN emails THEN emails[a] ELSE Entry(src)]

CrtSh ==
  /\ phase = "crt.sh" /\ phase' = "dns-soa"
  /\ \E S \in SUBSET Addr : Add(S, "crt.sh") /\ sourced' = S     \* {}: or it failed
  /\ UNCHANGED <<server, opts, catchAll, todo, session>>

DnsSoa ==
  /\ phase = "dns-soa" /\ phase' = "pattern"
  /\ \E S \in {{}} \cup {{a} : a \in Addr} : Add(S, "dns-soa") /\ sourced' = sourced \cup S
  /\ UNCHANGED <<server, opts, catchAll, todo, session>>

Opened(a) == [at |-> "connect", to |-> a, lines |-> << >>, left |-> Deadline]

(* Entering the reputation loop: the confirmed entries.                    *)
Confirmed(es) == {a \in DOMAIN es : es[a].source # "pattern" \/ es[a].validated = "yes"}
Reputation(es) ==
  /\ phase' = "reputation"
  /\ todo' = IF opts.reputation THEN Confirmed(es) ELSE {}
  /\ session' = NoSession

Pattern ==
  /\ phase = "pattern" /\ Add(Guesses, "pattern")
  /\ IF opts.smtp /\ opts.mx
       THEN phase' = "catch-all" /\ session' = Opened(Nonce) /\ UNCHANGED todo
       ELSE Reputation(emails')
  /\ UNCHANGED <<server, opts, sourced, catchAll>>

------------------------------------------------------------------------------
(* rcpt_to.  Lines are [of, ok, final]: of a reply to which command, with  *)
(* a positive code or not, the last of its reply or not.                   *)

Line(c, ok, final) == [of |-> c, ok |-> ok, final |-> final]
Reply(c, ok) ==
  (IF c \in server.long THEN <<Line(c, ok, FALSE)>> ELSE << >>) \o <<Line(c, ok, TRUE)>>

Starts220(l) == l.of = "GREET" /\ l.ok
Starts250(l) == l.of # "GREET" /\ l.ok

(* The dialogue goes on at p, after command c was answered with lines.     *)
Goes(p, read, lines) ==
  session' = [session EXCEPT !.at = p, !.lines = read \o lines]

(* The verdict of the dialogue is used by the loop that asked for it.      *)
Entered(es, S) == IF S = {} THEN Reputation(es)
                  ELSE /\ \E a \in S : session' = Opened(a) /\ todo' = S \ {a}
                       /\ phase' = "validate"

PatternsOf(es) == {a \in DOMAIN es : es[a].source = "pattern"}

Return(accepted) ==
  IF phase = "catch-all"
    THEN /\ catchAll' = IF accepted THEN "yes" ELSE "no"
         /\ Entered(emails, IF accepted THEN {} ELSE PatternsOf(emails))
         /\ UNCHANGED emails
    ELSE /\ emails' = [emails EXCEPT ![session.to].validated = IF accepted THEN "yes" ELSE "no"]
         /\ Entered(emails', todo)
         /\ UNCHANGED catchAll

Rest == UNCHANGED <<server, opts, sourced>>
Within == UNCHANGED <<phase, emails, catchAll, todo>> /\ Rest

(* Connected: the greeting is on its way, good or a 4xx/5xx.               *)
OpenTcp ==
  /\ session.at = "connect"
  /\ \E ok \in BOOLEAN : Goes("greeting", << >>, Reply("GREET", ok))
  /\ Within

Greeting ==
  /\ session.at = "greeting" /\ Starts220(Head(session.lines))
  /\ \E ok \in BOOLEAN : Goes("ehlo", Tail(session.lines), Reply("EHLO", ok))
  /\ Within

(* The reply to a command may be a transient refusal.                      *)
Ehlo ==
  /\ session.at = "ehlo" /\ Starts250(Head(session.lines))
  /\ \E ok \in BOOLEAN : Goes("mail", Tail(session.lines), Reply("MAIL", ok))
  /\ Within

(* Mutant: the deadline starts over with every line.                       *)
EhloLine_Restarts ==
  /\ session.at = "ehlo" /\ Starts250(Head(session.lines)) /\ session.left > 0
  /\ session' = [session EXCEPT !.left = IF @ = 1 THEN Deadline ELSE @ - 1]
  /\ Within

(* Mutant: no deadline at all.                                             *)
EhloLine_Unbounded ==
  /\ session.at = "ehlo" /\ Starts250(Head(session.lines))
  /\ session' = [session EXCEPT !.left = @ - 1]
  /\ Within

(* "250-": one more line of the EHLO reply, which takes its time.          *)
EhloLine ==
  /\ session.at = "ehlo" /\ Starts250(Head(session.lines)) /\ session.left > 0
  /\ session' = [session EXCEPT !.left = @ - 1]
  /\ Within

MailFrom ==
  /\ session.at = "mail" /\ Starts250(Head(session.lines))
  /\ \E ok \in BOOLEAN :
       /\ ok => session.to \in server.accepts
       /\ Goes("rcpt", Tail(session.lines), Reply("RCPT", ok))
  /\ Within

(* Mutant: whatever came back, the address was accepted.                   *)
RcptTo_AnyReply == session.at = "rcpt" /\ Return(TRUE) /\ Rest

RcptTo ==
  /\ session.at = "rcpt"
  /\ Return(Starts250(Head(session.lines)))
  /\ Rest

(* A line with another code, an error, or the deadline: `unwrap_or(false)`.*)
Refused ==
  /\ session.at # "closed"
  /\ Return(FALSE)
  /\ Rest

------------------------------------------------------------------------------
(* 6. EmailRep.io, one confirmed address after the other.                  *)
EmailRep ==
  /\ phase = "reputation" /\ todo # {}
  /\ \E a \in todo, got \in BOOLEAN :
       /\ emails' = [emails EXCEPT ![a].reputation = got]
       /\ todo' = todo \ {a}
  /\ UNCHANGED <<server, opts, phase, sourced, catchAll, session>>

Done ==
  /\ phase = "reputation" /\ todo = {} /\ phase' = "done"
  /\ UNCHANGED <<server, opts, emails, sourced, catchAll, todo, session>>

DiscoverNext ==
  \/ CrtSh \/ DnsSoa \/ Pattern
  \/ OpenTcp \/ Greeting \/ Ehlo \/ EhloLine \/ MailFrom \/ RcptTo \/ Refused
  \/ EmailRep \/ Done

DiscoverSpec == DiscoverInit /\ [][DiscoverNext]_discoverVars

(* The runtime resumes the one task; its timeouts fire.                    *)
DiscoverFairSpec == DiscoverSpec /\ WF_discoverVars(DiscoverNext)

------------------------------------------------------------------------------
LineType == [of : {"GREET", "EHLO", "MAIL", "RCPT"}, ok : BOOLEAN, final : BOOLEAN]
SessionType ==
  [at : {"closed", "connect", "greeting", "ehlo", "mail", "rcpt"},
   to : Addr \cup {Nonce}, left : 0..Deadline, lines : Seq(LineType)]

(* The report under construction has the shape of discover.rs, and a       *)
(* dialogue is open exactly while one of the two SMTP loops is at work.    *)
DiscoverTypeOK ==
  /\ server \in WorldType /\ opts \in OptsType
  /\ phase \in {"crt.sh", "dns-soa", "pattern", "catch-all", "validate", "reputation", "done"}
  /\ DOMAIN emails \subseteq Addr /\ \A a \in DOMAIN emails : emails[a] \in EntryType
  /\ sourced \subseteq DOMAIN emails /\ catchAll \in {"none", "yes", "no"}
  /\ todo \subseteq DOMAIN emails /\ session \in SessionType
  /\ session.at # "closed" <=> phase \in {"catch-all", "validate"}
  /\ session.at \in {"greeting", "ehlo", "mail", "rcpt"} => session.lines # << >>

(* "validated: Some(true) = MX RCPT TO accepted": a positive verdict, for  *)
(* a guess or for the catch-all probe, is the server's own answer for that *)
(* address, as long as the server answers MAIL with a single line.         *)
VerdictIsTheServers ==
  "MAIL" \notin server.long =>
    /\ \A a \in DOMAIN emails : emails[a].validated = "yes" => a \in server.accepts
    /\ catchAll = "yes" => IsCatchAll

(* An address that a source named is never probed over SMTP, nor is its    *)
(* entry taken over by the guess of the same name.                         *)
SourcedIsNotProbed ==
  /\ session.at # "closed" => session.to \notin sourced
  /\ \A a \in sourced : emails[a].source # "pattern" /\ emails[a].validated = "none"

(* Every run ends, however long the server's EHLO reply.                   *)
RunEnds == <>(phase = "done")

------------------------------------------------------------------------------
(* What the comments say and the code does not keep: each, given as        *)
(* INVARIANT to Discover.cfg, is refuted.                                  *)

(* "If accepted, every guess is valid so we suppress them": on a catch-all *)
(* domain no guess is reported as validated.                               *)
CatchAllIsSuppressed ==
  IsCatchAll => \A a \in DOMAIN emails : emails[a].validated # "yes"

(* "If the server says 250 (accepted), the domain accepts every recipient  *)
(* -> catch_all=true": the bit is the answer to RCPT TO.                   *)
CatchAllIsTheAnswer == catchAll = "yes" => IsCatchAll
==============================================================================
