-------------------------------- MODULE CtWatch --------------------------------
(***************************************************************************)
(* src/src/ct_stream.rs: `cymail leak --watch`.  One task subscribes to    *)
(* CertStream, reports each certificate that names a lookalike of the      *)
(* watched domain, and subscribes again after 5 s when the subscription    *)
(* ends.  The clock is read at the top of the outer loop only.             *)
(***************************************************************************)
EXTENDS Naturals, Sequences, SequencesExt

CONSTANTS
  Variants,   \* keys of variant_map: the lookalikes and the domain itself
  Others,     \* names that are none of them
  Certs,      \* the certificates: sequences of SANs
  Cap,        \* max_runtime in clock steps; 0 is None
  Pause,      \* the 5 s between two subscriptions, in clock steps
  Reconnect,  \* WatchOpts.reconnect
  MaxTransit, \* bound: messages in transit
  MaxOwed     \* bound: matching certificates sent

SAN == [apex : Variants \cup Others, wild : BOOLEAN]     \* wild: "*." apex

ASSUME ConstantsAssumption ==
  /\ Variants \cap Others = {} /\ Certs \subseteq Seq(SAN) \ {<< >>}
  /\ Cap \in Nat /\ Pause \in Nat \ {0} /\ Reconnect \in BOOLEAN
  /\ MaxTransit \in Nat /\ MaxOwed \in Nat

VARIABLES
  pc,       \* "top", "connect", "read", "sleep", or the result: "ok", "err"
  now,      \* started.elapsed(), saturated at Cap
  pause,    \* what is left of the sleep
  quiet,    \* history: steps since the last failure, saturated at Pause
  link,     \* the subscription: "none", "open", "ended" (by the peer or the network)
  transit,  \* messages sent and not yet read
  hits,     \* what on_hit was called with
  owed      \* history: the matching certificates delivered by CertStream

vars == <<pc, now, pause, quiet, link, transit, hits, owed>>

Init ==
  /\ pc = "top" /\ now = 0 /\ pause = 0 /\ quiet = Pause
  /\ link = "none" /\ transit = << >> /\ hits = << >> /\ owed = << >>

Message == [kind : {"ping", "close", "other"}] \cup [kind : {"text"}, san : Certs]

Names(cert) == \E i \in DOMAIN cert : cert[i].apex \in Variants
Due(m) == IF m.kind = "text" /\ Names(m.san) THEN <<m.san>> ELSE << >>
Owing(msgs) == FlattenSeq([i \in DOMAIN msgs |-> Due(msgs[i])])

------------------------------------------------------------------------------
(* CertStream and the network.  A message is a certificate, a ping, or     *)
(* anything else ("other": binary frames, heartbeats, malformed JSON).     *)

Deliver(m) ==
  /\ link = "open" /\ Len(transit) < MaxTransit
  /\ Len(owed) + Len(Owing(<<m>>)) <= MaxOwed
  /\ transit' = Append(transit, m)
  /\ owed' = owed \o Owing(<<m>>)
  /\ link' = IF m.kind = "close" THEN "ended" ELSE "open"
  /\ UNCHANGED <<pc, now, pause, quiet, hits>>

(* The connection breaks; what was in transit arrives up to some point.    *)
Break ==
  /\ link = "open" /\ link' = "ended"
  /\ \E k \in 0..Len(transit) :
       /\ transit' = SubSeq(transit, 1, k)
       /\ owed' = SubSeq(owed, 1, Len(owed) - Len(Owing(SubSeq(transit, k + 1, Len(transit)))))
  /\ UNCHANGED <<pc, now, pause, quiet, hits>>

Down(n) == IF n = 0 THEN 0 ELSE n - 1

Tick ==
  /\ now' = IF now < Cap THEN now + 1 ELSE now
  /\ quiet' = IF quiet < Pause THEN quiet + 1 ELSE quiet
  /\ pause' = Down(pause)
  /\ UNCHANGED <<pc, link, transit, hits, owed>>

------------------------------------------------------------------------------
(* watch()                                                                 *)

Expired == Cap > 0 /\ now >= Cap

(* Mutant: max_runtime is not looked at.                                   *)
LoopTop_Endless ==
  /\ pc = "top" /\ pc' = "connect"
  /\ UNCHANGED <<now, pause, quiet, link, transit, hits, owed>>

LoopTop ==
  /\ pc = "top" /\ pc' = IF Expired THEN "ok" ELSE "connect"
  /\ UNCHANGED <<now, pause, quiet, link, transit, hits, owed>>

Connected ==
  /\ pc = "connect" /\ pc' = "read" /\ link' = "open"
  /\ UNCHANGED <<now, pause, quiet, transit, hits, owed>>

(* Mutant: the first subscription that ends, ends the watch.               *)
Failed_GivesUp ==
  /\ link' = "none" /\ transit' = << >> /\ quiet' = 0
  /\ pc' = "err" /\ UNCHANGED pause

(* Mutant: the next attempt follows at once.                               *)
Failed_NoPause ==
  /\ link' = "none" /\ transit' = << >> /\ quiet' = 0
  /\ pc' = "top" /\ UNCHANGED pause

(* Mutant: the old socket is kept while the task sleeps.                   *)
Failed_KeepsSocket ==
  /\ pc' = "sleep" /\ pause' = Pause /\ quiet' = 0
  /\ UNCHANGED <<link, transit>>

(* Err: returned when reconnect is off, else slept on.                     *)
Failed ==
  /\ link' = "none" /\ transit' = << >> /\ quiet' = 0
  /\ IF Reconnect THEN pc' = "sleep" /\ pause' = Pause
                  ELSE pc' = "err" /\ UNCHANGED pause

ConnectFails == pc = "connect" /\ Failed /\ UNCHANGED <<now, hits, owed>>

Wake ==
  /\ pc = "sleep" /\ pause = 0 /\ pc' = "top"
  /\ UNCHANGED <<now, pause, quiet, link, transit, hits, owed>>

------------------------------------------------------------------------------
(* read_loop() and parse_certstream_message()                              *)

(* The SANs that match, wildcards included, in their order.                *)
Matching(cert) ==
  FlattenSeq([i \in DOMAIN cert |-> IF cert[i].apex \in Variants THEN <<cert[i]>> ELSE << >>])

(* One hit for a message, with all its matching SANs, named by the first.  *)
Parse(cert) ==
  LET sans == Matching(cert)
  IN  IF sans = << >> THEN << >>
      ELSE <<[cert |-> cert, matched |-> Head(sans).apex, sans |-> sans]>>

Read ==
  /\ pc = "read" /\ transit # << >> /\ Head(transit).kind # "close"
  /\ transit' = Tail(transit)
  /\ hits' = IF Head(transit).kind = "text" THEN hits \o Parse(Head(transit).san) ELSE hits
  /\ UNCHANGED <<pc, now, pause, quiet, link, owed>>

(* Mutant: the end is seen before what was read.                           *)
StreamEnds_Early == pc = "read" /\ link = "ended" /\ Failed /\ UNCHANGED <<now, hits, owed>>

(* A close frame, an error, or the end of the stream.                      *)
StreamEnds ==
  /\ pc = "read" /\ link = "ended"
  /\ transit # << >> => Head(transit).kind = "close"
  /\ Failed /\ UNCHANGED <<now, hits, owed>>

------------------------------------------------------------------------------
Stream == \/ \E m \in Message : Deliver(m)
          \/ Break

Watcher == LoopTop \/ Wake \/ Read \/ StreamEnds
Connecting == Connected \/ ConnectFails

Next == Stream \/ Tick \/ Watcher \/ Connecting

Spec == Init /\ [][Next]_vars

(* The runtime resumes the task and time passes.  Nothing bounds           *)
(* connect_async: a peer that accepts and is then silent, in the TLS or    *)
(* the WebSocket handshake, may leave an attempt unanswered for ever.      *)
FairSpec == Spec /\ WF_vars(Tick) /\ WF_vars(Watcher)

------------------------------------------------------------------------------
HitType == [cert : Certs, matched : Variants, sans : Seq(SAN)]

(* The watcher's state is well formed, and a subscription exists exactly   *)
(* while its messages are being read.                                      *)
TypeOK ==
  /\ pc \in {"top", "connect", "read", "sleep", "ok", "err"}
  /\ now \in 0..Cap /\ pause \in 0..Pause /\ quiet \in 0..Pause
  /\ link \in {"none", "open", "ended"} /\ transit \in Seq(Message)
  /\ hits \in Seq(HitType) /\ owed \in Seq(Certs)
  /\ link # "none" <=> pc = "read"
  /\ link = "none" => transit = << >>
  /\ pc = "err" => ~Reconnect
  /\ pc = "sleep" => Reconnect

(* Each certificate that names a variant and reaches this machine is       *)
(* reported once, in the order of the stream, with all the SANs that match *)
(* and the variant of the first of them; nothing else is reported.         *)
EveryMatchIsReported ==
  /\ [i \in DOMAIN hits |-> hits[i].cert] \o Owing(transit) = owed
  /\ \A i \in DOMAIN hits :
       LET h == hits[i] IN
         /\ h.matched = h.sans[1].apex
         /\ ToSet(h.sans) = {s \in ToSet(h.cert) : s.apex \in Variants}

(* CertStream is never asked again within 5 s of a failure, nor after      *)
(* max_runtime.                                                            *)
AttemptsArePaced ==
  [][(pc # "connect" /\ pc' = "connect") => (quiet = Pause /\ ~Expired)]_vars

(* A subscription that ended is followed by a new one, or by the end of    *)
(* the watch when max_runtime has passed.                                  *)
EndLeadsToAttempt == link = "ended" ~> pc \in {"connect", "ok"}

(* max_runtime ends the watch once subscriptions do not last, provided     *)
(* that every attempt to connect is answered: a retry for ever is what the *)
(* deadline, read at the top of the loop only, does prevent.               *)
AttemptsAreAnswered == []<>(pc # "connect")
EndsWithoutStream == <>[](link # "open") /\ AttemptsAreAnswered => <>(pc = "ok")

(* "exit after this many seconds": max_runtime ends the watch.  Refuted:   *)
(* neither a healthy subscription nor an unanswered attempt to connect is  *)
(* ever left.                                                              *)
WatchEnds == <>(pc = "ok")
==============================================================================
