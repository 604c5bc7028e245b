---------------------------- MODULE CtWatch_proofs ----------------------------
(***************************************************************************)
(* Proofs about `cymail leak --watch`, for every length of the pause,      *)
(* every max_runtime and every certificate stream: its pacing, its types,  *)
(* and that it reports what CertStream delivers.                           *)
(***************************************************************************)
EXTENDS CtWatch, DataTheorems

Clocks ==
  /\ pc \in {"top", "connect", "read", "sleep", "ok", "err"}
  /\ now \in 0..Cap /\ pause \in 0..Pause /\ quiet \in 0..Pause

(* AttemptsArePaced is not inductive: it needs that a sleeping task has    *)
(* slept what the timer no longer holds, and that the top of the loop is   *)
(* only reached rested.                                                    *)
IInv ==
  /\ Clocks
  /\ pc = "top" => quiet = Pause
  /\ pc = "sleep" => pause + quiet >= Pause

(* The task starts rested: no failure lies behind it.                      *)
LEMMA InitIInv == Init => IInv
BY ConstantsAssumption DEF Init, IInv, Clocks

(* A failure starts the timer and the count of quiet steps together.       *)
LEMMA FailedIInv ==
  ASSUME IInv, Failed, now' = now
  PROVE  IInv'
<1>1. CASE Reconnect
  BY <1>1, ConstantsAssumption DEF IInv, Clocks, Failed
<1>2. CASE ~Reconnect
  BY <1>2, ConstantsAssumption DEF IInv, Clocks, Failed
<1>3. QED BY <1>1, <1>2

(* Every action keeps the invariant.                                       *)
LEMMA NextIInv == IInv /\ [Next]_vars => IInv'
<1> SUFFICES ASSUME IInv, [Next]_vars PROVE IInv'
  OBVIOUS
<1> USE ConstantsAssumption
<1>1. CASE Stream
  BY <1>1 DEF Stream, Deliver, Break, IInv, Clocks
<1>2. CASE Tick
  <2>1. Clocks'
    BY <1>2 DEF Tick, Down, IInv, Clocks
  <2>2. (pc = "top" => quiet = Pause)'
    BY <1>2 DEF Tick, IInv, Clocks
  <2>3. (pc = "sleep" => pause + quiet >= Pause)'
    BY <1>2 DEF Tick, Down, IInv, Clocks
  <2>4. QED BY <2>1, <2>2, <2>3 DEF IInv
<1>3. CASE LoopTop
  BY <1>3 DEF LoopTop, IInv, Clocks
<1>4. CASE Wake
  BY <1>4 DEF Wake, IInv, Clocks
<1>5. CASE Read
  BY <1>5 DEF Read, IInv, Clocks
<1>6. CASE StreamEnds
  BY <1>6, FailedIInv DEF StreamEnds
<1>7. CASE Connected
  BY <1>7 DEF Connected, IInv, Clocks
<1>8. CASE ConnectFails
  BY <1>8, FailedIInv DEF ConnectFails
<1>9. CASE UNCHANGED vars
  BY <1>9 DEF vars, IInv, Clocks
<1>10. QED
  BY <1>1, <1>2, <1>3, <1>4, <1>5, <1>6, <1>7, <1>8, <1>9 DEF Next, Watcher, Connecting

(* Clocks stay in range and a sleeping task has slept, in every behaviour. *)
THEOREM Invariance == Spec => []IInv
BY InitIInv, NextIInv, PTL DEF Spec

(* Only the top of the loop starts an attempt, and it does so rested and   *)
(* before max_runtime.                                                     *)
LEMMA PacedStep ==
  ASSUME IInv, [Next]_vars, pc # "connect", pc' = "connect"
  PROVE  quiet = Pause /\ ~Expired
<1>1. LoopTop
  BY DEF Next, vars, Stream, Deliver, Break, Tick, Watcher, Connecting, Wake, Read,
         StreamEnds, Connected, ConnectFails, Failed
<1>2. QED
  BY <1>1 DEF LoopTop, IInv

(* CertStream is never asked again within the pause after a failure, nor   *)
(* after max_runtime.                                                      *)
THEOREM AttemptsPaced == Spec => AttemptsArePaced
<1>1. ASSUME IInv, [Next]_vars
      PROVE  [(pc # "connect" /\ pc' = "connect") => (quiet = Pause /\ ~Expired)]_vars
  BY <1>1, PacedStep
<1>2. QED
  BY <1>1, Invariance, PTL DEF Spec, AttemptsArePaced

------------------------------------------------------------------------------
(* What the messages, and the names of a certificate, are picked from.     *)
Dues(msgs) == [i \in DOMAIN msgs |-> Due(msgs[i])]
Matched(cert) ==
  [i \in DOMAIN cert |-> IF cert[i].apex \in Variants THEN <<cert[i]>> ELSE << >>]

(* A message owes one report or none, ...                                  *)
LEMMA DueTyped ==
  ASSUME NEW m \in Message
  PROVE  Due(m) \in Seq(Certs)
<1>1. CASE m.kind = "text"
  <2>1. m.san \in Certs
    BY <1>1 DEF Message
  <2>2. QED BY <2>1 DEF Due
<1>2. CASE m.kind # "text"
  BY <1>2, EmptySeq DEF Due
<1>3. QED BY <1>1, <1>2

LEMMA DuesTyped ==
  ASSUME NEW msgs \in Seq(Message)
  PROVE  /\ Dues(msgs) \in Seq(Seq(Certs)) /\ Len(Dues(msgs)) = Len(msgs)
         /\ \A i \in 1..Len(msgs) : Dues(msgs)[i] = Due(msgs[i])
         /\ Owing(msgs) = FlattenSeq(Dues(msgs)) /\ Owing(msgs) \in Seq(Certs)
<1>1. Len(msgs) \in Nat /\ DOMAIN msgs = 1..Len(msgs) /\ \A i \in 1..Len(msgs) : msgs[i] \in Message
  BY LenProperties
<1>2. \A i \in 1..Len(msgs) : Due(msgs[i]) \in Seq(Certs)
  BY <1>1, DueTyped
<1>3. /\ Dues(msgs) \in Seq(Seq(Certs)) /\ Len(Dues(msgs)) = Len(msgs)
      /\ \A i \in 1..Len(msgs) : Dues(msgs)[i] = Due(msgs[i])
  BY <1>1, <1>2 DEF Dues
<1>4. QED BY <1>3, FlattenTyped DEF Owing, Dues

(* ... messages after others owe theirs after the others', ...             *)
LEMMA OwingConcat ==
  ASSUME NEW s \in Seq(Message), NEW t \in Seq(Message)
  PROVE  Owing(s \o t) = Owing(s) \o Owing(t)
<1>1. Dues(s \o t) = Dues(s) \o Dues(t)
  <2>1. /\ s \o t \in Seq(Message) /\ Len(s \o t) = Len(s) + Len(t)
        /\ \A i \in 1..(Len(s) + Len(t)) :
             (s \o t)[i] = IF i <= Len(s) THEN s[i] ELSE t[i - Len(s)]
        /\ Len(s) \in Nat /\ Len(t) \in Nat
    BY ConcatProperties, LenProperties
  <2>2. /\ Dues(s) \o Dues(t) \in Seq(Seq(Certs))
        /\ Len(Dues(s) \o Dues(t)) = Len(s) + Len(t)
        /\ \A i \in 1..(Len(s) + Len(t)) :
             (Dues(s) \o Dues(t))[i] = IF i <= Len(s) THEN Dues(s)[i] ELSE Dues(t)[i - Len(s)]
    <3>1. /\ Dues(s) \in Seq(Seq(Certs)) /\ Dues(t) \in Seq(Seq(Certs))
          /\ Len(Dues(s)) = Len(s) /\ Len(Dues(t)) = Len(t)
      BY DuesTyped
    <3>2. ASSUME NEW a \in Seq(Seq(Certs)), NEW b \in Seq(Seq(Certs)),
                 Len(a) = Len(s), Len(b) = Len(t)
          PROVE  /\ a \o b \in Seq(Seq(Certs)) /\ Len(a \o b) = Len(s) + Len(t)
                 /\ \A i \in 1..(Len(s) + Len(t)) :
                      (a \o b)[i] = IF i <= Len(s) THEN a[i] ELSE b[i - Len(s)]
      <4>1. /\ a \o b \in Seq(Seq(Certs)) /\ Len(a \o b) = Len(a) + Len(b)
            /\ \A i \in 1..(Len(a) + Len(b)) :
                 (a \o b)[i] = IF i <= Len(a) THEN a[i] ELSE b[i - Len(a)]
        BY ConcatProperties
      <4>2. QED BY <3>2, <4>1
    <3>3. QED BY <3>1, <3>2
  <2>3. /\ Dues(s \o t) \in Seq(Seq(Certs)) /\ Len(Dues(s \o t)) = Len(s) + Len(t)
        /\ \A i \in 1..(Len(s) + Len(t)) : Dues(s \o t)[i] = Due((s \o t)[i])
    BY <2>1, DuesTyped
  <2>4. ASSUME NEW i \in 1..(Len(s) + Len(t))
        PROVE  Dues(s \o t)[i] = (Dues(s) \o Dues(t))[i]
    <3>1. CASE i <= Len(s)
      <4>1. i \in 1..Len(s)
        BY <2>1, <3>1
      <4>2. QED BY <2>1, <2>2, <2>3, <3>1, <4>1, DuesTyped
    <3>2. CASE ~(i <= Len(s))
      <4>1. i - Len(s) \in 1..Len(t)
        BY <2>1, <3>2
      <4>2. QED BY <2>1, <2>2, <2>3, <3>2, <4>1, DuesTyped
    <3>3. QED BY <3>1, <3>2
  <2>5. QED BY <2>2, <2>3, <2>4, SeqEqual
<1>2. s \o t \in Seq(Message)
  BY ConcatProperties
<1>3. FlattenSeq(Dues(s) \o Dues(t)) = FlattenSeq(Dues(s)) \o FlattenSeq(Dues(t))
  BY DuesTyped, FlattenConcat
<1>4. QED BY <1>1, <1>2, <1>3, DuesTyped

(* ... and one message owes its own.                                       *)
LEMMA OwingOne ==
  ASSUME NEW m \in Message
  PROVE  Owing(<<m>>) = Due(m)
<1>1. <<m>> \in Seq(Message) /\ Len(<<m>>) = 1 /\ <<m>>[1] = m
  OBVIOUS
<1>2. Due(m) \in Seq(Certs)
  BY DueTyped
<1>3. Dues(<<m>>) = <<Due(m)>>
  <2>1. Dues(<<m>>) \in Seq(Seq(Certs)) /\ Len(Dues(<<m>>)) = 1 /\ Dues(<<m>>)[1] = Due(m)
    <3>1. ASSUME NEW o \in Seq(Message), Len(o) = 1, o[1] = m
          PROVE  Dues(o) \in Seq(Seq(Certs)) /\ Len(Dues(o)) = 1 /\ Dues(o)[1] = Due(m)
      BY <3>1, DuesTyped
    <3>2. QED BY <1>1, <3>1
  <2>2. <<Due(m)>> \in Seq(Seq(Certs)) /\ Len(<<Due(m)>>) = 1 /\ <<Due(m)>>[1] = Due(m)
    BY <1>2
  <2>3. \A i \in 1..1 : Dues(<<m>>)[i] = <<Due(m)>>[i]
    BY <2>1, <2>2
  <2>4. QED BY <2>1, <2>2, <2>3, SeqEqual
<1>4. QED BY <1>1, <1>2, <1>3, DuesTyped, FlattenOne

LEMMA OwingNone == << >> \in Seq(Message) /\ Owing(<< >>) = << >>
<1>1. << >> \in Seq(Message) /\ Len(<< >>) = 0
  BY EmptySeq
<1>2. QED BY <1>1, DuesTyped, FlattenForm

(* The names picked from a certificate are those that match.               *)
LEMMA MatchingFacts ==
  ASSUME NEW cert \in Certs
  PROVE  /\ Matching(cert) \in Seq(SAN)
         /\ ToSet(Matching(cert)) = {s \in ToSet(cert) : s.apex \in Variants}
         /\ Matching(cert) = << >> <=> ~Names(cert)
<1>1. cert \in Seq(SAN)
  BY ConstantsAssumption
<1>2. Len(cert) \in Nat /\ DOMAIN cert = 1..Len(cert) /\ \A i \in 1..Len(cert) : cert[i] \in SAN
  BY <1>1, LenProperties
<1>3. ASSUME NEW i \in 1..Len(cert)
      PROVE  /\ (IF cert[i].apex \in Variants THEN <<cert[i]>> ELSE << >>) \in Seq(SAN)
             /\ ToSet(IF cert[i].apex \in Variants THEN <<cert[i]>> ELSE << >>)
                  = {s \in {cert[i]} : s.apex \in Variants}
  <2>1. <<cert[i]>> \in Seq(SAN) /\ ToSet(<<cert[i]>>) = {cert[i]}
    BY <1>2 DEF ToSet
  <2>2. << >> \in Seq(SAN) /\ ToSet(<< >>) = {}
    BY EmptySeq DEF ToSet
  <2>3. QED BY <2>1, <2>2
<1>4. /\ Matched(cert) \in Seq(Seq(SAN)) /\ Len(Matched(cert)) = Len(cert)
      /\ \A i \in 1..Len(cert) : ToSet(Matched(cert)[i]) = {s \in {cert[i]} : s.apex \in Variants}
  BY <1>2, <1>3 DEF Matched
<1>5. Matching(cert) = FlattenSeq(Matched(cert))
  BY DEF Matching, Matched
<1>6. Matching(cert) \in Seq(SAN)
  BY <1>4, <1>5, FlattenTyped
<1>7. ToSet(Matching(cert)) = UNION {ToSet(Matched(cert)[i]) : i \in 1..Len(cert)}
  BY <1>4, <1>5, FlattenToSet
<1>8. ToSet(Matching(cert)) = {s \in ToSet(cert) : s.apex \in Variants}
  <2>1. ToSet(cert) = {cert[i] : i \in 1..Len(cert)}
    BY <1>2 DEF ToSet
  <2>2. \A s : s \in ToSet(Matching(cert)) <=>
               \E i \in 1..Len(cert) : s = cert[i] /\ s.apex \in Variants
    BY <1>4, <1>7
  <2>3. QED BY <2>1, <2>2
<1>9. ToSet(Matching(cert)) = {} <=> ~Names(cert)
  BY <1>2, <1>8 DEF ToSet, Names
<1>10. ToSet(Matching(cert)) = {} <=> Matching(cert) = << >>
  BY <1>6, ToSetEmpty
<1>11. QED BY <1>6, <1>8, <1>9, <1>10

------------------------------------------------------------------------------
(* The certificates reported so far.                                       *)
Reported == [i \in DOMAIN hits |-> hits[i].cert]

(* Each hit has the SANs that match, and is named by the first.            *)
Named(h) ==
  h.matched = h.sans[1].apex /\ ToSet(h.sans) = {s \in ToSet(h.cert) : s.apex \in Variants}

(* A close frame ends the subscription: nothing is sent after it, so that  *)
(* what a reader leaves in transit when it meets one owes nothing.         *)
Closing ==
  \A i \in 1..Len(transit) : transit[i].kind = "close" => i = Len(transit) /\ link = "ended"

ReportInv == TypeOK /\ EveryMatchIsReported /\ Closing

(* The property, in the terms of the proof.                                *)
LEMMA ReportForm ==
  EveryMatchIsReported <=> Reported \o Owing(transit) = owed /\ \A i \in DOMAIN hits : Named(hits[i])
BY DEF EveryMatchIsReported, Reported, Named

(* The reports of a parsed certificate: one, or none if it names none.     *)
LEMMA ParseFacts ==
  ASSUME NEW cert \in Certs
  PROVE  /\ Parse(cert) \in Seq(HitType)
         /\ ~Names(cert) => Parse(cert) = << >>
         /\ Names(cert) => \E h \in HitType : Parse(cert) = <<h>> /\ h.cert = cert /\ Named(h)
<1> DEFINE sans == Matching(cert)
           h == [cert |-> cert, matched |-> Head(sans).apex, sans |-> sans]
<1>1. /\ sans \in Seq(SAN) /\ ToSet(sans) = {s \in ToSet(cert) : s.apex \in Variants}
      /\ sans = << >> <=> ~Names(cert)
  BY MatchingFacts
<1>2. Parse(cert) = IF sans = << >> THEN << >> ELSE <<h>>
  BY DEF Parse
<1> HIDE DEF sans
<1>3. CASE sans = << >>
  BY <1>1, <1>2, <1>3, EmptySeq
<1>4. CASE sans # << >>
  <2>1. 1 \in DOMAIN sans /\ Head(sans) = sans[1]
    BY <1>1, <1>4, LenProperties, EmptySeq
  <2>2. sans[1] \in ToSet(sans)
    BY <2>1 DEF ToSet
  <2>3. Head(sans).apex \in Variants
    BY <1>1, <2>1, <2>2
  <2>4. h \in HitType /\ h.cert = cert
    BY <1>1, <2>3 DEF HitType
  <2>5. Named(h)
    BY <1>1, <2>1 DEF Named
  <2> HIDE DEF h
  <2>6. <<h>> \in Seq(HitType)
    BY <2>4
  <2>7. QED BY <1>1, <1>2, <1>4, <2>4, <2>5, <2>6
<1>5. QED BY <1>3, <1>4

(* What it adds to the certificates reported is what its message owes.     *)
LEMMA ReadReports ==
  ASSUME hits \in Seq(HitType), \A i \in DOMAIN hits : Named(hits[i]),
         NEW cert \in Certs, NEW m \in Message, m.kind = "text", m.san = cert,
         hits' = hits \o Parse(cert)
  PROVE  /\ hits' \in Seq(HitType) /\ Reported' = Reported \o Due(m)
         /\ \A i \in DOMAIN hits' : Named(hits'[i])
<1>1. Len(hits) \in Nat /\ DOMAIN hits = 1..Len(hits) /\ \A i \in 1..Len(hits) : hits[i] \in HitType
  BY LenProperties
<1>2. Reported \in Seq(Certs) /\ Len(Reported) = Len(hits) /\ \A i \in 1..Len(hits) : Reported[i] = hits[i].cert
  BY <1>1 DEF Reported, HitType
<1>3. CASE ~Names(cert)
  <2>1. hits' = hits
    BY <1>3, ParseFacts, ConcatEmptySeq
  <2>2. Due(m) = << >>
    BY <1>3 DEF Due
  <2>3. Reported' = Reported /\ Reported \o << >> = Reported
    BY <1>2, <2>1, ConcatEmptySeq DEF Reported
  <2>4. QED BY <2>1, <2>2, <2>3
<1>4. CASE Names(cert)
  <2>1. PICK h \in HitType : Parse(cert) = <<h>> /\ h.cert = cert /\ Named(h)
    BY <1>4, ParseFacts
  <2>2. Due(m) = <<cert>>
    BY <1>4 DEF Due
  <2>3. hits' = Append(hits, h)
    BY <2>1, AppendIsConcat
  <2>4. Reported \o Due(m) = Append(Reported, cert)
    BY <1>2, <2>2, AppendIsConcat
  <2>5. /\ hits' \in Seq(HitType) /\ Len(hits') = Len(hits) + 1 /\ hits'[Len(hits) + 1] = h
        /\ \A i \in 1..Len(hits) : hits'[i] = hits[i]
    BY <2>3, AppendProperties
  <2>6. DOMAIN hits' = 1..(Len(hits) + 1)
    BY <1>1, <2>5, LenProperties
  <2>7. \A i \in DOMAIN hits' : Named(hits'[i])
    BY <1>1, <2>1, <2>5, <2>6
  <2>8. Reported' = Append(Reported, cert)
    <3>1. /\ Append(Reported, cert) \in Seq(Certs) /\ Len(Append(Reported, cert)) = Len(hits) + 1
          /\ Append(Reported, cert)[Len(hits) + 1] = cert
          /\ \A i \in 1..Len(hits) : Append(Reported, cert)[i] = hits[i].cert
      BY <1>2, AppendProperties
    <3>2. \A i \in 1..(Len(hits) + 1) : hits'[i].cert \in Certs
      BY <1>1, <2>1, <2>5 DEF HitType
    <3>3. /\ Reported' \in Seq(Certs) /\ Len(Reported') = Len(hits) + 1
          /\ \A i \in 1..(Len(hits) + 1) : Reported'[i] = hits'[i].cert
      BY <1>1, <2>6, <3>2 DEF Reported
    <3>4. \A i \in 1..(Len(hits) + 1) : Reported'[i] = Append(Reported, cert)[i]
      BY <1>1, <2>1, <2>5, <3>1, <3>3
    <3>5. QED BY <3>1, <3>3, <3>4, SeqEqual
  <2>9. QED BY <2>4, <2>5, <2>7, <2>8
<1>5. QED BY <1>3, <1>4

(* What the invariant says of the sequences it is about.                   *)
LEMMA ReportTyped ==
  ASSUME ReportInv
  PROVE  /\ transit \in Seq(Message) /\ hits \in Seq(HitType) /\ owed \in Seq(Certs)
         /\ Owing(transit) \in Seq(Certs) /\ Reported \in Seq(Certs)
         /\ Reported \o Owing(transit) = owed /\ \A i \in DOMAIN hits : Named(hits[i])
<1>1. transit \in Seq(Message) /\ hits \in Seq(HitType) /\ owed \in Seq(Certs)
  BY DEF ReportInv, TypeOK
<1>2. Len(hits) \in Nat /\ DOMAIN hits = 1..Len(hits) /\ \A i \in 1..Len(hits) : hits[i] \in HitType
  BY <1>1, LenProperties
<1>3. Reported \in Seq(Certs)
  BY <1>2 DEF Reported, HitType
<1>4. QED BY <1>1, <1>3, DuesTyped, ReportForm DEF ReportInv

(* A message sent is owed after the others.                                *)
LEMMA DeliverReports ==
  ASSUME ReportInv, NEW m \in Message, Deliver(m)
  PROVE  ReportInv'
<1>1. /\ link = "open" /\ transit' = Append(transit, m) /\ owed' = owed \o Owing(<<m>>)
      /\ link' = IF m.kind = "close" THEN "ended" ELSE "open"
      /\ UNCHANGED <<pc, now, pause, quiet, hits>>
  BY DEF Deliver
<1>2. /\ <<m>> \in Seq(Message) /\ Owing(<<m>>) \in Seq(Certs)
  BY OwingOne, DueTyped
<1>3. /\ transit' \in Seq(Message) /\ transit' = transit \o <<m>> /\ Len(transit') = Len(transit) + 1
      /\ transit'[Len(transit) + 1] = m /\ \A i \in 1..Len(transit) : transit'[i] = transit[i]
      /\ Len(transit) \in Nat
  BY <1>1, ReportTyped, AppendProperties, AppendIsConcat, LenProperties
<1>4. owed' \in Seq(Certs)
  BY <1>1, <1>2, ReportTyped, ConcatProperties
<1>5. Owing(transit') = Owing(transit) \o Owing(<<m>>)
  BY <1>2, <1>3, ReportTyped, OwingConcat
<1>6. Reported' = Reported
  BY <1>1 DEF Reported
<1>7. Reported \o (Owing(transit) \o Owing(<<m>>)) = (Reported \o Owing(transit)) \o Owing(<<m>>)
  <2>1. ASSUME NEW a \in Seq(Certs), NEW b \in Seq(Certs), NEW c \in Seq(Certs)
        PROVE  a \o (b \o c) = (a \o b) \o c
    OBVIOUS
  <2>2. QED BY <1>2, <2>1, ReportTyped
<1>8. EveryMatchIsReported'
  <2>1. (Reported \o Owing(transit) = owed)'
    BY <1>1, <1>5, <1>6, <1>7, ReportTyped
  <2>2. (\A i \in DOMAIN hits : Named(hits[i]))'
    BY <1>1, ReportTyped
  <2>3. QED BY <2>1, <2>2 DEF EveryMatchIsReported, Reported, Named
<1>9. Closing'
  BY <1>1, <1>3 DEF ReportInv, Closing
<1>10. TypeOK'
  BY <1>1, <1>3, <1>4 DEF ReportInv, TypeOK
<1>11. QED BY <1>8, <1>9, <1>10 DEF ReportInv

(* What a broken connection loses was owed last, and is owed no more.      *)
LEMMA BreakReports ==
  ASSUME ReportInv, Break
  PROVE  ReportInv'
<1>1. PICK k \in 0..Len(transit) :
        /\ transit' = SubSeq(transit, 1, k)
        /\ owed' = SubSeq(owed, 1, Len(owed) - Len(Owing(SubSeq(transit, k + 1, Len(transit)))))
  BY DEF Break
<1>2. link = "open" /\ link' = "ended" /\ UNCHANGED <<pc, now, pause, quiet, hits>>
  BY DEF Break
<1> DEFINE kept == SubSeq(transit, 1, k)
           lost == SubSeq(transit, k + 1, Len(transit))
<1>3. Len(transit) \in Nat /\ k \in Nat /\ k <= Len(transit) /\ transit \in Seq(Message)
  BY ReportTyped, LenProperties
<1>4. /\ kept \in Seq(Message) /\ lost \in Seq(Message) /\ Len(kept) = k
      /\ \A i \in 1..k : kept[i] = transit[i]
  BY <1>3, SubSeqProperties, LenProperties
<1>5. transit = kept \o lost
  <2>1. ASSUME NEW s \in Seq(Message), k <= Len(s)
        PROVE  s = SubSeq(s, 1, k) \o SubSeq(s, k + 1, Len(s))
    <3>1. Len(s) \in Nat /\ 1 \in 1..Len(s) + 1 /\ k \in (1 - 1)..Len(s) /\ Len(s) \in k..Len(s)
      BY <1>3, <2>1
    <3>2. SubSeq(s, 1, k) \o SubSeq(s, k + 1, Len(s)) = SubSeq(s, 1, Len(s))
      BY <3>1, ConcatAdjacentSubSeq
    <3>3. SubSeq(s, 1, Len(s)) = s
      BY SubSeqFull
    <3>4. QED BY <3>2, <3>3
  <2>2. QED BY <1>3, <2>1
<1> HIDE DEF kept, lost
<1>6. Owing(transit) = Owing(kept) \o Owing(lost)
  BY <1>4, <1>5, OwingConcat
<1>7. Owing(kept) \in Seq(Certs) /\ Owing(lost) \in Seq(Certs) /\ Reported \in Seq(Certs)
  BY <1>4, DuesTyped, ReportTyped
<1> DEFINE due == Reported \o Owing(kept)
<1>8. due \in Seq(Certs) /\ owed = due \o Owing(lost)
  <2>1. ASSUME NEW a \in Seq(Certs), NEW b \in Seq(Certs), NEW c \in Seq(Certs)
        PROVE  a \o (b \o c) = (a \o b) \o c /\ a \o b \in Seq(Certs)
    OBVIOUS
  <2>2. /\ Reported \o (Owing(kept) \o Owing(lost)) = due \o Owing(lost)
        /\ due \in Seq(Certs)
    BY <1>7, <2>1
  <2>3. QED BY <1>6, <2>2, ReportTyped
<1> HIDE DEF due
<1>9. owed' = due
  <2>1. ASSUME NEW a \in Seq(Certs), NEW b \in Seq(Certs)
        PROVE  SubSeq(a \o b, 1, Len(a \o b) - Len(b)) = a
    OBVIOUS
  <2>2. owed' = SubSeq(due \o Owing(lost), 1, Len(due \o Owing(lost)) - Len(Owing(lost)))
    BY <1>1, <1>8 DEF lost
  <2>3. QED BY <1>7, <1>8, <2>1, <2>2
<1>10. Reported' = Reported /\ transit' = kept
  BY <1>1, <1>2 DEF Reported, kept
<1>11. EveryMatchIsReported'
  <2>1. (Reported \o Owing(transit) = owed)'
    BY <1>9, <1>10 DEF due
  <2>2. (\A i \in DOMAIN hits : Named(hits[i]))'
    BY <1>2, ReportTyped
  <2>3. QED BY <2>1, <2>2 DEF EveryMatchIsReported, Reported, Named
<1>12. Closing'
  BY <1>2, <1>3, <1>4, <1>10 DEF ReportInv, Closing
<1>13. TypeOK'
  BY <1>2, <1>4, <1>8, <1>9, <1>10 DEF ReportInv, TypeOK
<1>14. QED BY <1>11, <1>12, <1>13 DEF ReportInv

(* A message read is reported, or owed nothing.                            *)
LEMMA ReadInv ==
  ASSUME ReportInv, Read
  PROVE  ReportInv'
<1> DEFINE m == Head(transit)
           rest == Tail(transit)
<1>1. /\ pc = "read" /\ transit # << >> /\ transit' = rest
      /\ hits' = IF m.kind = "text" THEN hits \o Parse(m.san) ELSE hits
      /\ UNCHANGED <<pc, now, pause, quiet, link, owed>>
  BY DEF Read
<1>2. /\ m \in Message /\ rest \in Seq(Message) /\ Len(rest) = Len(transit) - 1
      /\ \A i \in 1..Len(rest) : rest[i] = transit[i + 1]
      /\ Len(transit) \in Nat /\ Len(rest) \in Nat
  BY <1>1, ReportTyped, HeadTailProperties, LenProperties
<1>3. transit = <<m>> \o rest
  <2>1. ASSUME NEW s \in Seq(Message), s # << >>
        PROVE  s = <<Head(s)>> \o Tail(s)
    BY <2>1
  <2>2. QED BY <1>1, <2>1, ReportTyped
<1> HIDE DEF m, rest
<1>4. Owing(transit) = Due(m) \o Owing(rest)
  <2>1. <<m>> \in Seq(Message)
    BY <1>2
  <2>2. Owing(<<m>> \o rest) = Owing(<<m>>) \o Owing(rest)
    BY <1>2, <2>1, OwingConcat
  <2>3. QED BY <1>2, <1>3, <2>2, OwingOne
<1>5. Due(m) \in Seq(Certs) /\ Owing(rest) \in Seq(Certs) /\ Reported \in Seq(Certs)
  BY <1>2, DueTyped, DuesTyped, ReportTyped
<1>6. /\ hits' \in Seq(HitType) /\ Reported' = Reported \o Due(m)
      /\ \A i \in DOMAIN hits' : Named(hits'[i])
  <2>1. CASE m.kind = "text"
    <3>1. m.san \in Certs
      BY <1>2, <2>1 DEF Message
    <3>2. hits' = hits \o Parse(m.san)
      BY <1>1, <2>1
    <3>3. QED BY <1>2, <2>1, <3>1, <3>2, ReportTyped, ReadReports
  <2>2. CASE m.kind # "text"
    <3>1. hits' = hits /\ Due(m) = << >>
      BY <1>1, <2>2 DEF Due
    <3>2. Reported' = Reported /\ Reported \o << >> = Reported
      BY <1>5, <3>1, ConcatEmptySeq DEF Reported
    <3>3. QED BY <3>1, <3>2, ReportTyped
  <2>3. QED BY <2>1, <2>2
<1>7. EveryMatchIsReported'
  <2>1. ASSUME NEW a \in Seq(Certs), NEW b \in Seq(Certs), NEW c \in Seq(Certs)
        PROVE  a \o (b \o c) = (a \o b) \o c
    OBVIOUS
  <2>2. Reported \o (Due(m) \o Owing(rest)) = (Reported \o Due(m)) \o Owing(rest)
    BY <1>5, <2>1
  <2>3. (Reported \o Owing(transit) = owed)'
    BY <1>1, <1>4, <1>6, <2>2, ReportTyped
  <2>4. QED BY <1>6, <2>3 DEF EveryMatchIsReported, Reported, Named
<1>8. Closing'
  <2>1. ASSUME NEW i \in 1..Len(rest), rest[i].kind = "close"
        PROVE  i = Len(rest) /\ link = "ended"
    <3>1. i + 1 \in 1..Len(transit) /\ transit[i + 1].kind = "close"
      BY <1>2, <2>1
    <3>2. i + 1 = Len(transit) /\ link = "ended"
      BY <3>1 DEF ReportInv, Closing
    <3>3. QED BY <1>2, <3>2
  <2>2. QED BY <1>1, <2>1 DEF Closing
<1>9. TypeOK'
  BY <1>1, <1>2, <1>6 DEF ReportInv, TypeOK
<1>10. QED BY <1>7, <1>8, <1>9 DEF ReportInv

(* A subscription fails with nothing in transit that owes a report.        *)
LEMMA FailedReports ==
  ASSUME ReportInv, Failed, UNCHANGED <<now, hits, owed>>, Owing(transit) = << >>
  PROVE  ReportInv'
<1>1. /\ link' = "none" /\ transit' = << >> /\ quiet' = 0 /\ pause' \in 0..Pause
      /\ pc' \in {"sleep", "err"} /\ (pc' = "sleep" => Reconnect) /\ (pc' = "err" => ~Reconnect)
  BY ConstantsAssumption DEF Failed, ReportInv, TypeOK
<1>2. Reported' = Reported /\ Owing(transit') = Owing(transit)
  BY <1>1, OwingNone DEF Reported
<1>3. EveryMatchIsReported'
  <2>1. (Reported \o Owing(transit) = owed)'
    BY <1>2, ReportTyped
  <2>2. (\A i \in DOMAIN hits : Named(hits[i]))'
    BY ReportTyped
  <2>3. QED BY <2>1, <2>2 DEF EveryMatchIsReported, Reported, Named
<1>4. Closing'
  BY <1>1 DEF Closing
<1>5. TypeOK'
  BY <1>1, OwingNone, ConstantsAssumption DEF ReportInv, TypeOK
<1>6. QED BY <1>3, <1>4, <1>5 DEF ReportInv

(* It fails while connecting, with nothing in transit, or at the end of    *)
(* the stream, with a close frame at most.                                 *)
LEMMA FailuresReport ==
  ASSUME ReportInv, ConnectFails \/ StreamEnds
  PROVE  ReportInv'
<1>1. Failed /\ UNCHANGED <<now, hits, owed>>
  BY DEF ConnectFails, StreamEnds
<1>2. transit = << >> \/ (transit # << >> /\ Head(transit).kind = "close")
  BY DEF ConnectFails, StreamEnds, ReportInv, TypeOK
<1>3. CASE transit = << >>
  BY <1>1, <1>3, OwingNone, FailedReports
<1>4. CASE transit # << >> /\ Head(transit).kind = "close"
  <2> DEFINE m == Head(transit)
  <2>1. /\ Len(transit) \in Nat /\ Len(transit) # 0 /\ m \in Message /\ m = transit[1]
        /\ transit \in Seq(Message)
    BY <1>4, ReportTyped, LenProperties, EmptySeq, HeadTailProperties
  <2>2. Len(transit) = 1
    <3>1. 1 \in 1..Len(transit) /\ transit[1].kind = "close"
      BY <1>4, <2>1
    <3>2. \A i \in 1..Len(transit) : transit[i].kind = "close" => i = Len(transit)
      BY DEF ReportInv, Closing
    <3>3. QED BY <3>1, <3>2
  <2>3. transit = <<m>>
    <3>1. ASSUME NEW s \in Seq(Message), Len(s) = 1
          PROVE  s = <<s[1]>>
      BY <3>1
    <3>2. QED BY <2>1, <2>2, <3>1
  <2>4. Owing(transit) = << >>
    BY <1>4, <2>1, <2>3, OwingOne DEF Due
  <2>5. QED BY <1>1, <2>4, FailedReports
<1>5. QED BY <1>2, <1>3, <1>4

(* The other steps touch none of the sequences.                            *)
LEMMA QuietReports ==
  ASSUME ReportInv, UNCHANGED <<transit, hits, owed>>, TypeOK', link' = link \/ transit = << >>
  PROVE  ReportInv'
<1>1. EveryMatchIsReported'
  BY DEF ReportInv, EveryMatchIsReported, Owing, Due, Names
<1>2. Closing'
  <2>1. CASE link' = link
    BY <2>1 DEF ReportInv, Closing
  <2>2. CASE transit = << >>
    BY <2>2, EmptySeq DEF Closing
  <2>3. QED BY <2>1, <2>2
<1>3. QED BY <1>1, <1>2 DEF ReportInv

(* At the start nothing is owed.                                           *)
LEMMA ReportInit == Init => ReportInv
<1> SUFFICES ASSUME Init PROVE ReportInv
  OBVIOUS
<1>1. transit = << >> /\ hits = << >> /\ owed = << >> /\ Owing(transit) = << >>
  BY OwingNone DEF Init
<1>2. TypeOK
  BY <1>1, EmptySeq, OwingNone, ConstantsAssumption DEF Init, TypeOK
<1>3. DOMAIN hits = {} /\ Reported = << >> /\ << >> \o << >> = << >>
  BY <1>1, ConcatEmptySeq, EmptySeq DEF Reported
<1>4. EveryMatchIsReported
  BY <1>1, <1>3, ReportForm
<1>5. Closing
  BY <1>1 DEF Closing
<1>6. QED BY <1>2, <1>4, <1>5 DEF ReportInv

(* Every action keeps the invariant.                                       *)
LEMMA ReportNext == ReportInv /\ [Next]_vars => ReportInv'
<1> SUFFICES ASSUME ReportInv, [Next]_vars PROVE ReportInv'
  OBVIOUS
<1>1. CASE \E m \in Message : Deliver(m)
  BY <1>1, DeliverReports
<1>2. CASE Break
  BY <1>2, BreakReports
<1>3. CASE Tick \/ LoopTop \/ Wake
  <2>1. TypeOK'
    <3>1. CASE Tick
      BY <3>1, ConstantsAssumption DEF Tick, Down, ReportInv, TypeOK
    <3>2. CASE LoopTop \/ Wake
      BY <3>2 DEF LoopTop, Wake, ReportInv, TypeOK
    <3>3. QED BY <1>3, <3>1, <3>2
  <2>2. QED BY <1>3, <2>1, QuietReports DEF Tick, LoopTop, Wake
<1>4. CASE Connected
  <2>1. TypeOK' /\ transit = << >>
    BY <1>4 DEF Connected, ReportInv, TypeOK
  <2>2. QED BY <1>4, <2>1, QuietReports DEF Connected
<1>5. CASE Read
  BY <1>5, ReadInv
<1>6. CASE ConnectFails \/ StreamEnds
  BY <1>6, FailuresReport
<1>7. CASE UNCHANGED vars
  <2>1. TypeOK'
    BY <1>7 DEF vars, ReportInv, TypeOK
  <2>2. QED BY <1>7, <2>1, QuietReports DEF vars
<1>8. QED
  BY <1>1, <1>2, <1>3, <1>4, <1>5, <1>6, <1>7 DEF Next, Stream, Watcher, Connecting

(* The watcher's state is well formed: ct_stream.rs, watch.                *)
THEOREM Typed == Spec => []TypeOK
<1>1. ReportInv => TypeOK
  BY DEF ReportInv
<1>2. QED BY <1>1, ReportInit, ReportNext, PTL DEF Spec

(* Each matching certificate that arrives is reported once and in order,   *)
(* with its matching names: ct_stream.rs, read_loop.                       *)
THEOREM MatchesAreReported == Spec => []EveryMatchIsReported
<1>1. ReportInv => EveryMatchIsReported
  BY DEF ReportInv
<1>2. QED BY <1>1, ReportInit, ReportNext, PTL DEF Spec
==============================================================================
