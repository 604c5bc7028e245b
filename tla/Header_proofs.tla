---------------------------- MODULE Header_proofs ----------------------------
(***************************************************************************)
(* What `cymail header` says of any message, whatever its way: of the      *)
(* dates, of the ARC sets, and of the body.                                *)
(***************************************************************************)
EXTENDS Header, DataTheorems

(* The report is that of the message as it is: nothing touches the message *)
(* once it is saved.                                                       *)
Verdict(eol) ==
  [back |-> Backwards, arc |-> ArcFindings, final_cv |-> FinalCv, match |-> Matches(Bytes(body, eol))]
Ends == {CRLF, << "LF" >>}
ReportInv == report = << >> \/ \E eol \in Ends : report = << Verdict(eol) >>

LEMMA Frozen ==
  ASSUME UNCHANGED <<received, arc, body, signature>>, NEW eol
  PROVE  Verdict(eol)' = Verdict(eol)
BY DEF Verdict, Backwards, Compare, Date, ArcFindings, FinalCv, Instances, CvOf, Has, Gap, Matches

(* mod.rs, analyze: what is reported are the judgements of the message as  *)
(* it was saved, with one line end or the other.                           *)
THEOREM ReportsAreOfTheMessage == Spec => []ReportInv
<1>1. Init => ReportInv
  BY DEF Init, ReportInv
<1>2. ReportInv /\ [Next]_vars => ReportInv'
  <2> SUFFICES ASSUME ReportInv, [Next]_vars PROVE ReportInv'
    OBVIOUS
  <2>1. CASE Relay \/ Rewrite
    BY <2>1 DEF Relay, Rewrite, ReportInv
  <2>2. CASE Analyze
    <3>1. UNCHANGED <<received, arc, body, signature>>
      BY <2>2 DEF Analyze
    <3>2. PICK eol \in Ends : report' = << Verdict(eol) >>
      BY <2>2 DEF Analyze, Verdict, Ends
    <3>3. Verdict(eol)' = Verdict(eol)
      BY <3>1, Frozen
    <3>4. QED BY <3>2, <3>3 DEF ReportInv
  <2>3. CASE UNCHANGED vars
    <3>1. UNCHANGED <<received, arc, body, signature>> /\ report' = report
      BY <2>3 DEF vars
    <3>2. \A eol : Verdict(eol)' = Verdict(eol)
      BY <3>1, Frozen
    <3>3. QED BY <3>1, <3>2 DEF ReportInv
  <2>4. QED BY <2>1, <2>2, <2>3 DEF Next
<1>3. QED BY <1>1, <1>2, PTL DEF Spec

------------------------------------------------------------------------------
(* The clocks.  Hops whose clock was right bear the times at which the     *)
(* message passed them, which do not go backwards.                         *)
Dates == 0..MaxTime \cup {NoDate}
Right == Dated \ wrong
ClockInv ==
  /\ now \in 0..MaxTime /\ received \in Seq(Dates) /\ wrong \subseteq 1..Len(received)
  /\ \A h \in Right : Date(h) <= now
  /\ \A g, h \in Right : g <= h => Date(g) <= Date(h)

LEMMA DateTyped ==
  ASSUME received \in Seq(Dates)
  PROVE  /\ Len(received) \in Nat
         /\ \A h \in 1..Len(received) : Date(h) \in Dates /\ Date(h) \in Int
         /\ \A h \in Dated : Date(h) \in Nat /\ h \in 1..Len(received)
<1>1. Len(received) \in Nat /\ \A i \in 1..Len(received) : received[i] \in Dates
  BY LenProperties
<1>2. \A h \in 1..Len(received) : Len(received) + 1 - h \in 1..Len(received)
  BY <1>1
<1>3. \A h \in 1..Len(received) : Date(h) \in Dates
  BY <1>1, <1>2 DEF Date
<1>4. Dates \subseteq Int /\ Dates \ {NoDate} \subseteq Nat
  BY ConstantsAssumption DEF Dates, NoDate
<1>5. QED BY <1>1, <1>3, <1>4 DEF Dated

(* A stamp leaves the n earlier hops as they are.                          *)
LEMMA Stamped ==
  ASSUME received \in Seq(Dates), NEW CONSTANT d \in Dates, received' = << d >> \o received,
         NEW CONSTANT n, n = Len(received)
  PROVE  /\ received' \in Seq(Dates) /\ Len(received') = n + 1
         /\ Date(n + 1)' = d
         /\ \A h \in 1..n : Date(h)' = Date(h)
<1> DEFINE one == << d >>
<1>1. n \in Nat /\ one \in Seq(Dates) /\ Len(one) = 1 /\ one[1] = d
  BY LenProperties
<1> HIDE DEF one
<1>2. /\ one \o received \in Seq(Dates) /\ Len(one \o received) = 1 + n
      /\ \A i \in 1..(1 + n) : (one \o received)[i] = IF i <= 1 THEN one[i] ELSE received[i - 1]
  <2>1. /\ Len(one \o received) = Len(one) + Len(received) /\ one \o received \in Seq(Dates)
        /\ \A i \in 1..(Len(one) + Len(received)) :
             (one \o received)[i] = IF i <= Len(one) THEN one[i] ELSE received[i - Len(one)]
    BY <1>1, ConcatProperties
  <2>2. QED BY <1>1, <2>1
<1>3. received' = one \o received
  BY DEF one
<1>4. received' \in Seq(Dates) /\ Len(received') = n + 1
  BY <1>1, <1>2, <1>3
<1>5. received'[1] = d
  BY <1>1, <1>2, <1>3
<1>6. ASSUME NEW CONSTANT h \in 1..n
      PROVE  Date(h)' = Date(h)
  <2>1. (n + 1) + 1 - h \in 1..(1 + n) /\ ~((n + 1) + 1 - h <= 1) /\ ((n + 1) + 1 - h) - 1 = n + 1 - h
    BY <1>1
  <2>2. received'[(n + 1) + 1 - h] = received[n + 1 - h]
    BY <1>2, <1>3, <2>1
  <2>3. QED BY <1>4, <2>2 DEF Date
<1>7. Date(n + 1)' = d
  <2>1. (n + 1) + 1 - (n + 1) = 1
    BY <1>1
  <2>2. received'[(n + 1) + 1 - (n + 1)] = d
    BY <1>5, <2>1
  <2>3. QED BY <1>4, <2>2 DEF Date
<1>8. QED BY <1>4, <1>6, <1>7

LEMMA StampInv ==
  ASSUME ClockInv, Stamp, NEW CONSTANT n, n = Len(received)
  PROVE  ClockInv'
<1>1. PICK t \in {now, now + 1} \cap 0..MaxTime, d \in Dates :
        /\ now' = t /\ received' = << d >> \o received
        /\ wrong' = IF d \in {t, NoDate} THEN wrong ELSE wrong \cup {Len(received) + 1}
  BY DEF Stamp, Dates
<1>2. n \in Nat /\ now \in Nat /\ t \in 0..MaxTime /\ now <= t /\ received \in Seq(Dates) /\ wrong \subseteq 1..n
  BY LenProperties, ConstantsAssumption DEF ClockInv
<1>3. received' \in Seq(Dates) /\ Len(received') = n + 1 /\ Date(n + 1)' = d /\ \A h \in 1..n : Date(h)' = Date(h)
  BY <1>1, <1>2, Stamped
<1>4. wrong' \subseteq 1..(n + 1)
  <2>1. 1..n \subseteq 1..(n + 1) /\ n + 1 \in 1..(n + 1)
    BY <1>2
  <2>2. wrong' \subseteq wrong \cup {n + 1}
    BY <1>1
  <2>3. QED BY <1>2, <2>1, <2>2
<1>5. \A h \in Right' : h = n + 1 \/ (h \in 1..n /\ h \in Right)
  <2> SUFFICES ASSUME NEW h \in Right', h # n + 1 PROVE h \in 1..n /\ h \in Right
    OBVIOUS
  <2>1. h \in 1..(n + 1) /\ Date(h)' # NoDate /\ h \notin wrong'
    BY <1>3 DEF Right, Dated
  <2>2. h \in 1..n
    BY <1>2, <2>1
  <2>3. h \notin wrong
    BY <1>1, <2>1
  <2>4. QED BY <1>3, <2>1, <2>2, <2>3 DEF Right, Dated
<1>6. n + 1 \in Right' => d = t
  <2> SUFFICES ASSUME n + 1 \in Right' PROVE d = t
    OBVIOUS
  <2>1. d # NoDate /\ n + 1 \notin wrong'
    BY <1>3 DEF Right, Dated
  <2>2. QED BY <1>1, <2>1
<1>7. \A h \in Right : h \in 1..n /\ Date(h) \in Nat /\ Date(h) <= now
  BY <1>2, DateTyped DEF ClockInv, Right
<1>8. \A h \in Right' : Date(h)' <= now'
  <2> TAKE h \in Right'
  <2>1. CASE h = n + 1
    BY <1>1, <1>2, <1>3, <1>6, <2>1
  <2>2. CASE h \in 1..n /\ h \in Right
    <3>1. Date(h)' = Date(h) /\ Date(h) \in Nat /\ Date(h) <= now
      BY <1>3, <1>7, <2>2
    <3>2. QED BY <1>1, <1>2, <3>1
  <2>3. QED BY <1>5, <2>1, <2>2
<1>9. \A g, h \in Right' : g <= h => Date(g)' <= Date(h)'
  <2> SUFFICES ASSUME NEW g \in Right', NEW h \in Right', g <= h PROVE Date(g)' <= Date(h)'
    OBVIOUS
  <2>1. CASE h = n + 1 /\ g # n + 1
    <3>1. Date(g)' = Date(g) /\ Date(g) \in Nat /\ Date(g) <= now
      BY <1>3, <1>5, <1>7, <2>1
    <3>2. Date(h)' = t
      BY <1>3, <1>6, <2>1
    <3>3. QED BY <1>2, <3>1, <3>2
  <2>2. CASE h = n + 1 /\ g = n + 1
    <3>1. Date(h)' = t /\ Date(g)' = t
      BY <1>3, <1>6, <2>2
    <3>2. QED BY <1>2, <3>1
  <2>3. CASE h \in 1..n /\ h \in Right
    <3>1. g # n + 1
      BY <1>2, <2>3
    <3>2. g \in 1..n /\ g \in Right
      BY <1>5, <3>1
    <3>3. QED BY <1>3, <2>3, <3>2 DEF ClockInv
  <2>4. QED BY <1>5, <2>1, <2>2, <2>3
<1>10. now' \in 0..MaxTime
  BY <1>1, <1>2
<1>11. QED BY <1>3, <1>4, <1>8, <1>9, <1>10 DEF ClockInv

(* Right clocks stamp the hops in the order of time, whatever the wrong    *)
(* ones do.                                                                *)
THEOREM ClocksKeepTheirInvariant == Spec => []ClockInv
<1>1. Init => ClockInv
  <2> SUFFICES ASSUME Init PROVE ClockInv
    OBVIOUS
  <2>1. now = 0 /\ received = << >> /\ wrong = {}
    BY DEF Init
  <2>2. << >> \in Seq(Dates) /\ Len(received) = 0 /\ now \in 0..MaxTime
    BY <2>1, ConstantsAssumption
  <2>3. Right = {}
    BY <2>2 DEF Right, Dated
  <2>4. QED BY <2>1, <2>2, <2>3 DEF ClockInv
<1>2. ClockInv /\ [Next]_vars => ClockInv'
  <2> SUFFICES ASSUME ClockInv, [Next]_vars PROVE ClockInv'
    OBVIOUS
  <2>1. CASE Relay
    <3>1. PICK n : n = Len(received)
      OBVIOUS
    <3>2. QED BY <2>1, <3>1, StampInv DEF Relay
  <2>2. CASE UNCHANGED <<now, received, wrong>>
    BY <2>2 DEF ClockInv, Right, Dated, Date
  <2>3. QED BY <2>1, <2>2 DEF Next, Rewrite, Analyze, vars
<1>3. QED BY <1>1, <1>2, PTL DEF Spec

(* How far the comparison of the dates has come.                           *)
Start == [prev |-> NoDate, back |-> {}]
Compares(f) ==
  f = [h \in 0..Len(received) |-> IF h = 0 THEN Start ELSE Compare(f[h - 1], h)]
Acc == [prev : Dates, back : SUBSET (1..Len(received))]

LEMMA CompareTyped ==
  ASSUME received \in Seq(Dates), NEW acc \in Acc, NEW h \in 1..Len(received)
  PROVE  Compare(acc, h) \in Acc
<1>1. Date(h) \in Dates
  BY DateTyped
<1>2. acc.back \cup {h} \in SUBSET (1..Len(received))
  BY DEF Acc
<1> DEFINE d == Date(h)
<1> HIDE DEF d
<1>3. /\ (IF d = NoDate THEN acc.prev ELSE d) \in Dates
      /\ (IF d # NoDate /\ acc.prev # NoDate /\ d < acc.prev THEN acc.back \cup {h} ELSE acc.back)
            \in SUBSET (1..Len(received))
  BY <1>1, <1>2 DEF Acc, d
<1>4. QED BY <1>3 DEF Compare, Acc, d

LEMMA BackwardsForm ==
  ASSUME received \in Seq(Dates)
  PROVE  \E f \in [0..Len(received) -> Acc] :
           /\ f[0] = Start /\ \A h \in 1..Len(received) : f[h] = Compare(f[h - 1], h)
           /\ Backwards = f[Len(received)].back
<1> DEFINE N == Len(received)
           F == [h \in 1..N |-> [acc \in Acc |-> Compare(acc, h)]]
<1>1. N \in Nat /\ Start \in Acc
  BY LenProperties DEF Start, Acc, Dates
<1>2. F \in [1..N -> [Acc -> Acc]] /\ \A h \in 1..N : \A acc \in Acc : F[h][acc] = Compare(acc, h)
  BY CompareTyped
<1>3. PICK f : Recurs(f, N, Acc, Start, F)
  <2> HIDE DEF N, F
  <2>1. QED BY <1>1, <1>2, RecursionExists
<1> HIDE DEF F
<1>4. /\ f \in [0..N -> Acc] /\ f[0] = Start
      /\ \A h \in 1..N : f[h] = F[h][f[h - 1]]
  BY <1>3 DEF Recurs
<1>5. ASSUME NEW h \in 1..N PROVE f[h] = Compare(f[h - 1], h)
  <2>1. h - 1 \in 0..N
    BY <1>1
  <2>2. f[h - 1] \in Acc
    BY <1>4, <2>1
  <2>3. QED BY <1>2, <1>4, <2>2
<1>6. Compares(f)
  <2>1. \A h \in 0..N : f[h] = IF h = 0 THEN Start ELSE Compare(f[h - 1], h)
    BY <1>1, <1>4, <1>5
  <2>2. f = [h \in 0..N |-> IF h = 0 THEN Start ELSE Compare(f[h - 1], h)]
    BY <1>4, <2>1
  <2>3. QED BY <2>2 DEF Compares
<1> DEFINE g == CHOOSE g : Compares(g)
<1>7. Compares(g) /\ Backwards = g[N].back
  BY <1>6 DEF Backwards, Compares, Start
<1> HIDE DEF g
<1>8. DOMAIN g = 0..N /\ g = [h \in 0..N |-> g[h]] /\ g[0] = Start /\ \A h \in 1..N : g[h] = Compare(g[h - 1], h)
  BY <1>1, <1>7 DEF Compares
<1> DEFINE T == {k \in Nat : k <= N => g[k] \in Acc}
<1>9. Nat \subseteq T
  <2>1. 0 \in T
    BY <1>1, <1>8
  <2>2. ASSUME NEW k \in Nat, k \in T PROVE k + 1 \in T
    <3> SUFFICES ASSUME k + 1 <= N PROVE g[k + 1] \in Acc
      OBVIOUS
    <3>1. k + 1 \in 1..N /\ (k + 1) - 1 = k /\ g[k] \in Acc
      BY <1>1, <2>2
    <3>2. g[k + 1] = Compare(g[k], k + 1)
      BY <1>8, <3>1
    <3>3. QED BY <3>1, <3>2, CompareTyped
  <2> HIDE DEF T
  <2>3. QED BY <2>1, <2>2, NatInduct
<1>10. g \in [0..N -> Acc]
  BY <1>1, <1>8, <1>9
<1>11. QED BY <1>7, <1>8, <1>10

(* The date kept is that of the last dated hop so far; a hop is suspected  *)
(* only if that date is later than its own; and as long as none is, the    *)
(* dates go forward.                                                       *)
Upto(k) == {h \in Dated : h <= k}
Compared(acc, k) ==
  /\ acc.prev = NoDate => Upto(k) = {}
  /\ acc.prev # NoDate => \E g \in Upto(k) : Date(g) = acc.prev /\ \A x \in Upto(k) : x <= g
  /\ \A h \in acc.back : h \in Upto(k) /\ \E g \in Dated : g < h /\ Date(h) < Date(g) /\ Dated \cap (g + 1)..(h - 1) = {}
  /\ acc.back = {} => \A g, h \in Upto(k) : (g <= h => Date(g) <= Date(h)) /\ Date(h) <= acc.prev

LEMMA CompareStep ==
  ASSUME received \in Seq(Dates), NEW k \in Nat, k + 1 \in 1..Len(received), NEW acc \in Acc, Compared(acc, k)
  PROVE  Compared(Compare(acc, k + 1), k + 1)
<1> DEFINE h == k + 1
           d == Date(k + 1)
           new == Compare(acc, k + 1)
<1>1. /\ h \in 1..Len(received) /\ d \in Dates /\ d \in Int /\ NoDate \in Int
      /\ \A x \in Dated : x \in Int /\ Date(x) \in Nat
  BY DateTyped DEF NoDate
<1>2. acc.prev \in Dates /\ acc.prev \in Int
  BY ConstantsAssumption DEF Acc, Dates, NoDate
<1>3. CASE d = NoDate
  <2>1. h \notin Dated
    BY <1>3 DEF Dated
  <2>2. Upto(h) = Upto(k)
    BY <1>1, <2>1 DEF Upto
  <2>3. new.prev = acc.prev /\ new.back = acc.back
    BY <1>3 DEF Compare
  <2> HIDE DEF new, h
  <2>4. Compared(new, h)
    BY <2>2, <2>3 DEF Compared
  <2>5. QED BY <2>4 DEF new, h
<1>4. CASE d # NoDate
  <2>1. h \in Dated /\ d \in Nat
    BY <1>1, <1>4 DEF Dated
  <2>2. Upto(h) = Upto(k) \cup {h} /\ \A x \in Upto(k) : x < h /\ x \in Dated /\ x \in Int /\ Date(x) \in Nat
    BY <1>1, <2>1 DEF Upto
  <2>3. new.prev = d /\ new.back = (IF acc.prev # NoDate /\ d < acc.prev THEN acc.back \cup {h} ELSE acc.back)
    BY <1>4 DEF Compare
  <2> HIDE DEF new
  <2>4. \E g \in Upto(h) : Date(g) = new.prev /\ \A x \in Upto(h) : x <= g
    <3>1. h \in Upto(h) /\ \A x \in Upto(h) : x <= h
      BY <1>1, <2>2
    <3>2. QED BY <2>3, <3>1
  <2>5. \A x \in new.back : x \in Upto(h) /\ \E g \in Dated : g < x /\ Date(x) < Date(g) /\ Dated \cap (g + 1)..(x - 1) = {}
    <3> SUFFICES ASSUME NEW x \in new.back
                 PROVE  x \in Upto(h) /\ \E g \in Dated : g < x /\ Date(x) < Date(g) /\ Dated \cap (g + 1)..(x - 1) = {}
      OBVIOUS
    <3>1. CASE x \in acc.back
      BY <2>2, <3>1 DEF Compared
    <3>2. CASE x \notin acc.back
      <4>1. x = h /\ acc.prev # NoDate /\ d < acc.prev
        BY <2>3, <3>2
      <4>2. PICK g \in Upto(k) : Date(g) = acc.prev /\ \A y \in Upto(k) : y <= g
        BY <4>1 DEF Compared
      <4>3. Dated \cap (g + 1)..(h - 1) = {}
        <5> SUFFICES ASSUME NEW y \in Dated, y \in (g + 1)..(h - 1) PROVE FALSE
          OBVIOUS
        <5>1. y \in Int /\ g \in Int /\ g + 1 <= y /\ y <= k
          BY <1>1, <2>2
        <5>2. y \in Upto(k)
          BY <5>1 DEF Upto
        <5>3. y <= g
          BY <4>2, <5>2
        <5>4. QED BY <5>1, <5>3
      <4>4. g \in Dated /\ g < h
        BY <2>2
      <4>5. QED BY <2>2, <4>1, <4>2, <4>3, <4>4
    <3>3. QED BY <3>1, <3>2
  <2>6. ASSUME new.back = {}
        PROVE  \A g, x \in Upto(h) : (g <= x => Date(g) <= Date(x)) /\ Date(x) <= new.prev
    <3>1. acc.back = {} /\ (acc.prev = NoDate \/ ~(d < acc.prev))
      BY <2>3, <2>6
    <3>2. \A g, x \in Upto(k) : (g <= x => Date(g) <= Date(x)) /\ Date(x) <= acc.prev
      BY <3>1 DEF Compared
    <3>3. \A x \in Upto(k) : Date(x) <= d
      <4>1. CASE acc.prev = NoDate
        BY <4>1 DEF Compared
      <4>2. CASE ~(d < acc.prev)
        <5>1. acc.prev <= d
          BY <1>1, <1>2, <4>2
        <5>2. QED BY <1>1, <1>2, <2>2, <3>2, <5>1
      <4>3. QED BY <3>1, <4>1, <4>2
    <3> SUFFICES ASSUME NEW g \in Upto(h), NEW x \in Upto(h)
                 PROVE  (g <= x => Date(g) <= Date(x)) /\ Date(x) <= new.prev
      OBVIOUS
    <3>4. CASE x \in Upto(k) /\ g \in Upto(k)
      BY <2>3, <3>2, <3>3, <3>4
    <3>5. CASE x \in Upto(k) /\ g = h
      <4>1. ~(g <= x)
        BY <1>1, <2>2, <3>5
      <4>2. QED BY <2>3, <3>3, <3>5, <4>1
    <3>6. CASE x = h
      <4>1. Date(x) = d /\ Date(g) <= d
        BY <1>1, <2>2, <3>3, <3>6
      <4>2. QED BY <1>1, <2>3, <4>1
    <3>7. QED BY <2>2, <3>4, <3>5, <3>6
  <2>7. new.prev # NoDate
    BY <1>4, <2>3
  <2> HIDE DEF h
  <2>8. Compared(new, h)
    BY <2>4, <2>5, <2>6, <2>7 DEF Compared
  <2>9. QED BY <2>8 DEF new, h
<1>5. QED BY <1>3, <1>4

LEMMA BackwardsMeans ==
  ASSUME received \in Seq(Dates)
  PROVE  /\ \A h \in Backwards : h \in Dated /\ \E g \in Dated :
              g < h /\ Date(h) < Date(g) /\ Dated \cap (g + 1)..(h - 1) = {}
         /\ Backwards = {} => \A g, h \in Dated : g <= h => Date(g) <= Date(h)
<1> DEFINE N == Len(received)
<1>1. PICK f \in [0..N -> Acc] :
        /\ f[0] = Start /\ \A h \in 1..N : f[h] = Compare(f[h - 1], h)
        /\ Backwards = f[N].back
  BY BackwardsForm
<1>2. N \in Nat /\ \A h \in Dated : h \in 1..N
  BY DateTyped
<1> HIDE DEF N
<1> DEFINE T == {k \in Nat : k <= N => Compared(f[k], k)}
<1>3. Nat \subseteq T
  <2>1. 0 \in T
    <3>1. Upto(0) = {}
      BY <1>2 DEF Upto
    <3>2. f[0].prev = NoDate /\ f[0].back = {}
      BY <1>1 DEF Start
    <3>3. QED BY <3>1, <3>2 DEF Compared
  <2>2. ASSUME NEW k \in Nat, k \in T PROVE k + 1 \in T
    <3> SUFFICES ASSUME k + 1 <= N PROVE Compared(f[k + 1], k + 1)
      OBVIOUS
    <3>1. k + 1 \in 1..N /\ (k + 1) - 1 = k /\ f[k] \in Acc /\ Compared(f[k], k)
      BY <1>1, <1>2, <2>2
    <3>2. f[k + 1] = Compare(f[k], k + 1)
      BY <1>1, <3>1
    <3>3. QED BY <3>1, <3>2, CompareStep DEF N
  <2> HIDE DEF T
  <2>3. QED BY <2>1, <2>2, NatInduct
<1>4. Compared(f[N], N) /\ Upto(N) = Dated
  BY <1>2, <1>3 DEF Upto
<1>5. QED BY <1>1, <1>4 DEF Compared

(* received.rs, analyze: no hop is suspected without a wrong clock at it   *)
(* or at the dated hop before it, and dates that are nowhere suspected go  *)
(* forward, for any number of hops.                                        *)
THEOREM ClocksJudged == Spec => []ClocksAreJudged
<1>1. ClockInv /\ ReportInv => ClocksAreJudged
  <2> SUFFICES ASSUME ClockInv, ReportInv, report # << >>
               PROVE  /\ \A h \in report[1].back :
                           \/ h \in wrong
                           \/ \E g \in Dated \cap wrong : g < h /\ Dated \cap (g + 1)..(h - 1) = {}
                      /\ report[1].back = {} => \A g, h \in Dated : g <= h => Date(g) <= Date(h)
    BY DEF ClocksAreJudged
  <2>1. report[1].back = Backwards
    BY DEF ReportInv, Verdict
  <2>2. received \in Seq(Dates)
    BY DEF ClockInv
  <2>3. ASSUME NEW h \in Backwards, h \notin wrong
        PROVE  \E g \in Dated \cap wrong : g < h /\ Dated \cap (g + 1)..(h - 1) = {}
    <3>1. PICK g \in Dated : g < h /\ Date(h) < Date(g) /\ Dated \cap (g + 1)..(h - 1) = {}
      BY <2>2, BackwardsMeans
    <3>2. h \in Dated
      BY <2>2, BackwardsMeans
    <3>3. g \in Int /\ h \in Int /\ Date(g) \in Nat /\ Date(h) \in Nat
      BY <2>2, <3>2, DateTyped
    <3>4. ASSUME g \notin wrong PROVE FALSE
      <4>1. Date(g) <= Date(h)
        BY <2>3, <3>1, <3>2, <3>3, <3>4 DEF ClockInv, Right
      <4>2. QED BY <3>1, <3>3, <4>1
    <3>5. QED BY <3>1, <3>4
  <2>4. QED BY <2>1, <2>2, <2>3, BackwardsMeans
<1>2. QED BY <1>1, ClocksKeepTheirInvariant, ReportsAreOfTheMessage, PTL

------------------------------------------------------------------------------
(* The chain.  One that is sound is 1, 2, ..., n, each whole, none failed. *)
Entry(c, i, cv) == [class |-> c, i |-> i, cv |-> IF c = "seal" THEN cv ELSE "absent"]
Entries == [class : Classes, i : Nat \ {0}, cv : {"none", "pass", "fail", "absent"}]
ChainInv ==
  /\ arc \in Seq(Entries)
  /\ sound => \E n \in Nat : /\ Instances = 1..n
                             /\ \A i \in 1..n, c \in Classes : Has(i, c)
                             /\ \A e \in ToSet(arc) : e.cv # "fail"

(* What the instances are of.                                              *)
LEMMA ArcTyped ==
  ASSUME arc \in Seq(Entries)
  PROVE  /\ DOMAIN arc = 1..Len(arc) /\ Len(arc) \in Nat
         /\ \A k \in DOMAIN arc : arc[k] \in Entries /\ arc[k].i \in Nat \ {0}
         /\ Instances \in SUBSET (Nat \ {0}) /\ IsFiniteSet(Instances)
<1>1. Len(arc) \in Nat /\ DOMAIN arc = 1..Len(arc) /\ \A k \in 1..Len(arc) : arc[k] \in Entries
  BY LenProperties
<1>2. IsFiniteSet(1..Len(arc))
  BY <1>1, FS_Interval
<1>3. IsFiniteSet(Instances)
  <2> DEFINE f == [k \in 1..Len(arc) |-> arc[k].i]
  <2>1. f \in Surjection(1..Len(arc), Instances)
    BY <1>1 DEF Surjection, Instances
  <2>2. QED BY <1>2, <2>1, FS_Surjection
<1>4. \A k \in 1..Len(arc) : arc[k].i \in Nat \ {0}
  BY <1>1 DEF Entries
<1>5. QED BY <1>1, <1>3, <1>4 DEF Instances

LEMMA ArcSets ==
  /\ Instances = {e.i : e \in ToSet(arc)}
  /\ \A i, c : Has(i, c) <=> \E e \in ToSet(arc) : e.i = i /\ e.class = c
<1>1. Instances = {e.i : e \in ToSet(arc)}
  BY DEF Instances, ToSet
<1>2. ASSUME NEW i, NEW c PROVE Has(i, c) <=> \E e \in ToSet(arc) : e.i = i /\ e.class = c
  BY DEF Has, ToSet
<1>3. QED BY <1>1, <1>2

(* Where the next sealer counts on from.                                   *)
LEMMA HighestIs ==
  ASSUME arc \in Seq(Entries)
  PROVE  /\ Highest \in Nat
         /\ \A n \in Nat : Instances = 1..n => Highest = n
<1> DEFINE T == {0} \cup Instances
<1>1. T \in SUBSET Nat /\ IsFiniteSet(T) /\ T # {}
  <2>1. Instances \in SUBSET Nat /\ IsFiniteSet(Instances)
    BY ArcTyped
  <2>2. IsFiniteSet(Instances \cup {0})
    BY <2>1, FS_AddElement
  <2>3. T = Instances \cup {0} /\ 0 \in T
    OBVIOUS
  <2>4. T \in SUBSET Nat
    BY <2>1
  <2> HIDE DEF T
  <2>5. IsFiniteSet(T)
    BY <2>2, <2>3
  <2>6. QED BY <2>3, <2>4, <2>5
<1>2. Highest = Max(T)
  BY DEF Highest, Instances
<1>3. Max(T) \in T /\ \A x \in T : x <= Max(T)
  <2> HIDE DEF T
  <2>1. QED BY <1>1, FiniteMax
<1>4. ASSUME NEW n \in Nat, Instances = 1..n
      PROVE  Highest = n
  <2>1. n \in T
    BY <1>4
  <2>2. \A x \in T : x \in Nat /\ x <= n
    BY <1>4
  <2>3. n <= Max(T) /\ Max(T) <= n /\ Max(T) \in Nat
    BY <1>3, <2>1, <2>2
  <2>4. QED BY <1>2, <2>3
<1>5. QED BY <1>1, <1>2, <1>3, <1>4

(* The headers of one sealer.                                              *)
LEMMA ArcSetIs ==
  ASSUME NEW i \in Nat \ {0}, NEW cv \in {"none", "pass", "fail", "absent"}, NEW classes \in SUBSET Classes
  PROVE  /\ ArcSet(i, cv, classes) \in Seq(Entries)
         /\ ToSet(ArcSet(i, cv, classes)) = {Entry(c, i, cv) : c \in classes}
<1> DEFINE h(c) == IF c \in classes THEN << Entry(c, i, cv) >> ELSE << >>
<1>1. \A c \in Classes : Entry(c, i, cv) \in Entries
  BY DEF Entry, Entries
<1>2. ASSUME NEW c \in Classes
      PROVE  h(c) \in Seq(Entries) /\ ToSet(h(c)) = {Entry(c, i, cv)} \cap {Entry(d, i, cv) : d \in classes}
  <2>1. Entry(c, i, cv).class = c /\ \A d : Entry(d, i, cv).class = d
    BY DEF Entry
  <2>2. CASE c \in classes
    <3>1. h(c) = << Entry(c, i, cv) >>
      BY <2>2
    <3>2. ToSet(h(c)) = {Entry(c, i, cv)}
      BY <3>1 DEF ToSet
    <3>3. h(c) \in Seq(Entries)
      BY <1>1, <3>1
    <3>4. QED BY <2>2, <3>2, <3>3
  <2>3. CASE c \notin classes
    <3>1. h(c) = << >> /\ ToSet(<< >>) = {} /\ << >> \in Seq(Entries)
      BY <2>3, EmptySeq DEF ToSet
    <3>2. \A d \in classes : Entry(d, i, cv) # Entry(c, i, cv)
      BY <2>1, <2>3
    <3>3. QED BY <3>1, <3>2
  <2>4. QED BY <2>2, <2>3
<1>3. ArcSet(i, cv, classes) = h("seal") \o h("signature") \o h("results")
  BY DEF ArcSet, Entry
<1>4. \A c \in classes : c \in {"seal", "signature", "results"}
  BY DEF Classes
<1>5. h("seal") \in Seq(Entries) /\ h("signature") \in Seq(Entries) /\ h("results") \in Seq(Entries)
  BY <1>2 DEF Classes
<1>6. LET all == {Entry(d, i, cv) : d \in classes} IN
      /\ ToSet(h("seal")) = {Entry("seal", i, cv)} \cap all
      /\ ToSet(h("signature")) = {Entry("signature", i, cv)} \cap all
      /\ ToSet(h("results")) = {Entry("results", i, cv)} \cap all
  BY <1>2 DEF Classes
<1> HIDE DEF h
<1>7. /\ h("seal") \o h("signature") \in Seq(Entries)
      /\ ToSet(h("seal") \o h("signature")) = ToSet(h("seal")) \cup ToSet(h("signature"))
  BY <1>5, ConcatProperties, ToSetConcat
<1>8. /\ ArcSet(i, cv, classes) \in Seq(Entries)
      /\ ToSet(ArcSet(i, cv, classes)) = ToSet(h("seal")) \cup ToSet(h("signature")) \cup ToSet(h("results"))
  <2> DEFINE a == h("seal") \o h("signature")
             b == h("results")
  <2>1. a \in Seq(Entries) /\ b \in Seq(Entries) /\ ArcSet(i, cv, classes) = a \o b
    BY <1>3, <1>5, <1>7
  <2> HIDE DEF a, b
  <2>2. a \o b \in Seq(Entries) /\ ToSet(a \o b) = ToSet(a) \cup ToSet(b)
    BY <2>1, ConcatProperties, ToSetConcat
  <2>3. QED BY <1>7, <2>1, <2>2 DEF a, b
<1>9. ToSet(ArcSet(i, cv, classes)) = {Entry(d, i, cv) : d \in classes}
  BY <1>4, <1>6, <1>8
<1>10. QED BY <1>8, <1>9

(* Nothing but a seal touches the chain.                                   *)
LEMMA ChainInvKept == ChainInv /\ UNCHANGED <<arc, sound>> => ChainInv'
<1> SUFFICES ASSUME ChainInv, UNCHANGED <<arc, sound>> PROVE ChainInv'
  OBVIOUS
<1>1. Instances' = Instances /\ \A i, c : Has(i, c)' <=> Has(i, c)
  BY DEF Instances, Has
<1>2. QED BY <1>1 DEF ChainInv

(* A chain stays sound only by whole sets under the next number that do    *)
(* not fail.                                                               *)
THEOREM ChainsKeepTheirInvariant == Spec => []ChainInv
<1>1. Init => ChainInv
  <2> SUFFICES ASSUME Init PROVE ChainInv
    OBVIOUS
  <2>1. arc = << >> /\ arc \in Seq(Entries) /\ DOMAIN arc = {}
    BY EmptySeq DEF Init
  <2>2. Instances = 1..0 /\ ToSet(arc) = {}
    BY <2>1 DEF Instances, ToSet
  <2>3. QED BY <2>1, <2>2 DEF ChainInv
<1>2. ASSUME ChainInv, Seal
      PROVE  ChainInv'
  <2>1. CASE UNCHANGED <<arc, sound>>
    BY <1>2, <2>1, ChainInvKept
  <2>2. ASSUME NEW i \in {Highest, Highest + 1, Highest + 2} \ {0}, NEW cv \in {"none", "pass", "fail", "absent"},
               NEW classes \in {Classes} \cup {Classes \ {c} : c \in Classes},
               arc' = ArcSet(i, cv, classes) \o arc,
               sound' = (sound /\ i = Highest + 1 /\ classes = Classes
                         /\ cv = IF Highest = 0 THEN "none" ELSE "pass")
        PROVE  ChainInv'
    <3>1. arc \in Seq(Entries) /\ i \in Nat \ {0} /\ classes \in SUBSET Classes
      BY <1>2, HighestIs DEF ChainInv
    <3> DEFINE new == ArcSet(i, cv, classes)
    <3>2. new \in Seq(Entries) /\ ToSet(new) = {Entry(c, i, cv) : c \in classes}
      BY <3>1, ArcSetIs
    <3>3. arc' \in Seq(Entries) /\ ToSet(arc') = {Entry(c, i, cv) : c \in classes} \cup ToSet(arc)
      BY <2>2, <3>1, <3>2, ConcatProperties, ToSetConcat
    <3> SUFFICES ASSUME sound'
                 PROVE  \E n \in Nat : /\ Instances' = 1..n
                                       /\ \A j \in 1..n, c \in Classes : Has(j, c)'
                                       /\ \A e \in ToSet(arc') : e.cv # "fail"
      BY <3>3 DEF ChainInv
    <3>4. sound /\ i = Highest + 1 /\ cv # "fail" /\ classes = Classes
      BY <2>2
    <3>5. PICK n \in Nat : /\ Instances = 1..n
                           /\ \A j \in 1..n, c \in Classes : Has(j, c)
                           /\ \A e \in ToSet(arc) : e.cv # "fail"
      BY <1>2, <3>4 DEF ChainInv
    <3>6. i = n + 1
      BY <3>1, <3>4, <3>5, HighestIs
    <3>7. \A c \in Classes : Entry(c, i, cv).class = c /\ Entry(c, i, cv).i = i /\ Entry(c, i, cv).cv # "fail"
      BY <3>4 DEF Entry
    <3>8. /\ Instances' = {e.i : e \in ToSet(arc')}
          /\ \A j, c : Has(j, c)' <=> \E e \in ToSet(arc') : e.i = j /\ e.class = c
      <4>1. Instances' = {e.i : e \in ToSet(arc')}
        BY DEF Instances, ToSet
      <4>2. ASSUME NEW j, NEW c PROVE Has(j, c)' <=> \E e \in ToSet(arc') : e.i = j /\ e.class = c
        BY DEF Has, ToSet
      <4>3. QED BY <4>1, <4>2
    <3>9. \A j, c : Has(j, c) <=> \E e \in ToSet(arc) : e.i = j /\ e.class = c
      BY ArcSets
    <3>10. Instances = {e.i : e \in ToSet(arc)}
      BY ArcSets
    <3>11. Instances' = 1..n \cup {i}
      <4>1. "seal" \in Classes
        BY DEF Classes
      <4>2. QED BY <3>3, <3>4, <3>5, <3>7, <3>8, <3>10, <4>1
    <3>12. Instances' = 1..(n + 1)
      BY <3>6, <3>11
    <3>13. \A j \in 1..(n + 1), c \in Classes : Has(j, c)'
      <4> SUFFICES ASSUME NEW j \in 1..(n + 1), NEW c \in Classes
                   PROVE  \E e \in ToSet(arc') : e.i = j /\ e.class = c
        BY <3>8
      <4>1. CASE j = i
        BY <3>3, <3>4, <3>7, <4>1
      <4>2. CASE j \in 1..n
        BY <3>3, <3>5, <3>9, <4>2
      <4>3. j = i \/ j \in 1..n
        BY <3>6
      <4>4. QED BY <4>1, <4>2, <4>3
    <3>14. \A e \in ToSet(arc') : e.cv # "fail"
      BY <3>3, <3>4, <3>5, <3>7
    <3>15. QED BY <3>12, <3>13, <3>14
  <2>3. QED BY <1>2, <2>1, <2>2 DEF Seal
<1>3. ChainInv /\ [Next]_vars => ChainInv'
  <2>1. [Next]_vars => Seal \/ UNCHANGED <<arc, sound>>
    BY DEF Next, Relay, Rewrite, Analyze, vars
  <2>2. ChainInv /\ UNCHANGED <<arc, sound>> => ChainInv'
    BY ChainInvKept
  <2>3. QED BY <1>2, <2>1, <2>2
<1>4. QED BY <1>1, <1>3, PTL DEF Spec

(* Without gaps the instances are those from 1 on.                         *)
LEMMA NoGaps ==
  ASSUME arc \in Seq(Entries), Instances # {}, \A i \in Instances : ~Gap(i)
  PROVE  /\ Max(Instances) \in Instances
         /\ Instances = 1..Cardinality(Instances)
<1> DEFINE M == Max(Instances)
<1>1. Instances \in SUBSET Nat /\ 0 \notin Instances /\ IsFiniteSet(Instances)
  BY ArcTyped
<1>2. M \in Instances /\ \A x \in Instances : x <= M
  BY <1>1, FiniteMax
<1> HIDE DEF M
<1> DEFINE S == {k \in Nat : k < M => M - k \in Instances}
<1>3. 0 \in S
  BY <1>1, <1>2
<1>4. ASSUME NEW k \in Nat, k \in S
      PROVE  k + 1 \in S
  <2> SUFFICES ASSUME k + 1 < M PROVE M - (k + 1) \in Instances
    OBVIOUS
  <2>1. M \in Nat /\ k < M /\ M - k # 1 /\ (M - k) - 1 = M - (k + 1)
    BY <1>1, <1>2
  <2>2. M - k \in Instances
    BY <1>4, <2>1
  <2>3. (M - k) - 1 \in Instances
    BY <2>1, <2>2 DEF Gap
  <2>4. QED BY <2>1, <2>3
<1>5. Nat \subseteq S
  <2> HIDE DEF S
  <2>1. QED BY <1>3, <1>4, NatInduct
<1>6. M \in Nat
  BY <1>1, <1>2
<1>7. \A i \in 1..M : i \in Instances
  <2> SUFFICES ASSUME NEW i \in 1..M PROVE i \in Instances
    OBVIOUS
  <2>1. M - i \in Nat /\ M - i < M /\ M - (M - i) = i
    BY <1>6
  <2>2. QED BY <1>5, <2>1
<1>8. Instances = 1..M
  <2>1. \A i \in Instances : i \in 1..M
    BY <1>1, <1>2, <1>6
  <2>2. QED BY <1>7, <2>1
<1>9. Cardinality(1..M) = M
  BY <1>2, <1>1, <1>6, FS_Interval
<1>10. QED BY <1>2, <1>8, <1>9 DEF M

(* arc.rs, analyze: a chain built as RFC 8617 has it has no finding, and   *)
(* one without finding is 1, 2, ..., n, whole, and did not fail at its     *)
(* end, for any number of sealers.                                         *)
THEOREM ChainJudged == Spec => []ChainIsJudged
<1>1. ChainInv /\ ReportInv => ChainIsJudged
  <2> SUFFICES ASSUME ChainInv, ReportInv, report # << >>
               PROVE  /\ sound => ArcFindings = {}
                      /\ ArcFindings = {} =>
                           /\ Instances = 1..Cardinality(Instances)
                           /\ \A i \in Instances, c \in Classes : Has(i, c)
                           /\ FinalCv # "fail"
    <3>1. ReportInv /\ report # << >> => report[1].arc = ArcFindings /\ report[1].final_cv = FinalCv
      BY DEF ReportInv, Verdict
    <3>2. QED BY <3>1 DEF ChainIsJudged
  <2>1. arc \in Seq(Entries)
    BY DEF ChainInv
  <2>2. ASSUME sound
        PROVE  ArcFindings = {}
    <3>1. PICK n \in Nat : /\ Instances = 1..n
                           /\ \A i \in 1..n, c \in Classes : Has(i, c)
                           /\ \A e \in ToSet(arc) : e.cv # "fail"
      BY <2>2 DEF ChainInv
    <3>2. \A i \in Instances : ~Gap(i)
      BY <3>1 DEF Gap
    <3>3. FinalCv # "fail"
      <4>1. CASE Instances = {}
        BY <4>1 DEF FinalCv
      <4>2. CASE Instances # {}
        <5> DEFINE ks == {k \in DOMAIN arc : arc[k].i = Max(Instances) /\ arc[k].class = "seal"}
        <5>1. FinalCv = IF ks = {} THEN "absent" ELSE arc[Max(ks)].cv
          BY <4>2 DEF FinalCv, CvOf
        <5>2. CASE ks = {}
          BY <5>1, <5>2
        <5>3. CASE ks # {}
          <6>1. ks \in SUBSET Nat /\ IsFiniteSet(ks) /\ ks \subseteq DOMAIN arc
            <7>1. DOMAIN arc = 1..Len(arc) /\ Len(arc) \in Nat
              BY <2>1, ArcTyped
            <7>2. IsFiniteSet(1..Len(arc)) /\ ks \in SUBSET (1..Len(arc))
              BY <7>1, FS_Interval
            <7>3. IsFiniteSet(ks)
              BY <7>2, FS_Subset
            <7>4. QED BY <7>1, <7>2, <7>3
          <6> HIDE DEF ks
          <6>2. Max(ks) \in DOMAIN arc
            BY <5>3, <6>1, FiniteMax
          <6>3. arc[Max(ks)] \in ToSet(arc)
            BY <6>2 DEF ToSet
          <6>4. QED BY <3>1, <5>1, <5>3, <6>3
        <5>4. QED BY <5>2, <5>3
      <4>3. QED BY <4>1, <4>2
    <3>4. QED BY <3>1, <3>2, <3>3 DEF ArcFindings
  <2>3. ASSUME ArcFindings = {}
        PROVE  /\ Instances = 1..Cardinality(Instances)
               /\ \A i \in Instances, c \in Classes : Has(i, c)
               /\ FinalCv # "fail"
    <3>1. \A i \in Instances : ~Gap(i)
      BY <2>3 DEF ArcFindings
    <3>2. \A i \in Instances, c \in Classes : Has(i, c)
      <4> SUFFICES ASSUME NEW i \in Instances, NEW c \in Classes, ~Has(i, c) PROVE FALSE
        OBVIOUS
      <4>1. << c, i >> \in {p \in Classes \X Instances : ~Has(p[2], p[1])}
        OBVIOUS
      <4>2. QED BY <2>3, <4>1 DEF ArcFindings
    <3>3. CASE Instances = {}
      <4>1. Cardinality(Instances) = 0
        BY <3>3, FS_EmptySet
      <4>2. QED BY <3>2, <3>3, <4>1 DEF FinalCv
    <3>4. CASE Instances # {}
      <4>1. Max(Instances) \in Instances /\ Instances = 1..Cardinality(Instances)
        BY <2>1, <3>1, <3>4, NoGaps
      <4>2. FinalCv # "fail"
        BY <2>3, <4>1 DEF ArcFindings
      <4>3. QED BY <3>2, <4>1, <4>2
    <3>5. QED BY <3>3, <3>4
  <2>4. QED BY <2>2, <2>3
<1>2. QED BY <1>1, ChainsKeepTheirInvariant, ReportsAreOfTheMessage, PTL

------------------------------------------------------------------------------
(* The body.  Splitting at the line feeds gives back the lines, with what  *)
(* is left of their ends.                                                  *)
Nothing == [lines |-> << >>, last |-> << >>]
Pieces == [lines : Seq(Seq(Symbols)), last : Seq(Symbols)]

(* One symbol: a line feed ends the line, any other is added to it.        *)
LEMMA SplitAtTyped ==
  ASSUME NEW acc \in Pieces, NEW c \in Symbols
  PROVE  /\ SplitAt(acc, c) \in Pieces
         /\ c = "LF" => SplitAt(acc, c) = [lines |-> Append(acc.lines, acc.last), last |-> << >>]
         /\ c # "LF" => SplitAt(acc, c) = [lines |-> acc.lines, last |-> Append(acc.last, c)]
<1>1. acc.lines \in Seq(Seq(Symbols)) /\ acc.last \in Seq(Symbols) /\ << >> \in Seq(Symbols)
  BY EmptySeq DEF Pieces
<1>2. Append(acc.lines, acc.last) \in Seq(Seq(Symbols)) /\ Append(acc.last, c) \in Seq(Symbols)
  BY <1>1, AppendProperties
<1>3. CASE c = "LF"
  BY <1>1, <1>2, <1>3 DEF SplitAt, Pieces
<1>4. CASE c # "LF"
  BY <1>1, <1>2, <1>4 DEF SplitAt, Pieces
<1>5. QED BY <1>3, <1>4

(* The recursive function of Taken.                                        *)
Takes(f, s) == f = [i \in 0..Len(s) |-> IF i = 0 THEN Nothing ELSE SplitAt(f[i - 1], s[i])]

LEMMA TakenForm ==
  ASSUME NEW s \in Seq(Symbols)
  PROVE  \E f \in [0..Len(s) -> Pieces] :
           /\ f[0] = Nothing /\ \A i \in 1..Len(s) : f[i] = SplitAt(f[i - 1], s[i])
           /\ Taken(s) = f[Len(s)]
<1> DEFINE N == Len(s)
           F == [i \in 1..N |-> [acc \in Pieces |-> SplitAt(acc, s[i])]]
<1>1. N \in Nat /\ Nothing \in Pieces /\ \A i \in 1..N : s[i] \in Symbols
  BY LenProperties DEF Nothing, Pieces
<1>2. F \in [1..N -> [Pieces -> Pieces]] /\ \A i \in 1..N : \A acc \in Pieces : F[i][acc] = SplitAt(acc, s[i])
  BY <1>1, SplitAtTyped
<1>3. PICK f : Recurs(f, N, Pieces, Nothing, F)
  <2> HIDE DEF N, F
  <2>1. QED BY <1>1, <1>2, RecursionExists
<1> HIDE DEF F
<1>4. f \in [0..N -> Pieces] /\ f[0] = Nothing /\ \A i \in 1..N : f[i] = F[i][f[i - 1]]
  BY <1>3 DEF Recurs
<1>5. ASSUME NEW i \in 1..N PROVE f[i] = SplitAt(f[i - 1], s[i])
  <2>1. i - 1 \in 0..N
    BY <1>1
  <2>2. f[i - 1] \in Pieces
    BY <1>4, <2>1
  <2>3. QED BY <1>2, <1>4, <2>2
<1>6. Takes(f, s)
  <2>1. \A i \in 0..N : f[i] = IF i = 0 THEN Nothing ELSE SplitAt(f[i - 1], s[i])
    BY <1>1, <1>4, <1>5
  <2>2. f = [i \in 0..N |-> IF i = 0 THEN Nothing ELSE SplitAt(f[i - 1], s[i])]
    BY <1>4, <2>1
  <2>3. QED BY <2>2 DEF Takes
<1> DEFINE g == CHOOSE g : Takes(g, s)
<1>7. Takes(g, s) /\ Taken(s) = g[N]
  BY <1>6 DEF Taken, Takes, Nothing
<1> HIDE DEF g
<1>8. DOMAIN g = 0..N /\ g = [i \in 0..N |-> g[i]] /\ g[0] = Nothing /\ \A i \in 1..N : g[i] = SplitAt(g[i - 1], s[i])
  BY <1>1, <1>7 DEF Takes
<1> DEFINE T == {k \in Nat : k <= N => g[k] \in Pieces}
<1>9. Nat \subseteq T
  <2>1. 0 \in T
    BY <1>1, <1>8
  <2>2. ASSUME NEW k \in Nat, k \in T PROVE k + 1 \in T
    <3> SUFFICES ASSUME k + 1 <= N PROVE g[k + 1] \in Pieces
      OBVIOUS
    <3>1. k + 1 \in 1..N /\ (k + 1) - 1 = k /\ g[k] \in Pieces
      BY <1>1, <2>2
    <3>2. g[k + 1] = SplitAt(g[k], s[k + 1]) /\ s[k + 1] \in Symbols
      BY <1>1, <1>8, <3>1
    <3>3. QED BY <3>1, <3>2, SplitAtTyped
  <2> HIDE DEF T
  <2>3. QED BY <2>1, <2>2, NatInduct
<1>10. g \in [0..N -> Pieces]
  BY <1>1, <1>8, <1>9
<1>11. QED BY <1>7, <1>8, <1>10

(* Of nothing it is nothing.                                               *)
LEMMA TakenTyped ==
  /\ Taken(<< >>) = Nothing
  /\ \A s \in Seq(Symbols) : Taken(s) \in Pieces
<1>1. << >> \in Seq(Symbols) /\ Len(<< >>) = 0
  BY EmptySeq
<1>2. Taken(<< >>) = Nothing
  BY <1>1, TakenForm
<1>3. ASSUME NEW s \in Seq(Symbols) PROVE Taken(s) \in Pieces
  <2>1. Len(s) \in 0..Len(s)
    BY LenProperties
  <2>2. QED BY <2>1, TakenForm
<1>4. QED BY <1>2, <1>3

(* One more symbol is one more step.                                       *)
LEMMA TakenAppend ==
  ASSUME NEW s \in Seq(Symbols), NEW c \in Symbols
  PROVE  Append(s, c) \in Seq(Symbols) /\ Taken(Append(s, c)) = SplitAt(Taken(s), c)
<1> DEFINE t == Append(s, c)
           n == Len(s)
<1>1. n \in Nat /\ t \in Seq(Symbols) /\ Len(t) = n + 1 /\ t[n + 1] = c /\ \A i \in 1..n : t[i] = s[i]
  BY LenProperties, AppendProperties
<1> HIDE DEF t, n
<1>2. PICK f \in [0..n -> Pieces] :
        f[0] = Nothing /\ (\A i \in 1..n : f[i] = SplitAt(f[i - 1], s[i])) /\ Taken(s) = f[n]
  BY TakenForm DEF n
<1>3. PICK g \in [0..(n + 1) -> Pieces] :
        g[0] = Nothing /\ (\A i \in 1..(n + 1) : g[i] = SplitAt(g[i - 1], t[i])) /\ Taken(t) = g[n + 1]
  BY <1>1, TakenForm
<1> DEFINE T == {k \in Nat : k <= n => g[k] = f[k]}
<1>4. Nat \subseteq T
  <2>1. 0 \in T
    BY <1>2, <1>3
  <2>2. ASSUME NEW k \in Nat, k \in T PROVE k + 1 \in T
    <3> SUFFICES ASSUME k + 1 <= n PROVE g[k + 1] = f[k + 1]
      OBVIOUS
    <3>1. k + 1 \in 1..n /\ k + 1 \in 1..(n + 1) /\ (k + 1) - 1 = k /\ g[k] = f[k]
      BY <1>1, <2>2
    <3>2. g[k + 1] = SplitAt(g[k], t[k + 1]) /\ f[k + 1] = SplitAt(f[k], s[k + 1])
      BY <1>2, <1>3, <3>1
    <3>3. QED BY <1>1, <3>1, <3>2
  <2> HIDE DEF T
  <2>3. QED BY <2>1, <2>2, NatInduct
<1>5. g[n] = f[n]
  BY <1>1, <1>4
<1>6. n + 1 \in 1..(n + 1) /\ (n + 1) - 1 = n
  BY <1>1
<1>7. g[n + 1] = SplitAt(g[n], t[n + 1])
  BY <1>3, <1>6
<1>8. Taken(t) = SplitAt(Taken(s), c)
  BY <1>1, <1>2, <1>3, <1>5, <1>7
<1>9. QED BY <1>1, <1>8 DEF t

(* What holds no line feed is added to the last line.                      *)
LEMMA TakenOfLine ==
  ASSUME NEW s \in Seq(Symbols), NEW t \in Seq(Symbols \ {"LF"})
  PROVE  /\ t \in Seq(Symbols) /\ s \o t \in Seq(Symbols)
         /\ Taken(s \o t) = [lines |-> Taken(s).lines, last |-> Taken(s).last \o t]
<1> DEFINE Plus(u) == [lines |-> Taken(s).lines, last |-> Taken(s).last \o u]
           C == Symbols \ {"LF"}
           S == {u \in Seq(C) : Taken(s \o u) = Plus(u)}
<1>1. Taken(s) \in Pieces /\ Taken(s).lines \in Seq(Seq(Symbols)) /\ Taken(s).last \in Seq(Symbols)
  BY TakenTyped DEF Pieces
<1>2. \A u \in Seq(C) : u \in Seq(Symbols)
  BY SeqMonotonic
<1>3. << >> \in S
  <2>1. s \o << >> = s /\ Taken(s).last \o << >> = Taken(s).last /\ << >> \in Seq(C)
    BY <1>1, ConcatEmptySeq, EmptySeq
  <2>2. Taken(s) = [lines |-> Taken(s).lines, last |-> Taken(s).last]
    BY <1>1 DEF Pieces
  <2>3. QED BY <2>1, <2>2
<1>4. ASSUME NEW u \in Seq(C), NEW c \in C, u \in S
      PROVE  Append(u, c) \in S
  <2>1. u \in Seq(Symbols) /\ c \in Symbols /\ c # "LF" /\ s \o u \in Seq(Symbols)
    BY <1>2, ConcatProperties
  <2>2. s \o Append(u, c) = Append(s \o u, c) /\ Taken(s).last \o Append(u, c) = Append(Taken(s).last \o u, c)
    <3>1. \A x, y \in Seq(Symbols) : x \o Append(y, c) = Append(x \o y, c)
      BY <2>1, ConcatAppend
    <3>2. QED BY <1>1, <2>1, <3>1
  <2>3. Taken(Append(s \o u, c)) = SplitAt(Taken(s \o u), c)
    BY <2>1, TakenAppend
  <2>4. Taken(s \o u) \in Pieces
    BY <2>1, TakenTyped
  <2>5. SplitAt(Taken(s \o u), c) = [lines |-> Taken(s \o u).lines, last |-> Append(Taken(s \o u).last, c)]
    BY <2>1, <2>4, SplitAtTyped
  <2>6. Taken(s \o u).lines = Taken(s).lines /\ Taken(s \o u).last = Taken(s).last \o u
    BY <1>4
  <2>7. Taken(s \o Append(u, c)) = Plus(Append(u, c))
    BY <2>2, <2>3, <2>5, <2>6
  <2>8. Append(u, c) \in Seq(C)
    BY AppendProperties
  <2>9. QED BY <2>7, <2>8
<1>5. Seq(C) \subseteq S
  <2> HIDE DEF S, C
  <2>1. QED BY <1>3, <1>4, SeqInduct
<1>6. t \in Seq(Symbols) /\ s \o t \in Seq(Symbols)
  BY <1>2, ConcatProperties
<1>7. QED BY <1>5, <1>6

(* A line end is a line feed, with or without a carriage return before it. *)
Char == Symbols \ {"CR", "LF"}
Cr(eol) == IF eol = CRLF THEN << "CR" >> ELSE << >>
Ended(ls, x) == [i \in 1..Len(ls) |-> ls[i] \o x]

LEMMA EndsAre ==
  ASSUME NEW eol \in Ends
  PROVE  /\ Cr(eol) \in Seq(Symbols \ {"LF"}) /\ Cr(eol) \in Seq(Symbols) /\ eol \in Seq(Symbols)
         /\ Cr(eol) = << >> \/ Cr(eol) = << "CR" >>
         /\ eol = Append(Cr(eol), "LF")
<1>1. CASE eol = CRLF
  BY <1>1 DEF Cr, CRLF, Symbols
<1>2. CASE eol = << "LF" >>
  <2>1. eol # CRLF
    BY <1>2 DEF CRLF
  <2>2. Cr(eol) = << >>
    BY <2>1 DEF Cr
  <2>3. QED BY <1>2, <2>2 DEF Symbols
<1>3. QED BY <1>1, <1>2 DEF Ends

(* The bytes of a body are its lines with their ends.                      *)
LEMMA EndedTyped ==
  ASSUME NEW ls \in Seq(Seq(Symbols)), NEW x \in Seq(Symbols)
  PROVE  /\ Ended(ls, x) \in Seq(Seq(Symbols)) /\ Len(Ended(ls, x)) = Len(ls)
         /\ \A i \in 1..Len(ls) : Ended(ls, x)[i] = ls[i] \o x
         /\ Bytes(ls, x) = FlattenSeq(Ended(ls, x)) /\ Bytes(ls, x) \in Seq(Symbols)
<1>1. Len(ls) \in Nat /\ DOMAIN ls = 1..Len(ls) /\ \A i \in 1..Len(ls) : ls[i] \in Seq(Symbols)
  BY LenProperties
<1>2. \A i \in 1..Len(ls) : ls[i] \o x \in Seq(Symbols)
  BY <1>1, ConcatProperties
<1>3. Ended(ls, x) \in Seq(Seq(Symbols)) /\ Len(Ended(ls, x)) = Len(ls)
  BY <1>1, <1>2 DEF Ended
<1>4. \A i \in 1..Len(ls) : Ended(ls, x)[i] = ls[i] \o x
  BY DEF Ended
<1>5. Bytes(ls, x) = FlattenSeq(Ended(ls, x))
  BY <1>1 DEF Bytes, Ended
<1>6. QED BY <1>3, <1>4, <1>5, FlattenTyped

(* The bytes of one more line come after the others.                       *)
LEMMA EndedAppend ==
  ASSUME NEW ls \in Seq(Seq(Symbols)), NEW l \in Seq(Symbols), NEW x \in Seq(Symbols)
  PROVE  /\ Ended(Append(ls, l), x) = Append(Ended(ls, x), l \o x)
         /\ Bytes(Append(ls, l), x) = Bytes(ls, x) \o (l \o x)
<1> DEFINE ms == Append(ls, l)
           y == l \o x
           A == Ended(ls, x)
           B == Ended(ms, x)
           n == Len(ls)
<1>1. /\ n \in Nat /\ ms \in Seq(Seq(Symbols)) /\ Len(ms) = n + 1 /\ ms[n + 1] = l
      /\ \A i \in 1..n : ms[i] = ls[i]
      /\ y \in Seq(Symbols)
  BY LenProperties, AppendProperties, ConcatProperties
<1>2. /\ A \in Seq(Seq(Symbols)) /\ Len(A) = n /\ \A i \in 1..n : A[i] = ls[i] \o x
      /\ Bytes(ls, x) = FlattenSeq(A)
  BY EndedTyped
<1>3. /\ B \in Seq(Seq(Symbols)) /\ Len(B) = n + 1 /\ \A i \in 1..(n + 1) : B[i] = ms[i] \o x
      /\ Bytes(ms, x) = FlattenSeq(B)
  <2> HIDE DEF ms, n
  <2>1. /\ B \in Seq(Seq(Symbols)) /\ Len(B) = Len(ms) /\ \A i \in 1..Len(ms) : B[i] = ms[i] \o x
        /\ Bytes(ms, x) = FlattenSeq(B)
    BY <1>1, EndedTyped
  <2> HIDE DEF B
  <2>2. QED BY <1>1, <2>1
<1>4. n + 1 \in 1..(n + 1) /\ \A i \in 1..n : i \in 1..(n + 1)
  BY <1>1
<1>5. B[n + 1] = y /\ \A i \in 1..n : B[i] = A[i]
  BY <1>1, <1>2, <1>3, <1>4
<1> HIDE DEF ms, y, A, B, n
<1>6. /\ Append(A, y) \in Seq(Seq(Symbols)) /\ Len(Append(A, y)) = n + 1
      /\ Append(A, y)[n + 1] = y /\ \A i \in 1..n : Append(A, y)[i] = A[i]
  BY <1>1, <1>2, AppendProperties
<1>7. \A i \in 1..(n + 1) : i = n + 1 \/ i \in 1..n
  BY <1>1
<1>8. \A i \in 1..(n + 1) : B[i] = Append(A, y)[i]
  BY <1>5, <1>6, <1>7
<1>9. B = Append(A, y)
  BY <1>3, <1>6, <1>8, SeqEqual
<1>10. FlattenSeq(Append(A, y)) = FlattenSeq(A) \o y
  BY <1>1, <1>2, FlattenAppend
<1>11. QED BY <1>2, <1>3, <1>9, <1>10 DEF ms, y, A, B

(* Reading the bytes gives back the lines, each with what is left of its   *)
(* end, and nothing after them.                                            *)
LEMMA TakenOfBytes ==
  ASSUME NEW ls \in Seq(Seq(Char)), NEW eol \in Ends
  PROVE  Taken(Bytes(ls, eol)) = [lines |-> Ended(ls, Cr(eol)), last |-> << >>]
<1> DEFINE S == {ms \in Seq(Seq(Char)) : Taken(Bytes(ms, eol)) = [lines |-> Ended(ms, Cr(eol)), last |-> << >>]}
<1>1. /\ Cr(eol) \in Seq(Symbols \ {"LF"}) /\ Cr(eol) \in Seq(Symbols) /\ eol \in Seq(Symbols)
      /\ eol = Append(Cr(eol), "LF")
  BY EndsAre
<1>2. /\ \A l \in Seq(Char) : l \in Seq(Symbols) /\ l \in Seq(Symbols \ {"LF"})
      /\ \A ms \in Seq(Seq(Char)) : ms \in Seq(Seq(Symbols))
  BY SeqMonotonic DEF Char
<1>3. << >> \in S
  <2>1. << >> \in Seq(Seq(Char)) /\ << >> \in Seq(Seq(Symbols)) /\ Len(<< >>) = 0
    BY EmptySeq
  <2>2. \A x \in Seq(Symbols) : Len(Ended(<< >>, x)) = 0 /\ Ended(<< >>, x) \in Seq(Seq(Symbols))
                                /\ Bytes(<< >>, x) = FlattenSeq(Ended(<< >>, x))
    BY <2>1, EndedTyped
  <2>3. Ended(<< >>, Cr(eol)) = << >> /\ Ended(<< >>, eol) = << >> /\ FlattenSeq(<< >>) = << >>
    BY <1>1, <2>1, <2>2, EmptySeq, FlattenForm
  <2>4. Bytes(<< >>, eol) = << >>
    BY <1>1, <2>2, <2>3
  <2>5. QED BY <2>1, <2>3, <2>4, TakenTyped DEF Nothing
<1>4. ASSUME NEW ms \in Seq(Seq(Char)), NEW l \in Seq(Char), ms \in S
      PROVE  Append(ms, l) \in S
  <2> DEFINE B == Bytes(ms, eol)
             y == l \o Cr(eol)
  <2>1. ms \in Seq(Seq(Symbols)) /\ l \in Seq(Symbols) /\ l \in Seq(Symbols \ {"LF"})
    BY <1>2
  <2>2. y \in Seq(Symbols \ {"LF"}) /\ y \in Seq(Symbols)
    BY <1>1, <2>1, ConcatProperties
  <2>3. B \in Seq(Symbols) /\ "LF" \in Symbols
    BY <1>1, <2>1, EndedTyped DEF Symbols
  <2>4. Bytes(Append(ms, l), eol) = B \o (l \o eol)
    BY <1>1, <2>1, EndedAppend
  <2>5. l \o eol = Append(y, "LF")
    <3>1. \A s, t \in Seq(Symbols) : s \o Append(t, "LF") = Append(s \o t, "LF")
      BY <2>3, ConcatAppend
    <3>2. QED BY <1>1, <2>1, <3>1
  <2>6. Ended(Append(ms, l), Cr(eol)) = Append(Ended(ms, Cr(eol)), y)
    BY <1>1, <2>1, EndedAppend
  <2>7. Taken(B) = [lines |-> Ended(ms, Cr(eol)), last |-> << >>]
    BY <1>4
  <2>8. Append(ms, l) \in Seq(Seq(Char))
    BY AppendProperties
  <2> HIDE DEF B, y, S
  <2>9. B \o Append(y, "LF") = Append(B \o y, "LF")
    BY <2>2, <2>3, ConcatAppend
  <2>10. B \o y \in Seq(Symbols) /\ Taken(B \o y) = [lines |-> Taken(B).lines, last |-> Taken(B).last \o y]
    BY <2>2, <2>3, TakenOfLine
  <2>11. << >> \o y = y
    BY <2>2, ConcatEmptySeq
  <2>12. Taken(B \o y) = [lines |-> Ended(ms, Cr(eol)), last |-> y]
    BY <2>7, <2>10, <2>11
  <2>13. Taken(B \o y) \in Pieces
    BY <2>10, TakenTyped
  <2>14. Taken(Append(B \o y, "LF")) = SplitAt(Taken(B \o y), "LF")
    BY <2>3, <2>10, TakenAppend
  <2>15. SplitAt(Taken(B \o y), "LF") = [lines |-> Append(Ended(ms, Cr(eol)), y), last |-> << >>]
    <3> DEFINE acc == Taken(B \o y)
    <3>1. acc \in Pieces /\ acc.lines = Ended(ms, Cr(eol)) /\ acc.last = y
      BY <2>12, <2>13
    <3> HIDE DEF acc
    <3>2. SplitAt(acc, "LF") = [lines |-> Append(acc.lines, acc.last), last |-> << >>]
      BY <2>3, <3>1, SplitAtTyped
    <3>3. QED BY <3>1, <3>2 DEF acc
  <2>16. Taken(Bytes(Append(ms, l), eol)) = [lines |-> Ended(Append(ms, l), Cr(eol)), last |-> << >>]
    BY <2>4, <2>5, <2>6, <2>9, <2>14, <2>15
  <2>17. QED BY <2>8, <2>16 DEF S
<1>5. Seq(Seq(Char)) \subseteq S
  <2> HIDE DEF S
  <2>1. QED BY <1>3, <1>4, SeqInduct
<1>6. QED BY <1>5

(* What is cut off at the end.                                             *)
Top(S) == Max({0} \cup S)
Filled(ls) == {i \in 1..Len(ls) : ls[i] # << >>}
Kept(l, S) == {i \in 1..Len(l) : l[i] \notin S}

(* The last that is kept, or 0.                                            *)
LEMMA TopIs ==
  ASSUME NEW n \in Nat, NEW S \in SUBSET (1..n)
  PROVE  Top(S) \in 0..n /\ (Top(S) # 0 => Top(S) \in S) /\ \A i \in S : i <= Top(S)
<1> DEFINE T == {0} \cup S
<1>1. T \in SUBSET (0..n)
  OBVIOUS
<1>2. IsFiniteSet(0..n)
  BY FS_Interval
<1>3. T # {} /\ T \in SUBSET Nat
  BY <1>1
<1>4. IsFiniteSet(T)
  <2> HIDE DEF T
  <2>1. QED BY <1>1, <1>2, FS_Subset
<1>5. Max(T) \in T /\ \A i \in T : i <= Max(T)
  <2> HIDE DEF T
  <2>1. QED BY <1>3, <1>4, FiniteMax
<1>6. Top(S) = Max(T)
  BY DEF Top
<1>7. QED BY <1>1, <1>5, <1>6

(* Both cuts are prefixes.                                                 *)
LEMMA TailForms ==
  ASSUME NEW E, NEW s \in Seq(E)
  PROVE  /\ NoEmptyTail(s) = SubSeq(s, 1, Top(Filled(s)))
         /\ \A S : NoTail(s, S) = SubSeq(s, 1, Top(Kept(s, S)))
<1>1. DOMAIN s = 1..Len(s)
  BY LenProperties
<1>2. {i \in DOMAIN s : [j \in DOMAIN s |-> s[j] # << >>][i]} = Filled(s)
  BY <1>1 DEF Filled
<1>3. ASSUME NEW S
      PROVE  {i \in DOMAIN s : [j \in DOMAIN s |-> s[j] \notin S][i]} = Kept(s, S)
  BY <1>1 DEF Kept
<1>4. NoEmptyTail(s) = SubSeq(s, 1, Top(Filled(s)))
  BY <1>2 DEF NoEmptyTail, UpToLast, Top
<1>5. ASSUME NEW S PROVE NoTail(s, S) = SubSeq(s, 1, Top(Kept(s, S)))
  BY <1>3 DEF NoTail, UpToLast, Top
<1>6. QED BY <1>4, <1>5

(* What a prefix is, and when two are the same.                            *)
LEMMA PrefixIs ==
  ASSUME NEW E, NEW s \in Seq(E), NEW m \in 0..Len(s)
  PROVE  /\ SubSeq(s, 1, m) \in Seq(E) /\ Len(SubSeq(s, 1, m)) = m
         /\ \A i \in 1..m : SubSeq(s, 1, m)[i] = s[i]
<1>1. Len(s) \in Nat /\ \A i \in 1..m : s[i] \in E
  BY LenProperties
<1>2. m \in Int /\ 1 \in Int /\ (IF 1 <= m THEN m - 1 + 1 ELSE 0) = m /\ m - 1 + 1 = m
  BY <1>1
<1>3. \A i \in 1..m : 1 + i - 1 = i
  OBVIOUS
<1>4. QED BY <1>1, <1>2, <1>3, SubSeqProperties

LEMMA PrefixesAgree ==
  ASSUME NEW E, NEW s \in Seq(E), NEW t \in Seq(E), NEW m \in 0..Len(s), m \in 0..Len(t),
         \A i \in 1..m : s[i] = t[i]
  PROVE  SubSeq(s, 1, m) = SubSeq(t, 1, m)
<1> DEFINE a == SubSeq(s, 1, m)
           b == SubSeq(t, 1, m)
<1>1. a \in Seq(E) /\ Len(a) = m /\ \A i \in 1..m : a[i] = s[i]
  BY PrefixIs
<1>2. b \in Seq(E) /\ Len(b) = m /\ \A i \in 1..m : b[i] = t[i]
  BY PrefixIs
<1> HIDE DEF a, b
<1>3. a = b
  BY <1>1, <1>2, SeqEqual
<1>4. QED BY <1>3 DEF a, b

(* An empty line at the end is cut off.                                    *)
LEMMA EmptyLineCut ==
  ASSUME NEW E, NEW X \in Seq(Seq(E))
  PROVE  NoEmptyTail(Append(X, << >>)) = NoEmptyTail(X)
<1> DEFINE Y == Append(X, << >>)
           n == Len(X)
           m == Top(Filled(X))
<1>1. << >> \in Seq(E)
  BY EmptySeq
<1>2. /\ n \in Nat /\ Y \in Seq(Seq(E)) /\ Len(Y) = n + 1 /\ Y[n + 1] = << >>
      /\ \A i \in 1..n : Y[i] = X[i]
  BY <1>1, LenProperties, AppendProperties
<1> HIDE DEF Y
<1>3. \A i \in 1..(n + 1) : i = n + 1 \/ i \in 1..n
  BY <1>2
<1>4. Filled(Y) = Filled(X)
  <2>1. Filled(Y) = {i \in 1..(n + 1) : Y[i] # << >>}
    BY <1>2 DEF Filled
  <2>2. Filled(X) = {i \in 1..n : X[i] # << >>}
    BY DEF Filled
  <2>3. \A i \in 1..n : i \in 1..(n + 1) /\ Y[i] = X[i]
    BY <1>2
  <2>4. \A i \in 1..(n + 1) : Y[i] # << >> => i \in 1..n
    BY <1>2, <1>3
  <2> HIDE DEF n
  <2>5. QED BY <2>1, <2>2, <2>3, <2>4
<1>5. Filled(X) \in SUBSET (1..n)
  BY DEF Filled
<1>6. m \in 0..n
  BY <1>2, <1>5, TopIs
<1>7. NoEmptyTail(Y) = SubSeq(Y, 1, m) /\ NoEmptyTail(X) = SubSeq(X, 1, m)
  BY <1>2, <1>4, TailForms
<1> HIDE DEF m
<1>8. m \in 0..Len(X) /\ m \in 0..Len(Y) /\ \A i \in 1..m : Y[i] = X[i]
  <2>1. \A i \in 1..m : i \in 1..n
    BY <1>2, <1>6
  <2>2. m \in 0..Len(Y)
    BY <1>2, <1>6
  <2>3. QED BY <1>2, <1>6, <2>1, <2>2
<1>9. SubSeq(Y, 1, m) = SubSeq(X, 1, m)
  BY <1>2, <1>8, PrefixesAgree
<1>10. QED BY <1>7, <1>9 DEF Y

(* A carriage return at the end is cut off with the spaces before it.      *)
Text == Char \ {"NBSP", "x80"}
LEMMA ReturnCut ==
  ASSUME NEW l \in Seq(Text), NEW cr \in {<< >>, << "CR" >>}
  PROVE  NoTail(l \o cr, {"SP", "NBSP", "CR"}) = NoTail(l, {"SP"})
<1> DEFINE t == l \o cr
           n == Len(l)
           m == Top(Kept(l, {"SP"}))
<1>1. n \in Nat /\ l \in Seq(Symbols) /\ \A i \in 1..n : l[i] \in Text
  <2>1. Text \subseteq Symbols
    BY DEF Text, Char
  <2>2. QED BY <2>1, LenProperties, SeqMonotonic
<1>2. cr \in Seq(Symbols) /\ Len(cr) \in {0, 1} /\ (Len(cr) = 1 => cr[1] = "CR")
  <2>1. CASE cr = << >>
    BY <2>1, EmptySeq
  <2>2. CASE cr = << "CR" >>
    BY <2>2 DEF Symbols
  <2>3. QED BY <2>1, <2>2
<1>3. t \in Seq(Symbols) /\ Len(t) = n + Len(cr) /\ \A i \in 1..n + Len(cr) : t[i] = IF i <= n THEN l[i] ELSE cr[i - n]
  BY <1>1, <1>2, ConcatProperties
<1>4. \A i \in 1..n : i \in 1..Len(t) /\ t[i] = l[i]
  BY <1>1, <1>2, <1>3
<1>5. \A i \in 1..Len(t) : i \in 1..n \/ (i \notin 1..n /\ t[i] = "CR")
  <2> SUFFICES ASSUME NEW i \in 1..Len(t), i \notin 1..n PROVE t[i] = "CR"
    OBVIOUS
  <2>1. Len(cr) = 1 /\ i = n + 1 /\ i - n = 1 /\ ~(i <= n)
    BY <1>1, <1>2, <1>3
  <2>2. t[i] = cr[i - n]
    BY <1>3, <2>1
  <2>3. QED BY <1>2, <2>1, <2>2
<1> HIDE DEF t
<1>6. \A i \in 1..n : l[i] \notin {"SP", "NBSP", "CR"} <=> l[i] \notin {"SP"}
  BY <1>1 DEF Text, Char
<1>7. Kept(t, {"SP", "NBSP", "CR"}) = Kept(l, {"SP"})
  BY <1>4, <1>5, <1>6 DEF Kept
<1>8. Kept(l, {"SP"}) \in SUBSET (1..n)
  BY DEF Kept
<1>9. m \in 0..n
  BY <1>1, <1>8, TopIs
<1>10. NoTail(t, {"SP", "NBSP", "CR"}) = SubSeq(t, 1, m)
  BY <1>3, <1>7, TailForms
<1>11. NoTail(l, {"SP"}) = SubSeq(l, 1, m)
  BY <1>1, TailForms
<1> HIDE DEF m
<1>12. m \in 0..Len(l) /\ m \in 0..Len(t) /\ \A i \in 1..m : t[i] = l[i]
  BY <1>1, <1>2, <1>3, <1>4, <1>9
<1>13. SubSeq(t, 1, m) = SubSeq(l, 1, m)
  BY <1>1, <1>3, <1>12, PrefixesAgree
<1>14. QED BY <1>10, <1>11, <1>13 DEF t

(* In the simple mode that return alone goes.                              *)
LEMMA SimpleLineIs ==
  ASSUME NEW l \in Seq(Text), NEW cr \in {<< >>, << "CR" >>}
  PROVE  SimpleLine(l \o cr) = l
<1> DEFINE t == l \o cr
           n == Len(l)
<1>1. n \in Nat /\ l \in Seq(Symbols) /\ \A i \in 1..n : l[i] \in Text
  <2>1. Text \subseteq Symbols
    BY DEF Text, Char
  <2>2. QED BY <2>1, LenProperties, SeqMonotonic
<1>2. CASE cr = << >>
  <2>1. t = l
    BY <1>1, <1>2, ConcatEmptySeq
  <2>2. l # << >> => l[n] \in Text
    BY <1>1, EmptySeq
  <2>3. ~(l # << >> /\ l[n] = "CR")
    BY <2>2 DEF Text, Char
  <2>4. QED BY <2>1, <2>3 DEF SimpleLine, Last
<1>3. CASE cr = << "CR" >>
  <2>1. t = Append(l, "CR") /\ "CR" \in Symbols
    BY <1>1, <1>3, AppendIsConcat DEF Symbols
  <2>2. t \in Seq(Symbols) /\ t # << >> /\ Len(t) = n + 1 /\ t[n + 1] = "CR" /\ \A i \in 1..n : t[i] = l[i]
    BY <1>1, <2>1, AppendProperties
  <2> HIDE DEF t
  <2>3. n \in 0..Len(t) /\ n \in 0..Len(l) /\ \A i \in 1..n : t[i] = l[i]
    BY <1>1, <2>2
  <2>4. SubSeq(t, 1, n) = SubSeq(l, 1, n)
    BY <1>1, <2>2, <2>3, PrefixesAgree
  <2>5. SubSeq(l, 1, n) = l
    BY <1>1, SubSeqFull
  <2>6. Len(t) - 1 = n
    BY <1>1, <2>2
  <2>7. Front(t) = l /\ Last(t) = "CR"
    BY <2>2, <2>4, <2>5, <2>6 DEF Front, Last
  <2>8. SimpleLine(t) = l
    BY <2>2, <2>7 DEF SimpleLine
  <2>9. QED BY <2>8 DEF t
<1>4. QED BY <1>2, <1>3

(* Collapsing makes a line of a line.                                      *)
LEMMA CollapsedTyped ==
  ASSUME NEW E, NEW l \in Seq(E)
  PROVE  Collapsed(l) \in Seq(E)
<1> DEFINE w == [i \in DOMAIN l |-> IF l[i] = "SP" /\ i > 1 /\ l[i - 1] = "SP" THEN << >> ELSE << l[i] >>]
<1>1. Len(l) \in Nat /\ DOMAIN l = 1..Len(l) /\ \A i \in 1..Len(l) : l[i] \in E
  BY LenProperties
<1>2. \A i \in 1..Len(l) : << >> \in Seq(E) /\ << l[i] >> \in Seq(E)
  BY <1>1, EmptySeq
<1>3. w \in Seq(Seq(E))
  BY <1>1, <1>2
<1>4. Collapsed(l) = FlattenSeq(w)
  BY DEF Collapsed
<1> HIDE DEF w
<1>5. QED BY <1>3, <1>4, FlattenTyped

(* So does cutting, ...                                                    *)
LEMMA NoTailTyped ==
  ASSUME NEW E, NEW l \in Seq(E), NEW S
  PROVE  NoTail(l, S) \in Seq(E)
<1>1. Len(l) \in Nat /\ Kept(l, S) \in SUBSET (1..Len(l))
  BY LenProperties DEF Kept
<1>2. Top(Kept(l, S)) \in 0..Len(l)
  BY <1>1, TopIs
<1>3. NoTail(l, S) = SubSeq(l, 1, Top(Kept(l, S)))
  BY TailForms
<1>4. QED BY <1>2, <1>3, PrefixIs

(* ... and what is left of a body is not one empty line.                   *)
LEMMA NoEmptyTailIs ==
  ASSUME NEW E, NEW ls \in Seq(Seq(E))
  PROVE  NoEmptyTail(ls) \in Seq(Seq(E)) /\ NoEmptyTail(ls) # << << >> >>
<1> DEFINE m == Top(Filled(ls))
           t == SubSeq(ls, 1, m)
<1>1. Len(ls) \in Nat /\ Filled(ls) \in SUBSET (1..Len(ls))
  BY LenProperties DEF Filled
<1>2. m \in 0..Len(ls) /\ (m # 0 => m \in Filled(ls))
  BY <1>1, TopIs
<1>3. NoEmptyTail(ls) = t
  BY TailForms
<1>4. t \in Seq(Seq(E)) /\ Len(t) = m /\ \A i \in 1..m : t[i] = ls[i]
  BY <1>2, PrefixIs
<1>5. m # 0 => ls[m] # << >>
  BY <1>2 DEF Filled
<1> HIDE DEF t, m
<1>6. ASSUME t = << << >> >>
      PROVE  FALSE
  <2>1. Len(t) = 1 /\ t[1] = << >>
    BY <1>6
  <2>2. m = 1 /\ t[m] = ls[m]
    BY <1>4, <2>1
  <2>3. QED BY <1>5, <2>1, <2>2
<1>7. QED BY <1>3, <1>4, <1>6

(* Of an empty line nothing is left.                                       *)
LEMMA NothingLeft == Collapsed(NoTail(<< >>, {"SP"})) = << >>
<1>1. << >> \in Seq({}) /\ NoTail(<< >>, {"SP"}) \in Seq({})
  BY EmptySeq, NoTailTyped
<1>2. Collapsed(NoTail(<< >>, {"SP"})) \in Seq({})
  BY <1>1, CollapsedTyped
<1>3. \A s \in Seq({}) : s = << >>
  <2> SUFFICES ASSUME NEW s \in Seq({}), s # << >> PROVE FALSE
    OBVIOUS
  <2>1. 1 \in 1..Len(s)
    BY EmptySeq
  <2>2. s[1] \in {}
    BY <2>1, LenProperties
  <2>3. QED BY <2>2
<1>4. QED BY <1>2, <1>3

(* RFC 6376's lines before the empty ones at the end go.                   *)
Modes == {"simple", "relaxed"}
Base(mode, ls) == IF mode = "relaxed" THEN [i \in 1..Len(ls) |-> Collapsed(NoTail(ls[i], {"SP"}))] ELSE ls

LEMMA RfcIs ==
  ASSUME NEW E, NEW ls \in Seq(Seq(E)), NEW mode
  PROVE  /\ Base(mode, ls) \in Seq(Seq(E)) /\ Len(Base(mode, ls)) = Len(ls)
         /\ Rfc(mode, ls) = NoEmptyTail(Base(mode, ls))
         /\ Rfc(mode, ls) \in Seq(Seq(E)) /\ Rfc(mode, ls) # << << >> >>
<1>1. Len(ls) \in Nat /\ DOMAIN ls = 1..Len(ls) /\ \A i \in 1..Len(ls) : ls[i] \in Seq(E)
  BY LenProperties
<1>2. \A i \in 1..Len(ls) : Collapsed(NoTail(ls[i], {"SP"})) \in Seq(E)
  <2> SUFFICES ASSUME NEW i \in 1..Len(ls) PROVE Collapsed(NoTail(ls[i], {"SP"})) \in Seq(E)
    OBVIOUS
  <2>1. NoTail(ls[i], {"SP"}) \in Seq(E)
    BY <1>1, NoTailTyped
  <2>2. QED BY <2>1, CollapsedTyped
<1>3. Base(mode, ls) \in Seq(Seq(E)) /\ Len(Base(mode, ls)) = Len(ls)
  BY <1>1, <1>2 DEF Base
<1>4. Rfc(mode, ls) = NoEmptyTail(Base(mode, ls))
  BY <1>1 DEF Rfc, Base
<1>5. QED BY <1>3, <1>4, NoEmptyTailIs

(* What the code makes of plain text, whatever the line ends, is what RFC  *)
(* 6376 hashes.                                                            *)
Stripped(mode, ps) == [i \in DOMAIN ps |-> IF mode = "relaxed" THEN RelaxedLine(ps[i]) ELSE SimpleLine(ps[i])]

(* The lines, made canonical one by one; the last piece is empty.          *)
LEMMA StrippedIs ==
  ASSUME NEW ls \in Seq(Seq(Text)), NEW cr \in {<< >>, << "CR" >>}, NEW mode
  PROVE  Stripped(mode, Append(Ended(ls, cr), << >>)) = Append(Base(mode, ls), << >>)
<1> DEFINE M(l) == IF mode = "relaxed" THEN RelaxedLine(l) ELSE SimpleLine(l)
           n == Len(ls)
           A == Ended(ls, cr)
           P == Append(A, << >>)
           B == Base(mode, ls)
           Q == Append(B, << >>)
<1>1. Text \subseteq Symbols /\ cr \in Seq(Symbols)
  <2>1. << >> \in Seq(Symbols) /\ << "CR" >> \in Seq(Symbols)
    BY EmptySeq DEF Symbols
  <2>2. QED BY <2>1 DEF Text, Char
<1>2. n \in Nat /\ ls \in Seq(Seq(Symbols)) /\ \A i \in 1..n : ls[i] \in Seq(Text)
  <2>1. Seq(Text) \subseteq Seq(Symbols)
    BY <1>1, SeqMonotonic
  <2>2. QED BY <2>1, LenProperties, SeqMonotonic
<1>3. A \in Seq(Seq(Symbols)) /\ Len(A) = n /\ \A i \in 1..n : A[i] = ls[i] \o cr
  BY <1>1, <1>2, EndedTyped
<1>4. B \in Seq(Seq(Symbols)) /\ Len(B) = n /\ << >> \in Seq(Symbols)
  BY <1>2, RfcIs, EmptySeq
<1>5. \A i \in 1..n : B[i] = IF mode = "relaxed" THEN Collapsed(NoTail(ls[i], {"SP"})) ELSE ls[i]
  BY DEF Base
<1>6. \A l \in Seq(Text) : M(l \o cr) = IF mode = "relaxed" THEN Collapsed(NoTail(l, {"SP"})) ELSE l
  BY ReturnCut, SimpleLineIs DEF RelaxedLine
<1>7. M(<< >>) = << >>
  <2>1. << >> \in Seq(Text) /\ << >> \o << >> = << >>
    BY EmptySeq, ConcatEmptySeq
  <2>2. NoTail(<< >> \o << >>, {"SP", "NBSP", "CR"}) = NoTail(<< >>, {"SP"})
    BY <2>1, ReturnCut
  <2>3. RelaxedLine(<< >>) = << >>
    BY <2>1, <2>2, NothingLeft DEF RelaxedLine
  <2>4. SimpleLine(<< >>) = << >>
    BY DEF SimpleLine
  <2>5. QED BY <2>3, <2>4
<1> HIDE DEF A, B, n, M
<1>8. P \in Seq(Seq(Symbols)) /\ Len(P) = n + 1 /\ P[n + 1] = << >> /\ \A i \in 1..n : P[i] = A[i]
  BY <1>3, <1>4, AppendProperties
<1>9. Q \in Seq(Seq(Symbols)) /\ Len(Q) = n + 1 /\ Q[n + 1] = << >> /\ \A i \in 1..n : Q[i] = B[i]
  BY <1>4, AppendProperties
<1> HIDE DEF P, Q
<1>10. DOMAIN P = 1..(n + 1) /\ DOMAIN Q = 1..(n + 1) /\ Q = [i \in 1..(n + 1) |-> Q[i]]
  BY <1>8, <1>9, LenProperties
<1>11. \A i \in 1..(n + 1) : M(P[i]) = Q[i]
  <2> SUFFICES ASSUME NEW i \in 1..(n + 1) PROVE M(P[i]) = Q[i]
    OBVIOUS
  <2>1. CASE i = n + 1
    BY <1>7, <1>8, <1>9, <2>1
  <2>2. CASE i \in 1..n
    <3>1. P[i] = ls[i] \o cr /\ ls[i] \in Seq(Text) /\ Q[i] = B[i]
      BY <1>2, <1>3, <1>8, <1>9, <2>2
    <3>2. QED BY <1>5, <1>6, <2>2, <3>1
  <2>3. i = n + 1 \/ i \in 1..n
    BY <1>2
  <2>4. QED BY <2>1, <2>2, <2>3
<1>12. Stripped(mode, P) = [i \in 1..(n + 1) |-> M(P[i])]
  BY <1>10 DEF Stripped, M
<1>13. Stripped(mode, P) = Q
  BY <1>10, <1>11, <1>12
<1>14. QED BY <1>13 DEF P, Q, A, B

(* Plain text is valid UTF-8.                                              *)
LEMMA PlainBytes ==
  ASSUME NEW ls \in Seq(Seq(Text)), NEW eol \in Ends
  PROVE  Utf8(Bytes(ls, eol)) = Bytes(ls, eol)
<1> DEFINE A == Ended(ls, eol)
           raw == Bytes(ls, eol)
<1>1. Text \subseteq Symbols /\ eol \in Seq(Symbols) /\ ToSet(eol) \subseteq {"CR", "LF"}
  <2>1. CASE eol = CRLF
    BY <2>1 DEF CRLF, Symbols, ToSet, Text, Char
  <2>2. CASE eol = << "LF" >>
    BY <2>2 DEF Symbols, ToSet, Text, Char
  <2>3. QED BY <2>1, <2>2 DEF Ends
<1>2. Len(ls) \in Nat /\ ls \in Seq(Seq(Symbols)) /\ \A i \in 1..Len(ls) : ls[i] \in Seq(Text) /\ ls[i] \in Seq(Symbols)
  <2>1. Seq(Text) \subseteq Seq(Symbols)
    BY <1>1, SeqMonotonic
  <2>2. QED BY <2>1, LenProperties, SeqMonotonic
<1>3. A \in Seq(Seq(Symbols)) /\ Len(A) = Len(ls) /\ (\A i \in 1..Len(ls) : A[i] = ls[i] \o eol) /\ raw = FlattenSeq(A)
  BY <1>1, <1>2, EndedTyped
<1>4. \A i \in 1..Len(ls) : "x80" \notin ToSet(ls[i] \o eol)
  <2> SUFFICES ASSUME NEW i \in 1..Len(ls) PROVE "x80" \notin ToSet(ls[i] \o eol)
    OBVIOUS
  <2>1. ls[i] \in Seq(Text) /\ ls[i] \in Seq(Symbols)
    BY <1>2
  <2>2. ToSet(ls[i] \o eol) = ToSet(ls[i]) \cup ToSet(eol)
    BY <1>1, <2>1, ToSetConcat
  <2>3. ToSet(ls[i]) \subseteq Text
    BY <2>1, LenProperties DEF ToSet
  <2>4. QED BY <1>1, <2>2, <2>3 DEF Text
<1> HIDE DEF A, raw
<1>5. ToSet(raw) = UNION {ToSet(A[i]) : i \in 1..Len(A)}
  BY <1>3, FlattenToSet
<1>6. "x80" \notin ToSet(raw)
  BY <1>3, <1>4, <1>5
<1>7. QED BY <1>6 DEF Utf8, raw

(* The whole of canonicalize_body.                                         *)
LEMMA CanonicalIs ==
  ASSUME NEW ls \in Seq(Seq(Text)), NEW eol \in Ends, NEW mode \in Modes
  PROVE  Canonical(mode, Bytes(ls, eol)) = Hashed(mode, ls)
<1> DEFINE raw == Bytes(ls, eol)
           R == Rfc(mode, ls)
<1>1. ls \in Seq(Seq(Char))
  <2>1. Seq(Text) \subseteq Seq(Char)
    BY SeqMonotonic DEF Text
  <2>2. QED BY <2>1, SeqMonotonic
<1>2. Utf8(raw) = raw
  BY PlainBytes
<1>3. Split(raw) = Append(Ended(ls, Cr(eol)), << >>)
  BY <1>1, TakenOfBytes DEF Split
<1>4. Cr(eol) \in {<< >>, << "CR" >>}
  BY DEF Cr
<1>5. Stripped(mode, Split(raw)) = Append(Base(mode, ls), << >>)
  BY <1>3, <1>4, StrippedIs
<1>6. Base(mode, ls) \in Seq(Seq(Char)) /\ R = NoEmptyTail(Base(mode, ls))
  BY <1>1, RfcIs
<1>7. NoEmptyTail(Stripped(mode, Split(raw))) = R
  BY <1>5, <1>6, EmptyLineCut
<1>8. Canonical(mode, raw) = Joined(mode, NoEmptyTail(Stripped(mode, Split(Utf8(raw)))))
  BY DEF Canonical, Stripped
<1>9. Canonical(mode, raw) = Joined(mode, R)
  BY <1>2, <1>7, <1>8
<1>10. Hashed(mode, ls) = IF R = << >> /\ mode = "simple" THEN CRLF ELSE Bytes(R, CRLF)
  BY DEF Hashed
<1>11. Bytes(<< >>, CRLF) = << >>
  <2>1. << >> \in Seq(Seq(Symbols)) /\ Len(<< >>) = 0 /\ CRLF \in Seq(Symbols)
    BY EmptySeq DEF CRLF, Symbols
  <2>2. Len(Ended(<< >>, CRLF)) = 0 /\ Ended(<< >>, CRLF) \in Seq(Seq(Symbols))
        /\ Bytes(<< >>, CRLF) = FlattenSeq(Ended(<< >>, CRLF))
    BY <2>1, EndedTyped
  <2>3. QED BY <2>2, FlattenForm
<1> HIDE DEF raw, R
<1>12. Joined(mode, R) = Hashed(mode, ls)
  BY <1>10, <1>11 DEF Joined, Modes
<1>13. QED BY <1>9, <1>12 DEF raw

(* Different lines have different bytes, and different hashes.             *)
LEMMA BytesDiffer ==
  ASSUME NEW a \in Seq(Seq(Char)), NEW b \in Seq(Seq(Char)), Bytes(a, CRLF) = Bytes(b, CRLF)
  PROVE  a = b
<1> DEFINE x == << "CR" >>
<1>1. CRLF \in Ends /\ Cr(CRLF) = x
  BY DEF Ends, Cr
<1>2. Ended(a, x) = Ended(b, x)
  <2>1. /\ Taken(Bytes(a, CRLF)) = [lines |-> Ended(a, x), last |-> << >>]
        /\ Taken(Bytes(b, CRLF)) = [lines |-> Ended(b, x), last |-> << >>]
    BY <1>1, TakenOfBytes
  <2> DEFINE ta == [lines |-> Ended(a, x), last |-> << >>]
             tb == [lines |-> Ended(b, x), last |-> << >>]
  <2>2. ta = tb
    BY <2>1
  <2>3. ta.lines = Ended(a, x) /\ tb.lines = Ended(b, x)
    OBVIOUS
  <2>4. QED BY <2>2, <2>3
<1>3. Char \subseteq Symbols /\ x \in Seq(Symbols) /\ "CR" \in Symbols
  BY DEF Char, Symbols
<1>4. /\ a \in Seq(Seq(Symbols)) /\ b \in Seq(Seq(Symbols)) /\ Len(a) \in Nat
      /\ \A i \in 1..Len(a) : a[i] \in Seq(Symbols)
      /\ \A i \in 1..Len(b) : b[i] \in Seq(Symbols)
  <2>1. Seq(Char) \subseteq Seq(Symbols)
    BY <1>3, SeqMonotonic
  <2>2. a \in Seq(Seq(Symbols)) /\ b \in Seq(Seq(Symbols))
    BY <2>1, SeqMonotonic
  <2>3. QED BY <2>2, LenProperties
<1>5. /\ Len(Ended(a, x)) = Len(a) /\ \A i \in 1..Len(a) : Ended(a, x)[i] = a[i] \o x
      /\ Len(Ended(b, x)) = Len(b) /\ \A i \in 1..Len(b) : Ended(b, x)[i] = b[i] \o x
  BY <1>3, <1>4, EndedTyped
<1>6. Len(a) = Len(b)
  BY <1>2, <1>5
<1>7. \A i \in 1..Len(a) : a[i] = b[i]
  <2> SUFFICES ASSUME NEW i \in 1..Len(a) PROVE a[i] = b[i]
    OBVIOUS
  <2> DEFINE l == a[i]
             m == b[i]
  <2>1. l \in Seq(Symbols) /\ m \in Seq(Symbols) /\ l \o x = m \o x
    BY <1>2, <1>4, <1>5, <1>6
  <2> HIDE DEF l, m
  <2>2. Append(l, "CR") = Append(m, "CR")
    BY <1>3, <2>1, AppendIsConcat
  <2>3. l = m
    BY <1>3, <2>1, <2>2, AppendInjective
  <2>4. QED BY <2>3 DEF l, m
<1>8. QED BY <1>4, <1>6, <1>7, SeqEqual

(* The CRLF of an empty simple body is the hash of no other one.           *)
LEMMA HashesDiffer ==
  ASSUME NEW a \in Seq(Seq(Char)), NEW b \in Seq(Seq(Char)), NEW mode \in Modes
  PROVE  Hashed(mode, a) = Hashed(mode, b) <=> Rfc(mode, a) = Rfc(mode, b)
<1> DEFINE Form(R) == IF R = << >> /\ mode = "simple" THEN << << >> >> ELSE R
           A == Rfc(mode, a)
           B == Rfc(mode, b)
           one == << << >> >>
<1>1. A \in Seq(Seq(Char)) /\ A # one /\ B \in Seq(Seq(Char)) /\ B # one
  BY RfcIs
<1>2. one \in Seq(Seq(Char)) /\ one \in Seq(Seq(Symbols)) /\ Bytes(one, CRLF) = CRLF
  <2>1. << >> \in Seq(Char) /\ << >> \in Seq(Seq(Symbols)) /\ << >> \in Seq(Symbols) /\ Len(<< >>) = 0
    BY EmptySeq
  <2>2. one = Append(<< >>, << >>) /\ CRLF \in Seq(Symbols)
    BY DEF CRLF, Symbols
  <2>3. Bytes(one, CRLF) = Bytes(<< >>, CRLF) \o (<< >> \o CRLF)
    <3>1. \A ls \in Seq(Seq(Symbols)), l \in Seq(Symbols) :
            Bytes(Append(ls, l), CRLF) = Bytes(ls, CRLF) \o (l \o CRLF)
      BY <2>2, EndedAppend
    <3> HIDE DEF one
    <3>2. QED BY <2>1, <2>2, <3>1
  <2>4. Len(Ended(<< >>, CRLF)) = 0 /\ Ended(<< >>, CRLF) \in Seq(Seq(Symbols))
        /\ Bytes(<< >>, CRLF) = FlattenSeq(Ended(<< >>, CRLF))
    BY <2>1, <2>2, EndedTyped
  <2>5. Bytes(<< >>, CRLF) = << >>
    BY <2>4, FlattenForm
  <2>6. << >> \o CRLF = CRLF
    BY <2>2, ConcatEmptySeq
  <2>7. Bytes(one, CRLF) = CRLF
    BY <2>3, <2>5, <2>6
  <2>8. one \in Seq(Seq(Char)) /\ one \in Seq(Seq(Symbols))
    BY <2>1
  <2>9. QED BY <2>7, <2>8
<1>3. /\ Hashed(mode, a) = Bytes(Form(A), CRLF)
      /\ Hashed(mode, b) = Bytes(Form(B), CRLF)
  BY <1>2 DEF Hashed
<1> HIDE DEF A, B, one
<1>4. Form(A) \in Seq(Seq(Char)) /\ Form(B) \in Seq(Seq(Char))
  BY <1>1, <1>2 DEF one
<1>5. Form(A) = Form(B) <=> A = B
  BY <1>1 DEF one
<1> HIDE DEF Form
<1>6. Bytes(Form(A), CRLF) = Bytes(Form(B), CRLF) => Form(A) = Form(B)
  BY <1>4, BytesDiffer
<1>7. QED BY <1>3, <1>5, <1>6 DEF A, B

(* The signature is of the body that was signed.                           *)
BodyInv ==
  /\ body \in Bodies /\ signed \in Bodies
  /\ signature.mode \in Modes /\ signature.bh = Hashed(signature.mode, signed)

(* No relay touches the signature, whatever it makes of the body.          *)
THEOREM SignaturesAreOfTheSigned == Spec => []BodyInv
<1>1. Init => BodyInv
  BY DEF Init, BodyInv, Modes
<1>2. BodyInv /\ [Next]_vars => BodyInv'
  <2> SUFFICES ASSUME BodyInv, [Next]_vars PROVE BodyInv'
    OBVIOUS
  <2>1. body' \in Bodies /\ signed' = signed /\ signature' = signature
    BY DEF BodyInv, Next, Relay, Rewrite, Analyze, vars
  <2>2. QED BY <2>1 DEF BodyInv
<1>3. QED BY <1>1, <1>2, PTL DEF Spec

(* The lines of a plain body.                                              *)
LEMMA PlainIsText ==
  ASSUME NEW ls \in Bodies, Plain(ls)
  PROVE  ls \in Seq(Seq(Text)) /\ ls \in Seq(Seq(Char))
<1>1. ls \in Seq(Seq(Char))
  BY ConstantsAssumption DEF Char
<1>2. Len(ls) \in Nat /\ DOMAIN ls = 1..Len(ls) /\ ls = [i \in 1..Len(ls) |-> ls[i]]
      /\ \A i \in 1..Len(ls) : ls[i] \in Seq(Char)
  BY <1>1, LenProperties
<1>3. ASSUME NEW i \in 1..Len(ls) PROVE ls[i] \in Seq(Text)
  <2> DEFINE l == ls[i]
  <2>1. l \in Seq(Char) /\ {"NBSP", "x80"} \cap ToSet(l) = {}
    BY <1>2 DEF Plain
  <2> HIDE DEF l
  <2>2. Len(l) \in Nat /\ DOMAIN l = 1..Len(l) /\ l = [j \in 1..Len(l) |-> l[j]] /\ \A j \in 1..Len(l) : l[j] \in Char
    BY <2>1, LenProperties
  <2>3. \A j \in 1..Len(l) : l[j] \in ToSet(l)
    BY <2>2 DEF ToSet
  <2>4. \A j \in 1..Len(l) : l[j] \in Text
    BY <2>1, <2>2, <2>3 DEF Text
  <2>5. l \in Seq(Text)
    BY <2>2, <2>4
  <2>6. QED BY <2>5 DEF l
<1>4. [i \in 1..Len(ls) |-> ls[i]] \in Seq(Seq(Text))
  BY <1>2, <1>3
<1>5. QED BY <1>1, <1>2, <1>4

(* dkim_body.rs, check_one: of plain text signed with SHA-256 the verdict  *)
(* on the body is RFC 6376's, for bodies of any length, either mode and    *)
(* either line end of the file.                                            *)
THEOREM BodyJudged == Spec => []BodyIsJudged
<1>1. BodyInv /\ ReportInv => BodyIsJudged
  <2> SUFFICES ASSUME BodyInv, ReportInv, report # << >>, signature.alg = "sha256", Plain(signed), Plain(body)
               PROVE  report[1].match <=> Rfc(signature.mode, body) = Rfc(signature.mode, signed)
    BY DEF BodyIsJudged
  <2> DEFINE mode == signature.mode
  <2>1. PICK eol \in Ends : report = << Verdict(eol) >>
    BY DEF ReportInv
  <2>2. report[1].match = Matches(Bytes(body, eol))
    BY <2>1 DEF Verdict
  <2>3. Matches(Bytes(body, eol)) <=> Canonical(mode, Bytes(body, eol)) = signature.bh
    BY DEF Matches
  <2>4. body \in Seq(Seq(Text)) /\ body \in Seq(Seq(Char)) /\ signed \in Seq(Seq(Char)) /\ mode \in Modes
    BY PlainIsText DEF BodyInv
  <2>5. Canonical(mode, Bytes(body, eol)) = Hashed(mode, body)
    BY <2>4, CanonicalIs
  <2>6. Hashed(mode, body) = Hashed(mode, signed) <=> Rfc(mode, body) = Rfc(mode, signed)
    BY <2>4, HashesDiffer
  <2>7. signature.bh = Hashed(mode, signed)
    BY DEF BodyInv
  <2>8. QED BY <2>2, <2>3, <2>5, <2>6, <2>7
<1>2. QED BY <1>1, SignaturesAreOfTheSigned, ReportsAreOfTheMessage, PTL
==============================================================================
