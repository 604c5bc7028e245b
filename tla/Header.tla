-------------------------------- MODULE Header --------------------------------
(***************************************************************************)
(* src/src/header/: `cymail header` judges one received message: the dates *)
(* of its Received lines, the structure of its ARC sets, and the hash of   *)
(* its body against a DKIM signature.  The message is signed at its origin *)
(* and travels over relays that stamp it by their own clocks, may seal it, *)
(* and may rewrite its body; then it is saved and analysed.  A hash is     *)
(* what is hashed; of a line only what the verdict uses is kept.           *)
(***************************************************************************)
EXTENDS Integers, Sequences, SequencesExt, FiniteSetsExt

CONSTANTS
  MaxHops,    \* bound: relays
  MaxTime,    \* bound: time
  Bodies      \* bodies: sequences of lines, a line a sequence of symbols

NoDate == -1
Symbols == {"a", "b", "SP", "NBSP", "x80", "CR", "LF"}   \* x80: not UTF-8
Classes == {"results", "signature", "seal"}

ASSUME ConstantsAssumption ==
  /\ MaxHops \in Nat /\ MaxTime \in Nat
  /\ Bodies \subseteq Seq(Seq(Symbols \ {"CR", "LF"}))

VARIABLES
  now,
  received,   \* Received lines, most recent first: their dates
  arc,        \* ARC headers, most recent first: [class, i, cv]
  body,       \* lines
  signature,  \* body mode, algorithm and hash of the DKIM-Signature
  signed,     \* history: the body that was signed
  wrong,      \* history: hops (1 is the origin's) stamped by a wrong clock
  sound,      \* history: every ARC set was added as RFC 8617 has it
  report      \* << >>, or what analyze() returns

vars == <<now, received, arc, body, signature, signed, wrong, sound, report>>

------------------------------------------------------------------------------
(* RFC 6376, 3.4.3 and 3.4.4, on lines.                                    *)

UpToLast(s, is) == SubSeq(s, 1, Max({0} \cup {i \in DOMAIN s : is[i]}))
NoEmptyTail(ls) == UpToLast(ls, [i \in DOMAIN ls |-> ls[i] # << >>])
NoTail(l, S) == UpToLast(l, [i \in DOMAIN l |-> l[i] \notin S])

(* One space of those that follow each other.                              *)
Collapsed(l) ==
  FlattenSeq([i \in DOMAIN l |-> IF l[i] = "SP" /\ i > 1 /\ l[i - 1] = "SP" THEN << >> ELSE <<l[i]>>])

Rfc(mode, lines) ==
  NoEmptyTail(IF mode = "relaxed"
                THEN [i \in DOMAIN lines |-> Collapsed(NoTail(lines[i], {"SP"}))]
                ELSE lines)

Bytes(lines, eol) == FlattenSeq([i \in DOMAIN lines |-> lines[i] \o eol])
CRLF == <<"CR", "LF">>

Hashed(mode, lines) ==
  IF Rfc(mode, lines) = << >> /\ mode = "simple" THEN CRLF ELSE Bytes(Rfc(mode, lines), CRLF)

------------------------------------------------------------------------------
(* The message's way.                                                      *)

(* Bound: the three judgements read nothing in common, so what can go      *)
(* wrong with the clocks, the seals and the body is not multiplied.        *)
OddDates == wrong # {} \/ NoDate \in ToSet(received)
Sealed == arc # << >>
OddBody == body # signed \/ signature.mode # "simple" \/ signature.alg # "sha256"
OneAtATime ==
  /\ ~(OddDates /\ Sealed) /\ ~(OddDates /\ OddBody) /\ ~(Sealed /\ OddBody)
  /\ Sealed \/ OddBody => now = 0

Init ==
  /\ now = 0 /\ received = << >> /\ arc = << >>
  /\ body \in Bodies /\ signed = body
  /\ \E m \in {"simple", "relaxed"}, a \in {"sha256", "sha1", "other"} :
       signature = [mode |-> m, alg |-> a, bh |-> Hashed(m, body)]
  /\ wrong = {} /\ sound = TRUE /\ report = << >>

Highest == Max({0} \cup {arc[k].i : k \in DOMAIN arc})

ArcSet(i, cv, classes) ==
  LET h(c) == IF c \in classes THEN <<[class |-> c, i |-> i, cv |-> IF c = "seal" THEN cv ELSE "absent"]>>
              ELSE << >>
  IN  h("seal") \o h("signature") \o h("results")

(* A relay stamps the message; its clock may be wrong, or its line undated.*)
Stamp ==
  \E t \in {now, now + 1} \cap 0..MaxTime, d \in 0..MaxTime \cup {NoDate} :
    /\ now' = t /\ received' = <<d>> \o received
    /\ wrong' = IF d \in {t, NoDate} THEN wrong ELSE wrong \cup {Len(received) + 1}

(* It may seal it: the next instance, whole, with the result RFC 8617 asks *)
(* of it; or a header short, under another number, or with another result. *)
Seal ==
  \/ UNCHANGED <<arc, sound>>
  \/ \E i \in {Highest, Highest + 1, Highest + 2} \ {0},
        cv \in {"none", "pass", "fail", "absent"}, classes \in {Classes} \cup {Classes \ {c} : c \in Classes} :
       /\ arc' = ArcSet(i, cv, classes) \o arc
       /\ sound' = (sound /\ i = Highest + 1 /\ classes = Classes
                              /\ cv = IF Highest = 0 THEN "none" ELSE "pass")

Relay ==
  /\ Len(received) < MaxHops /\ report = << >>
  /\ Stamp /\ Seal
  /\ UNCHANGED <<body, signature, signed, report>>
  /\ OneAtATime'

(* A relay rewrites the body: content, white space or empty lines.         *)
Rewrite ==
  /\ report = << >> /\ body = signed /\ received # << >> /\ body' \in Bodies \ {body}
  /\ UNCHANGED <<now, received, arc, signature, signed, wrong, sound, report>>
  /\ OneAtATime'

------------------------------------------------------------------------------
(* received.rs: analyze()                                                  *)

(* From the origin on; the last date seen is the one compared with.        *)
Date(hop) == received[Len(received) + 1 - hop]

(* Mutant: an undated hop is taken for one at the epoch.                   *)
Compare_Undated(acc, h) ==
  LET d == Date(h) IN
  [prev |-> IF d = NoDate THEN 0 ELSE d, back |-> IF d < acc.prev THEN acc.back \cup {h} ELSE acc.back]

Compare(acc, h) ==
  LET d == Date(h) IN
  [prev |-> IF d = NoDate THEN acc.prev ELSE d,
   back |-> IF d # NoDate /\ acc.prev # NoDate /\ d < acc.prev THEN acc.back \cup {h} ELSE acc.back]

Backwards ==
  LET upTo[h \in 0..Len(received)] ==
        IF h = 0 THEN [prev |-> NoDate, back |-> {}] ELSE Compare(upTo[h - 1], h)
  IN  upTo[Len(received)].back

------------------------------------------------------------------------------
(* arc.rs: analyze()                                                       *)

Instances == {arc[k].i : k \in DOMAIN arc}
Has(i, class) == \E k \in DOMAIN arc : arc[k].i = i /\ arc[k].class = class

(* The bucket of an instance keeps the cv of the seal read last.           *)
CvOf(i) ==
  LET ks == {k \in DOMAIN arc : arc[k].i = i /\ arc[k].class = "seal"}
  IN  IF ks = {} THEN "absent" ELSE arc[Max(ks)].cv
FinalCv == IF Instances = {} THEN "absent" ELSE CvOf(Max(Instances))

Gap_FromFirst(i) == i # Min(Instances) /\ i - 1 \notin Instances     \* mutant
Gap(i) == i # 1 /\ i - 1 \notin Instances

ArcFindings ==
  {<<"gap", i>> : i \in {j \in Instances : Gap(j)}}
  \cup {p \in Classes \X Instances : ~Has(p[2], p[1])}
  \cup {<<"cv=fail", i>> : i \in {j \in Instances : j = Max(Instances) /\ FinalCv = "fail"}}

------------------------------------------------------------------------------
(* dkim_body.rs: check_one() and canonicalize_body()                       *)

(* The lines before the last, and the last as far as it goes.              *)
SplitAt(acc, c) ==
  IF c = "LF" THEN [lines |-> Append(acc.lines, acc.last), last |-> << >>]
  ELSE [acc EXCEPT !.last = Append(@, c)]
Taken(s) ==
  LET upTo[i \in 0..Len(s)] ==
        IF i = 0 THEN [lines |-> << >>, last |-> << >>] ELSE SplitAt(upTo[i - 1], s[i])
  IN  upTo[Len(s)]
Split(s) == Append(Taken(s).lines, Taken(s).last)

(* str::trim_end takes off every Unicode white space.                      *)
RelaxedLine_KeepsCR(l) == Collapsed(NoTail(l, {"SP", "NBSP"}))       \* mutant
RelaxedLine(l) == Collapsed(NoTail(l, {"SP", "NBSP", "CR"}))

SimpleLine(l) == IF l # << >> /\ Last(l) = "CR" THEN Front(l) ELSE l

Utf8(s) == IF "x80" \in ToSet(s) THEN << >> ELSE s     \* unwrap_or_default

Joined(mode, lines) ==
  IF lines = << >> THEN IF mode = "relaxed" THEN << >> ELSE CRLF
  ELSE Bytes(lines, CRLF)

Canonical(mode, raw) ==
  LET ls == Split(Utf8(raw))
  IN  Joined(mode, NoEmptyTail(
        [i \in DOMAIN ls |-> IF mode = "relaxed" THEN RelaxedLine(ls[i]) ELSE SimpleLine(ls[i])]))

Matches(raw) ==
  signature.alg = "sha256" /\ Canonical(signature.mode, raw) = signature.bh

(* The message is in a file, with the line ends of the wire or of Unix.    *)
Analyze ==
  /\ report = << >> /\ received # << >>
  /\ \E eol \in {CRLF, <<"LF">>} :
       report' = <<[back |-> Backwards, arc |-> ArcFindings, final_cv |-> FinalCv,
                    match |-> Matches(Bytes(body, eol))]>>
  /\ UNCHANGED <<now, received, arc, body, signature, signed, wrong, sound>>

Next == Relay \/ Rewrite \/ Analyze

Spec == Init /\ [][Next]_vars

------------------------------------------------------------------------------
Dated == {h \in 1..Len(received) : Date(h) # NoDate}

(* No hop is suspected unless its clock or that of the dated hop before it *)
(* was wrong, and dates that are nowhere suspected never go backwards.     *)
ClocksAreJudged ==
  report # << >> =>
    /\ \A h \in report[1].back :
         \/ h \in wrong
         \/ \E g \in Dated \cap wrong : g < h /\ Dated \cap (g + 1)..(h - 1) = {}
    /\ report[1].back = {} => \A g, h \in Dated : g <= h => Date(g) <= Date(h)

(* A chain that every sealer built as RFC 8617 has it has no finding, and  *)
(* a chain without finding is 1, 2, ..., n, with all three headers of each *)
(* and no failure in the last.                                             *)
ChainIsJudged ==
  report # << >> =>
    /\ sound => report[1].arc = {}
    /\ report[1].arc = {} =>
         /\ Instances = 1..Cardinality(Instances)
         /\ \A i \in Instances, c \in Classes : Has(i, c)
         /\ report[1].final_cv # "fail"

Plain(lines) == \A i \in DOMAIN lines : {"NBSP", "x80"} \cap ToSet(lines[i]) = {}

(* For bodies of plain text and SHA-256 the verdict on the body is RFC     *)
(* 6376's: white space and empty lines that the mode ignores, and the line *)
(* ends of the file, make no mismatch; any other change does.              *)
BodyIsJudged ==
  (report # << >> /\ signature.alg = "sha256" /\ Plain(signed) /\ Plain(body)) =>
    (report[1].match <=> Rfc(signature.mode, body) = Rfc(signature.mode, signed))

------------------------------------------------------------------------------
(* What the comments say and the code does not keep: each, given as        *)
(* INVARIANT to Header.cfg, is refuted.                                    *)

(* "never two of the same instance" (arc.rs:15): a second header of a      *)
(* class of an instance is a finding.                                      *)
DuplicatesAreFound ==
  (report # << >> /\ report[1].arc = {}) =>
    \A j, k \in DOMAIN arc : arc[j].i = arc[k].i /\ arc[j].class = arc[k].class => j = k

(* "cv= for the highest instance is "pass"" (arc.rs:17): past the first    *)
(* instance, where it is "none", no finding means that.  A chain that ends *)
(* in another "none", or in a seal without a result, has no finding.       *)
LastSealPasses ==
  (report # << >> /\ report[1].arc = {} /\ Cardinality(Instances) > 1) => report[1].final_cv = "pass"

(* "Mismatch = body tampered after signing" (dkim_body.rs:8).              *)
MismatchMeansTampered ==
  (report # << >> /\ ~report[1].match) => body # signed
==============================================================================
