-------------------------------- MODULE Leak --------------------------------
(***************************************************************************)
(* `cymail leak`, src/src/leak.rs: breaches, code search, the certificates *)
(* of lookalike domains and the commercial feeds, one after the other.  A  *)
(* source that does not answer must not spoil the report of the others.    *)
(***************************************************************************)
EXTENDS Integers, FiniteSets, Sequences, SequencesExt

CONSTANTS
  Names,        \* domain names without the last label: sequences of letters; empty: no dot
  Tld, Tlds,    \* the last label of the domain, and the ones swapped for it
  Homoglyphs,   \* pairs of letters, the second to replace the first
  BrandSuffixes,\* "-mail" and the like, a letter each
  DashLimit,    \* dashes go before this position (5) ...
  EditLimit,    \* ... and letters are deleted and swapped up to this one (8)
  CertLists,    \* the ages, in days, of the certificates crt.sh may list
  Lookback,     \* lookalike_lookback_days
  MaxAnswers,   \* bound: answers of crt.sh other than an empty list
  MaxItems      \* bound: breaches, hits and records a service lists

ASSUME LeakAssumption ==
  /\ \A n \in Names : n \in Seq(STRING)
  /\ \A h \in Homoglyphs : h[1] # h[2]
  /\ CertLists \subseteq SUBSET Nat /\ Lookback \in Nat
  /\ DashLimit \in Nat /\ EditLimit \in Nat /\ MaxAnswers \in Nat /\ MaxItems \in Nat

VARIABLE leak   \* the report in the making; answers and asked: history

LeakSections == {"services", "lookalikes", "feeds"}
(* What a service answers: nothing before the timeout, an error status,    *)
(* "not found", or a list.                                                 *)
Outcomes == [how : {"none", "error", "404"}, n : {0}] \cup [how : {"list"}, n : 0..MaxItems]
Clean == [how |-> "list", n |-> 0]
(* What feeds::run_all hands back for a feed: see ResultCache for "list".  *)
FeedOutcomes == [how : {"skipped", "failed"}, n : {0}] \cup [how : {"list"}, n : 0..MaxItems]
FeedNames == {"dehashed", "intelx", "snusbase"}

LeakIdle ==
  [at |-> "idle", focus |-> "none", name |-> <<>>, breaches |-> 0, github |-> 0,
   pending |-> {}, hits |-> <<>>, legacy |-> [f \in FeedNames |-> "skipped"],
   sources |-> {}, answers |-> <<>>, asked |-> <<>>,
   feeds |-> [f \in FeedNames |-> [how |-> "skipped", n |-> 0]]]

(* Bound, as in Reputation: one section gets answers out of the ordinary.  *)
OneSection(section, plain, all) == IF leak.focus = section THEN all ELSE {plain}

------------------------------------------------------------------------------
(* generate_lookalikes; a letter is one byte.                              *)
Domain(n) == [name |-> n, tld |-> Tld]
UpTo(n, most) == 1..(IF Len(n) < most THEN Len(n) ELSE most)

Swapped(n) == {[name |-> n, tld |-> t] : t \in Tlds \ {Tld}}
Dashed(n) ==
  {Domain(SubSeq(n, 1, i) \o <<"-">> \o SubSeq(n, i + 1, Len(n))) : i \in UpTo(n, DashLimit) \ {Len(n), DashLimit}}
Homographs(n) ==
  {Domain([i \in DOMAIN n |-> IF n[i] = h[1] THEN h[2] ELSE n[i]]) : h \in {h \in Homoglyphs : h[1] \in ToSet(n)}}
Deleted(n) == {Domain(RemoveAt(n, i)) : i \in UpTo(n, EditLimit)}
Transposed(n) ==
  {Domain([n EXCEPT ![i] = n[i+1], ![i+1] = n[i]]) : i \in UpTo(n, EditLimit) \ {Len(n)}}
Branded(n) == {Domain(n \o <<s>>) : s \in BrandSuffixes}

(* Sorted by name and kind, one entry per name: the kinds are tried in     *)
(* their order.  The order of the entries tells nothing, and the cut at 50 *)
(* is never reached (README): the variants are a set.  A domain without a  *)
(* dot has none.                                                           *)
KindOf(n, v) ==
  CASE v \in Branded(n) -> "brand-suffix" [] v \in Dashed(n)     -> "dash-insert"
    [] v \in Deleted(n) -> "delete-char"  [] v \in Homographs(n) -> "homoglyph"
    [] v \in Transposed(n) -> "swap-char" [] OTHER -> "tld-swap"
Lookalikes(n) ==
  IF n = <<>> THEN {}
  ELSE Swapped(n) \cup Dashed(n) \cup Homographs(n) \cup Deleted(n) \cup Transposed(n) \cup Branded(n)

------------------------------------------------------------------------------
LeakOf ==
  /\ leak = LeakIdle
  /\ \E s \in LeakSections, n \in Names :
       leak' = [leak EXCEPT !.at = "hibp", !.focus = s, !.name = n]

(* An answer that is not a list reads as an empty one, and so does a       *)
(* request that failed.                                                    *)
Asked(service, field, next) ==
  \E o \in OneSection("services", Clean, Outcomes), use \in BOOLEAN :
    leak' = [leak EXCEPT !.at = next, ![field] = IF use THEN o.n ELSE 0,
               !.sources = IF use THEN @ \cup {service} ELSE @,
               !.answers = IF use THEN Append(@, [service |-> service, how |-> o.how, n |-> o.n]) ELSE @]

Hibp   == leak.at = "hibp" /\ Asked("haveibeenpwned.com", "breaches", "github")
Github == leak.at = "github" /\ Asked("github-code-search", "github", "generate")

GenerateLookalikes ==
  /\ leak.at = "generate"
  /\ \/ leak' = [leak EXCEPT !.at = "lookalikes", !.sources = @ \cup {"crt.sh-lookalikes"},
                   !.pending = Lookalikes(leak.name)]
     \/ leak' = [leak EXCEPT !.at = "feeds"]               \* --no-lookalikes

(* crt.sh on one variant: no answer, an error status, a body that is not   *)
(* JSON, or certificates by their ages (none of the latter for the former).*)
CrtShAnswers == [how : {"none", "error", "junk"}, ages : {{}}] \cup [how : {"list"}, ages : CertLists]
NoCerts == [how |-> "list", ages |-> {}]
Remarkable == Cardinality({i \in DOMAIN leak.asked : leak.asked[i].answer # NoCerts})

Youngest(ages) == {a \in ages : \A b \in ages : a <= b}

(* Mutant: the date found for a variant is not forgotten for the next.     *)
Recent_Kept(ages) ==
  Youngest({a \in ages : a < Lookback}
             \cup UNION {leak.hits[i].recent : i \in DOMAIN leak.hits \cap {Len(leak.hits)}})

Recent(ages) == Youngest({a \in ages : a < Lookback})

(* Without an answer the variant is passed over.                           *)
AskCrtSh ==
  /\ leak.at = "lookalikes" /\ leak.pending # {}
  /\ \E a \in OneSection("lookalikes", NoCerts, IF Remarkable < MaxAnswers THEN CrtShAnswers ELSE {NoCerts}) :
       LET v == CHOOSE v \in leak.pending : TRUE
           hit == [variant |-> v, kind |-> KindOf(leak.name, v), recent |-> Recent(a.ages)]
       IN leak' = [leak EXCEPT !.pending = @ \ {v}, !.asked = Append(@, [variant |-> v, answer |-> a]),
                     !.hits = IF a.how = "none" THEN @ ELSE Append(@, hit)]

(* The variants with a certificate come first, each group as it was.       *)
Group(hits, issued) ==
  FlattenSeq([i \in DOMAIN hits |-> IF hits[i].recent # {} <=> issued THEN <<hits[i]>> ELSE <<>>])
SortHits ==
  /\ leak.at = "lookalikes" /\ leak.pending = {}
  /\ leak' = [leak EXCEPT !.at = "feeds", !.hits = Group(@, TRUE) \o Group(@, FALSE)]

(* The legacy field says how many records a feed has, or why it was not    *)
(* asked.                                                                  *)
RunFeeds ==
  /\ leak.at = "feeds"
  /\ \E fs \in OneSection("feeds", LeakIdle.feeds, [FeedNames -> FeedOutcomes]) :
       leak' = [leak EXCEPT !.at = "done", !.feeds = fs,
                  !.sources = @ \cup {f \in FeedNames : fs[f].how # "skipped"},
                  !.legacy = [f \in FeedNames |-> IF fs[f].how = "skipped" THEN "skipped"
                                                  ELSE IF fs[f].n = 0 THEN "0 records" ELSE "records"]]

LeakStep == Hibp \/ Github \/ GenerateLookalikes \/ AskCrtSh \/ SortHits \/ RunFeeds

------------------------------------------------------------------------------
Reported == leak.at = "done"
Doubled(n) == \E i \in UpTo(n, EditLimit) \ {Len(n)} : n[i] = n[i+1]

(* Each variant that crt.sh answered about is reported once, with the age  *)
(* of its youngest certificate if that is within the lookback window and   *)
(* of no other variant, whatever became of the requests before it; and no  *)
(* variant is the domain itself, save where two equal letters adjoin.      *)
LookalikesAreAnswered ==
  Reported =>
    LET of(v) == {h \in ToSet(leak.hits) : h.variant = v} IN
    /\ \A i \in DOMAIN leak.asked :
         LET v == leak.asked[i].variant
             a == leak.asked[i].answer IN
         /\ Cardinality({j \in DOMAIN leak.hits : leak.hits[j].variant = v}) = (IF a.how = "none" THEN 0 ELSE 1)
         /\ \A h \in of(v) : \A age \in UNION CertLists :
              age \in h.recent <=> /\ age < Lookback /\ age \in a.ages
                                   /\ \A b \in a.ages : age <= b
         /\ v = Domain(leak.name) => Doubled(leak.name)
    /\ \A i, j \in DOMAIN leak.hits : leak.hits[j].recent # {} /\ i < j => leak.hits[i].recent # {}

------------------------------------------------------------------------------
(* What the documentation says and the code does not keep.                 *)

(* "404 = no breaches; not an error", "no domain-wide breaches recorded":  *)
(* a clean section of the report was answered as clean.  Errors read so.   *)
CleanMeansClean ==
  Reported =>
    /\ \A i \in DOMAIN leak.answers :
         leak.answers[i].n = 0 => leak.answers[i].how \in {"404", "list"}
    /\ \A i \in DOMAIN leak.asked : \A h \in ToSet(leak.hits) :
         h.variant = leak.asked[i].variant => leak.asked[i].answer.how = "list"

(* "distinguish ... key but zero hits": a feed that failed has 0 records   *)
(* in the legacy field.                                                    *)
ZeroRecordsAreCounted ==
  Reported => \A f \in FeedNames : leak.legacy[f] = "0 records" => leak.feeds[f].how = "list"

(* "likely impersonation": swapping two equal letters gives the domain,    *)
(* and deleting the only letter of a name gives none.                      *)
VariantsAreOthers ==
  Reported => \A h \in ToSet(leak.hits) : h.variant # Domain(leak.name) /\ h.variant.name # <<>>
=============================================================================
