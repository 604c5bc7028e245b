----------------------------- MODULE Reputation -----------------------------
(***************************************************************************)
(* `cymail reputation`, src/src/reputation.rs: block lists, BIMI, DNSSEC,  *)
(* the number of lookups an SPF record costs, DKIM keys; one section after *)
(* the other.  DANE and the provider's name are left out.                  *)
(***************************************************************************)
EXTENDS Naturals, FiniteSets, Bimi, DkimKey, Sums

CONSTANTS
  MailIps,      \* the lists of MX addresses considered
  Lists,        \* DNSBLS: a sequence of [kind, domain]; --no-trust: without the trust lists
  MaxListed,    \* bound: answers of the lists other than "clean"
  Domains,      \* the names SPF records refer to; "self" is the domain
  Records,      \* the SPF records considered: sequences of Terms
  Limit,        \* how many lookups RFC 7208 allows (10)
  RepSelectors  \* how many DKIM selectors are looked at (12)

Kinds == {"address", "include", "qualified include", "redirect", "all", "ip", "odd"}
Terms == [kind : Kinds, of : Domains]
ASSUME ReputationAssumption ==
  /\ Lists \in Seq([kind : {"blacklist", "trust"}, domain : BOOLEAN])
  /\ MaxListed \in Nat /\ Limit \in Nat /\ RepSelectors \in Nat
  /\ "self" \in Domains /\ Records \subseteq Seq(Terms)

VARIABLE rep    \* the report in the making; zone, svg, vmc: answers, history

Sections == {"lists", "bimi", "spf", "dkim"}
RepIdle ==
  [at |-> "idle", focus |-> "none", ips |-> <<>>, dnsbl |-> <<>>, listings |-> 0, svg |-> NoFetch, vmc |-> NoFetch,
   valid |-> FALSE, signed |-> FALSE, count |-> 0, includes |-> <<>>, over |-> FALSE,
   zone |-> [d \in Domains |-> <<>>], lost |-> FALSE, keys |-> <<>>]

(* Bound: only one section of a report gets answers out of the ordinary;   *)
(* no section reads another's result, and they share nothing.              *)
OneAtATime(section, plain, all) == IF rep.focus = section THEN all ELSE {plain}

ReputationOf ==
  /\ rep = RepIdle
  /\ \E s \in Sections : rep' = [rep EXCEPT !.at = "mx", !.focus = s]

ResolveMx ==
  /\ rep.at = "mx"
  /\ \E ips \in OneAtATime("lists", <<>>, MailIps) :
       rep' = [rep EXCEPT !.at = "lists", !.ips = ips]

------------------------------------------------------------------------------
(* The queries in their order: of the domain, or of each address.          *)
QueriesOf(l) ==
  IF Lists[l].domain THEN <<[list |-> l, kind |-> Lists[l].kind, target |-> "self"]>>
  ELSE [i \in DOMAIN rep.ips |-> [list |-> l, kind |-> Lists[l].kind, target |-> rep.ips[i]]]
Queries == FlattenSeq([l \in DOMAIN Lists |-> QueriesOf(l)])

(* "refused": a list answers in 127.255.255.0/24 that it does not serve    *)
(* the resolver asking.  Every answer with an address is a listing.        *)
Codes == {"clean", "listed", "refused"}
Odd == Cardinality({i \in DOMAIN rep.dnsbl : rep.dnsbl[i].code # "clean"})
DnsblHit(c) == Queries[Len(rep.dnsbl) + 1] @@ [code |-> c, listed |-> c # "clean"]
DnsblAnswers == OneAtATime("lists", "clean", IF Odd < MaxListed THEN Codes ELSE {"clean"})

(* Mutant: every list that knows the address is counted for a block list.  *)
DnsblQuery_AnyList ==
  /\ rep.at = "lists"
  /\ IF Len(rep.dnsbl) = Len(Queries) THEN rep' = [rep EXCEPT !.at = "bimi"]
     ELSE \E c \in DnsblAnswers :
            rep' = [rep EXCEPT !.dnsbl = Append(@, DnsblHit(c)),
                      !.listings = IF DnsblHit(c).listed THEN @ + 1 ELSE @]

(* The number of listings is counted as the answers come.                  *)
DnsblQuery ==
  /\ rep.at = "lists"
  /\ IF Len(rep.dnsbl) = Len(Queries) THEN rep' = [rep EXCEPT !.at = "bimi"]
     ELSE \E c \in DnsblAnswers :
            rep' = [rep EXCEPT !.dnsbl = Append(@, DnsblHit(c)),
                      !.listings = IF DnsblHit(c).listed /\ DnsblHit(c).kind = "blacklist" THEN @ + 1 ELSE @]

(* The mark is validated when the BIMI record has one URL at least; the    *)
(* certificate is asked for unless the logo's body broke off.              *)
BimiLookup ==
  /\ rep.at = "bimi"
  /\ \E svg \in OneAtATime("bimi", NoFetch, Fetches(Logos)),
        vmc \in OneAtATime("bimi", NoFetch, Fetches(Marks)) :
       LET asked == IF svg.how = "cut" THEN NoFetch ELSE vmc IN
       rep' = [rep EXCEPT !.at = "dnssec", !.svg = svg, !.vmc = asked, !.valid = Valid(svg, asked)]

DnssecProbe ==
  /\ rep.at = "dnssec"
  /\ \E key, ds \in OneAtATime("lists", FALSE, BOOLEAN) : rep' = [rep EXCEPT !.at = "spf", !.signed = key /\ ds]

------------------------------------------------------------------------------
Has(r, kinds) == \E i \in DOMAIN r : r[i].kind \in kinds

(* Terms are told by their first letters: "odd" is a modifier that begins  *)
(* with "a" or "mx".                                                       *)
CountSpfLookups(r) == Total([i \in DOMAIN r |-> IF r[i].kind \in {"all", "ip"} THEN 0 ELSE 1])

(* Mutant: the limit itself is too much.                                   *)
OverLimit_AtLimit(count) == count >= Limit
OverLimit(count) == count > Limit

(* Only includes without a qualifier, or with "+", are followed.           *)
IncludesOf(r) == FlattenSeq([i \in DOMAIN r |-> IF r[i].kind = "include" THEN <<r[i].of>> ELSE <<>>])

SpfRecord ==
  /\ rep.at = "spf"
  /\ \E zone \in OneAtATime("spf", RepIdle.zone, [Domains -> Records]) :
       rep' = [rep EXCEPT !.at = "include", !.zone = zone,
                 !.count = CountSpfLookups(zone["self"]),
                 !.includes = IncludesOf(zone["self"])]

SpfInclude ==
  /\ rep.at = "include"
  /\ IF rep.includes = <<>>
       THEN rep' = [rep EXCEPT !.at = "dkim", !.over = OverLimit(rep.count)]
       ELSE \E lost \in BOOLEAN :
              rep' = [rep EXCEPT !.includes = Tail(@), !.lost = @ \/ lost,
                        !.count = IF lost THEN @ ELSE @ + CountSpfLookups(rep.zone[Head(rep.includes)])]

(* The key of each selector that has one.                                  *)
DkimHygiene ==
  /\ rep.at = "dkim"
  /\ \E n \in OneAtATime("dkim", 0, 0..RepSelectors) :
       \E keys \in [1..n -> Keys] : rep' = [rep EXCEPT !.at = "done", !.keys = keys]

RepStep ==
  \/ ResolveMx \/ DnsblQuery \/ BimiLookup \/ DnssecProbe \/ SpfRecord \/ SpfInclude \/ DkimHygiene

------------------------------------------------------------------------------
Reputed == rep.at = "done"

(* What RFC 7208 counts, to a depth beyond which the limit is exceeded     *)
(* anyway: every mechanism that needs a lookup, with what the record it    *)
(* refers to counts; a redirect only where there is no all.  (What follows *)
(* an all counts for nothing there: see Regular.)                          *)
Followed(r, t) == \/ t.kind \in {"include", "qualified include"}
                  \/ t.kind = "redirect" /\ ~Has(r, {"all"})
Cost(r, below) ==
  Total([i \in DOMAIN r |-> IF r[i].kind = "address" THEN 1
                            ELSE IF Followed(r, r[i]) THEN 1 + below[r[i].of] ELSE 0])
Rfc7208 ==
  LET cost[n \in 0..Limit + 2] ==
        [d \in Domains |-> IF n = 0 THEN 0 ELSE Cost(rep.zone[d], cost[n - 1])]
  IN  cost[Limit + 2]["self"]

(* The names whose records the count looks at, and whether each term of    *)
(* theirs that looks like a lookup is one: no odd modifier, no redirect    *)
(* beside an all, and after an all nothing that costs a lookup.            *)
Included == ToSet(IncludesOf(rep.zone["self"]))
Regular ==
  \A d \in {"self"} \cup Included :
    LET r == rep.zone[d] IN
    /\ ~Has(r, {"odd"}) /\ ~(Has(r, {"all"}) /\ Has(r, {"redirect"}))
    /\ \A i, j \in DOMAIN r : i < j /\ r[i].kind = "all" => r[j].kind \in {"all", "ip"}
(* Includes of the domain's own record that go no further, all answered.   *)
OneLevel == ~rep.lost /\ \A d \in Included : ~Has(rep.zone[d], {"include", "qualified include", "redirect"})
Shallow == OneLevel /\ ~Has(rep.zone["self"], {"redirect", "qualified include"})

(* A record said to exceed the limit does by RFC 7208's own recursive      *)
(* count, although the code counts by prefixes and looks one level deep;   *)
(* and where one level is all there is, no record over the limit is missed.*)
OverLimitIsReal ==
  Reputed /\ Regular => /\ rep.over => Rfc7208 > Limit
                        /\ Shallow => (rep.over <=> Rfc7208 > Limit)

(* The two judgements of one key agree on RSA keys of the usual sizes with *)
(* any usual exponent, on Ed25519 keys and on revoked ones: the length of  *)
(* a key's DER tells its size as well as the modulus in it does.           *)
Usual(k) == k.form = "spki" => k.mod \in {64, 128, 256, 384, 512} /\ k.exp \in 1..8
JudgesAgree ==
  Reputed => \A i \in DOMAIN rep.keys : LET k == rep.keys[i] IN
    Usual(k) /\ k.form \notin {"pkcs1", "junk"} =>
      /\ IsWeak(k) <=> Analyse(k).hygiene \in {"weak", "deprecated"}
      /\ k.form = "spki" => Analyse(k).bits = ExtractBits(k)

(* "true iff every individual check above is ok": a mark is valid exactly  *)
(* when both documents were fetched and hold everything asked of them,     *)
(* whichever request failed or broke off and however the chain is laid out.*)
BimiValidIsEarned == Reputed => VerdictIsEarned(rep.valid, rep.svg, rep.vmc)

------------------------------------------------------------------------------
(* What the documentation says and the code does not keep.                 *)

(* "includes recursively count", "We follow include + redirect one level   *)
(* deep": a redirect is not followed, nor an include with a qualifier.     *)
RedirectsAreFollowed == Reputed /\ Regular /\ OneLevel => (rep.over <=> Rfc7208 > Limit)

(* "A response = listed": also the response that refuses the query.        *)
ListedMeansListed ==
  Reputed => \A i \in DOMAIN rep.dnsbl : rep.dnsbl[i].listed => rep.dnsbl[i].code = "listed"

(* "RSA <2048 = fail": also a 2048 bit key in the other encoding RFC 6376  *)
(* allows.                                                                 *)
OnlyShortKeysFail ==
  Reputed => \A i \in DOMAIN rep.keys :
    Analyse(rep.keys[i]).hygiene \in {"weak", "deprecated"} => rep.keys[i].mod < 256

(* "Could not decode p= as base64".                                        *)
JunkIsUnknown ==
  Reputed => \A i \in DOMAIN rep.keys :
    rep.keys[i].form = "junk" => Analyse(rep.keys[i]).hygiene = "unknown"

(* "HTTP 200": the status of neither answer is looked at.                  *)
StatusIsChecked ==
  Reputed /\ rep.valid => /\ \A d \in rep.svg.doc : d.status
                          /\ \A d \in rep.vmc.doc : d.status

(* "if either is None, that side's checks are skipped": they count as      *)
(* failed.                                                                 *)
AbsentSideIsSkipped ==
  Reputed /\ rep.vmc.how = "no url" /\ (\E d \in rep.svg.doc : SvgPasses(d)) => rep.valid
=============================================================================
