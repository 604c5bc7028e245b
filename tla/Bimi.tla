-------------------------------- MODULE Bimi --------------------------------
(***************************************************************************)
(* src/src/bimi/mod.rs: the logo and the mark certificate a domain         *)
(* publishes are fetched and judged.  X.509 and SVG are abstracted to what *)
(* the checks ask of them.                                                 *)
(***************************************************************************)
EXTENDS Naturals, Sequences, SequencesExt

CONSTANTS
  Logos,      \* the logos a server may send
  Marks       \* the mark certificates, each with the text it comes in

(* status: the HTTP status is 200.                                         *)
SvgType == [status : BOOLEAN, mime : BOOLEAN, fits : BOOLEAN, script : BOOLEAN,
            external : BOOLEAN, svg : BOOLEAN]
(* cn, san: equal to the domain; marker: the issuer is one of BIMI's; oid: *)
(* the BIMI key usage occurs.  The texts are PEM, line by line, with this  *)
(* leaf and an authority's certificate.                                    *)
CertType == [cn : BOOLEAN, san : BOOLEAN, window : BOOLEAN, marker : BOOLEAN, oid : BOOLEAN]
Lines == {"begin", "end", "leaf", "ca", "other"}
VmcType == [status : BOOLEAN, text : Seq(Lines), leaf : CertType]
ASSUME BimiAssumption == Logos \subseteq SvgType /\ Marks \subseteq VmcType

Authority == [cn |-> FALSE, san |-> FALSE, window |-> TRUE, marker |-> TRUE, oid |-> FALSE]

(* A request that was not made, that failed, whose body broke off, or that *)
(* brought a document.                                                     *)
NoFetch == [how |-> "no url", doc |-> {}]
Fetches(Docs) ==
  {[NoFetch EXCEPT !.how = h] : h \in {"no url", "failed", "cut"}}
    \cup {[how |-> "doc", doc |-> {d}] : d \in Docs}

------------------------------------------------------------------------------
SvgPasses(d) == d.mime /\ d.fits /\ ~d.script /\ ~d.external /\ d.svg

(* A block is what stands between BEGIN and END; END closes one even where *)
(* none was begun.                                                         *)
PemLine(s, line) ==
  CASE line = "begin" -> [s EXCEPT !.in = TRUE, !.acc = <<>>]
    [] line = "end"   -> [in |-> FALSE, acc |-> <<>>, chain |-> Append(s.chain, s.acc)]
    [] OTHER          -> [s EXCEPT !.acc = IF s.in THEN Append(@, line) ELSE @]

(* What has been read after each line, and what the last leaves.           *)
NothingRead == [in |-> FALSE, acc |-> <<>>, chain |-> <<>>]
PemRead(text) ==
  LET read[n \in 0..Len(text)] == IF n = 0 THEN NothingRead ELSE PemLine(read[n-1], text[n])
  IN read
ParsePemChain(text) == PemRead(text)[Len(text)].chain

(* The DER parser reads the first certificate of a block, and ignores what *)
(* follows it.                                                             *)
Leaves(d) ==
  LET chain == ParsePemChain(d.text) IN
  IF chain = <<>> \/ chain[1] = <<>> THEN {}
  ELSE CASE chain[1][1] = "leaf" -> {d.leaf} [] chain[1][1] = "ca" -> {Authority} [] OTHER -> {}

LeafPasses(c) == c.oid /\ (c.cn \/ c.san) /\ c.window /\ c.marker

(* Mutant: what is not published is not held against the domain.           *)
Valid_SkipsAbsent(svg, vmc) ==
  /\ svg.how = "no url" \/ \E d \in svg.doc : SvgPasses(d)
  /\ \E d \in vmc.doc : \E c \in Leaves(d) : LeafPasses(c)

(* The five flags; a body that broke off ends the validation at once.      *)
Valid(svg, vmc) ==
  /\ svg.how # "cut"
  /\ \E d \in svg.doc : SvgPasses(d)
  /\ \E d \in vmc.doc : \E c \in Leaves(d) : LeafPasses(c)

------------------------------------------------------------------------------
(* What is to be found in a text: the first certificate written whole; in  *)
(* an orderly text nothing else is between BEGIN and END.                  *)
Whole(text, i) == i + 2 \in DOMAIN text /\ text[i] = "begin" /\ text[i+1] \in {"leaf", "ca"}
                    /\ text[i+2] = "end"
Orderly(text) ==
  \A i \in DOMAIN text :
    CASE text[i] = "begin" -> Whole(text, i)
      [] text[i] = "end"   -> i > 2 /\ Whole(text, i - 2)
      [] OTHER             -> TRUE
FirstWhole(text) ==
  {text[i+1] : i \in {i \in DOMAIN text : Whole(text, i) /\ \A j \in 1..i-1 : ~Whole(text, j)}}

(* The verdict on what was fetched: both documents are there, and all that *)
(* is asked of either holds.                                               *)
MarkIsGood(svg, vmc) ==
  /\ \E d \in svg.doc : d.mime /\ d.fits /\ d.svg /\ ~d.script /\ ~d.external
  /\ \E d \in vmc.doc :
       "leaf" \in FirstWhole(d.text) /\ d.leaf.oid /\ d.leaf.window /\ d.leaf.marker
         /\ (d.leaf.cn \/ d.leaf.san)
VerdictIsEarned(valid, svg, vmc) ==
  /\ valid => svg.doc # {} /\ vmc.doc # {}
  /\ (\A d \in vmc.doc : Orderly(d.text)) => (valid <=> MarkIsGood(svg, vmc))
=============================================================================
