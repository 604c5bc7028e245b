------------------------------ MODULE MCServe ------------------------------
(* Instances of Serve: keys, records, texts and names for TLC.             *)
EXTENDS Serve

Key(form, mod, exp) == [form |-> form, mod |-> mod, exp |-> exp]
(* RSA keys from 512 to 4096 bits, one of an odd size, with the exponents  *)
(* 3 and 65537; the other encoding; and what is no RSA key.                *)
MCKeys ==
  {Key("spki", m, e) : m \in {64, 128, 254, 256, 384, 512}, e \in {1, 3}}
    \cup {Key("pkcs1", 256, 3)} \cup {Key(f, 0, 0) : f \in {"ed25519", "empty", "junk"}}

List(kind, domain) == [kind |-> kind, domain |-> domain]
MCLists == <<List("blacklist", TRUE), List("blacklist", FALSE), List("trust", FALSE)>>
MCMailIps == {<<>>, <<"ip1">>, <<"ip1", "ip1">>, <<"ip1", "ip2">>}

Term(kind) == [kind |-> kind, of |-> "self"]
To(kind, d) == [kind |-> kind, of |-> d]
MCRecords ==
  {<<>>, <<Term("ip"), Term("all")>>, <<Term("address")>>, <<Term("address"), Term("address"), Term("all")>>,
   <<Term("odd"), Term("address")>>, <<To("include", "self"), Term("all")>>,
   <<To("include", "a")>>, <<To("include", "b"), To("include", "b")>>,
   <<To("include", "a"), To("include", "b"), Term("all")>>, <<Term("address"), To("include", "b")>>,
   <<To("qualified include", "a"), Term("address")>>,
   <<To("redirect", "b")>>, <<To("redirect", "a"), Term("all")>>}

(* Documents with at most one thing wrong in each: what is asked of them   *)
(* is a conjunction.                                                       *)
GoodLogo == [status |-> TRUE, mime |-> TRUE, fits |-> TRUE, script |-> FALSE, external |-> FALSE, svg |-> TRUE]
MCLogos == {GoodLogo} \cup {[GoodLogo EXCEPT ![f] = ~@] : f \in DOMAIN GoodLogo}
GoodLeaves == {c \in CertType : c.window /\ c.marker /\ c.oid}
Leaves1 == GoodLeaves \cup {[c EXCEPT ![f] = FALSE] : c \in GoodLeaves, f \in {"window", "marker", "oid"}}
MCTexts ==
  {<<"other">>, <<"begin", "leaf", "end">>, <<"other", "begin", "leaf", "end">>,
   <<"begin", "leaf", "end", "begin", "ca", "end">>, <<"begin", "ca", "end", "begin", "leaf", "end">>,
   <<"begin", "leaf", "begin", "ca", "end">>, <<"leaf", "end", "begin", "leaf", "end">>,
   <<"begin", "other", "leaf", "end">>, <<"begin", "leaf">>}
MCMarks == [status : BOOLEAN, text : MCTexts, leaf : Leaves1]

(* A domain without a dot, a name with a homoglyph, one of a single        *)
(* letter, and a longer one with a doubled letter.                         *)
MCNames == {<<>>, <<"o", "l">>, <<"x">>, <<"a", "b", "b", "o", "c">>}
MCHomoglyphs == {<<"o", "0">>, <<"o", "q">>, <<"l", "1">>}
MCCertLists == {{}, {0, 1}, {2}, {1, 2}}
=============================================================================
