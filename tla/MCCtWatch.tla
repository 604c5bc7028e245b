------------------------------ MODULE MCCtWatch ------------------------------
EXTENDS CtWatch

(* Two lookalikes, another name; certificates that name none, one behind a *)
(* wildcard, and both with a stranger between them.                        *)
S(a, w) == [apex |-> a, wild |-> w]
MCCerts == {<<S("o", FALSE)>>, <<S("o", FALSE), S("v", TRUE)>>,
            <<S("w", FALSE), S("o", TRUE), S("v", FALSE)>>}
==============================================================================
