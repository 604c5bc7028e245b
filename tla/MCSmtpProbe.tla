----------------------------- MODULE MCSmtpProbe -----------------------------
(* Server profiles for the SMTP probe runs.                                *)
EXTENDS SmtpProbe

(* One server per shape of the conversation: STARTTLS that ends well, one  *)
(* whose leaf rustls refuses on a server that takes no mail, one that is   *)
(* answered 454, and none; with and without an open relay.                 *)
FewProfiles ==
  {[starttls |-> TRUE,  tls |-> "good",    mail |-> TRUE,  relay |-> FALSE],
   [starttls |-> TRUE,  tls |-> "expired", mail |-> FALSE, relay |-> FALSE],
   [starttls |-> TRUE,  tls |-> "refused", mail |-> TRUE,  relay |-> TRUE],
   [starttls |-> FALSE, tls |-> "refused", mail |-> TRUE,  relay |-> TRUE]}

(* A correctly configured server: no relay, STARTTLS, a trusted leaf.      *)
SoundProfile ==
  {[starttls |-> TRUE, tls |-> "good", mail |-> TRUE, relay |-> FALSE]}
=============================================================================
