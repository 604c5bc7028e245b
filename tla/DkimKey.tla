------------------------------ MODULE DkimKey ------------------------------
(***************************************************************************)
(* The two judgements of a DKIM public key: src/src/dkim.rs reads the      *)
(* modulus out of the DER (`cymail scan`), src/src/reputation.rs infers it *)
(* from the length of the DER (`cymail reputation`).                       *)
(***************************************************************************)
EXTENDS Integers

CONSTANT Keys      \* what the p= tags hold
KeyKinds == {"spki", "pkcs1", "ed25519", "empty", "junk"}

(* form: the encoding of an RSA key, an Ed25519 key (with its k= tag), an  *)
(* empty p= (a revoked key), or no base64 at all; mod and exp: the bytes   *)
(* of an RSA key's modulus and exponent.                                   *)
KeyType == [form : KeyKinds, mod : Nat, exp : Nat]
ASSUME KeysAssumption == Keys \subseteq KeyType

(* The length of a DER value of n bytes with its tag and length, and of a  *)
(* key: a modulus has its top bit set, so DER pads it with a zero byte.    *)
Tlv(n) == n + (IF n < 128 THEN 2 ELSE IF n < 256 THEN 3 ELSE 4)
AlgorithmLength == Tlv(Tlv(9) + Tlv(0))
Pkcs1Length(k) == Tlv(Tlv(k.mod + 1) + Tlv(k.exp))
DerLength(k) ==
  CASE k.form = "spki"  -> Tlv(AlgorithmLength + Tlv(1 + Pkcs1Length(k)))
    [] k.form = "pkcs1" -> Pkcs1Length(k)
    [] OTHER            -> 0

(* dkim.rs: the size of an RSA key in a SubjectPublicKeyInfo, else none    *)
(* (0): the walk refuses everything else.                                  *)
ExtractBits(k) == IF k.form = "spki" THEN 8 * k.mod ELSE 0
IsWeak(k) == ExtractBits(k) \in 1..2047

(* Mutant: the thresholds are the lengths for the usual exponent.          *)
Estimate_UsualExponent(len) ==
  IF len >= 550 THEN 4096 ELSE IF len >= 422 THEN 3072
  ELSE IF len >= 294 THEN 2048 ELSE IF len >= 162 THEN 1024 ELSE 512

(* reputation.rs: the size by the length of what p= decodes to.            *)
Estimate(len) ==
  IF len >= 540 THEN 4096 ELSE IF len >= 420 THEN 3072
  ELSE IF len >= 290 THEN 2048 ELSE IF len >= 160 THEN 1024 ELSE 512

(* The decoder skips what is not base64 and never fails, so "unknown" is   *)
(* never answered.                                                         *)
Analyse(k) ==
  CASE k.form = "empty"   -> [bits |-> 0, hygiene |-> "missing"]
    [] k.form = "ed25519" -> [bits |-> 256, hygiene |-> "ok"]
    [] OTHER -> LET bits == Estimate(DerLength(k)) IN
         [bits |-> bits,
          hygiene |-> IF bits >= 2048 THEN "ok" ELSE IF bits = 1024 THEN "weak" ELSE "deprecated"]
=============================================================================
