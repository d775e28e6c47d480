----------------------------- MODULE Provenance -----------------------------
(***************************************************************************)
(* The provenance policy of agy-bridge-go (internal/protocols/             *)
(* provenance.go): from the evidence about a tool call in a replayed       *)
(* history to the signature it is sent with, or to its rejection.          *)
(***************************************************************************)
CONSTANTS
  NoSig,      \* Go's ""
  Marker      \* skip_thought_signature_validator

(* Evidence is a record: a carrier is a reasoning item or a signature the  *)
(* client sent along, the lead is the signed call of the same group.       *)
Contradictory(ev) ==
  /\ ev.hasCarrier /\ ev.hasCache
  /\ ev.carrierSig # NoSig /\ ev.cacheSig # NoSig /\ ev.carrierSig # ev.cacheSig

(* ClassifyToolCall, in the order of the code.                             *)
ClassifyToolCall(ev) ==
  IF ev.carrierMismatch \/ ev.cacheMismatch \/ Contradictory(ev) THEN "mismatched"
  ELSE IF ev.hasCarrier \/ ev.hasCache THEN "native"
  ELSE IF ev.foreign THEN "foreign"
  ELSE IF ev.unverified THEN "mismatched"
  ELSE "unknown"

(* Faulty variant: the lead's signature goes before the call's own.        *)
NativeSignatureOfLead(ev) ==
  IF ev.recordedSib /\ ev.leadSig # NoSig THEN ev.leadSig
  ELSE IF ev.hasCache /\ ev.cacheSig # NoSig THEN ev.cacheSig
  ELSE ev.carrierSig

(* A native call has its own signature, from the cache or its carrier, or  *)
(* the one of the lead it is a recorded sibling of.                        *)
NativeSignature(ev) ==
  IF ev.hasCache /\ ev.cacheSig # NoSig THEN ev.cacheSig
  ELSE IF ev.carrierSig # NoSig THEN ev.carrierSig
  ELSE IF ev.recordedSib THEN ev.leadSig
  ELSE NoSig

(* ResolveToolSignature: NoSig stands for an error.                        *)
ResolveToolSignature(ev) ==
  LET origin == ClassifyToolCall(ev)
  IN CASE origin = "mismatched" \/ ~ev.hasOutput -> NoSig
       [] origin = "native" /\ ev.hasOutput -> NativeSignature(ev)
       [] origin \in {"foreign", "unknown"} /\ ev.hasOutput -> Marker
=============================================================================
