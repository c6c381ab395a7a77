------------------------------- MODULE NetPolicy -------------------------------
(***************************************************************************)
(* What engine-net decides about one connection: the HTTPS mode, the TLS   *)
(* version, the key exchange, the application transport, and the storage   *)
(* partition of an embedded origin.  Pure functions of their arguments.    *)
(***************************************************************************)
EXTENDS Naturals, Sequences, FiniteSetsExt

HttpsMode == {"HttpsOnly", "HttpsFirst", "Off"}
PqEnforcement == {"Disabled", "Preferred", "Required"}
KemGroup == {"X25519", "MlKem768", "X25519MlKem768"}
TlsVersion == 10 .. 13          \* 1.0 to 1.3, ordered as the enum is
MinTlsVersion == 13
NetPolicies == [allow_http11 : BOOLEAN, https_mode : HttpsMode, pq_kem : PqEnforcement]
DefaultPolicy == [allow_http11 |-> FALSE, https_mode |-> "HttpsOnly", pq_kem |-> "Preferred"]

None == "none"

-------------------------------------------------------------------------------
(* https_only::decide.  Blocked is in the enum and never returned. *)
Upgrade(url) == [url EXCEPT !.scheme = "https"]
Decision(kind, url) == [kind |-> kind, url |-> url]

(* Faulty variant of Decide: the arms of HttpsFirst and Off are swapped. *)
DecideSwapped(url, mode, knownFailing) ==
  IF url.scheme # "http" \/ mode = "HttpsFirst" THEN Decision("Proceed", url)
  ELSE IF mode = "Off" /\ knownFailing THEN Decision("PlaintextWithWarning", url)
  ELSE Decision("Upgraded", Upgrade(url))

Decide(url, mode, knownFailing) ==
  IF url.scheme # "http" \/ mode = "Off" THEN Decision("Proceed", url)
  ELSE IF mode = "HttpsFirst" /\ knownFailing THEN Decision("PlaintextWithWarning", url)
  ELSE Decision("Upgraded", Upgrade(url))

CheckVersion(offered) == offered >= MinTlsVersion

-------------------------------------------------------------------------------
(* Preference order of pqc::offered_groups. *)
OfferedGroups(enforcement) ==
  CASE enforcement = "Disabled" -> <<"X25519">>
    [] enforcement = "Preferred" -> <<"X25519MlKem768", "MlKem768", "X25519">>
    [] enforcement = "Required" -> <<"X25519MlKem768", "MlKem768">>

IsAcceptable(group, enforcement) == enforcement = "Required" => group # "X25519"

(* The first offered group that the server supports. *)
NegotiateKem(supported, enforcement) ==
  LET offered == OfferedGroups(enforcement)
      usable == {i \in DOMAIN offered :
                   offered[i] \in supported /\ IsAcceptable(offered[i], enforcement)}
  IN  IF usable = {} THEN None ELSE offered[Min(usable)]

(* The negotiated group is the best that both sides can do: one that would be
   stronger, or the hybrid, is missing on one of them ("Offer PQ-hybrid first,
   accept classical", "refuse classical-only servers", pqc.rs). *)
HandshakeIsBest(supported, enforcement) ==
  LET both == CASE enforcement = "Disabled" -> supported \cap {"X25519"}
                [] enforcement = "Preferred" -> supported
                [] enforcement = "Required" -> supported \ {"X25519"}
      group == NegotiateKem(supported, enforcement)
  IN  IF both = {} THEN group = None
      ELSE /\ group \in both
           /\ group = "X25519" => both = {"X25519"}
           /\ group = "MlKem768" => "X25519MlKem768" \notin both

NegotiateTransport(alpn, policy) ==
  CASE "h3" \in alpn -> "Http3"
    [] "h3" \notin alpn /\ "h2" \in alpn -> "Http2"
    [] alpn \cap {"h3", "h2"} = {} /\ "http/1.1" \in alpn /\ policy.allow_http11 -> "Http11"
    [] OTHER -> None

-------------------------------------------------------------------------------
(* tracking_protection: texts are sequences of words and separators. *)

(* Faulty variant of PartitionKey: keyed by the embedded origin alone. *)
PartitionKeySingle(top, embedded) == embedded

PartitionKey(top, embedded) == top \o <<"|">> \o embedded

DecideStorage(top, embedded, level, isKnownTracker) ==
  IF level = "Strict" /\ isKnownTracker THEN <<>> ELSE PartitionKey(top, embedded)
===============================================================================
