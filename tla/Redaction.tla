------------------------------- MODULE Redaction -------------------------------
(***************************************************************************)
(* What leaves the device: redaction of a text, word by word, and the      *)
(* identifiers of W3C DIDs.  A word is the sequence of its characters, a   *)
(* run of letters standing as one; digits are characters of their own.     *)
(***************************************************************************)
EXTENDS Naturals, Sequences, FiniteSetsExt, SequencesExt, Arrangement

CONSTANTS CardMin, CardMax,     \* 13 and 19: digits of a card number
          KeyMin                \* 32: length of a word that may be a key

(* No digits at all are no card. *)
ASSUME CardAssumption == CardMin \in Nat \ {0} /\ CardMax \in Nat

Digit == <<"0", "1", "2", "3", "4", "5", "6", "7", "8", "9">>
Punctuation == {"@", ".", ":", "[", "]"}
KeyPrefixes == {"sk-", "ghp_", "AKIA", "AIza", "xoxb-"}
Finding == {"Email", "CreditCard", "ApiKeyLike"}
Config == [redact_pii : BOOLEAN, redact_secrets : BOOLEAN]
DefaultConfig == [redact_pii |-> TRUE, redact_secrets |-> TRUE]

LooksLikeEmail(word) ==
  LET ats == {i \in DOMAIN word : word[i] = "@"} IN
  /\ ats # {} /\ Min(ats) > 1
  /\ \E i \in Min(ats) + 1 .. Len(word) : word[i] = "."

(* Where the digits of a word are, whatever stands between them. *)
Digits(word) == {i \in DOMAIN word : word[i] \in ToSet(Digit)}
ValueOf(c) == (CHOOSE i \in DOMAIN Digit : Digit[i] = c) - 1

(* luhn: every second digit from the right is doubled. *)
Weight(word, i) ==
  LET d == ValueOf(word[i])
      after == Cardinality({j \in Digits(word) : j > i})
  IN  IF after % 2 = 0 THEN d ELSE IF 2 * d > 9 THEN 2 * d - 9 ELSE 2 * d

Sums(word) ==
  LET sum[n \in 0 .. Len(word)] ==
        IF n = 0 THEN 0
        ELSE sum[n - 1] + (IF n \in Digits(word) THEN Weight(word, n) ELSE 0)
  IN  sum
Luhn(word) == Sums(word)[Len(word)] % 10 = 0

LooksLikeCard(word) ==
  /\ Cardinality(Digits(word)) \in CardMin .. CardMax
  /\ Luhn(word)

LooksLikeApiKey(word) ==
  \/ word[1] \in KeyPrefixes
  \/ Len(word) >= KeyMin /\ ToSet(word) \cap Punctuation = {}

-------------------------------------------------------------------------------
(* Faulty variant of Placeholder: an address stands for the address. *)
PlaceholderMail(finding) ==
  IF finding = "Email" THEN <<"redacted", "@", "site", ".", "org">> ELSE <<"[", finding, "]">>

Placeholder(finding) ==
  CASE finding = "Email" -> <<"[", "REDACTED_EMAIL", "]">>
    [] finding = "CreditCard" -> <<"[", "REDACTED_CARD", "]">>
    [] finding = "ApiKeyLike" -> <<"[", "REDACTED_SECRET", "]">>

Kept == "Kept"

(* The first detector that answers, in the order of redact. *)
Detect(word, cfg) ==
  IF cfg.redact_pii /\ LooksLikeEmail(word) THEN "Email"
  ELSE IF cfg.redact_pii /\ LooksLikeCard(word) THEN "CreditCard"
  ELSE IF cfg.redact_secrets /\ LooksLikeApiKey(word) THEN "ApiKeyLike"
  ELSE Kept

Redact(text, cfg) ==
  LET found == [i \in DOMAIN text |-> Detect(text[i], cfg)]
  IN  [text |-> [i \in DOMAIN text |->
                   IF found[i] = Kept THEN text[i] ELSE Placeholder(found[i])],
       findings |-> Keep(found, {i \in DOMAIN text : found[i] # Kept})]

-------------------------------------------------------------------------------
NoDid == [method |-> <<>>, identifier |-> <<>>]

(* parse_did: did, method and the rest, cut at the first two colons. *)
ParseDid(word) ==
  LET colons == {i \in DOMAIN word : word[i] = ":"}
      first == Min(colons)
      second == Min(colons \ {first})
      method == SubSeq(word, first + 1, second - 1)
      identifier == SubSeq(word, second + 1, Len(word))
  IN  IF \/ Cardinality(colons) < 2 \/ SubSeq(word, 1, first - 1) # <<"did">>
         \/ method = <<>> \/ identifier = <<>>
      THEN NoDid ELSE [method |-> method, identifier |-> identifier]

VerifyPresentation(subject, holder, issuer, trusted) ==
  subject = holder /\ issuer \in trusted

-------------------------------------------------------------------------------
(* A stricter setting hides at least as much: every word that a laxer one
   replaces is replaced, and the findings tell how many. *)
SettingsOnlyHide(text, cfg) ==
  LET left == Redact(text, cfg)
      strict == Redact(text, DefaultConfig)
      hidden == {i \in DOMAIN text : left.text[i] # text[i]}
  IN  /\ \A i \in hidden : strict.text[i] # text[i]
      /\ Len(left.findings) = Cardinality(hidden)

(* Every slip in one digit of a card number makes it none: Luhn's checksum is
   what keeps other numbers from being redacted. *)
SlipIsNoCard(word) ==
  LooksLikeCard(word) =>
    \A i \in DOMAIN word, d \in ToSet(Digit) :
      word[i] \in ToSet(Digit) \ {d} => ~LooksLikeCard([word EXCEPT ![i] = d])

(* A DID is what it was parsed into: did, a method without a colon, and all the
   rest ("did:method:identifier"). *)
DidRoundTrip(word) ==
  LET did == ParseDid(word) IN
  did # NoDid =>
    /\ word = <<"did", ":">> \o did.method \o <<":">> \o did.identifier
    /\ ":" \notin ToSet(did.method)
===============================================================================
