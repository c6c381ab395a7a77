-------------------------------- MODULE MCAgent --------------------------------
EXTENDS Agent

MCCustomTools == {[name |-> "click", permission |-> "agent.observe"],
                  [name |-> "translate", permission |-> "agent.network"]}

(* An address, a card with dashes, the same with a slip, a key by its prefix and
   one by its length, a DID whose identifier has a colon, words. *)
Mail == <<"bob", "@", "site", ".", "org">>
NotMail == <<"@", "site", ".", "org">>
CardOf(last) == <<"4", "1", "1", "1", "-", "1", "1", "1", "1", "1", "1", "1", "1",
                  "1", "1", "1", last>>
LongKey == [i \in 1 .. 32 |-> "f"]
Did == <<"did", ":", "web", ":", "site", ":", "bob">>
BadDid == <<"did", ":", ":", "bob">>
Word == {Mail, NotMail, CardOf("1"), CardOf("4"), <<"sk-", "x">>, LongKey, Did, BadDid,
         <<"[", "REDACTED_EMAIL", "]">>}
MCTextToSend == {<<a, b>> : a, b \in Word}

-------------------------------------------------------------------------------
(* The pure parts, over every word and pair of words above. *)
ASSUME RedactionAssumption ==
  /\ \A text \in MCTextToSend, cfg \in Config : SettingsOnlyHide(text, cfg)
  /\ \A word \in Word : SlipIsNoCard(word) /\ DidRoundTrip(word)

ASSUME DidAssumption ==
  /\ ParseDid(Did) = [method |-> <<"web">>, identifier |-> <<"site", ":", "bob">>]
  /\ ParseDid(BadDid) = NoDid
  /\ \A subject, holder, issuer \in {Did, BadDid}, trusted \in SUBSET {Did, BadDid} :
       VerifyPresentation(subject, holder, issuer, trusted) =>
         subject = holder /\ trusted # {}
===============================================================================
