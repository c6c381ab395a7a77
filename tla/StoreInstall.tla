------------------------------ MODULE StoreInstall ------------------------------
(***************************************************************************)
(* install() of extensions/store-client: the listing is fetched and        *)
(* reviewed, then the package is downloaded and verified.  Both answers    *)
(* are whatever the transport returns: the store may have published        *)
(* another version in between, under another name, with any claims.  A     *)
(* digest determines its package, and so what its manifest asks for.       *)
(***************************************************************************)
EXTENDS FiniteSets

CONSTANTS Id, Version,      \* extensions, and packages by their digest
          Asks,             \* [Version -> what its manifest asks for: permissions, hostOrigins]
          Sensitive         \* SENSITIVE

VARIABLES stage, listing, review, integrity

installVars == <<stage, listing, review, integrity>>

(* StoreListing: nothing ties what it says to the package with that digest, nor its
   id to the one that was asked for. *)
Listing == [id : Id, expectedDigest : Version,
            permissions : SUBSET UNION {Asks[v].permissions : v \in Version},
            hostOrigins : SUBSET UNION {Asks[v].hostOrigins : v \in Version},
            reviewed : BOOLEAN]
Truthful(l) == /\ l.permissions = Asks[l.expectedDigest].permissions
               /\ l.hostOrigins = Asks[l.expectedDigest].hostOrigins

(* DownloadedPackage *)
Package(id, v) == [id |-> id, digest |-> v]

NeedsConsent(asked) ==
  asked.permissions \cap Sensitive # {} \/ "<all_urls>" \in asked.hostOrigins

(* reviewCapabilities *)
ReviewCapabilities(l) == [sensitive |-> l.permissions \cap Sensitive,
                          ordinary |-> l.permissions \ Sensitive,
                          hostOrigins |-> l.hostOrigins,
                          requiresExplicitConsent |-> NeedsConsent(l)]

(* Faulty variant of VerifyIntegrity: the digest is not compared. *)
VerifyIntegrityByName(l, pkg) ==
  CASE ~l.reviewed -> "unreviewed" [] l.reviewed /\ pkg.id # l.id -> "digest-mismatch"
    [] OTHER -> "ok"

(* verifyIntegrity *)
VerifyIntegrity(l, pkg) ==
  CASE ~l.reviewed -> "unreviewed"
    [] l.reviewed /\ Package(l.id, l.expectedDigest) # pkg -> "digest-mismatch"
    [] OTHER -> "ok"

-------------------------------------------------------------------------------
Idle == [id |-> "none"]

Init == stage = "idle" /\ listing = Idle /\ review = Idle /\ integrity = Idle

(* fetchListing answers: the listing is reviewed. *)
FetchListing(l) ==
  /\ stage = "idle" /\ stage' = "listed"
  /\ listing' = l /\ review' = ReviewCapabilities(l) /\ integrity' = Idle

(* download answers: the package is verified. *)
Download(pkg) ==
  /\ stage = "listed" /\ stage' = "idle"
  /\ integrity' = [package |-> pkg, answer |-> VerifyIntegrity(listing, pkg)]
  /\ UNCHANGED <<listing, review>>

Next == \/ \E l \in Listing : FetchListing(l)
        \/ \E id \in Id, v \in Version : Download(Package(id, v))

Spec == Init /\ [][Next]_installVars

-------------------------------------------------------------------------------
(* "verifies package integrity, and surfaces the exact MV4 capabilities an
   extension requests before install": what is installed is the package that the
   listing named when it was shown, marked as reviewed then; so if that listing told
   the truth of its digest, the package asks for what was shown, no more, whatever
   came as an answer in between. *)
ConsentCoversPackage ==
  integrity # Idle /\ integrity.answer = "ok" =>
    LET asked == Asks[integrity.package.digest] IN
    /\ listing.reviewed /\ integrity.package.id = listing.id
    /\ Truthful(listing) =>
         /\ asked.permissions = review.sensitive \cup review.ordinary
         /\ asked.hostOrigins = review.hostOrigins
         /\ review.requiresExplicitConsent <=> NeedsConsent(asked)
===============================================================================
