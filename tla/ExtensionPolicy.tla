--------------------------- MODULE ExtensionPolicy ---------------------------
(***************************************************************************)
(* From an extension's manifest to an install decision: the mv2-shim and   *)
(* mv3-host translate a manifest, mv4-host normalises it, and the          *)
(* policy-bridge consults the effective extension policy.  The policy      *)
(* itself is a layered table (PolicyResolver implements LayeredPolicy, so  *)
(* `resolve` is the table's winner); administrators and users rewrite it   *)
(* at any time between two decisions.                                      *)
(***************************************************************************)
EXTENDS Naturals

CONSTANTS ExtId,        \* extension ids
          Writers,      \* bound: the layers that write in an instance
          NotSet

MODE == "extensions.install_mode"
ALLOWLIST == "extensions.allowlist"
BLOCKLIST == "extensions.blocklist"
PolicyKey == {MODE, ALLOWLIST, BLOCKLIST}
KeyValue == [k \in PolicyKey |->
  IF k = MODE THEN {"allow_all", "allowlist", "block_all", "unrecognised"}
  ELSE SUBSET ExtId]

VARIABLE table

Policy == INSTANCE LayeredPolicy WITH Key <- PolicyKey, ValueOf <- KeyValue, Unset <- NotSet

Enterprise == 3

BridgeTypeOK == \A k \in PolicyKey, l \in Policy!Layer : table[k][l] \in Policy!Cell(k) \cup {NotSet}

BridgeInit == Policy!Init

(* Resolver::set; evaluate never looks at the lock. *)
Write(k, l, v) == Policy!Write(k, l, [value |-> v, locked |-> FALSE])

BridgeNext == \E k \in PolicyKey, l \in Writers : \E v \in KeyValue[k] : Write(k, l, v)

BridgeSpec == BridgeInit /\ [][BridgeNext]_table

-------------------------------------------------------------------------------
(* Manifests: what tells permissions apart is whether one is a host pattern,
   webRequestBlocking, or any other API permission. *)
HostPattern == {"https://a.example/*", "<all_urls>"}
Permission == {"storage", "webRequestBlocking"} \cup HostPattern
Mv2Document == [permissions : SUBSET Permission]
Mv3Document == [permissions : SUBSET {"storage", "webRequestBlocking"},
                host_permissions : SUBSET HostPattern,
                force_installed_blocking : BOOLEAN]

ParseMv2(doc) ==
  [permissions |-> doc.permissions \ (HostPattern \cup {"webRequestBlocking"}),
   host_permissions |-> doc.permissions \cap HostPattern,
   wants_blocking_web_request |-> "webRequestBlocking" \in doc.permissions]

ParseMv3(doc) ==
  [permissions |-> doc.permissions,
   host_permissions |-> doc.host_permissions,
   wants_blocking_web_request |-> doc.force_installed_blocking]

ToMv4(m) ==
  [permissions |-> m.permissions,
   host_capability_origins |-> m.host_permissions,
   blocking_web_request_requires_admin_approval |-> m.wants_blocking_web_request]

-------------------------------------------------------------------------------
HasPolicy(k) == Policy!Filled(k) # {}
Effective(k) == table[k][Policy!Winner(k)].value

(* Faulty variant of ListContains: entries of all layers count, not only those
   of the layer that wins. *)
ListContainsMerged(k, id) == \E l \in Policy!Filled(k) : id \in table[k][l].value

ListContains(k, id) == HasPolicy(k) /\ id \in Effective(k)

(* Faulty variant of Evaluate: the sign-off for blocking webRequest is asked
   only in allowlist mode. *)
EvaluateModeFirst(id, manifest) ==
  IF ListContains(BLOCKLIST, id) THEN "Deny"
  ELSE IF HasPolicy(MODE) /\ Effective(MODE) = "allow_all" THEN "Allow"
  ELSE IF manifest.blocking_web_request_requires_admin_approval THEN "NeedsAdminApproval"
  ELSE IF HasPolicy(MODE) /\ Effective(MODE) = "allowlist" /\ ListContains(ALLOWLIST, id)
  THEN "Allow" ELSE "Deny"

(* evaluate, in the order of its checks. *)
Evaluate(id, manifest) ==
  IF ListContains(BLOCKLIST, id) THEN "Deny"
  ELSE IF manifest.blocking_web_request_requires_admin_approval THEN "NeedsAdminApproval"
  ELSE IF /\ HasPolicy(MODE)
          /\ \/ Effective(MODE) = "allow_all"
             \/ Effective(MODE) = "allowlist" /\ ListContains(ALLOWLIST, id)
  THEN "Allow" ELSE "Deny"

Decide2(id, doc) == Evaluate(id, ToMv4(ParseMv2(doc)))
Decide3(id, doc) == Evaluate(id, ToMv4(ParseMv3(doc)))

(* When the enterprise layer has set the three keys, no write of a lower layer
   changes any decision about any manifest. *)
EnterpriseBinds ==
  [][\A id \in ExtId, doc \in Mv2Document :
       (/\ \A k \in PolicyKey : table[k][Enterprise] # NotSet
        /\ \A k \in PolicyKey : table'[k][Enterprise] = table[k][Enterprise])
         => Decide2(id, doc)' = Decide2(id, doc)]_table

(* "Blocking webRequest requires admin sign-off regardless of mode" (evaluate),
   through the MV2 shim: whatever else the manifest asks for and whatever the
   policy, it is never simply allowed. *)
Mv2BlockingNeedsApproval ==
  \A id \in ExtId, doc \in Mv2Document :
    "webRequestBlocking" \in doc.permissions => Decide2(id, doc) # "Allow"

(* The same sentence of evaluate for manifests that come through mv3-host. *)
Mv3BlockingNeedsApproval ==
  \A id \in ExtId, doc \in Mv3Document :
    "webRequestBlocking" \in doc.permissions => Decide3(id, doc) # "Allow"
===============================================================================
