---------------------------------- MODULE Sync ----------------------------------
(***************************************************************************)
(* Sync: devices seal records with a key only they hold (e2ee), prepare    *)
(* them (sync-client) and put them on a server that stores what it cannot  *)
(* read (sync-server).  The network between them is outside the            *)
(* repository: a request that was made may arrive at any time, more than   *)
(* once or never.  Who picks the versions is outside too: any will do.     *)
(***************************************************************************)
EXTENDS Naturals, FiniteSets

CONSTANTS Device,
          Passphrase,   \* [Device -> what its user typed]
          RecordKey,    \* [account, collection, record_id]
          Text,         \* contents of a record
          Version,      \* versions the callers use
          NoBlob,       \* HashMap::get that finds nothing
          Garbage,      \* what a wrong key opens a record to
          MaxPuts       \* bound: different requests that are made

ASSUME VersionAssumption == Version \subseteq Nat
ASSUME MaxPutsAssumption == MaxPuts \in Nat

-------------------------------------------------------------------------------
(* e2ee.  The stand-in cipher is taken for the one it stands for: what was
   sealed opens with the same key, and with another key to something that is
   nobody's content.  Nothing authenticates a record: open always answers. *)
Derive(passphrase, salt) == [passphrase |-> passphrase, salt |-> salt]
KeyOf(d) == Derive(Passphrase[d], "salt")

Seal(key, plain) == [key |-> key, plain |-> plain]

(* Faulty variant of Open: any key opens. *)
OpenUnkeyed(key, sealed) == sealed.plain
Open(key, sealed) == IF sealed.key = key THEN sealed.plain ELSE Garbage

SealedRecord == [key : {KeyOf(d) : d \in Device}, plain : Text]
Blob == [sealed : SealedRecord, version : Version]
Put == [key : RecordKey, blob : Blob]

ASSUME NothingAssumption == NoBlob \notin Blob \cup Text /\ Garbage \notin Text \cup {NoBlob}

-------------------------------------------------------------------------------
VARIABLES records,      \* SyncStore.records
          sent,         \* the requests that were made; each may arrive at any time
          accepted,     \* history: the puts that were answered Ok
          refused,      \* history: the puts that were answered Err
          local         \* what each device made of what it downloaded

vars == <<records, sent, accepted, refused, local>>

TypeOK == /\ records \in [RecordKey -> Blob \cup {NoBlob}]
          /\ sent \subseteq Put /\ accepted \subseteq sent /\ refused \subseteq sent
          /\ local \in [Device -> [RecordKey -> Text \cup {Garbage, NoBlob}]]

Init == /\ records = [k \in RecordKey |-> NoBlob]
        /\ sent = {} /\ accepted = {} /\ refused = {}
        /\ local = [d \in Device |-> [k \in RecordKey |-> NoBlob]]

(* prepare_upload seals and tags the record with its data type, which reaches no
   server: under which account, collection and name the device puts it, and with
   which version, is its caller's choice. *)
Prepare(d, text) == Seal(KeyOf(d), text)

Upload(d, k, text, version) ==
  /\ Cardinality(sent) < MaxPuts
  /\ sent' = sent \cup {[key |-> k, blob |-> [sealed |-> Prepare(d, text), version |-> version]]}
  /\ UNCHANGED <<records, accepted, refused, local>>

(* Faulty variant of Stale: a record that differs is kept. *)
StaleWhenEqual(p) == records[p.key] # NoBlob /\ p.blob.version <= records[p.key].version

(* Faulty variant of Stale: no write is stale. *)
StaleNever(p) == FALSE

Stale(p) == records[p.key] # NoBlob /\ p.blob.version < records[p.key].version

(* SyncStore::put, for a request that arrives, perhaps again. *)
ServerPut(p) ==
  /\ IF Stale(p)
     THEN refused' = refused \cup {p} /\ UNCHANGED <<records, accepted>>
     ELSE /\ records' = [records EXCEPT ![p.key] = p.blob]
          /\ accepted' = accepted \cup {p} /\ UNCHANGED refused
  /\ UNCHANGED <<sent, local>>

(* SyncStore::get answered with what a put had stored, and the answer reaches
   the device then or later: apply_download sees no version. *)
ApplyDownload(d, p) ==
  /\ local' = [local EXCEPT ![d] = [@ EXCEPT ![p.key] = Open(KeyOf(d), p.blob.sealed)]]
  /\ UNCHANGED <<records, sent, accepted, refused>>

Next == \/ \E d \in Device, k \in RecordKey, text \in Text, version \in Version :
             Upload(d, k, text, version)
        \/ \E p \in sent : ServerPut(p)
        \/ \E d \in Device, p \in accepted : ApplyDownload(d, p)

Spec == Init /\ [][Next]_vars

(* Faulty variant of List: the account is not looked at. *)
ListOfAll(account, collection) ==
  {k.record_id : k \in {r \in RecordKey : records[r] # NoBlob /\ r.collection = collection}}

(* SyncStore::list *)
List(account, collection) ==
  {k.record_id : k \in {r \in RecordKey :
     records[r] # NoBlob /\ r.account = account /\ r.collection = collection}}

-------------------------------------------------------------------------------
(* What the server answered stays true, however late or often requests arrive:
   an accepted write is only ever lost to an accepted write of its version or
   a later one, and what was refused as stale is older than what is stored. *)
AnswersStayTrue ==
  /\ \A p \in accepted :
       /\ records[p.key] # NoBlob /\ records[p.key].version >= p.blob.version
       /\ [key |-> p.key, blob |-> records[p.key]] \in accepted
  /\ \A p \in refused :
       records[p.key] # NoBlob /\ p.blob.version < records[p.key].version

(* A device reads, under each key, nothing, what a device with the same
   passphrase put under that key, or noise - and noise only when a device with
   another passphrase put something there.  So nobody reads a content who typed
   another passphrase than its writer. *)
ReadsAreWrites ==
  \A d \in Device, k \in RecordKey :
    \/ local[d][k] = NoBlob
    \/ /\ local[d][k] = Garbage
       /\ \E p \in accepted : p.key = k /\ p.blob.sealed.key # KeyOf(d)
    \/ /\ local[d][k] # Garbage
       /\ \E p \in accepted : p.key = k /\ p.blob.sealed = Seal(KeyOf(d), local[d][k])

(* A listing shows the records of that account and collection that were
   accepted, no others, and all of them. *)
ListIsWhatWasAccepted ==
  \A r \in RecordKey :
    List(r.account, r.collection) =
      {p.key.record_id : p \in {q \in accepted :
         q.key.account = r.account /\ q.key.collection = r.collection}}

(* The server is a last-writer-wins register for every record. *)
Register == INSTANCE SyncRegister WITH register <- records

ImplementsRegister == Register!RSpec
===============================================================================
