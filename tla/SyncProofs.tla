------------------------------- MODULE SyncProofs -------------------------------
(***************************************************************************)
(* Proofs about Sync, for any devices, passphrases, records and versions.  *)
(* The inductive invariant is TypeOK and AnswersStayTrue with StoredWas-   *)
(* Accepted: what is stored under a key was accepted for that key.         *)
(***************************************************************************)
EXTENDS Sync, TLAPS

StoredWasAccepted ==
  \A k \in RecordKey : records[k] # NoBlob => [key |-> k, blob |-> records[k]] \in accepted

Inv == TypeOK /\ StoredWasAccepted /\ AnswersStayTrue

-------------------------------------------------------------------------------
LEMMA PutParts ==
  ASSUME NEW p \in Put
  PROVE  /\ p.key \in RecordKey /\ p.blob \in Blob /\ p.blob # NoBlob /\ p.blob.version \in Nat
         /\ p.blob.sealed \in SealedRecord /\ p.blob.sealed.plain \in Text
         /\ p = [key |-> p.key, blob |-> p.blob]
BY NothingAssumption, VersionAssumption DEF Put, Blob, SealedRecord

LEMMA PrepareType ==
  ASSUME NEW d \in Device, NEW k \in RecordKey, NEW text \in Text, NEW version \in Version
  PROVE  [key |-> k, blob |-> [sealed |-> Prepare(d, text), version |-> version]] \in Put
BY DEF Prepare, Put, Blob, SealedRecord, Seal

LEMMA OpenType ==
  ASSUME NEW d \in Device, NEW s \in SealedRecord
  PROVE  Open(KeyOf(d), s) \in Text \cup {Garbage, NoBlob}
BY DEF Open, SealedRecord

LEMMA InvInit == Init => Inv
BY DEF Init, Inv, TypeOK, StoredWasAccepted, AnswersStayTrue

LEMMA InvStep == Inv /\ [Next]_vars => Inv'
<1> SUFFICES ASSUME Inv, [Next]_vars PROVE Inv'
  OBVIOUS
<1> USE DEF Inv
<1>1. ASSUME NEW d \in Device, NEW k \in RecordKey, NEW text \in Text, NEW version \in Version,
             Upload(d, k, text, version)
      PROVE  Inv'
  BY <1>1, PrepareType DEF Upload, TypeOK, StoredWasAccepted, AnswersStayTrue
<1>2. ASSUME NEW p \in sent, ServerPut(p) PROVE Inv'
  <2>1. p \in Put
    BY DEF TypeOK
  <2>2. CASE Stale(p)
    <3>1. /\ refused' = refused \cup {p}
          /\ UNCHANGED <<records, accepted, sent, local>>
      BY <1>2, <2>2 DEF ServerPut
    <3>2. TypeOK'
      BY <3>1 DEF TypeOK
    <3>3. records[p.key] # NoBlob /\ p.blob.version < records[p.key].version
      BY <2>2 DEF Stale
    <3>4. AnswersStayTrue'
      BY <3>1, <3>3 DEF AnswersStayTrue
    <3> QED
      BY <3>1, <3>2, <3>4 DEF StoredWasAccepted
  <2>3. CASE ~Stale(p)
    <3>1. /\ records' = [records EXCEPT ![p.key] = p.blob]
          /\ accepted' = accepted \cup {p}
          /\ UNCHANGED <<refused, sent, local>>
      BY <1>2, <2>3 DEF ServerPut
    <3>2. TypeOK'
      BY <3>1, <2>1, PutParts DEF TypeOK
    <3>3. StoredWasAccepted'
      BY <3>1, <2>1, PutParts DEF StoredWasAccepted, TypeOK
    <3>4. ASSUME records[p.key] # NoBlob
          PROVE  /\ records[p.key] \in Blob /\ records[p.key].version \in Nat
                 /\ p.blob.version >= records[p.key].version
      <4>1. records[p.key] \in Blob
        BY <3>4, <2>1, PutParts DEF TypeOK
      <4>2. records[p.key].version \in Nat
        BY <4>1, VersionAssumption DEF Blob
      <4> QED
        BY <4>1, <4>2, <2>3, <3>4, <2>1, PutParts DEF Stale
    <3>5. ASSUME NEW q \in accepted'
          PROVE  /\ records'[q.key] # NoBlob /\ records'[q.key].version >= q.blob.version
                 /\ [key |-> q.key, blob |-> records'[q.key]] \in accepted'
      <4>1. q \in Put
        BY <3>1, <2>1 DEF TypeOK
      <4>2. CASE q = p
        BY <4>2, <3>1, <2>1, PutParts DEF TypeOK
      <4>3. CASE q \in accepted /\ q.key = p.key
        <5>1. records[p.key] # NoBlob /\ records[p.key].version >= q.blob.version
          BY <4>3 DEF AnswersStayTrue
        <5>2. records'[q.key] = p.blob
          BY <3>1, <4>3, <2>1, PutParts DEF TypeOK
        <5>3. p.blob.version >= q.blob.version
          BY <5>1, <3>4, <2>1, <4>1, PutParts
        <5>4. [key |-> q.key, blob |-> p.blob] = p
          BY <4>3, <2>1, PutParts
        <5> QED
          BY <5>2, <5>3, <5>4, <3>1, <2>1, PutParts
      <4>4. CASE q \in accepted /\ q.key # p.key
        BY <4>4, <4>1, <3>1, <2>1, PutParts DEF TypeOK, AnswersStayTrue
      <4> QED
        BY <4>2, <4>3, <4>4, <3>1
    <3>6. ASSUME NEW q \in refused'
          PROVE  records'[q.key] # NoBlob /\ q.blob.version < records'[q.key].version
      <4>1. q \in Put /\ q \in refused
        BY <3>1 DEF TypeOK
      <4>2. records[q.key] # NoBlob /\ q.blob.version < records[q.key].version
        BY <4>1 DEF AnswersStayTrue
      <4>3. CASE q.key = p.key
        <5>1. records'[q.key] = p.blob
          BY <3>1, <4>3, <2>1, PutParts DEF TypeOK
        <5> QED
          BY <5>1, <3>4, <4>1, <4>2, <4>3, <2>1, PutParts
      <4>4. CASE q.key # p.key
        BY <4>4, <4>1, <4>2, <3>1, <2>1, PutParts DEF TypeOK
      <4> QED
        BY <4>3, <4>4
    <3>7. AnswersStayTrue'
      BY <3>5, <3>6 DEF AnswersStayTrue
    <3> QED
      BY <3>2, <3>3, <3>7
  <2> QED
    BY <2>2, <2>3
<1>3. ASSUME NEW d \in Device, NEW p \in accepted, ApplyDownload(d, p) PROVE Inv'
  <2>1. p \in Put
    BY DEF TypeOK
  <2>2. local' \in [Device -> [RecordKey -> Text \cup {Garbage, NoBlob}]]
    <3>1. local[d] \in [RecordKey -> Text \cup {Garbage, NoBlob}]
      BY DEF TypeOK
    <3>2. Open(KeyOf(d), p.blob.sealed) \in Text \cup {Garbage, NoBlob}
      BY <2>1, PutParts, OpenType
    <3>3. [local[d] EXCEPT ![p.key] = Open(KeyOf(d), p.blob.sealed)]
            \in [RecordKey -> Text \cup {Garbage, NoBlob}]
      BY <3>1, <3>2
    <3> QED
      BY <1>3, <3>3 DEF ApplyDownload, TypeOK
  <2> QED
    BY <1>3, <2>2 DEF ApplyDownload, TypeOK, StoredWasAccepted, AnswersStayTrue
<1>4. CASE UNCHANGED vars
  BY <1>4 DEF vars, TypeOK, StoredWasAccepted, AnswersStayTrue
<1> QED
  BY <1>1, <1>2, <1>3, <1>4 DEF Next

(* Every variable of the service holds what its code can hold. *)
THEOREM TypeCorrect == Spec => []TypeOK
<1>1. Inv => TypeOK
  BY DEF Inv
<1> QED
  BY InvInit, InvStep, <1>1, PTL DEF Spec

(* SyncStore::put: an Ok is only overtaken by an Ok of its version or later, and
   what was refused as stale stays older than what is stored. *)
THEOREM AnswersAreKept == Spec => []AnswersStayTrue
<1>1. Inv => AnswersStayTrue
  BY DEF Inv
<1> QED
  BY InvInit, InvStep, <1>1, PTL DEF Spec

-------------------------------------------------------------------------------
(* SyncStore::list shows exactly the accepted records of its collection. *)
THEOREM ListIsComplete == Spec => []ListIsWhatWasAccepted
<1>1. ASSUME Inv, NEW r \in RecordKey
      PROVE  List(r.account, r.collection) =
               {p.key.record_id : p \in {q \in accepted :
                  q.key.account = r.account /\ q.key.collection = r.collection}}
  <2>1. ASSUME NEW k \in RecordKey, records[k] # NoBlob
        PROVE  \E p \in accepted : p.key = k
    BY <1>1, <2>1 DEF Inv, StoredWasAccepted
  <2>2. \A p \in accepted : p.key \in RecordKey /\ records[p.key] # NoBlob
    BY <1>1, PutParts DEF Inv, TypeOK, AnswersStayTrue
  <2> QED
    BY <2>1, <2>2 DEF List
<1>2. Inv => ListIsWhatWasAccepted
  BY <1>1 DEF ListIsWhatWasAccepted
<1> QED
  BY InvInit, InvStep, <1>2, PTL DEF Spec

-------------------------------------------------------------------------------
(* SyncStore implements a last-writer-wins register for every record. *)
THEOREM Refinement == Spec => ImplementsRegister
<1>1. Init => Register!RInit
  BY DEF Init, Register!RInit
<1>2. Inv /\ [Next]_vars => [Register!RNext]_records
  <2> SUFFICES ASSUME Inv, [Next]_vars PROVE [Register!RNext]_records
    OBVIOUS
  <2>1. ASSUME NEW p \in sent, ServerPut(p), ~Stale(p) PROVE Register!RNext
    <3>1. p \in Put
      BY DEF Inv, TypeOK
    <3>2. records' = [records EXCEPT ![p.key] = p.blob]
      BY <2>1 DEF ServerPut
    <3>3. records[p.key] # NoBlob => p.blob.version >= records[p.key].version
      <4> SUFFICES ASSUME records[p.key] # NoBlob
                   PROVE  p.blob.version >= records[p.key].version
        OBVIOUS
      <4>1. records[p.key] \in Blob
        BY <3>1, PutParts DEF Inv, TypeOK
      <4>2. records[p.key].version \in Nat /\ p.blob.version \in Nat
        BY <4>1, <3>1, PutParts, VersionAssumption DEF Blob
      <4> QED
        BY <4>2, <2>1 DEF Stale
    <3>4. Register!RWrite(p.key, p.blob)
      BY <3>2, <3>3 DEF Register!RWrite
    <3> QED
      BY <3>1, <3>4, PutParts DEF Register!RNext
  <2>2. ASSUME NEW p \in sent, ServerPut(p), Stale(p) PROVE UNCHANGED records
    BY <2>2 DEF ServerPut
  <2>3. CASE UNCHANGED vars
    BY <2>3 DEF vars
  <2> QED
    BY <2>1, <2>2, <2>3 DEF Next, Upload, ApplyDownload
<1> QED
  BY InvInit, InvStep, <1>1, <1>2, PTL DEF Spec, ImplementsRegister, Register!RSpec

-------------------------------------------------------------------------------
ReadInv == Inv /\ ReadsAreWrites

LEMMA ReadInvInit == Init => ReadInv
BY InvInit DEF Init, ReadInv, ReadsAreWrites

LEMMA ReadInvStep == ReadInv /\ [Next]_vars => ReadInv'
<1> SUFFICES ASSUME ReadInv, [Next]_vars PROVE ReadsAreWrites'
  BY InvStep DEF ReadInv
<1> USE DEF ReadInv
<1>1. ASSUME NEW d \in Device, NEW k \in RecordKey, NEW text \in Text, NEW version \in Version,
             Upload(d, k, text, version)
      PROVE  ReadsAreWrites'
  BY <1>1 DEF Upload, Prepare, Seal, ReadsAreWrites
<1>2. ASSUME NEW p \in sent, ServerPut(p) PROVE ReadsAreWrites'
  BY <1>2 DEF ServerPut, ReadsAreWrites
<1>3. ASSUME NEW d \in Device, NEW p \in accepted, ApplyDownload(d, p)
      PROVE  ReadsAreWrites'
  <2> DEFINE sealed == p.blob.sealed
             read == Open(KeyOf(d), sealed)
  <2>1. p \in Put /\ p \in sent
    BY DEF Inv, TypeOK
  <2>2. /\ sealed = [key |-> sealed.key, plain |-> sealed.plain]
        /\ sealed.plain \in Text
    BY <2>1, PutParts DEF SealedRecord
  <2>3. UNCHANGED <<records, sent, accepted, refused>>
    BY <1>3 DEF ApplyDownload
  <2>4. ASSUME NEW e \in Device, NEW k \in RecordKey
        PROVE  local'[e][k] = IF e = d /\ k = p.key THEN read ELSE local[e][k]
    <3>1. local \in [Device -> [RecordKey -> Text \cup {Garbage, NoBlob}]]
      BY DEF Inv, TypeOK
    <3>2. local' = [local EXCEPT ![d] = [local[d] EXCEPT ![p.key] = read]]
      BY <1>3 DEF ApplyDownload
    <3>3. local[d] \in [RecordKey -> Text \cup {Garbage, NoBlob}]
      BY <3>1
    <3> HIDE DEF read
    <3> QED
      BY <3>1, <3>2, <3>3
  <2>5. ASSUME NEW k \in RecordKey, k = p.key
        PROVE  \/ /\ read = Garbage
                  /\ \E q \in accepted : q.key = k /\ q.blob.sealed.key # KeyOf(d)
               \/ /\ read # Garbage
                  /\ \E q \in accepted : q.key = k /\ q.blob.sealed = Seal(KeyOf(d), read)
    <3>1. CASE sealed.key = KeyOf(d)
      <4>1. read = sealed.plain
        BY <3>1 DEF Open
      <4> QED
        BY <3>1, <4>1, <2>2, <2>5, NothingAssumption DEF Seal
    <3>2. CASE sealed.key # KeyOf(d)
      BY <3>2, <2>5 DEF Open
    <3> QED
      BY <3>1, <3>2
  <2>6. ReadsAreWrites'
    <3> HIDE DEF read, sealed
    <3> QED
      BY <2>3, <2>4, <2>5 DEF ReadsAreWrites
  <2> QED
    BY <2>6
<1>4. CASE UNCHANGED vars
  BY <1>4 DEF vars, ReadsAreWrites
<1> QED
  BY <1>1, <1>2, <1>3, <1>4 DEF Next

(* A device reads what was put under that key with its passphrase, or noise
   where another passphrase wrote, whatever arrives in which order. *)
THEOREM ReadsAreOfWrites == Spec => []ReadsAreWrites
<1>1. ReadInv => ReadsAreWrites
  BY DEF ReadInv
<1> QED
  BY ReadInvInit, ReadInvStep, <1>1, PTL DEF Spec
===============================================================================
