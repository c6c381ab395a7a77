------------------------------ MODULE SyncRegister ------------------------------
(***************************************************************************)
(* What the sync service promises: every record is a register that only    *)
(* moves on to a write of its version or a later one (last writer wins).   *)
(***************************************************************************)
EXTENDS Naturals

CONSTANTS RecordKey, Blob, NoBlob

VARIABLE register       \* [RecordKey -> Blob or NoBlob]

RInit == register = [k \in RecordKey |-> NoBlob]

RWrite(k, b) == /\ register[k] # NoBlob => b.version >= register[k].version
                /\ register' = [register EXCEPT ![k] = b]

RNext == \E k \in RecordKey, b \in Blob : RWrite(k, b)

RSpec == RInit /\ [][RNext]_register
===============================================================================
