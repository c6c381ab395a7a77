--------------------------------- MODULE MCSync ---------------------------------
EXTENDS Sync, TLC

(* A device, whose key is that of every device of its user, and one where the
   passphrase was typed wrong; one collection of two accounts and another one. *)
CONSTANTS laptop, guest, a, b
MCDevice == {laptop, guest}
MCPassphrase == [d \in MCDevice |-> IF d = guest THEN "mistyped" ELSE "pass"]
At(account, collection) ==
  [account |-> account, collection |-> collection, record_id |-> account]
MCRecordKey == {At("acct", "bookmarks"), At("acct", "history"), At("other", "bookmarks")}
Symmetry == Permutations({a, b})
===============================================================================
