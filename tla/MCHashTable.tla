----------------------------- MODULE MCHashTable -----------------------------
(***************************************************************************)
(* Small instances of HashTable: two tables and five keys, enough to grow  *)
(* a table from 4 to 8 buckets and back in every order.                    *)
(***************************************************************************)
EXTENDS HashTable, TLC

FiveKeys == 1..5
FiveHashes == <<0, 1, 4, 5, 8>>   \* collisions in every length
EveryKey == ({1} \X {1, 2}) \cup ((2..5) \X {1})
FourKeys == 1..4
FourHashes == <<0, 1, 4, 5>>
EveryOne == (1..4) \X {1}
=============================================================================
