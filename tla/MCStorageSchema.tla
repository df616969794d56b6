-------------------------- MODULE MCStorageSchema --------------------------
(***************************************************************************)
(* An instance of StorageSchema for TLC: the first and the last counter    *)
(* that is widened, an oid of each store and a counter of the databases.   *)
(***************************************************************************)
EXTENDS StorageSchema

MCWideColumns == {"calls", "shared_blks_written", "dbid", "datid", "deadlocks"}

=============================================================================
