------------------------------- MODULE MCExt4 -------------------------------
(* Small instances of Ext4Journal for TLC. *)
EXTENDS Ext4Journal, TLC

MCPayloads == { <<1>>, <<1, 2>>, <<1, 2, 3, 4, 5>> }

Volume(cache, barrier, async, csum, nfaults, ncrashes, ntxns) ==
    [cache |-> cache, barrier |-> barrier, async |-> async, csum |-> csum,
     faults |-> nfaults, crashes |-> ncrashes, txns |-> ntxns]

\* Volumes without a volatile cache, and one with a cache whose log is
\* reused at most once.  The device refuses a request where the log carries
\* checksums.
SafeConfigs ==
    { Volume(FALSE, TRUE,  FALSE, "none", 0, 2, 3),
      Volume(FALSE, FALSE, FALSE, "none", 0, 1, 3),
      Volume(FALSE, TRUE,  FALSE, "v3",   1, 1, 3),
      Volume(FALSE, TRUE,  FALSE, "v1",   1, 1, 3),
      Volume(FALSE, TRUE,  TRUE,  "v1",   0, 1, 3),
      Volume(FALSE, TRUE,  TRUE,  "v3",   0, 1, 3),
      Volume(TRUE,  TRUE,  FALSE, "v3",   1, 1, 2) }

\* A volatile cache and the default options.
CachedConfigs == { Volume(TRUE, TRUE, FALSE, "v3", 0, 1, 3) }
=============================================================================
