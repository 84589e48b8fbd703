------------------------------- MODULE Caches -------------------------------
(* The two levels of the cache beside each other.  Nothing in the code joins *)
(* them: a caller asks the one, the other, or computes.                      *)
EXTENDS MemoryCache, DiskCache

\* Both caches serve what was stored, whole and of the file as it is, and the maps of the first agree.
\* (cache.rs; the parts are in DiskCache and MemoryCache)
CachesServe == EntriesWhole /\ ServedFresh /\ MapsAgree
=============================================================================
