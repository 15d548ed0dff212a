--------------------------- MODULE CacheRetries ---------------------------
(***************************************************************************)
(* The loop of put_cache, cache.c 29-39, as its threads contend for the    *)
(* places they make: Cache with a history variable that remembers whose    *)
(* queue_write has failed since one last succeeded.                        *)
(***************************************************************************)
EXTENDS Cache

VARIABLE failed

retry_vars == <<cache_vars, failed>>

\* The two outcomes of Write(t).
WriteFails(t) == at[t] = "write" /\ at'[t] = "evict"
WriteSucceeds(t) == at[t] = "write" /\ at'[t] = "serve"

Remember ==
    failed' = IF \E t \in Workers : WriteSucceeds(t)
              THEN {}
              ELSE failed \cup {t \in Workers : WriteFails(t)}

RetryInit == CacheInit /\ failed = {}

RetryNext == CacheNext /\ Remember

RetrySpec == RetryInit /\ [][RetryNext]_retry_vars

-----------------------------------------------------------------------------
\* The loop of put_cache is lock-free: a thread that has failed to write, and
\* has made room, fails again only if another thread's write has succeeded
\* in between.  So threads that take each other's places cannot keep each
\* other from writing for ever: before any of them fails twice, one writes.
FailsAgainOnlyIfOvertaken ==
    [][\A t \in failed : ~ WriteFails(t)]_retry_vars
=============================================================================
