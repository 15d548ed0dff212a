------------------------------- MODULE Cache -------------------------------
(***************************************************************************)
(* The file cache: get_cache and put_cache of cache.c over the rwlock      *)
(* queue of queue.c, lines 256-337, as the worker threads of server.c call *)
(* them.  An operation of the rwlock queue holds the lock from its first   *)
(* to its last access, so it is one step here; what cache.c does between   *)
(* two of them happens with no lock held, and other threads may come       *)
(* between.                                                                *)
(*                                                                         *)
(* Items are the addresses malloc returns for a cache_entry_t; an address  *)
(* that has been freed is used again.  An entry and its filedata live and  *)
(* die together.  Of freed memory nothing is known: what is read there is  *)
(* anything.  at[t] says where thread t is:                                *)
(*    idle      between two requests                                       *)
(*    search    in get_cache, before rwlock_queue_search                   *)
(*    rewrite   entry found and its filedata taken, before queue_rewrite   *)
(*    size      before the read of entry->file_size                        *)
(*    load      get_cache said -1, the file is read from the disk          *)
(*    write     in the loop of put_cache, before queue_write               *)
(*    evict     the queue was full, before queue_read                      *)
(*    free      an entry was taken off the queue, before the three frees   *)
(*    serve     sending the data to the client                             *)
(*    fault     queue_read returned NULL, and it is dereferenced           *)
(***************************************************************************)
EXTENDS RingQueue

CONSTANTS Workers, Files

ASSUME WorkersFinite == IsFiniteSet(Workers)
ASSUME FilesAssumption == NULL \notin Files

VARIABLES
    mode,         \* "oldest" or "lru": config.cache_enabled
    cache_queue,  \* cache_queue.q
    heap,         \* the entries that malloc has returned and free has not taken
    file,         \* file[e]: the filename of entry e, NULL when e is free
    at,           \* where each thread is
    want,         \* want[t]: the filename of t's request
    entry,        \* entry[t]: the entry whose data t has in buf, or NULL
    gone,         \* gone[t]: entry[t] has been freed since t got it
    mine,         \* mine[t]: the entry put_cache has built and not yet written
    victim        \* victim[t]: the entry put_cache took off to make room

cache_vars == <<mode, cache_queue, heap, file, at, want, entry, gone, mine, victim>>

CacheInit ==
    /\ mode \in {"oldest", "lru"}
    /\ cache_queue = queue_init
    /\ heap = {}
    /\ file = [e \in Item |-> NULL]
    /\ at = [t \in Workers |-> "idle"]
    /\ want = [t \in Workers |-> NULL]
    /\ entry = [t \in Workers |-> NULL]
    /\ gone = [t \in Workers |-> FALSE]
    /\ mine = [t \in Workers |-> NULL]
    /\ victim = [t \in Workers |-> NULL]

-----------------------------------------------------------------------------
\* The worker has consumed a request for f.
Request(t, f) ==
    /\ at[t] = "idle"
    /\ want' = [want EXCEPT ![t] = f]
    /\ at' = [at EXCEPT ![t] = "search"]
    /\ UNCHANGED <<cache_queue, heap, file, entry, gone, mine, victim>>

\* The entries whose filename can be relied on: those in the queue, and
\* those taken off it and not freed yet.
Readable == Live(cache_queue) \cup ({victim[t] : t \in Workers} \ {NULL})

\* The entries on which queue_cb may say yes: those for the file, and any of
\* those whose memory holds junk.
Matches(f, junk) == {e \in Readable : file[e] = f} \cup junk

\* Slip: a hit does not move the entry.
AfterHit_NeverRewrite == "size"

\* What get_cache does with an entry it has found.
AfterHit == IF mode = "lru" THEN "rewrite" ELSE "size"

\* rwlock_queue_search, then the read of entry->filedata.
Search(t) ==
    /\ at[t] = "search"
    /\ \E junk \in SUBSET (Item \ Readable) :
          LET e == queue_search(cache_queue, Matches(want[t], junk))
          IN  IF e = NULL
              THEN /\ at' = [at EXCEPT ![t] = "load"]
                   /\ UNCHANGED <<entry, gone>>
              ELSE /\ at' = [at EXCEPT ![t] = AfterHit]
                   /\ entry' = [entry EXCEPT ![t] = e]
                   /\ gone' = [gone EXCEPT ![t] = e \notin heap]
    /\ UNCHANGED <<cache_queue, heap, file, want, mine, victim>>

\* queue_rewrite; an entry that is no longer in the queue is a miss.
Rewrite(t) ==
    /\ at[t] = "rewrite"
    /\ cache_queue' = queue_requeue(cache_queue, entry[t]).q
    /\ IF queue_requeue(cache_queue, entry[t]).ret = Failed
       THEN /\ at' = [at EXCEPT ![t] = "load"]
            /\ entry' = [entry EXCEPT ![t] = NULL]
            /\ gone' = [gone EXCEPT ![t] = FALSE]
       ELSE /\ at' = [at EXCEPT ![t] = "size"]
            /\ UNCHANGED <<entry, gone>>
    /\ UNCHANGED <<heap, file, want, mine, victim>>

\* get_cache returns entry->file_size: a hit, unless the entry is gone and
\* what is read there happens to be -1.
ReadSize(t) ==
    /\ at[t] = "size"
    /\ \/ /\ at' = [at EXCEPT ![t] = "serve"]
          /\ UNCHANGED <<entry, gone>>
       \/ /\ gone[t]
          /\ at' = [at EXCEPT ![t] = "load"]
          /\ entry' = [entry EXCEPT ![t] = NULL]
          /\ gone' = [gone EXCEPT ![t] = FALSE]
    /\ UNCHANGED <<cache_queue, heap, file, want, mine, victim>>

\* get_file_data fails, and the client is told 404.
NotFound(t) ==
    /\ at[t] = "load"
    /\ at' = [at EXCEPT ![t] = "idle"]
    /\ want' = [want EXCEPT ![t] = NULL]
    /\ UNCHANGED <<cache_queue, heap, file, entry, gone, mine, victim>>

\* get_file_data succeeds, and put_cache builds an entry.
Load(t) ==
    /\ at[t] = "load"
    /\ \E e \in Item \ heap :
          /\ heap' = heap \cup {e}
          /\ file' = [file EXCEPT ![e] = want[t]]
          /\ mine' = [mine EXCEPT ![t] = e]
    /\ at' = [at EXCEPT ![t] = "write"]
    /\ UNCHANGED <<cache_queue, want, entry, gone, victim>>

\* queue_write, the test of the loop in put_cache.
Write(t) ==
    /\ at[t] = "write"
    /\ cache_queue' = queue_enqueue(cache_queue, mine[t]).q
    /\ IF queue_enqueue(cache_queue, mine[t]).ret = Failed
       THEN /\ at' = [at EXCEPT ![t] = "evict"]
            /\ UNCHANGED <<entry, mine>>
       ELSE /\ at' = [at EXCEPT ![t] = "serve"]
            /\ entry' = [entry EXCEPT ![t] = mine[t]]
            /\ mine' = [mine EXCEPT ![t] = NULL]
    /\ UNCHANGED <<heap, file, want, gone, victim>>

\* Slip: the victim is looked at and not taken off.
Evict_Peeks(t) ==
    /\ at[t] = "evict"
    /\ victim' = [victim EXCEPT ![t] = queue_dequeue(cache_queue).ret]
    /\ at' = [at EXCEPT ![t] = IF queue_isempty(cache_queue) THEN "fault" ELSE "free"]
    /\ UNCHANGED <<cache_queue, heap, file, want, entry, gone, mine>>

\* queue_read, whose NULL put_cache does not test for.
Evict(t) ==
    /\ at[t] = "evict"
    /\ cache_queue' = queue_dequeue(cache_queue).q
    /\ victim' = [victim EXCEPT ![t] = queue_dequeue(cache_queue).ret]
    /\ at' = [at EXCEPT ![t] = IF queue_isempty(cache_queue) THEN "fault" ELSE "free"]
    /\ UNCHANGED <<heap, file, want, entry, gone, mine>>

\* Slip: one more entry is taken off before the write is tried again.
Free_EvictsAgain(t) ==
    /\ at[t] = "free"
    /\ heap' = heap \ {victim[t]}
    /\ file' = [file EXCEPT ![victim[t]] = NULL]
    /\ gone' = [u \in Workers |-> gone[u] \/ entry[u] = victim[t]]
    /\ victim' = [victim EXCEPT ![t] = NULL]
    /\ at' = [at EXCEPT ![t] = "evict"]
    /\ UNCHANGED <<cache_queue, want, entry, mine>>

\* The three frees: whoever still has the entry or its data has it no more.
Free(t) ==
    /\ at[t] = "free"
    /\ heap' = heap \ {victim[t]}
    /\ file' = [file EXCEPT ![victim[t]] = NULL]
    /\ gone' = [u \in Workers |-> gone[u] \/ entry[u] = victim[t]]
    /\ victim' = [victim EXCEPT ![t] = NULL]
    /\ at' = [at EXCEPT ![t] = "write"]
    /\ UNCHANGED <<cache_queue, want, entry, mine>>

\* return_result has sent the data.
Serve(t) ==
    /\ at[t] = "serve"
    /\ at' = [at EXCEPT ![t] = "idle"]
    /\ want' = [want EXCEPT ![t] = NULL]
    /\ entry' = [entry EXCEPT ![t] = NULL]
    /\ gone' = [gone EXCEPT ![t] = FALSE]
    /\ UNCHANGED <<cache_queue, heap, file, mine, victim>>

-----------------------------------------------------------------------------
Step(t) ==
    /\ UNCHANGED mode
    /\ \/ \E f \in Files : Request(t, f)
       \/ Search(t) \/ Rewrite(t) \/ ReadSize(t)
       \/ NotFound(t) \/ Load(t) \/ Write(t) \/ Evict(t) \/ Free(t)
       \/ Serve(t)

\* A thread that dereferences NULL takes the whole process with it.
Running == \A t \in Workers : at[t] # "fault"

CacheNext == Running /\ \E t \in Workers : Step(t)

CacheSpec == CacheInit /\ [][CacheNext]_cache_vars

-----------------------------------------------------------------------------
CachePlaces == {"idle", "search", "rewrite", "size", "load", "write", "evict",
                "free", "serve", "fault"}

\* The variables keep their types, and a thread holds a pointer exactly in
\* the places where cache.c has one.
CacheTypeOK ==
    /\ mode \in {"oldest", "lru"}
    /\ cache_queue \in QueueType
    /\ heap \in SUBSET Item
    /\ file \in [Item -> Files \cup {NULL}]
    /\ at \in [Workers -> CachePlaces]
    /\ want \in [Workers -> Files \cup {NULL}]
    /\ entry \in [Workers -> Item \cup {NULL}]
    /\ gone \in [Workers -> BOOLEAN]
    /\ mine \in [Workers -> Item \cup {NULL}]
    /\ victim \in [Workers -> Item \cup {NULL}]
    /\ \A t \in Workers :
          /\ entry[t] # NULL <=> at[t] \in {"rewrite", "size", "serve"}
          /\ mine[t] # NULL <=> at[t] \in {"write", "evict", "free", "fault"}
          /\ victim[t] # NULL <=> at[t] = "free"

Mine == {mine[t] : t \in Workers} \ {NULL}
Victims == {victim[t] : t \in Workers} \ {NULL}

\* Every entry is at one place only: in one slot of the queue, built by one
\* thread and not written yet, or taken off by one thread to be freed.  So
\* no entry is freed twice, or freed while it is in the cache, and none is
\* leaked.
EntryOwnedOnce ==
    /\ heap = Live(cache_queue) \cup Mine \cup Victims
    /\ Live(cache_queue) \cap (Mine \cup Victims) = {} /\ Mine \cap Victims = {}
    /\ \A t, u \in Workers :
          /\ mine[t] = mine[u] /\ mine[t] # NULL => t = u
          /\ victim[t] = victim[u] /\ victim[t] # NULL => t = u
    /\ \A i, j \in 0 .. cache_queue.size - 1 :
          cache_queue.items[Pos(cache_queue, i)] = cache_queue.items[Pos(cache_queue, j)]
             => i = j

\* The threads that have not yet written since they last missed or took an
\* entry off to make room.
Writing == {t \in Workers : at[t] \in {"write", "free"}}

\* cache.c:31-34 dereferences what queue_read returns, having found the queue
\* full: NULL if other threads have emptied it since.  That takes as many
\* other threads as the cache has entries, each with a place to write to;
\* nothing else empties a cache that was full.
FaultsOnlyIfCrowded ==
    (\E t \in Workers : at[t] = "fault") => Capacity <= Cardinality(Writing)

\* The entries that threads answer from.  A hit counts as one when get_cache
\* is past queue_rewrite or has no need of it; if the entry is evicted before
\* that, the hit becomes a miss.
Answers == [t \in Workers |-> IF at[t] = "rewrite" THEN NULL ELSE entry[t]]

Eviction ==
    INSTANCE EvictionList WITH
        list <- Contents(cache_queue),
        answer <- Answers,
        Users <- Workers,
        Nothing <- NULL

\* The cache is the list of README.txt 64-68: the entry that makes room is the
\* oldest, or in mode "lru" the one that was written, or moved by a hit,
\* before every other; every hit in mode "lru" moves its entry before it is
\* answered from, no hit in mode "oldest" does, and nothing listed is freed.
ImplementsEvictionList == Eviction!Spec
=============================================================================
