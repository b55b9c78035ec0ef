---------------------------- MODULE EncoderCache ----------------------------
(***************************************************************************)
(* _CachedEncoder: vectors cached by the key of their input. An input's    *)
(* own vector is the input itself. A cache is a sequence of entries        *)
(* [key, vector], the one stored longest ago first: that one is evicted.   *)
(***************************************************************************)
EXTENDS Integers, Sequences, SequencesExt

CONSTANTS
  Inputs,      \* what is encoded
  KeyOf,       \* _key: the cache key of an input
  CacheSize    \* cache_size

ASSUME CacheAssumption ==
  /\ DOMAIN KeyOf = Inputs
  /\ CacheSize \in Nat

EmptyCache == <<>>

\* A cache maps a key, once, to the vector of an input with that key.
IsCache(cache) ==
  /\ Len(cache) <= CacheSize
  /\ \A c \in DOMAIN cache :
       /\ cache[c].vector \in Inputs
       /\ cache[c].key = KeyOf[cache[c].vector]
       /\ \A d \in DOMAIN cache : cache[d].key = cache[c].key => d = c

CachedAt(cache, key) == {c \in DOMAIN cache : cache[c].key = key}

\* The positions whose key is not cached when the batch arrives: these are
\* encoded in one pass, two items of one key both.
Pending(cache, items) ==
  {n \in DOMAIN items : CachedAt(cache, KeyOf[items[n]]) = {}}

\* move_to_end takes an entry out; the place it had does not matter.
Without(cache, key) ==
  LET at == CachedAt(cache, key)
  IN IF at = {} THEN cache ELSE RemoveAt(cache, CHOOSE c \in at : TRUE)

\* _store
Store(cache, key, vector) ==
  LET entries == Append(Without(cache, key), [key |-> key, vector |-> vector])
  IN SubSeq(entries, IF Len(entries) > CacheSize THEN Len(entries) - CacheSize + 1
                     ELSE 1, Len(entries))

\* encode_batch stores what was pending, item by item.
CacheAfter(cache, items) ==
  LET left[n \in 0 .. Len(items)] ==
        IF n = 0 THEN cache
        ELSE IF n \in Pending(cache, items)
             THEN Store(left[n - 1], KeyOf[items[n]], items[n])
             ELSE left[n - 1]
  IN left[Len(items)]

\* The last item of a key: its vector stays.
LastOfKey(items, key) ==
  CHOOSE n \in DOMAIN items :
    /\ KeyOf[items[n]] = key
    /\ \A k \in DOMAIN items : KeyOf[items[k]] = key => k <= n

\* encode_batch: a batch may be larger than the cache, so it is resolved from
\* what was cached when it arrived and from what it encoded.
EncodeBatch(cache, items) ==
  [n \in DOMAIN items |->
     LET key == KeyOf[items[n]]
         at  == CachedAt(cache, key)
     IN IF at # {} THEN cache[CHOOSE c \in at : TRUE].vector
        ELSE items[LastOfKey(items, key)]]
=============================================================================
