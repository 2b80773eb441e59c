----------------------------- MODULE CacheStore -----------------------------
(***************************************************************************)
(* What a CacheAccess promises: a map from keys to values of limited size, *)
(* ordered by use, that holds at most NodeTotal entries whose values take  *)
(* at most ChunkTotal chunks of ChunkSize bytes.  A value that does not    *)
(* fit is refused and the map stays as it was.                             *)
(***************************************************************************)
EXTENDS Naturals, Sequences, SequencesExt, FiniteSets, Functions

CONSTANTS Keys, Values, Flags, NodeTotal, ChunkTotal, ChunkSize

VARIABLES
    lru,        \* the keys present, most recently used first
    entries,    \* key -> [data, flag]
    freeChunks  \* chunks no value uses

storeVars == <<lru, entries, freeChunks>>

\* Chunks a value takes.
Size(v) == (Len(v) + ChunkSize - 1) \div ChunkSize

Present == ToSet(lru)

InitStore ==
    /\ lru = <<>>
    /\ entries = <<>>
    /\ freeChunks = ChunkTotal

ToFront(k) == <<k>> \o SelectSeq(lru, LAMBDA j : j # k)

\* A look-up of a key that is present makes it the most recently used one.
Touch(k) ==
    /\ k \in Present
    /\ lru' = ToFront(k)
    /\ UNCHANGED <<entries, freeChunks>>

Put(k, v, f) ==
    entries' = [j \in Present \cup {k} |-> IF j = k THEN [data |-> v, flag |-> f] ELSE entries[j]]

\* A new entry needs a free node, enough free chunks and at least one byte.
AddEntry(k, v, f) ==
    /\ k \notin Present
    /\ Len(lru) < NodeTotal
    /\ Size(v) \in 1..freeChunks
    /\ lru' = <<k>> \o lru
    /\ Put(k, v, f)
    /\ freeChunks' = freeChunks - Size(v)

\* A changed entry may use the chunks of its old value again.
ChangeEntry(k, v, f) ==
    /\ k \in Present
    /\ Size(v) <= freeChunks + Size(entries[k].data)
    /\ lru' = ToFront(k)
    /\ Put(k, v, f)
    /\ freeChunks' = (freeChunks + Size(entries[k].data)) - Size(v)

MarkClean(k) ==
    /\ k \in Present
    /\ lru' = ToFront(k)
    /\ Put(k, entries[k].data, "unchg")
    /\ UNCHANGED freeChunks

\* All keys of S that are present go, with their chunks.
Delete(S) ==
    /\ lru' = SelectSeq(lru, LAMBDA j : j \notin S)
    /\ entries' = [j \in Present \ S |-> entries[j]]
    /\ freeChunks' = freeChunks
         + SumFunctionOnSet([j \in Present |-> Size(entries[j].data)], Present \cap S)

\* All keys of S that are present become clean, in some order of use.
MarkCleanAll(S) ==
    /\ UNCHANGED freeChunks
    /\ entries' = [j \in Present |-> IF j \in S THEN [entries[j] EXCEPT !.flag = "unchg"]
                                     ELSE entries[j]]
    /\ lru' \in [DOMAIN lru -> Present] /\ ToSet(lru') = Present

NextStore ==
    \/ \E k \in Keys : Touch(k) \/ MarkClean(k)
    \/ \E k \in Keys, v \in Values, f \in Flags : AddEntry(k, v, f) \/ ChangeEntry(k, v, f)
    \/ \E S \in SUBSET Keys : Delete(S) \/ MarkCleanAll(S)

SpecStore == InitStore /\ [][NextStore]_storeVars
=============================================================================
