-------------------------- MODULE ObjectResolution --------------------------
(***************************************************************************)
(* Where the objects of a revision come from: inline, or from an entry of  *)
(* a ClusterObjectSlice, which may be compressed.  A slice is the sequence *)
(* of its entries; the informer keeps it as a function from keys, made by  *)
(* Transform.  A key is the object it identifies.                          *)
(***************************************************************************)
EXTENDS Sequences, Functions

CONSTANTS
  Data,      \* decoded manifests
  Garbage,   \* "data" that does not decompress or parse
  Gone,      \* a slice that is not there
  Inline,    \* "slice" of an object that is inline
  Failure    \* the result of a resolution that fails

\* Of the instantiating module, which assumes it.
ResolutionAssumption == Garbage \notin Data /\ Failure \notin Data \cup {Garbage}

Contents == [packed : BOOLEAN, data : Data \cup {Garbage}]
Entries(keys) == [key : keys, content : Contents]

\* The entries are a list map: the API server takes each key once.
SliceAdmitted(entries) ==
  /\ entries # << >>
  /\ \A i, j \in DOMAIN entries : entries[i].key = entries[j].key => i = j

Keys(entries) == {entries[i].key : i \in DOMAIN entries}

\* TransformClusterObjectSlice, before a slice enters the cache.
Transform(entries) ==
  [k \in Keys(entries) |->
     entries[CHOOSE i \in DOMAIN entries :
               entries[i].key = k /\ \A j \in DOMAIN entries : entries[j].key = k => j <= i].content]

\* lookupInSlice, for a slice with its map and for one with its list only.
Lookup(map, key) == IF key \in DOMAIN map THEN map[key].data ELSE Failure

LookupInList(entries, key) ==
  IF key \in Keys(entries)
  THEN entries[CHOOSE i \in DOMAIN entries :
                 entries[i].key = key /\ \A j \in DOMAIN entries : entries[j].key = key => i <= j].content.data
  ELSE Failure

\* Compressed or not, what counts is what comes out.
Unmarshalled(data) == IF data \in Data THEN data ELSE Failure

\* resolveRaw and unmarshalUnstructured, for an object kept in the slice
\* (Inline: whose manifest the spec holds).
ResolveObject(slice, key, manifest, cache) ==
  IF slice = Inline THEN Unmarshalled(manifest)
  ELSE IF cache[slice] = Gone THEN Failure
  ELSE Unmarshalled(Lookup(cache[slice], key))

\* Variant: once pinned, the hash is not compared.
AnyHash(pinned, hash, unset) == TRUE

\* VerifyHash.  The hash of a resolution is what was resolved, in order.
VerifyHash(pinned, hash, unset) == pinned = unset \/ pinned = hash
=============================================================================
