------------------------------ MODULE KeyEntries ------------------------------
(***************************************************************************)
(* Which entries of a key file load: entries and validate of               *)
(* keyfile/load.go, as a function of the raw entries and the time.  Files  *)
(* that are refused as a whole (parse) and the reload itself belong to     *)
(* KeyfileStore.                                                           *)
(*                                                                         *)
(* Names and attrs are opaque: which of them the patterns, the reserved    *)
(* prefixes, the shape rules and the consumer's validator accept is given  *)
(* by constants.  A tools list is a set: dedupe is its conversion.         *)
(***************************************************************************)
EXTENDS Integers, FiniteSets, Sequences

CONSTANTS
    Tools,      \* Options.Tools
    Digests,    \* the hashes that hexRE accepts
    Names,      \* what an entry may be called,
    WellNamed,  \* nameRE accepts
    Reserved,   \* isReserved
    AttrMaps,   \* what an entry may carry as attrs,
    Shaped,     \* checkAttrs accepts
    Verdict     \* what the consumer's validator does with a name and attrs

NoHash   == "no hash"
BadHash  == "not a hash"
Wildcard == "*"
Stranger == "not registered"
NoExpiry == -1       \* missing, not RFC 3339 or not UTC

ASSUME EntryAssumption ==
    /\ Wildcard \notin Tools /\ Stranger \notin Tools
    /\ NoHash \notin Digests /\ BadHash \notin Digests
    /\ WellNamed \subseteq Names /\ Reserved \subseteq Names
    /\ Shaped \subseteq AttrMaps
    /\ Verdict \in [Names \X AttrMaps -> {"accept", "veto", "panic"}]

RawKey == [name : Names, sha256 : Digests \cup {NoHash, BadHash},
           expires : Nat \cup {NoExpiry},
           tools : SUBSET (Tools \cup {Wildcard, Stranger}), attrs : AttrMaps]

KeyEntry == [name : Names, digest : Digests, expires : Int,
             tools : SUBSET Tools, attrs : AttrMaps]

-----------------------------------------------------------------------------
\* The first loop of entries counts over every raw entry, invalid ones too.
NameCount(keys, n) == Cardinality({i \in DOMAIN keys : keys[i].name = n})
HashCount(keys, h) == Cardinality({i \in DOMAIN keys : keys[i].sha256 = h})

\* Mutant of Duplicate: names may repeat.
DuplicateHash(keys, k) == k.sha256 # NoHash /\ HashCount(keys, k.sha256) > 1

Duplicate(keys, k) == \/ NameCount(keys, k.name) > 1
                      \/ k.sha256 # NoHash /\ HashCount(keys, k.sha256) > 1

\* Mutant of CheckTools: names are not compared with the registered ones.
CheckToolsAny(tools) == tools # {}

\* A wildcard is refused, and a name that is not registered.
CheckTools(tools) == tools # {} /\ tools \subseteq Tools

\* A validator that panics is one that refuses.
RunValidator(name, attrs) == Verdict[<<name, attrs>>] = "accept"

Validate(k, now) ==
    /\ k.name \in WellNamed \ Reserved
    /\ k.sha256 \in Digests
    /\ k.expires # NoExpiry
    /\ now < k.expires
    /\ CheckTools(k.tools)
    /\ k.attrs \in Shaped
    /\ RunValidator(k.name, k.attrs)

Entry(k) == [name |-> k.name, digest |-> k.sha256, expires |-> k.expires,
             tools |-> k.tools, attrs |-> k.attrs]

Entries(keys, now) ==
    {Entry(keys[i]) : i \in {j \in DOMAIN keys : /\ ~Duplicate(keys, keys[j])
                                                 /\ Validate(keys[j], now)}}

-----------------------------------------------------------------------------
(***************************************************************************)
(* The same as a key file's author reads it (keyfile/doc.go).              *)
(***************************************************************************)
Alone(keys, i) == \A j \in DOMAIN keys \ {i} :
    keys[j].name # keys[i].name /\ keys[j].sha256 # keys[i].sha256

\* The file read at time now grants tool to the token with digest d.
Grants(keys, now, d, tool) ==
    \E i \in DOMAIN keys :
        /\ keys[i].sha256 = d /\ d \in Digests
        /\ Alone(keys, i)
        /\ tool \in keys[i].tools /\ tool \in Tools
        /\ Validate(keys[i], now)
=============================================================================
