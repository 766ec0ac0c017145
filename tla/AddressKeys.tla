---------------------------- MODULE AddressKeys ----------------------------
(***************************************************************************)
(* What an (address, chain) pair is, and the key under which a cache holds *)
(* it.                                                                     *)
(*                                                                         *)
(* The keys of the service are texts joined with a colon, and Service.     *)
(* Screen accepts any transaction id, address and chain that is not blank, *)
(* colons included.  So a text is modelled as the sequence of its parts    *)
(* without colons: joining with a colon is appending, and two pairs may    *)
(* share a key.                                                            *)
(***************************************************************************)
EXTENDS Decision, Sequences

CONSTANTS
    Parts,          \* pieces of text without a colon
    Addresses       \* (address, chain) pairs

Texts == Seq(Parts) \ {<<>>}

ASSUME TextAssumption ==
    /\ Chains \subseteq Texts
    /\ Addresses \subseteq [address : Texts, chain : Chains]

\* chain:address.  Redis adds the same prefix to every key; the two columns that
\* are the key in Postgres are not joined, but no row ever gets there (RiskCache).
CacheKey(a) == a.chain \o a.address
CacheKeys == {CacheKey(a) : a \in Addresses}
=============================================================================
