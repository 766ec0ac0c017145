---------------------------- MODULE AddressCache ----------------------------
(***************************************************************************)
(* What any address-risk cache promises its callers: a hit returns what    *)
(* was last set under the key and not deleted since; the cache may lose    *)
(* an entry at any time, but a lost entry never comes back by itself; an   *)
(* operation that fails has either happened or not.                        *)
(*                                                                         *)
(* RiskCache implements this specification                                 *)
(* (RiskCache!ImplementsAddressCache).                                     *)
(***************************************************************************)
CONSTANTS
    Keys,           \* what the cache tells addresses apart by
    Verdicts,
    Errors,         \* the ways an operation may fail
    None

VARIABLES
    mem,            \* what a look-up of each key would be answered: a verdict or None
    reply           \* the last operation with its outcome, or None

Reply(op, k, outcome, v) == [op |-> op, key |-> k, outcome |-> outcome, verdict |-> v]

Init ==
    /\ mem = [k \in Keys |-> None]
    /\ reply = None

Get(k) ==
    /\ reply' = Reply("get", k, IF mem[k] = None THEN "miss" ELSE "hit", mem[k])
    /\ UNCHANGED mem

Set(k, v) ==
    /\ reply' = Reply("set", k, "ok", v)
    /\ mem' = [mem EXCEPT ![k] = v]

Delete(k) ==
    /\ reply' = Reply("delete", k, "ok", None)
    /\ mem' = [mem EXCEPT ![k] = None]

GetFails(k, e) ==
    /\ reply' = Reply("get", k, e, None)
    /\ UNCHANGED mem

SetFails(k, v, e) ==
    /\ reply' = Reply("set", k, e, v)
    /\ UNCHANGED mem \/ mem' = [mem EXCEPT ![k] = v]

DeleteFails(k, e) ==
    /\ reply' = Reply("delete", k, e, None)
    /\ UNCHANGED mem \/ mem' = [mem EXCEPT ![k] = None]

\* Entries expire, are evicted, or die with the process.
Lose ==
    /\ reply' = None
    /\ \E S \in SUBSET Keys :
          mem' = [k \in Keys |-> IF k \in S THEN None ELSE mem[k]]

Next ==
    \/ \E k \in Keys : Get(k) \/ Delete(k) \/ \E v \in Verdicts : Set(k, v)
    \/ \E k \in Keys, e \in Errors :
          GetFails(k, e) \/ DeleteFails(k, e) \/ \E v \in Verdicts : SetFails(k, v, e)
    \/ Lose

Spec == Init /\ [][Next]_<<mem, reply>>
=============================================================================
