------------------------------ MODULE FailSafe ------------------------------
(***************************************************************************)
(* What the screen path promises to the transaction flow behind it, apart  *)
(* from how it keeps the promise: a call is answered at most once and the  *)
(* answer stands, and ALLOW is answered only for an address the vendor has *)
(* cleared.  Outages, races, retries and crashes may delay an answer, make *)
(* it more careful, or prevent it.                                         *)
(*                                                                         *)
(* Screening implements this specification (Screening!ImplementsFailSafe). *)
(***************************************************************************)
CONSTANTS
    Calls,          \* screen calls
    Addresses,      \* what they ask about
    Decisions,      \* what they may be answered, "ALLOW" among them
    None            \* no answer yet

VARIABLES
    cleared,        \* addresses the vendor has given an answer about that decides ALLOW
    answer          \* what is on record for each call: <<address, decision>> or None

Init ==
    /\ cleared = {}
    /\ answer = [c \in Calls |-> None]

\* The vendor clears addresses; what it has once cleared stays so.
Clear ==
    /\ UNCHANGED answer
    /\ cleared \subseteq cleared'
    /\ cleared' \subseteq Addresses

\* A call is answered.
Answer(c, a, d) ==
    /\ answer[c] = None
    /\ d = "ALLOW" => a \in cleared
    /\ answer' = [answer EXCEPT ![c] = <<a, d>>]
    /\ UNCHANGED cleared

Next ==
    \/ Clear
    \/ \E c \in Calls, a \in Addresses, d \in Decisions : Answer(c, a, d)

Spec == Init /\ [][Next]_<<cleared, answer>>
=============================================================================
