------------------------------ MODULE Mailbox ------------------------------
(***************************************************************************)
(* What headersync and ccm together promise the token modules: of the      *)
(* messages that Poly's blocks commit to, those addressed to this chain    *)
(* are delivered in some order, each source transaction at most once.      *)
(* Nothing else is delivered before the mailbox is corrupt; from then on   *)
(* anybody's message may be, still only for this chain and once each.      *)
(***************************************************************************)
EXTENDS Naturals, Sequences

CONSTANTS
    Message,   \* all messages that can be made up
    Committed, \* those in the state roots of canonical Poly blocks
    Here       \* this chain's id

VARIABLES delivered, corrupt

mailVars == <<delivered, corrupt>>

Init == delivered = <<>> /\ corrupt = FALSE

SameSource(m, n) == m.fromChainId = n.fromChainId /\ m.crossChainId = n.crossChainId

Deliver(m) ==
    /\ m.toChainId = Here
    /\ \A i \in 1..Len(delivered) : ~ SameSource(m, delivered[i])
    /\ delivered' = Append(delivered, m)

\* The mailbox becomes or is corrupt, maybe with a message of anybody's.
DeliverCorrupt ==
    /\ corrupt' = TRUE
    /\ UNCHANGED delivered \/ \E m \in Message : Deliver(m)

Next ==
    \/ \E m \in Committed : Deliver(m) /\ UNCHANGED corrupt
    \/ DeliverCorrupt

Spec == Init /\ [][Next]_mailVars

\* While the mailbox is sound, every message for this chain is delivered in
\* the end, or another of the same source.
Arrival == []~corrupt => \A m \in Committed : WF_delivered(Deliver(m))
=============================================================================
