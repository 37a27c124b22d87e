---------------------------- MODULE SerialGroups ----------------------------
(***************************************************************************)
(* What PerGroupDispatcher promises, without tasks, workers or timeouts:   *)
(* the messages accepted for a group wait in order, at most one of them    *)
(* is being processed, and only the oldest one may start.  Accepted        *)
(* messages can be discarded together (the user's /stop), and a message    *)
(* that is being processed can be given up.                                *)
(***************************************************************************)
EXTENDS Sequences

CONSTANTS
    Groups,      \* session keys
    Messages,    \* everything a channel can publish
    NoMessage    \* "nothing is being processed"

VARIABLES
    pending,     \* [Groups -> Seq(Messages)]: accepted, not yet started
    active       \* [Groups -> Messages \cup {NoMessage}]: being processed

svars == <<pending, active>>

SInit ==
    /\ pending = [g \in Groups |-> <<>>]
    /\ active  = [g \in Groups |-> NoMessage]

Accept(g, m) ==
    /\ pending' = [pending EXCEPT ![g] = Append(@, m)]
    /\ UNCHANGED active

Start(g) ==
    /\ active[g] = NoMessage
    /\ pending[g] # <<>>
    /\ active'  = [active EXCEPT ![g] = Head(pending[g])]
    /\ pending' = [pending EXCEPT ![g] = Tail(@)]

Finish(g) ==
    /\ active[g] # NoMessage
    /\ active' = [active EXCEPT ![g] = NoMessage]
    /\ UNCHANGED pending

\* A finished message can hand over to the next one without a gap.
FinishAndStart(g) ==
    /\ active[g] # NoMessage
    /\ pending[g] # <<>>
    /\ active'  = [active EXCEPT ![g] = Head(pending[g])]
    /\ pending' = [pending EXCEPT ![g] = Tail(@)]

Discard(g) ==
    /\ pending' = [pending EXCEPT ![g] = <<>>]
    /\ UNCHANGED active

SNext ==
    \E g \in Groups :
        \/ \E m \in Messages : Accept(g, m)
        \/ Start(g)
        \/ Finish(g)
        \/ FinishAndStart(g)
        \/ Discard(g)

SSpec == SInit /\ [][SNext]_svars
=============================================================================
