------------------------------ MODULE Mailbox ------------------------------
(***************************************************************************)
(* What the relay promises about an inbox: what is posted stays, in order, *)
(* until its time is over, it is acknowledged or the inbox is closed, and  *)
(* nothing else changes what is there; asking for it does not.             *)
(***************************************************************************)
EXTENDS Naturals

CONSTANTS
    Inbox,      \* inboxes
    Envelope,   \* envelope ids
    Ttl         \* how long a letter is kept

VARIABLES
    clock,      \* time
    closed,     \* inboxes that are closed for good
    posted,     \* letters posted so far
    mail        \* the letters in each inbox

Init ==
    /\ clock = 0
    /\ closed = {}
    /\ posted = 0
    /\ mail = [i \in Inbox |-> {}]

Post(i, e) ==
    /\ i \notin closed
    /\ posted' = posted + 1
    /\ mail' = [mail EXCEPT ![i] = @ \union
          {[id |-> posted', inbox |-> i, envelope |-> e, expiresAt |-> clock + Ttl]}]
    /\ UNCHANGED <<clock, closed>>

Acknowledge(i, e) ==
    /\ mail' = [mail EXCEPT ![i] = {x \in @ : x.envelope # e}]
    /\ UNCHANGED <<clock, closed, posted>>

Close(i) ==
    /\ closed' = closed \union {i}
    /\ mail' = [mail EXCEPT ![i] = {}]
    /\ UNCHANGED <<clock, posted>>

Elapse ==
    /\ clock' = clock + 1
    /\ mail' = [i \in Inbox |-> {x \in mail[i] : x.expiresAt > clock'}]
    /\ UNCHANGED <<closed, posted>>

Next ==
    \/ \E i \in Inbox, e \in Envelope : Post(i, e) \/ Acknowledge(i, e)
    \/ \E i \in Inbox : Close(i)
    \/ Elapse

Spec == Init /\ [][Next]_<<clock, closed, posted, mail>>
=============================================================================
