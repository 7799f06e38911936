--------------------------- MODULE TicketAttempts ---------------------------
(***************************************************************************)
(* What the agent service promises the owner of an execution ticket,       *)
(* without daemons, registry, leases or probes: the attempts of a ticket   *)
(* are made in turn. An attempt is taken once, when all the attempts       *)
(* before it are over for good; whoever took it launches one process for   *)
(* it or gives it up; an attempt that is over is never revived.            *)
(* AgentService implements it.                                             *)
(***************************************************************************)
EXTENDS Integers

CONSTANTS
    Ticket,      \* execution tickets
    MaxAttempts  \* retries of a ticket

VARIABLE attempt  \* where attempt k of ticket t stands: open, held, alive or over

Attempt == Ticket \X (0..MaxAttempts)

AttemptsInit == attempt = [a \in Attempt |-> "open"]

Becomes(a, from, to) == attempt[a] = from /\ attempt' = [attempt EXCEPT ![a] = to]

\* Admission of a run that does not exist yet, up to its reservation.
Take(t, k) ==
    /\ \A j \in 0..(k - 1) : attempt[<<t, j>>] = "over"
    /\ Becomes(<<t, k>>, "open", "held")

Launch(a) == Becomes(a, "held", "alive")

\* The start fails, or the daemon that was about to spawn is gone.
GiveUp(a) == Becomes(a, "held", "over")

End(a) == Becomes(a, "alive", "over")

AttemptsNext ==
    \/ \E t \in Ticket, k \in 0..MaxAttempts : Take(t, k)
    \/ \E a \in Attempt : Launch(a) \/ GiveUp(a) \/ End(a)

AttemptsSpec == AttemptsInit /\ [][AttemptsNext]_attempt
=============================================================================
