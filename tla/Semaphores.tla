----------------------------- MODULE Semaphores -----------------------------
(***************************************************************************)
(* What the nucleus promises about semaphores, to the support level and to *)
(* the device handlers alike: a P takes a unit or waits behind those who   *)
(* came before, a V serves the first waiter or leaves a unit, a clock tick *)
(* releases every waiter at once, and the death of processes disturbs the  *)
(* order of nobody else.  Descriptors, ready queue, counters and CPU do    *)
(* not exist here; Nucleus implements this module, Support relies on it.   *)
(***************************************************************************)
EXTENDS ProcQueue

CONSTANTS Procs, Keys

VARIABLES
  alive,   \* the processes that exist
  value,   \* the integer of each semaphore
  queue    \* its waiters, first come first

vars == <<alive, value, queue>>

Waits(p) == \E k \in Keys : p \in Range(queue[k])

Init ==
  /\ alive \subseteq Procs
  /\ value \in [Keys -> Nat]
  /\ queue = [k \in Keys |-> <<>>]

Create(p) ==
  /\ p \in Procs \ alive
  /\ alive' = alive \cup {p}
  /\ UNCHANGED <<value, queue>>

P(p, k) ==
  /\ p \in alive
  /\ ~Waits(p)
  /\ \/ /\ value[k] > 0
        /\ value' = [value EXCEPT ![k] = @ - 1]
        /\ UNCHANGED queue
     \/ /\ value[k] <= 0
        /\ queue' = [queue EXCEPT ![k] = Append(@, p)]
        /\ UNCHANGED value
  /\ UNCHANGED alive

V(k) ==
  /\ \/ /\ queue[k] # <<>>
        /\ queue' = [queue EXCEPT ![k] = Tail(@)]
        /\ UNCHANGED value
     \/ /\ queue[k] = <<>>
        /\ value' = [value EXCEPT ![k] = @ + 1]
        /\ UNCHANGED queue
  /\ UNCHANGED alive

ReleaseAll(k) ==
  /\ queue' = [queue EXCEPT ![k] = <<>>]
  /\ UNCHANGED <<alive, value>>

Die(K) ==
  /\ K # {} /\ K \subseteq alive
  /\ alive' = alive \ K
  /\ queue' = [k \in Keys |-> Without(queue[k], K)]
  /\ UNCHANGED value

Next ==
  \/ \E p \in Procs : Create(p)
  \/ \E p \in Procs, k \in Keys : P(p, k)
  \/ \E k \in Keys : V(k) \/ ReleaseAll(k)
  \/ \E K \in SUBSET Procs : Die(K)

Spec == Init /\ [][Next]_vars
=============================================================================
