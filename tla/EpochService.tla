---------------------------- MODULE EpochService ----------------------------
(***************************************************************************)
(* What the simulator promises, without events, caches or memory: each     *)
(* node has a list of requests, every request is issued once, in list      *)
(* order, and completed once; and requests are served epoch by epoch, the  *)
(* next epoch opening only when nothing of the present one is left.        *)
(***************************************************************************)
EXTENDS Integers, Sequences, FiniteSets

VARIABLES
  epochs,   \* epochs[n] : the epoch of each request in node n's list
  epoch,    \* the open epoch, or -1 before the first
  issued,   \* issued[n] : how many requests of its list node n has issued
  open      \* the requests <<n, i>> issued and not completed

serviceVars == <<epochs, epoch, issued, open>>

Owners == DOMAIN epochs
NextEpochs == {epochs[n][issued[n] + 1] : n \in {m \in Owners : issued[m] < Len(epochs[m])}}

ServiceInit ==
  /\ epoch = -1
  /\ issued = [n \in Owners |-> 0]
  /\ open = {}

\* Nothing is open and nothing of the present epoch is left to issue: the least
\* epoch still waiting opens.
OpenNextEpoch ==
  /\ open = {}
  /\ epoch' \in NextEpochs
  /\ \A f \in NextEpochs : epoch < f /\ epoch' <= f
  /\ UNCHANGED <<epochs, issued, open>>

Issue(n) ==
  /\ issued[n] < Len(epochs[n])
  /\ epochs[n][issued[n] + 1] = epoch
  /\ issued' = [issued EXCEPT ![n] = @ + 1]
  /\ open' = open \cup {<<n, issued[n] + 1>>}
  /\ UNCHANGED <<epochs, epoch>>

CompleteOne(q) == open' = open \ {q} /\ UNCHANGED <<epochs, epoch, issued>>

ServiceNext ==
  \/ OpenNextEpoch
  \/ \E n \in Owners : Issue(n)
  \/ \E q \in open : CompleteOne(q)

\* The service never stops while it has work.
ServiceSpec ==
  ServiceInit /\ [][ServiceNext]_serviceVars /\ WF_serviceVars(ServiceNext)
=============================================================================
