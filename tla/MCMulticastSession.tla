------------------------ MODULE MCMulticastSession ------------------------
EXTENDS MulticastSession

\* the rows start with one address for both hosts, or with one each (it does
\* not matter which has which); the second multicast is still to be asked for
MCInit == /\ Init
          /\ ip \in {<<1, 1>>, <<1, 2>>}
          /\ rows[2][1] = "absent"
MCSpec == MCInit /\ [][Next]_vars /\ Fairness

(* AwaitedInStep: the counts that Worker::session gives a transfer never   *)
(* let it start a file without a receiver that has every earlier one       *)
(* (InStepAreAwaited, and the worker's state is well formed, TypeOK).      *)
AwaitedInStep == TypeOK /\ InStepAreAwaited

(* WorkerMovesOn: the worker neither stays with a multicast that was       *)
(* cancelled on every host, although its transfer might never end          *)
(* (CancelEndsTransfer), nor sleeps while multicasts are queued            *)
(* (QueueIsDrained): the wake-up of Notify is never lost.                  *)
WorkerMovesOn == CancelEndsTransfer /\ QueueIsDrained
=============================================================================
