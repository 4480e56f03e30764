--------------------------- MODULE DispatchBarrier ---------------------------
(***************************************************************************)
(* What the two one-shot commands (kaggle_push_once, kaggle_run_once)      *)
(* promise about a paid, non-idempotent call: the journal path is armed    *)
(* before the call, the call is made at most once per path, a path that    *)
(* was called stays armed whatever crashes, and at most one remote effect  *)
(* (a task version, a run) is ever paid for under one path.                *)
(***************************************************************************)
EXTENDS Naturals

CONSTANT Paths      \* the journal paths operators may name

VARIABLES
  armed,            \* the paths whose journal blocks a retry in every crash
  calls,            \* how many times each path's call was sent
  effects           \* how many remote effects each path's calls had

barrierVars == <<armed, calls, effects>>

BarrierInit ==
  /\ armed \subseteq Paths
  /\ calls = [p \in Paths |-> 0]
  /\ effects = [p \in Paths |-> 0]

(* The journal may be armed, or lose an arming no call relied on yet.      *)
Settle ==
  /\ armed' \in SUBSET Paths
  /\ \A p \in Paths : calls[p] > 0 => p \in armed'
  /\ UNCHANGED <<calls, effects>>

Send(p) ==
  /\ p \in armed
  /\ calls[p] = 0
  /\ calls' = [calls EXCEPT ![p] = 1]
  /\ UNCHANGED <<armed, effects>>

TakeEffect(p) ==
  /\ calls[p] = 1
  /\ effects[p] = 0
  /\ effects' = [effects EXCEPT ![p] = 1]
  /\ UNCHANGED <<armed, calls>>

BarrierNext == Settle \/ \E p \in Paths : Send(p) \/ TakeEffect(p)

BarrierSpec == BarrierInit /\ [][BarrierNext]_barrierVars
=============================================================================
