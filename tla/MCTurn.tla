--------------------------------- MODULE MCTurn ---------------------------------
(* Two messages of one conversation, a communicator and a CLI that is only asked to *)
(* put findings together, each with a tight limit.                                 *)
EXTENDS Turn

CONSTANTS cli, api

PoolOrder == <<cli, api>>
PoolClass == (cli :> "paid_subscription") @@ (api :> "free_limited")
PoolLimits == (cli :> [rpm |-> 0, rpd |-> 0, tpm |-> 0, tpd |-> 1])
           @@ (api :> [rpm |-> 2, rpd |-> 0, tpm |-> 0, tpd |-> 0])

\* Only the CLI, without a limit.
CLIOnly == <<cli>>
CLIClass == cli :> "paid_subscription"
NoLimits == cli :> [rpm |-> 0, rpd |-> 0, tpm |-> 0, tpd |-> 0]
TurnSymmetry == Permutations(Turns)
=================================================================================
