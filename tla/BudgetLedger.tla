---------------------------- MODULE BudgetLedger ----------------------------
(***************************************************************************)
(* The multidimensional budget ledger of a Council run.                    *)
(*                                                                         *)
(* The code keeps seven counters behind one lock.  Here they are one       *)
(* record, and each method of the class is an operator from the ledger     *)
(* before the call to the ledger after it; the lock makes a call atomic,   *)
(* so a state machine that uses the ledger takes one step per call.        *)
(***************************************************************************)
EXTENDS Integers

CONSTANTS
  MaxCalls,          \* Budget.max_calls
  MaxTotalTokens,    \* Budget.max_total_tokens
  MaxCostMicrousd,   \* Budget.max_cost_microusd
  InputPrice,        \* Pricing.input_microusd_per_mtok
  OutputPrice,       \* Pricing.output_microusd_per_mtok
  TokensPerPriceUnit \* the 1_000_000 of the pricing unit

ASSUME BudgetAssumption ==
  /\ MaxCalls \in Nat
  /\ MaxTotalTokens \in Nat
  /\ MaxCostMicrousd \in Nat
  /\ InputPrice \in Nat
  /\ OutputPrice \in Nat
  /\ TokensPerPriceUnit \in Nat \ {0}

-----------------------------------------------------------------------------
(* Reported usage, reservations and the ledger itself. *)

Usage       == [input : Nat, output : Nat]
Reservation == [tokens : Nat, cost : Nat]
BudgetTotals == [calls : Nat, input : Nat, output : Nat, cost : Nat]

(* A record for the four _committed_ and one for the three _inflight_      *)
(* counters.                                                               *)
Ledger == [ committed : BudgetTotals,
            inflight  : [calls : Int, tokens : Int, cost : Int] ]

EmptyLedger ==
  [ committed |-> [calls |-> 0, input |-> 0, output |-> 0, cost |-> 0],
    inflight  |-> [calls |-> 0, tokens |-> 0, cost |-> 0] ]

CeilDiv(numerator, denominator) == -((-numerator) \div denominator)

DispatchCost(usage) ==
  CeilDiv(usage.input * InputPrice, TokensPerPriceUnit)
    + CeilDiv(usage.output * OutputPrice, TokensPerPriceUnit)

(* What a dispatch reserves: its estimated input and its whole output      *)
(* allowance, the "ceiling" at which an unknown bill is later committed.   *)
ReservationFor(ceiling) ==
  [ tokens |-> ceiling.input + ceiling.output, cost |-> DispatchCost(ceiling) ]

-----------------------------------------------------------------------------
(* The methods. *)

(* What counts against the caps: committed and in flight. *)
UsedCalls(l)  == l.committed.calls + l.inflight.calls
UsedTokens(l) == l.committed.input + l.committed.output + l.inflight.tokens
UsedCost(l)   == l.committed.cost + l.inflight.cost

(* Fault: admission asks whether the caps are already exceeded. *)
AdmitsAtCap(l, r) ==
  /\ UsedCalls(l) <= MaxCalls
  /\ UsedTokens(l) <= MaxTotalTokens
  /\ UsedCost(l) <= MaxCostMicrousd

(* reserve raises BudgetRejectedError otherwise. *)
Admits(l, r) ==
  /\ UsedCalls(l) + 1 <= MaxCalls
  /\ UsedTokens(l) + r.tokens <= MaxTotalTokens
  /\ UsedCost(l) + r.cost <= MaxCostMicrousd

Reserve(l, r) ==
  [ l EXCEPT !.inflight = [ calls  |-> @.calls + 1,
                            tokens |-> @.tokens + r.tokens,
                            cost   |-> @.cost + r.cost ] ]

(* _drop_inflight *)
Release(l, r) ==
  [ l EXCEPT !.inflight = [ calls  |-> @.calls - 1,
                            tokens |-> @.tokens - r.tokens,
                            cost   |-> @.cost - r.cost ] ]

Commit(l, r, usage, cost) ==
  [ Release(l, r) EXCEPT !.committed = [ calls  |-> @.calls + 1,
                                         input  |-> @.input + usage.input,
                                         output |-> @.output + usage.output,
                                         cost   |-> @.cost + cost ] ]

(* The breach a commit reports: honest totals above a hard cap. *)
Breached(l) ==
  \/ l.committed.calls > MaxCalls
  \/ l.committed.input + l.committed.output > MaxTotalTokens
  \/ l.committed.cost > MaxCostMicrousd

Totals(l) == l.committed
=============================================================================
