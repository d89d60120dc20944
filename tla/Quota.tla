------------------------------- MODULE Quota -------------------------------
(***************************************************************************)
(* The quota of one live counter under UPDATE commands served by several   *)
(* threads: update_command::call finds the entry and calls                 *)
(* update_service::apply_quota_change, whose "decrease" loads the counter, *)
(* compares, and subtracts in a second atomic operation.  Nothing excludes *)
(* the UPDATE of another connection in between.                            *)
(*                                                                         *)
(* supply, consumed and raced are history: what clients put into the       *)
(* counter, what they were told they took out of it, and whether a thread  *)
(* changed the counter between the two operations of another's decrease.   *)
(***************************************************************************)
EXTENDS Integers

CONSTANTS
  Worker,      \* threads that run io_context::run
  Amount,      \* request.value_ of the UPDATEs clients send
  Change,      \* change_types of the UPDATEs clients send
  VALUE,       \* 2^w, w the width of value_type
  MaxSupply,   \* bound on what clients put in
  MaxConsumed  \* bound on what clients take out

ASSUME QuotaAssumption ==
  /\ VALUE \in Nat \ {0}
  /\ Amount \subseteq 0 .. VALUE - 1
  /\ Change \subseteq {"patch", "increase", "decrease"}
  /\ MaxSupply \in Nat /\ MaxConsumed \in Nat

VARIABLES
  counter,   \* entry::counter_
  pc,        \* "idle", or "sub": the comparison succeeded, the subtraction is next
  request,   \* request.value_ of the decrease a thread is in
  supply, consumed, raced

vars == <<counter, pc, request, supply, consumed, raced>>

Value == 0 .. VALUE - 1

TypeOK ==
  /\ counter \in Value
  /\ pc \in [Worker -> {"idle", "sub"}]
  /\ request \in [Worker -> Value]
  /\ supply \in Nat /\ consumed \in Nat
  /\ raced \in BOOLEAN

\* INSERT of the counter with some quota.
Init ==
  /\ counter \in Amount
  /\ supply = counter
  /\ consumed = 0
  /\ pc = [w \in Worker |-> "idle"]
  /\ request = [w \in Worker |-> 0]
  /\ raced = FALSE

-----------------------------------------------------------------------------
\* Mutants: a signed counter; a counter that stops at zero.
WrapSigned(n) == n
WrapSaturated(n) == IF n < 0 THEN 0 ELSE IF n >= VALUE THEN n - VALUE ELSE n

\* The result of fetch_add or fetch_sub in value_type.
Wrap(n) == IF n < 0 THEN n + VALUE ELSE IF n >= VALUE THEN n - VALUE ELSE n

\* Another thread than w is between its comparison and its subtraction.
Overlaps(w) == \E x \in Worker \ {w} : pc[x] = "sub"

\* change_types::patch: counter_.store
Patch(w, v) ==
  /\ pc[w] = "idle"
  /\ v <= MaxSupply
  /\ counter' = v
  /\ supply' = v /\ consumed' = 0
  /\ raced' = (raced \/ Overlaps(w))
  /\ UNCHANGED <<pc, request>>

\* change_types::increase: counter_.fetch_add
Increase(w, v) ==
  /\ pc[w] = "idle"
  /\ supply + v <= MaxSupply
  /\ counter' = Wrap(counter + v)
  /\ supply' = supply + v
  /\ UNCHANGED <<pc, request, consumed, raced>>

\* Mutant: the comparison is off by one.
DecreaseLoadLoose(w, v) ==
  /\ pc[w] = "idle"
  /\ counter + 1 >= v
  /\ pc' = [pc EXCEPT ![w] = "sub"]
  /\ request' = [request EXCEPT ![w] = v]
  /\ UNCHANGED <<counter, supply, consumed, raced>>

\* change_types::decrease, first half: a load that finds too little makes the
\* UPDATE fail with no effect.
DecreaseLoad(w, v) ==
  /\ pc[w] = "idle"
  /\ counter >= v
  /\ pc' = [pc EXCEPT ![w] = "sub"]
  /\ request' = [request EXCEPT ![w] = v]
  /\ UNCHANGED <<counter, supply, consumed, raced>>

\* change_types::decrease, second half: counter_.fetch_sub, and success.
DecreaseSub(w) ==
  /\ pc[w] = "sub"
  /\ consumed + request[w] <= MaxConsumed
  /\ counter' = Wrap(counter - request[w])
  /\ consumed' = consumed + request[w]
  /\ pc' = [pc EXCEPT ![w] = "idle"]
  /\ request' = [request EXCEPT ![w] = 0]
  /\ raced' = (raced \/ Overlaps(w))
  /\ UNCHANGED supply

Next ==
  \E w \in Worker :
    \/ \E v \in Amount :
         \/ "patch" \in Change /\ Patch(w, v)
         \/ "increase" \in Change /\ Increase(w, v)
         \/ "decrease" \in Change /\ DecreaseLoad(w, v)
    \/ DecreaseSub(w)

Spec == Init /\ [][Next]_vars

-----------------------------------------------------------------------------
(***************************************************************************)
(* No update is lost whatever the interleaving: modulo the width of        *)
(* value_type the counter is what was put in less what was taken out.      *)
(***************************************************************************)
Conservation == counter = (supply - consumed) % VALUE

(***************************************************************************)
(* Clients are never granted more than was put in, and what is left in the *)
(* counter is covered too.  tests/features/state_management.cc:367-370 and *)
(* tests/actions/update.cc:137-149 expect a decrease beyond the quota to   *)
(* be refused.                                                             *)
(***************************************************************************)
NoOverdraft == consumed + counter <= supply

(***************************************************************************)
(* The overdraft has one cause, on any number of threads: a decrease or a  *)
(* patch that lands between the load (update_service.cpp:43) and the       *)
(* fetch_sub (line 45) of another decrease.  Increases are harmless there, *)
(* even those that wrap.                                                   *)
(***************************************************************************)
OverdraftNeedsRace == raced \/ NoOverdraft

\* The deployment with one pool thread (--threads 0).
SingleWorker == \A v, w \in Worker : v = w

\* The inductive invariant behind OverdraftNeedsRace.  The quota a decrease
\* found is still there, unless an increase wrapped: then the counter is a whole
\* VALUE below what was put in.
QuotaInv ==
  /\ TypeOK
  /\ raced \/ /\ NoOverdraft
              /\ \A w \in Worker : pc[w] = "sub" =>
                   counter >= request[w] \/ consumed + counter + VALUE <= supply
=============================================================================
