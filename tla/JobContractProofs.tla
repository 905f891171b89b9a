------------------------- MODULE JobContractProofs -------------------------
(* What the contract promises is true of the contract itself, so that what *)
(* implements it inherits the promise.                                     *)
EXTENDS JobContract, TLAPS

Promise == ContractTypeOK /\ OneWorkload

LEMMA PromiseKept ==
  ASSUME MaxRetries \in Nat, Promise, [ContractNext]_contractVars
  PROVE  Promise'
<1> USE DEF Promise, ContractTypeOK, OneWorkload, Phases
<1>1. CASE UNCHANGED contractVars BY <1>1 DEF contractVars
<1>2. ASSUME NEW j \in Jobs, Accept(j) \/ Claimed(j) \/ AskToStop(j) PROVE Promise'
  BY <1>2 DEF Accept, Claimed, AskToStop, Move
<1>3. ASSUME NEW j \in Jobs, Withdraw(j) PROVE Promise'
  BY <1>3 DEF Withdraw, Move
<1>4. ASSUME NEW j \in Jobs, PutBack(j) \/ Stopped(j) \/ Succeed(j) \/ Fail(j) PROVE Promise'
  BY <1>4 DEF PutBack, Stopped, Succeed, Fail, Move, Idle
<1>5. ASSUME NEW j \in Jobs, Retry(j) PROVE Promise'
  BY <1>5 DEF Retry, Move
<1>6. ASSUME NEW j \in Jobs, Start(j) PROVE Promise'
  BY <1>6 DEF Start, Idle
<1>7. ASSUME NEW j \in Jobs, End(j) PROVE Promise'
  BY <1>7 DEF End
<1> QED BY <1>1, <1>2, <1>3, <1>4, <1>5, <1>6, <1>7 DEF ContractNext

(* At most one workload of a job executes, for its current attempt, and    *)
(* only while the job is claimed or stopping.                              *)
THEOREM ContractKeepsPromise ==
  MaxRetries \in Nat => (ContractSpec => [](ContractTypeOK /\ OneWorkload))
<1>1. MaxRetries \in Nat /\ ContractInit => Promise
  BY DEF ContractInit, Promise, ContractTypeOK, OneWorkload, Phases
<1> QED
  <2> SUFFICES ASSUME MaxRetries \in Nat PROVE ContractSpec => []Promise
    BY DEF Promise
  <2>1. Promise /\ [ContractNext]_contractVars => Promise' BY PromiseKept
  <2> QED BY <1>1, <2>1, PTL DEF ContractSpec
=============================================================================
