-------------------------- MODULE BudgetLadderProofs --------------------------
(* What every implementation of the budget ladder inherits from it.        *)
EXTENDS BudgetLadder, TLAPS

LEMMA LadderInit == Init => LadderInv
  BY DEF Init, LadderInv, TypeOK, Climbed, PassedWereGranted, ConfirmedAtTheTop

LEMMA LadderStep == LadderInv /\ [Next]_vars => LadderInv'
  <1> SUFFICES ASSUME LadderInv, [Next]_vars PROVE LadderInv'
    OBVIOUS
  <1>1. CASE UNCHANGED vars
    BY <1>1 DEF vars, LadderInv, TypeOK, Climbed, PassedWereGranted, ConfirmedAtTheTop
  <1>2. CASE Next
    <2>1. TypeOK'
      BY <1>2 DEF Next, TypeOK
    <2>2. ASSUME NEW t \in Trials, NEW r \in granted'[t]
          PROVE  Below[r] \subseteq passed'[t]
      <3>1. Grant(t) /\ Pass(t)
        BY <1>2 DEF Next
      <3>2. CASE r \in granted[t]
        BY <3>1, <3>2 DEF LadderInv, Climbed, Pass
      <3>3. CASE r \notin granted[t]
        BY <3>1, <3>3 DEF Grant, Pass
      <3> QED BY <3>2, <3>3
    <2>3. ASSUME NEW t \in Trials
          PROVE  passed'[t] \subseteq granted'[t]
      BY <1>2 DEF Next, Grant, Pass, LadderInv, PassedWereGranted
    <2>4. ASSUME NEW t \in confirmed'
          PROVE  Top \subseteq passed'[t]
      <3>1. t \in Trials /\ Pass(t) /\ Confirm(t)
        BY <1>2 DEF Next
      <3> QED BY <3>1 DEF Pass, Confirm, LadderInv, ConfirmedAtTheTop
    <2> QED BY <2>1, <2>2, <2>3, <2>4
            DEF LadderInv, Climbed, PassedWereGranted, ConfirmedAtTheTop
  <1> QED BY <1>1, <1>2 DEF Next

(* Whoever holds a rung has passed all the rungs below it, whoever passed  *)
(* a rung held it, and whoever is confirmed has passed the top: the three  *)
(* consequences of the ladder specification the saved study implements.    *)
THEOREM LadderIsSafe == Spec => []LadderInv
  BY LadderInit, LadderStep, PTL DEF Spec
=============================================================================
