------------------------------ MODULE RiskModel ------------------------------
(***************************************************************************)
(* prism::risk::RiskModel (src/PRISM/src/risk/risk_model.cpp): the         *)
(* escalation with hysteresis.  Probabilities are percentages; a caller    *)
(* hands in the probability each of the two detectors' scores comes to     *)
(* after the sigmoid, which is increasing and keeps their order.           *)
(***************************************************************************)
EXTENDS Integers

VARIABLE isOn   \* isOn_

tauOn  == 70
tauOff == 50
tauMedium == 40

\* std::max(p_hst, p_burst)
MaxOf(pHst, pBurst) == IF pHst >= pBurst THEN pHst ELSE pBurst

\* Mutant: nothing ends an escalation.
NextOn_Sticky(p) == isOn \/ p >= tauOn

\* Off until tauOn is reached, on until tauOff is.
NextOn(p) ==
  \/ ~isOn /\ p >= tauOn
  \/ isOn /\ ~(p <= tauOff)

\* The decision, from isOn_ as the evaluation leaves it.
Decision(on, p) ==
  [level          |-> IF on THEN "High" ELSE IF p > tauMedium THEN "Medium"
                                        ELSE "Low",
   restrictWrites |-> on]

Decisions == [level : {"Low", "Medium", "High"}, restrictWrites : BOOLEAN]

\* evaluate, with the decision it returns.
Evaluate(pHst, pBurst, decision) ==
  LET p == MaxOf(pHst, pBurst)
  IN  /\ isOn' = NextOn(p)
      /\ decision = Decision(NextOn(p), p)
=============================================================================
