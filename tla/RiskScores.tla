------------------------------ MODULE RiskScores ------------------------------
(***************************************************************************)
(* How a window becomes two probabilities: FeatureExtractor::compute, the  *)
(* two detectors and RiskModel's sigmoid (src/PRISM/src/feature/,          *)
(* detection/, risk/).  Only the features the detectors read are here.     *)
(*                                                                         *)
(* A window is a set of records [n, timestamp, of]: the order of arrival,  *)
(* the instant in tenths of a second, and what the parser returned.        *)
(* Scores are in thousandths, rounded down.                                *)
(***************************************************************************)
EXTENDS Integers, Sequences, FiniteSets, FiniteSetsExt

CONSTANT
  VLog      \* the table of v * log2(v) in thousandths of a bit, for the counts v
            \* that a window can hold

\* v * log2(v) grows faster than linearly.
ASSUME VLogAssumption ==
  /\ VLog \in Seq(Nat)
  /\ \A a, b \in DOMAIN VLog :
       a + b <= Len(VLog) => VLog[a] + VLog[b] <= VLog[a + b]

Square(x) == x * x

\* Mutant: only requests count as writes.
Writes_Requests(W) == Cardinality({r \in W : r.of.isWrite /\ r.of.isRequest})

Writes(W) == Cardinality({r \in W : r.of.isWrite})

\* How many records have the most frequent function code.
MaxFunc(W) ==
  Max({Cardinality({q \in W : q.of.functionCode = r.of.functionCode}) : r \in W})

\* The Shannon entropy of the addresses, times the number of records.
AddressBits(W) ==
  VLog[Cardinality(W)]
    - MapThenSumSet(LAMBDA a : VLog[Cardinality({r \in W : r.of.address = a})],
                    {r.of.address : r \in W})

\* The records with one before them, and the time since that one: records are
\* in order of time, so it is the latest of the earlier ones.
Followers(W) == {r \in W : \E q \in W : q.n < r.n}

Gap(W, r) == r.timestamp - Max({q.timestamp : q \in {p \in W : p.n < r.n}})

\* Mutant: the mean is not taken off the gaps.
Variance_NoMean(W) ==
  Cardinality(Followers(W))
    * MapThenSumSet(LAMBDA r : Square(Gap(W, r)), Followers(W))

\* The variance of the gaps times the square of their number.
Variance(W) ==
  Cardinality(Followers(W))
      * MapThenSumSet(LAMBDA r : Square(Gap(W, r)), Followers(W))
    - Square(MapThenSumSet(LAMBDA r : Gap(W, r), Followers(W)))

\* Mutant: the write ratio has no weight of its own.
HstScore_NoWrites(W) ==
  LET count == Cardinality(W)
  IN  (2500 * MaxFunc(W) * count + 20 * Writes(W) * AddressBits(W))
        \div Square(count)

\* 50 * writeRatio + 2.5 * funcConc + 20 * entropy * writeRatio.
HstScore(W) ==
  LET count == Cardinality(W)
  IN  (50000 * Writes(W) * count + 2500 * MaxFunc(W) * count
         + 20 * Writes(W) * AddressBits(W)) \div Square(count)

\* |sigma^2 - 0.05^2| / 0.051 with sigma in seconds; 0.05 s is half a tick.
BurstScore(W) ==
  LET gaps == Cardinality(Followers(W))
      squared == IF gaps = 0 THEN 1 ELSE Square(gaps)
      excess == 4 * Variance(W) - squared
  IN  (2500 * (IF excess < 0 THEN -excess ELSE excess)) \div (51 * squared)

\* sigmoid(score / 10) as a percentage, to the precision evaluate needs: the
\* order against 70, 50 and 40, which the scores 14.237, 10 and 7.973 come to
\* (a score less than a thousandth above 10 counts as 10).
Percent(score) ==
  CASE score >= 14237 -> 70
    [] score > 10000 /\ score < 14237 -> 60
    [] score > 7972 /\ score <= 10000 -> 50
    [] OTHER -> 0
=============================================================================
