---------------------------- MODULE ExtentCurve -----------------------------
(***************************************************************************)
(* PolyCurve (source/polycurve.cpp) as the aging scenario uses it: degree  *)
(* 1, points averaged in groups.  An average is kept as the sum of its     *)
(* group, which is the same curve on another scale: the x axis is scaled   *)
(* with the largest point, so the slope does not depend on the unit of y.  *)
(* The normal equations are solved exactly.                                *)
(* Operators marked "Fault:" are not part of the model; the mutation runs  *)
(* put them in place of the operator that follows.                         *)
(***************************************************************************)
EXTENDS Integers, Sequences, FiniteSetsExt

CONSTANTS Subsampling,     \* values averaged to one point (10)
          MinPoints,       \* the curve is judged when it has more points (10)
          Rise, Run        \* the tangent of "rapid-aging-threshold" is Rise / Run

ASSUME CurveAssumption ==
  /\ Subsampling \in Nat \ {0} /\ MinPoints \in Nat \ {0}
  /\ Rise \in Nat /\ Run \in Nat \ {0}

\* addPoint: buffer holds the values of a group until it is full.
EmptyCurve == [points |-> <<>>, buffer |-> <<>>]

SumOf(s) == MapThenSumSet(LAMBDA i : s[i], DOMAIN s)

AddPoint(curve, y) ==
  LET group == Append(curve.buffer, y) IN
  IF Len(group) = Subsampling
  THEN [points |-> Append(curve.points, SumOf(group)), buffer |-> <<>>]
  ELSE [curve EXCEPT !.buffer = group]

\* maximum_value: the largest point.
Largest(y) == Max({y[i] : i \in DOMAIN y})

\* fitPolyCurve for the n points y: the matrix ((n, Sx), (Sx, Sxx)) and the
\* right-hand side (Sy, Sxy).  Point i of the code is point i + 1 here, and its
\* x is i * Largest(y) / n.  XStep times n is kept whole.
\* Fault: the x axis is not scaled.
Unscaled(y) == Len(y)
XSpan(y) == Largest(y)

Index(i) == i - 1
Sx(y)  == SumOf([i \in DOMAIN y |-> Index(i)])
Sxx(y) == SumOf([i \in DOMAIN y |-> Index(i) * Index(i)])
Sy(y)  == SumOf(y)
Sxy(y) == SumOf([i \in DOMAIN y |-> Index(i) * y[i]])

\* slope() is SlopeNumerator / SlopeDenominator, and 0 when all x coincide (the
\* factorisation leaves the coefficients of a zero pivot at zero).
SlopeNumerator(y)   == Len(y) * (Len(y) * Sxy(y) - Sx(y) * Sy(y))
SlopeDenominator(y) == XSpan(y) * (Len(y) * Sxx(y) - Sx(y) * Sx(y))

\* slopeAngle() < rapid-aging-threshold, for a threshold above 0.
Flat(y) ==
  \/ SlopeDenominator(y) = 0
  \/ SlopeDenominator(y) > 0 /\ SlopeNumerator(y) * Run < SlopeDenominator(y) * Rise
  \/ SlopeDenominator(y) < 0 /\ SlopeNumerator(y) * Run > SlopeDenominator(y) * Rise

\* Enough points to judge, and the verdict.
Judged(y) == Len(y) > MinPoints
Saturated(y) == Judged(y) /\ Flat(y)
=============================================================================
