------------------------------ MODULE Decimals ------------------------------
(***************************************************************************)
(* The decimal floating-point numbers of Python's decimal module, as far   *)
(* as the accounting kernel uses them: addition, subtraction, product and  *)
(* quotient, each rounded half-even to Digits significant digits (the      *)
(* "prec" of the local context).  A number is coefficient * 10^exponent    *)
(* in lowest form, so that two numbers are equal exactly when their values *)
(* are.  ExactSum and ExactProduct are the exact operations, without the rounding.    *)
(***************************************************************************)
EXTENDS Integers

CONSTANT Digits

ASSUME DigitsAssumption == Digits \in Nat \ {0}

Number == [c : Int, e : Int]

Zero == [c |-> 0, e |-> 0]

Magnitude(i) == IF i < 0 THEN -i ELSE i

\* Number of decimal digits of a coefficient (nine at most: TLC's integers have 32 bits).
Width(c) == CHOOSE n \in 0..9 : Magnitude(c) < 10 ^ n /\ (n = 0 \/ 10 ^ (n - 1) <= Magnitude(c))

\* c * 10^e with the trailing zeros of c moved into the exponent.
Lowest(c, e) ==
    IF c = 0 THEN Zero
    ELSE LET k == CHOOSE k \in 0..Width(c) : c % 10 ^ k = 0 /\ c % 10 ^ (k + 1) # 0
         IN  [c |-> c \div 10 ^ k, e |-> e + k]

FromInt(i) == Lowest(i, 0)

HalfEven(c, unit) ==
    LET q == Magnitude(c) \div unit
        r == Magnitude(c) % unit
        up == 2 * r > unit \/ (2 * r = unit /\ q % 2 = 1)
        m == q + (IF up THEN 1 ELSE 0)
    IN  IF c < 0 THEN -m ELSE m

Rounded(x) ==
    LET over == Width(x.c) - Digits
    IN  IF over <= 0 THEN x ELSE Lowest(HalfEven(x.c, 10 ^ over), x.e + over)

ExactSum(x, y) ==
    LET e == IF x.e < y.e THEN x.e ELSE y.e
    IN  Lowest(x.c * 10 ^ (x.e - e) + y.c * 10 ^ (y.e - e), e)

ExactProduct(x, y) == Lowest(x.c * y.c, x.e + y.e)

Negated(x) == [x EXCEPT !.c = -@]

Add(x, y) == Rounded(ExactSum(x, y))

Subtract(x, y) == Rounded(ExactSum(x, Negated(y)))

Multiply(x, y) == Rounded(ExactProduct(x, y))

\* The quotient by a positive integer: enough digits to round, and a last digit
\* that is not zero when a remainder is left.
Divide(x, n) ==
    LET wanted == Digits + Width(n) + 1 - Width(x.c)
        shift == IF wanted < 0 THEN 0 ELSE wanted
        scaled == Magnitude(x.c) * 10 ^ shift
        sticky == IF scaled % n = 0 THEN 0 ELSE 1
        q == (scaled \div n) * 10 + sticky
    IN  Rounded(Lowest(IF x.c < 0 THEN -q ELSE q, x.e - shift - 1))
=============================================================================
