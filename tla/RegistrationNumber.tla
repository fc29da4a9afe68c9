-------------------------- MODULE RegistrationNumber --------------------------
(***************************************************************************)
(* The number predicates and projectors of                                 *)
(* src/evaluator/registration_number.rs, as the loops and closed forms the *)
(* code computes them with.  The caches around them memoise pure functions *)
(* and are left out.                                                       *)
(***************************************************************************)
EXTENDS Integers

CONSTANTS
    MaxNumber,  \* bound: the registration numbers examined
    MaxFib,     \* bound: the Fibonacci sequence is followed up to this index
    MaxUsize    \* usize::MAX, scaled down; arithmetic beyond it panics

VARIABLE number   \* a player's registration number

IsMultipleOf(n, d) == n % d = 0

IsPrimeStrict(n) ==
    \/ n \in {2, 3}
    \/ /\ n > 1 /\ ~IsMultipleOf(n, 2) /\ ~IsMultipleOf(n, 3)
       /\ \A i \in {6 * k - 1 : k \in 1..(n \div 6 + 1)} :
            i * i < n => ~IsMultipleOf(n, i) /\ ~IsMultipleOf(n, i + 2)

(* internal_is_prime: 2 and 3 apart, trial division by i and i + 2 for     *)
(* i = 5, 11, 17, ... while i * i <= n.                                    *)
IsPrime(n) ==
    \/ n \in {2, 3}
    \/ /\ n > 1 /\ ~IsMultipleOf(n, 2) /\ ~IsMultipleOf(n, 3)
       /\ \A i \in {6 * k - 1 : k \in 1..(n \div 6 + 1)} :
            i * i <= n => ~IsMultipleOf(n, i) /\ ~IsMultipleOf(n, i + 2)

(* num_integer::Roots::sqrt: the root rounded down.                        *)
Sqrt(n) == CHOOSE r \in 0..n : r * r <= n /\ n < (r + 1) * (r + 1)

(* internal_is_perfect_square.                                             *)
IsPerfectSquare(n) == Sqrt(n) * Sqrt(n) = n

Panic == "panic"

(* internal_is_fibonacci: 5n^2 - 4 is computed only when 5n^2 + 4 is not a *)
(* square.  An operation that leaves usize panics.                         *)
IsFibonacci(n) ==
    LET square == 5 * n * n IN
    IF square + 4 > MaxUsize THEN Panic
    ELSE IF IsPerfectSquare(square + 4) THEN TRUE
    ELSE IF square < 4 THEN Panic
    ELSE IsPerfectSquare(square - 4)

(* digit_sum: the remainders by ten while something is left.               *)
DigitSum[n \in Nat] == IF n > 0 THEN (n % 10) + DigitSum[n \div 10] ELSE 0

-----------------------------------------------------------------------------
NumberInit == number = 0

NumberNext == number < MaxNumber /\ number' = number + 1

NumberSpec == NumberInit /\ [][NumberNext]_number

-----------------------------------------------------------------------------
(* The Fibonacci numbers by their recurrence.                              *)
Fib[i \in 0..MaxFib] == IF i < 2 THEN i ELSE Fib[i - 1] + Fib[i - 2]

Fibonaccis == {Fib[i] : i \in 0..MaxFib}

(* The sequence is followed past every number examined.                    *)
ASSUME NumberAssumption ==
    /\ MaxNumber \in Nat /\ MaxUsize \in Nat
    /\ MaxFib \in Nat /\ MaxNumber <= Fib[MaxFib]

(* The shortcuts of the predicates are exact on every registration number  *)
(* whose 5n^2 + 4 fits a usize: the primes are the numbers with two        *)
(* divisors, the squares those of a number, the Fibonacci numbers those of *)
(* the recurrence, and digit_sum adds the decimal digits.  No subtraction  *)
(* underflows on the way, for number 0 because the test before it already  *)
(* succeeds.                                                               *)
NumberPredicatesExact ==
    LET n == number
        divisors == {d \in 1..n : IsMultipleOf(n, d)} IN
    5 * n * n + 4 <= MaxUsize =>
        /\ IsPrime(n) = (n > 1 /\ divisors = {1, n})
        /\ IsPerfectSquare(n) = (\E r \in 0..n : r * r = n)
        /\ IsFibonacci(n) = (n \in Fibonaccis)
        /\ \A h, t, u \in 0..9 : n = 100 * h + 10 * t + u => DigitSum[n] = h + t + u
=============================================================================
