----------------------------- MODULE PrimeField -----------------------------
(***************************************************************************)
(* Scalars and points of a prime-order group, for the two threshold        *)
(* schemes.  A scalar is a number below Order.  A point is written as its  *)
(* discrete logarithm, so that adding points is adding scalars, and the    *)
(* identity is 0; nothing in the modules that use this one takes a         *)
(* logarithm, they only add, scale and compare points.                     *)
(***************************************************************************)
EXTENDS Integers

CONSTANT Order   \* the order of the group (a small prime stands for it)

\* Order is a prime in which the participants 1, 2, 3 and their differences
\* are all different from zero.
ASSUME OrderIsPrime ==
    /\ Order \in Nat /\ Order > 3
    /\ \A d \in 2 .. Order - 1 : Order % d # 0

Scalars == 0 .. Order - 1

FieldInverse(x) == CHOOSE y \in Scalars : (x * y) % Order = 1

\* validate_participant: the participants of a 2-of-3 set.
Participants == 1 .. 3

\* f(x) = secret + coefficient * x, at a participant's number; of scalars the
\* share, of points the share's public key.
AtParticipant(secret, coefficient, p) == (secret + coefficient * p) % Order
=============================================================================
