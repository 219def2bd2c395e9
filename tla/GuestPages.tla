----------------------------- MODULE GuestPages -----------------------------
(* What the two loops over guest memory share: pages, scaled down, and the *)
(* values they return.                                                     *)
EXTENDS Integers, Sequences, FiniteSets

CONSTANT PageSize   \* bytes of a page

ASSUME PageAssumption == PageSize \in Nat \ {0}

Running == 0        \* no result yet
EFAULT == -14
EINVAL == -22

Least(s) == CHOOSE x \in s : \A y \in s : x <= y
=============================================================================
