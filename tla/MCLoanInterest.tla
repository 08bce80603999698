--------------------------- MODULE MCLoanInterest ---------------------------
(***************************************************************************)
(* A small instance of LoanInterest for TLC.                               *)
(***************************************************************************)
EXTENDS LoanInterest

\* Half and all of the year's growth.
HalfOrAll == {5, 10}
\* No fee, and one that leaves fractions of tokens.
NoneOrSome == {0, 3}
SmallOrLarge == {2, 7}
=============================================================================
