------------------------------ MODULE MCListing ------------------------------
(* Four rows, one of them a trace, and pages of two: two ticks of the database *)
(* clock to a millisecond, and two milliseconds.                               *)
EXTENDS Listing
==============================================================================
