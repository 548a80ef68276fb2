----------------------------- MODULE MCConverters -----------------------------
(* Instances of Converters for TLC. *)
EXTENDS Converters

\* Arrays of no, of odd and of even length; pairs in and out of order, equal
\* seconds, negative numbers, nanoseconds of a second and more.
SomeArrays ==
  { <<>>, <<1>>, <<1, 2, 0>>, <<0, 1>>, <<0, 2, 1, 0>>, <<1, 1, 1, 0>>, <<-1, 0, 0, -1>>, <<0, 3, 1, 1>> }

\* For the order of the numbers one array is enough.
OneArray == { <<0, 1>> }
=============================================================================
