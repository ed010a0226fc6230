------------------------------ MODULE MCSlhDsa ------------------------------
EXTENDS SlhDsa

\* The same FORS values with other unused bits, one other FORS value, another leaf, the
\* sibling tree with surplus bits in the leaf, a distant tree with surplus bits.
MCDigests ==
  {<<27, 5, 2>>, <<30, 5, 2>>, <<91, 5, 2>>, <<27, 5, 3>>, <<27, 4, 130>>, <<27, 250, 2>>}

\* Smallest and largest digits and checksum, and digits in between, in two orders.
MCOracles ==
  {<<<<0>>, <<255>>, <<27>>, <<228>>, <<85>>, <<170>>, <<1>>, <<64>>, <<254>>, <<191>>, <<99>>, <<16>>>>,
   <<<<254>>, <<27>>, <<0>>, <<16>>, <<255>>, <<99>>, <<64>>, <<228>>, <<85>>, <<1>>, <<191>>, <<170>>>>}
=============================================================================
