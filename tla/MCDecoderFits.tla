---------------------------- MODULE MCDecoderFits ----------------------------
(* The traces of MCDecoder that come whole: what the theorems about the      *)
(* chunks and about the CSV files suppose is evaluated on them.              *)
EXTENDS MCDecoder

\* No read is larger than what the ring has free, no file is larger than the
\* ring, and every cell of a file can be read again.
ASSUME FitAssumption == ChunksFit /\ FilesFitColumns

=============================================================================
