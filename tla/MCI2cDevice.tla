----------------------------- MODULE MCI2cDevice -----------------------------
(***************************************************************************)
(* Bytes of three bits, so a chip address of two; eight registers with     *)
(* different contents, so that a byte from a wrong one shows.              *)
(***************************************************************************)
EXTENDS I2cDevice, TLC

Interchangeable == Permutations(Client)
Scrambled == [r \in Byte |-> (3 * r + 5) % 2^Bits]
=============================================================================
