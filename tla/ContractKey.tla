---------------------------- MODULE ContractKey -----------------------------
(***************************************************************************)
(* Contract.Key (contract/contract.go), under which tickers are kept.  A   *)
(* contract is the fields the key is made from.  The legs of a combo have  *)
(* different conIDs: the order of equal ones after the sort is not defined *)
(* by the code.  Hashes stay far below 2^63 for the conIDs used.           *)
(***************************************************************************)
EXTENDS Integers, Sequences, SequencesExt

\* The legs' conIDs and ratios, in the order of the conIDs; not their actions.
bagHash(legs) ==
    LET sorted == SortSeq(legs, LAMBDA a, b : a.conID < b.conID)
    IN FoldLeft(LAMBDA h, leg : (h * 31 + leg.conID) * 31 + leg.ratio, 0, sorted)

\* Mutant: a continuous future has the key of the contract it stands for.
KeyOfConID(c) == IF c.secType = "BAG" THEN bagHash(c.legs) ELSE c.conID

KeyOf(c) ==
    CASE c.secType = "BAG"     -> bagHash(c.legs)
      [] c.secType = "CONTFUT" -> -c.conID
      [] OTHER                 -> c.conID
=============================================================================
