---------------------------- MODULE MCEventLedger ----------------------------
(***************************************************************************)
(* Small instances of EventLedger for TLC.  Users are interchangeable: the *)
(* ledger compares them only for equality.                                 *)
(***************************************************************************)
EXTENDS EventLedgerBook, TLC

UserSymmetry == Permutations(Users)
==============================================================================
