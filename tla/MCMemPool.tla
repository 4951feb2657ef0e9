------------------------------ MODULE MCMemPool -----------------------------
(* A pool with a single block of two bytes and one with two blocks of four; sizes   *)
(* below, at and between the pools' sizes, none, and above the largest.             *)
EXTENDS MemPool
MCBlkCnt == <<1, 2>>
MCBlkSize == <<2, 4>>
MCAsked == {-1, 0, 1, 2, 3, 4, 5}
=============================================================================
