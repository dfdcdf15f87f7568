---------------------------- MODULE MCDirectory ----------------------------
(* The directory layer over an iFile of at most four inodes, with paths  *)
(* of one or two names drawn from two names.                              *)
EXTENDS Directory

CONSTANTS n1, n2

MCNames == {n1, n2}
====
