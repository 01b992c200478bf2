--------------------------- MODULE MCPublication ---------------------------
(* Small instances of Publication.                                         *)
EXTENDS PublicationInv, TLC

CONSTANTS a, b, n1, u1, u2, u3, u4, p1, p2

(* One file at the start, at the first of two names.                       *)
OneFile == (a :> n1) @@ (b :> None)

(* The same file, and no other name.                                       *)
OnlyFile == a :> n1

(* The files of the start have the other content than a touched file.      *)
Contents == [n \in Name |-> CHOOSE c \in Bytes : c # Empty]

(* The processes are interchangeable, and so are the uuids not drawn yet.  *)
Symmetry == Permutations({p1, p2}) \cup Permutations({u1, u2, u3} \cap Uuid)

(* The same with one uuid more.                                            *)
WinnerSymmetry == Permutations({p1, p2}) \cup Permutations({u1, u2, u3, u4})

============================================================================
