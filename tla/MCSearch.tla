------------------------------ MODULE MCSearch ------------------------------
(***************************************************************************)
(* An instance of NameSearch for TLC: four users, one of whom has a space  *)
(* in her name, and texts that match several of them, one or none.         *)
(***************************************************************************)
EXTENDS NameSearch

MCNames == {"ann", "joann", "bob", "ann zoe"}
MCTexts == {"", "n", "zoe", "bob", "("}
MCMatches == [t \in MCTexts |->
    CASE t = "n"   -> {"ann", "joann", "ann zoe"}
      [] t = "zoe" -> {"ann zoe"}
      [] t = "bob" -> {"bob"}
      [] OTHER     -> {}]
MCHolds == {<<n, n>> : n \in MCNames} \cup {<<"joann", "ann">>, <<"ann zoe", "ann">>}
MCWords == [n \in MCNames |-> IF n = "ann zoe" THEN {"ann", "zoe"} ELSE {n}]
=============================================================================
