------------------------------- MODULE MCCascade -------------------------------
(* A root and two documents that refer to each other in every way. *)
EXTENDS Cascade, TLC

Row(publishable, held, version, mine) ==
  [there |-> TRUE, publishable |-> publishable, held |-> held, version |-> version, mine |-> mine]
MCSite == "r" :> 1 @@ "a" :> 1 @@ "b" :> 2
\* A later version refers to the same the other way round, or to nothing.
MCContents ==
  "r" :> {<<<<"a", "b">>, <<"b", "a">>>>, <<<<"a", "x">>, <<"x", "a">>>>, <<<<"x", "r">>, <<"b">>>>}
    @@ "a" :> {<<<<>>, <<"b">>>>, <<<<"b", "r">>, <<"r", "b">>>>, <<<<"x", "b">>, <<>>>>}
    @@ "b" :> {<<<<>>, <<"x">>>>, <<<<"a">>, <<>>>>}
Good == Row(TRUE, FALSE, 1, TRUE)
MCSituations ==
  "r" :> {Good, Row(TRUE, TRUE, 0, TRUE), Row(FALSE, TRUE, 1, TRUE)}
    @@ "a" :> {Good, Row(TRUE, FALSE, 1, FALSE), Row(TRUE, TRUE, 1, TRUE), Row(TRUE, TRUE, 0, TRUE)}
    @@ "b" :> {Good, Row(FALSE, FALSE, 1, TRUE), Row(TRUE, FALSE, 0, TRUE)}
================================================================================
