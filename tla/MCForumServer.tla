---------------------------- MODULE MCForumServer ---------------------------
(* Model-checking instance of ForumServer: two authors, passports on both *)
(* sides of the reputation clamp and of the post_count escape hatch.      *)
EXTENDS ForumServer

CONSTANTS a, b

MCAuthor == {a, b}
MCPassports ==
  [identity : MCAuthor, reputation : {-150, -5, 50}, post_count : {0, 11}]
MCParentInputs == {None, 1, 2}
Symmetry == Permutations(MCAuthor)
=============================================================================
