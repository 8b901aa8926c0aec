----------------------------- MODULE MCSiteText ------------------------------
(* SiteText on a small instance: two editors, a text of the site and a text it
   no longer has.                                                          *)
EXTENDS SiteText, TLC

Symmetry == Permutations(Editors)

=============================================================================
