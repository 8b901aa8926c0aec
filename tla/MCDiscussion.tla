---------------------------- MODULE MCDiscussion ----------------------------
(* Discussion with two threads, an administrator and a member.  The mixes   *)
(* bring together the operations that meet on the same rows; a state after  *)
(* a lost update is checked, and not explored any further.                  *)
EXTENDS Discussion, TLC

MCMixes == {
    {"create", "edit", "hook", "deletePost"},
    {"comment", "reply", "deleteComment", "editComment"},
    {"comment", "deletePost", "create"},
    {"comment", "reply", "deleteUser"},
    {"comment", "like", "deleteComment", "deleteUser"},
    {"like", "markRead", "deletePost"},
    {"comment", "initBadges"} }

\* A draft, a post to be published at 1, one that is published now
MCForms == {
    [published |-> FALSE, date |-> 0, tags |-> {}],
    [published |-> FALSE, date |-> 1, tags |-> {"t"}],
    [published |-> TRUE, date |-> 0, tags |-> {"t"}] }

Symmetry == Permutations(Workers)

Undisturbed == ~overtaken

=============================================================================
