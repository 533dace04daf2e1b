------------------------- MODULE MCSessionLifecycle -------------------------
(* SessionLifecycle for TLC: the kinds of session and operator it runs.     *)
EXTENDS SessionLifecycle

Kind(git, remote, headless, requires, patient) ==
  [git |-> git, remote |-> remote, headless |-> headless,
   requiresWorktree |-> requires, patient |-> patient]

\* Local sessions in a repository, and a remote one, whose operator waits.
PatientKinds == {Kind(TRUE, FALSE, FALSE, FALSE, TRUE),
                 Kind(TRUE, FALSE, TRUE, TRUE, TRUE),
                 Kind(FALSE, TRUE, FALSE, FALSE, TRUE)}

ImpatientLocal == {Kind(TRUE, FALSE, FALSE, FALSE, FALSE)}
ImpatientHeadless == {Kind(TRUE, FALSE, TRUE, TRUE, FALSE)}
AllKinds == PatientKinds \cup ImpatientHeadless
=============================================================================
