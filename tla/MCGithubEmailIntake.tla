------------------------ MODULE MCGithubEmailIntake ------------------------
(* The intake on an email saved once or twice, another about the same      *)
(* event in the library, and one there that cannot be parsed.              *)
EXTENDS GithubEmailIntake, TLC

CONSTANTS f1, f2, s1, s2, m1, m2, m3, blank, opened, garbled, other,
          sweep, server, tab

\* f1 and f2 are copies of one email.
MCMessageOf == [f \in Files |-> CASE f \in {f1, f2} -> m1 [] f = s1 -> m2 [] OTHER -> m3]
MCEventOf ==
    [m \in Messages |-> CASE m = m3 -> Garbled [] m = blank -> NotActionable [] OTHER -> opened]
=============================================================================
