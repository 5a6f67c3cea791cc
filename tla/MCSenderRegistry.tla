-------------------------- MODULE MCSenderRegistry --------------------------
(* Instances of SenderRegistry for TLC.                                      *)
EXTENDS SenderRegistry

CONSTANTS s1, s2, n1

User(uid, form, name, active) == [uid |-> uid, form |-> form, name |-> name, active |-> active]
Table(r1, r2) == [r \in Ids |-> IF r = 1 THEN r1 ELSE r2]

\* Known by username only; an old form of the chat's id and a row of the same account
\* that is given up under the new one.
SomeTables == {
  Table(User(None, "canonical", n1, TRUE), None),
  Table(User(s1, "legacy", n1, TRUE), User(s1, "canonical", None, FALSE))}

\* An account is given up or entered again.
SomeEdits == {User(s2, "legacy", None, FALSE), User(s2, "canonical", None, TRUE)}

\* An account by its id, and one by its username, which may be the same.
SomeFiles == {<< <<1, User(s2, "canonical", None, TRUE)>>, <<2, User(None, "canonical", n1, TRUE)>> >>}
=============================================================================
