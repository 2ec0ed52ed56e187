--------------------------- MODULE MCNotifications ---------------------------
(* Small instances of Notifications for TLC. *)
EXTENDS Notifications, TLC

\* Employees, logins, sessions and drivers differ only in name.
Symmetry ==
    Permutations(Employee) \cup Permutations(Login) \cup
    Permutations(Browser) \cup Permutations(Push)

=============================================================================
