------------------------------- MODULE MCAccounts -------------------------------
(* Instances of Accounts for TLC. *)
EXTENDS Accounts, TLC

\* Users and requests are interchangeable.
Symmetry == Permutations(Users) \cup Permutations(Procs)

\* Holders of the first key are delegates; the second opens the route of
\* disable and nothing else.
DelegatePerms == {"admin.users.promote"}
DisablePerms == {"admin.users.disable"}

\* Each operation meets each other one that writes a column it reads.
AllMixes ==
  {{"disable", "enable", "delete", "restore", "temp_token"},
   {"update", "disable", "enable", "delete", "restore"},
   {"set_permissions", "set_permissions_bulk", "remove_permissions", "disable"}}

DisableOnly == {{"disable"}}
=============================================================================
