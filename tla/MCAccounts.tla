----------------------------- MODULE MCAccounts -----------------------------
(* Accounts with two Google accounts that may assert either of two         *)
(* addresses, verified or not.                                             *)
EXTENDS Accounts, TLC

AnyClaim == [subject : Subjects, email : Emails, verified : BOOLEAN]

Symmetric == Permutations(Browsers) \cup Permutations(Calls) \cup Permutations(States)
    \cup Permutations(Subjects) \cup Permutations(Emails) \cup Permutations(Users)

=============================================================================
