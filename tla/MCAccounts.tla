----------------------------- MODULE MCAccounts -----------------------------
EXTENDS Accounts, TLC

\* Goroutines, requests, keys and addresses are interchangeable.
Symmetry == Permutations(Senders) \cup Permutations(Requests)
              \cup Permutations(KeyIds) \cup Permutations(Emails)
=============================================================================
