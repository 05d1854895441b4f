---------------------------- MODULE MCChatClient ----------------------------
EXTENDS ChatClient, TLC

Symmetry == Permutations(Accounts) \cup Permutations(Sockets)
=============================================================================
