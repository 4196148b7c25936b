-------------------------- MODULE MCMailboxView ----------------------------
EXTENDS MailboxView, TLC

Symmetric == Permutations(Sessions)
=============================================================================
