--------------------------- MODULE MailboxCacheMC ---------------------------
(* The model-checking instance of MailboxCache: two threads, two views.     *)
EXTENDS MailboxCache

CONSTANTS all, sent

TwoThreads == 1..2
OneThread == {1}
AnotherThread == {2}
TwoViews == {all, sent}
=============================================================================
