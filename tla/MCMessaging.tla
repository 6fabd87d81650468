------------------------------- MODULE MCMessaging -------------------------------
EXTENDS Messaging
=============================================================================
