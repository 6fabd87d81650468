-------------------------------- MODULE MCBroker --------------------------------
EXTENDS Broker
=============================================================================
