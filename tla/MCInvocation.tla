---------------------------- MODULE MCInvocation ----------------------------
EXTENDS InvocationProperties

MCInstances == {"command", "transaction"}
=============================================================================
