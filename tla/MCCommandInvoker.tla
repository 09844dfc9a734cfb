-------------------------- MODULE MCCommandInvoker --------------------------
EXTENDS CommandInvoker
MCRequestIds == 1..(MaxInvokes + MaxEvents)
=============================================================================
