-------------------------- MODULE MCAuditPipeline --------------------------
EXTENDS AuditPipeline

\* One handler of either kind before the save and after it.
MCPres  == <<"JOIN", "REQUIRES_NEW">>
MCPosts == <<"REQUIRES_NEW", "JOIN">>

\* Threads are interchangeable, and the runs check invariants only.
Symmetric == Permutations(Threads)
=============================================================================
