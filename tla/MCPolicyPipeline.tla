-------------------------- MODULE MCPolicyPipeline --------------------------
\* Two devices and one or two addresses, as model values, for TLC.
EXTENDS PolicyPipeline, TLC
=============================================================================
