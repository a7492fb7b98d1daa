----------------------------- MODULE MCStorage -----------------------------
EXTENDS Storage

MCMutexes == Range(Locks)
MCRank == [m \in MCMutexes |-> CHOOSE i \in DOMAIN Locks : Locks[i] = m]
MCPrio == [t \in Threads |-> CASE t = "tshell" -> 20 [] t = "bluetooth" -> 23 [] OTHER -> 25]
=============================================================================
