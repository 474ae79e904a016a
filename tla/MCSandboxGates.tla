----------------------------- MODULE MCSandboxGates -----------------------------
EXTENDS SandboxGates

\* Every account of the gates that signs a transaction.
MCSigners ==
  {"test.near", "fresh", "caller", "unregistered", "resolver", "json-result"}
    \cup {"partial", "full", "malformed", "failed"}
    \cup {Contracts[i] : i \in DOMAIN Contracts} \cup DOMAIN AccountLength
==============================================================================
