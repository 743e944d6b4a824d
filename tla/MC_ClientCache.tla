--------------------------- MODULE MC_ClientCache ---------------------------
EXTENDS ClientCache

CONSTANTS c1, c2, s1, NoCl

MCCallers == {c1, c2}
MCSecrets == {s1}
MCDataKeys == {"kubeconfig", "custom"}

\* in-cluster, an unsupported kind, an empty secretRef, and kubeconfig
\* connections with the default and a custom data key
MCEnvs ==
  {[kind |-> "in-cluster", secretRef |-> "", key |-> ""],
   [kind |-> "token", secretRef |-> s1, key |-> ""],
   [kind |-> "kubeconfig", secretRef |-> "", key |-> ""],
   [kind |-> "kubeconfig", secretRef |-> s1, key |-> ""],
   [kind |-> "kubeconfig", secretRef |-> s1, key |-> "custom"]}
=============================================================================
