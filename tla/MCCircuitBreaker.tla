---- MODULE MCCircuitBreaker ----
EXTENDS CircuitBreaker

\* Chat runs with a tuned app_config, embeddings with the defaults.
TwoConfigs ==
    { [threshold |-> 3, window |-> 3, base |-> 1, max |-> 3],
      [threshold |-> 2, window |-> 1, base |-> 1, max |-> 3] }

TwoPowers == [n \in 0..MaxLevel |-> 2^n]
====
