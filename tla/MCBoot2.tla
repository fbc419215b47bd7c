------------------------------ MODULE MCBoot2 ------------------------------
\* Boot2 on small maps: regions of every type, one of them large enough to
\* overflow a sum, one of four gigabytes and more.
EXTENDS Boot2

MCEntry ==
    {[base |-> 0,       h |-> 0, l |-> 655360,  type |-> 1],
     [base |-> 1048576, h |-> 0, l |-> WORD - 10, type |-> 1],
     [base |-> 4096,    h |-> 0, l |-> 37,     type |-> 3],
     [base |-> 983040,  h |-> 1, l |-> 100,      type |-> 2]}
=============================================================================
