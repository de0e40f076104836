---------------------------- MODULE MCPriceSync ----------------------------
\* Four days, the last a holiday; the prices of one product change.  Besides the
\* nightly run, an incremental job, one over everything and one for a single day.
EXTENDS PriceSync

CONSTANTS fund, bond

MCProducts == {fund, bond}
MCOpenDays == {1, 2, 3}
MCRequests ==
    {[kind |-> "incremental", asked |-> {fund}, from |-> 1, till |-> 1],
     [kind |-> "history", asked |-> MCProducts, from |-> 1, till |-> 4],
     [kind |-> "history", asked |-> {fund}, from |-> 2, till |-> 2]}
=============================================================================
