------------------------------ MODULE MCPgraph ------------------------------
(* Methods of each kind against a guest that may write registers of        *)
(* PGRAPH, PMC and PCRTC at any time and in any order.                     *)
EXTENDS Pgraph

MCMethods ==
    [op : {"SET_OBJECT"}, channel : Channels] \cup [op : {"NO_OPERATION"}, parameter : {0, 1}]
      \cup [op : {"SET_FLIP_READ"}, parameter : {0, 9}] \cup [op : {"SET_FLIP_WRITE"}, parameter : {0}]
      \cup [op : {"SET_FLIP_MODULO"}, parameter : {2}]
      \cup [op : {"FLIP_INCREMENT_WRITE", "FLIP_STALL"}]
      \cup [op : {"SEMAPHORE_RELEASE"}, parameter : {0}]

(* The line of PMC is of no consequence here: its own enable bit stays     *)
(* clear, and those of the units are only ever set.                        *)
MCWrites ==
    [reg : {"PGRAPH_INTR"}, val : SUBSET PgraphIntr \ {{}}]
      \cup [reg : {"PGRAPH_INTR_EN"}, val : {PgraphIntr}]
      \cup [reg : {"PGRAPH_FIFO", "CTX_CONTROL"}, val : BOOLEAN]
      \cup [reg : {"PGRAPH_INCREMENT", "PCRTC_INTR", "PFIFO"}]
      \cup [reg : {"CTX_TRIGGER"}, val : Channels]
      \cup [reg : {"PMC_INTR_EN"}, val : {FALSE}]
=============================================================================
