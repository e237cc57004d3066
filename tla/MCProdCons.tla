----------------------------- MODULE MCProdCons ----------------------------
EXTENDS ProdConsPipeline
MCThreads == {"suc1", "suc2", "tms1", "tms2", "mrg", "cons"}
MCStreams == {"suc1", "suc2", "tms1", "tms2", "mrg"}
MCTokens == {"suc1", "suc2"} \X Nat
=============================================================================
