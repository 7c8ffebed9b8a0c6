------------------------- MODULE MCNvmFlushCache -------------------------
(* Four lines compete for two slots: evictions, ranges that wrap around the *)
(* table and lines noted twice all happen.                                  *)
EXTENDS NvmFlushCache
=============================================================================
