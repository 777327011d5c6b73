---------------------------- MODULE MCIndexStore ----------------------------
\* The values TLC gives to the constants of IndexStore are in IST_all.cfg.
EXTENDS IndexStore

=============================================================================
