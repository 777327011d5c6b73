--------------------------- MODULE MCIndexReading ---------------------------
\* The values TLC gives to the constants of IndexReading are in IST_read.cfg and
\* IST_reopen.cfg.
EXTENDS IndexReading

=============================================================================
