---------------------- MODULE MCConcurrentMergeScheduler ----------------------
\* The threads, files and proposals of ConcurrentMergeScheduler are given in CMS_all.cfg
\* and CMS_stranded.cfg.
EXTENDS ConcurrentMergeScheduler

=============================================================================
