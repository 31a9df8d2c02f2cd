----------------------- MODULE MCLinkedBlockingQueue -----------------------
(* Two callers, one consumer, three entries and room for two: the queue     *)
(* fills, entries are reused while an old list is still being freed, and    *)
(* two late signals can be outstanding at once.                             *)
EXTENDS LinkedBlockingQueue
=============================================================================
