------------------------------ MODULE MCRemote ------------------------------
(* A remote source with a scaled clock: two milliseconds to a centisecond and *)
(* four to a second, in six-bit integers. *)
EXTENDS Remote, Sequences

MCLength == SubSeq(<<2, 1>>, 1, MaxVersion)

\* Two ranges of backoff, of which neither contains the other.
Slow == [max_items |-> 2, interval_ms |-> 3, retry_min_ms |-> 2,
         retry_max_ms |-> 5, timeout_cs |-> 1]
Fast == [max_items |-> 1, interval_ms |-> 2, retry_min_ms |-> 1,
         retry_max_ms |-> 3, timeout_cs |-> 1]

Configured(t, c) ==
    [target |-> t, max_items |-> c.max_items, interval_ms |-> c.interval_ms,
     retry_min_ms |-> c.retry_min_ms, retry_max_ms |-> c.retry_max_ms,
     timeout_cs |-> c.timeout_cs]

MCConfig == {Configured(t, c) : t \in Target, c \in {Slow, Fast}}
=============================================================================
