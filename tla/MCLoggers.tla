------------------------------- MODULE MCLoggers -------------------------------
(* A stdio logger on the standard streams, two adapters of spdlog sinks, one that
   failed to be made with a null sink and leaves its place to be moved into. *)
EXTENDS Loggers

CONSTANTS l1, l2, l3, l4, s1, s2, s3, s4

Stdio(min, color) == [kind |-> "stdio", min |-> min, color |-> color, out |-> Null, err |-> Null]
Spdlog(sink) == [kind |-> "spdlog", min |-> 0, color |-> "auto", out |-> sink, err |-> sink]

Configured == [l \in {l1, l2, l3, l4} |->
                  CASE l = l1 -> Stdio(1, "never")
                    [] l = l2 -> Spdlog(s3)
                    [] l = l3 -> Spdlog(s4)
                    [] l = l4 -> Spdlog(Null)]

Thresholds == [s \in Streams |-> IF s = s4 THEN 2 ELSE 0]
=============================================================================
