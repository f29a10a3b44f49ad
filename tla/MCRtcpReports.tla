----------------------------- MODULE MCRtcpReports -----------------------------
(* Instances of RtcpReports: a sends the streams 1 and 2, of which b       *)
(* receives 1 only; a receives a stream that b does not send.              *)
EXTENDS RtcpReports

MCHost == {"a", "b"}
MCSends == [a |-> {1, 2}, b |-> {}]
MCReceives == [a |-> {3}, b |-> {1}]
MCLosses == <<{-9, 8}, {}, {0}>>

Compound(plan, before, after, whole) ==
    [plan |-> plan, before |-> before, after |-> after, whole |-> whole]
Other(type, count) == <<[type |-> type, count |-> count, blocks |-> <<>>, whole |-> TRUE]>>
MCCompounds ==
    [a |-> {Compound(<<"SR", "RR">>, <<>>, <<>>, TRUE),
            Compound(<<"SR">>, <<>>, Other("SDES", 1), TRUE),
            Compound(<<"SR">>, Other("SDES", 1), <<>>, TRUE),
            Compound(<<"SR">>, <<>>, Other("not RTCP", 0), TRUE)},
     b |-> {Compound(<<"RR", "RR", "RR">>, <<>>, <<>>, TRUE),
            Compound(<<"RR", "RR", "RR", "RR", "RR">>, <<>>, <<>>, TRUE),
            Compound(<<"RR">>, <<>>, Other("RTPFB", 1), TRUE),
            Compound(<<"RR">>, <<>>, <<>>, FALSE)}]
================================================================================
