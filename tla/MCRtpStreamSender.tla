--------------------------- MODULE MCRtpStreamSender ---------------------------
(* An instance of RtpStreamSender: NACKs of one item, from the two numbers *)
(* before the wrap and the first after it, and NACKs of that item twice.   *)
EXTENDS RtpStreamSender

MCItems == [packet_id : {FirstSeq, FirstSeq + 1, 0}, bitmask : {{2}, {1, 2}}]
MCNacks == {<<i>> : i \in MCItems} \cup {<<i, i>> : i \in MCItems}

================================================================================
