------------------------------- MODULE SeqNum -------------------------------
(***************************************************************************)
(* How a TCP reply names the request it answers (ipid/seqnum/seqnum.go,    *)
(* ipid/tcp/tcp.go, extractTCP of ipid/receiver/receiver.go): sequence     *)
(* numbers that start at a random offset and wrap at the end of a word.    *)
(***************************************************************************)
EXTENDS Integers

CONSTANT WordSize   \* number of sequence numbers (2^32)

ASSUME WordSizeAssumption == WordSize \in Nat \ {0}

NoRequest == -1

\* The offsets Run draws from for so many requests.
AnyOffset(requests) == 0 .. WordSize - 1

Offsets(requests) == 0 .. WordSize - 2 - requests

\* Without a connection requests are numbered through.
Sequence(offset, seq) == (offset + seq) % WordSize

\* Over connections each of them counts its own requests.
TCPSequenceNumber(offset, seq, connections) ==
    (offset + (seq % connections) + (seq \div connections)) % WordSize

\* The peer acknowledges the SYN or the byte of a request.
Acknowledged(sequence) == (sequence + 1) % WordSize

ExtractTCP(acknowledgment, offset) ==
    IF acknowledgment <= offset THEN NoRequest ELSE acknowledgment - 1 - offset

\* The reply's port gives the connection, its acknowledgment the request.
FromTCPAcknowledgment(acknowledgment, offset, port, connections, requests) ==
    LET minimum == (offset + port + 1) % WordSize
        request == acknowledgment - minimum
    IN  IF port \in 0 .. connections - 1 /\ acknowledgment >= minimum /\ request < requests
        THEN request * connections + port
        ELSE NoRequest

\* A reply is attributed to the request it answers, for every offset that Run may draw
\* although numbers wrap.
Recovers(offset, seq, connections, requests) ==
    LET ack == Acknowledged(TCPSequenceNumber(offset, seq, connections))
    IN  /\ ExtractTCP(Acknowledged(Sequence(offset, seq)), offset) = seq
        /\ FromTCPAcknowledgment(ack, offset, seq % connections, connections, requests) = seq

RequestRecovered(connections, requests) ==
    \A offset \in Offsets(connections * requests), seq \in 0 .. connections * requests - 1 :
        Recovers(offset, seq, connections, requests)
=============================================================================
