------------------------------ MODULE MCParser ------------------------------
\* Constants of Parser for TLC: what clients send to a buffer of 18 bytes.
EXTENDS Parser

Crlf == <<"CR", "LF">>
Ending == Crlf \o <<"X">> \o Crlf \o Crlf
UpToLength(n, bytes) == UNION {[1..k -> bytes] : k \in 0..n}

\* Separators anywhere, and up to the end of a full buffer.
Cuts(n) == [1..n -> {"CR", "LF", "X"}]
FullBuffers(n) == {<<"X", "X">> \o Crlf \o [i \in 1..14 - n |-> "X"] \o end : end \in Cuts(n)}

\* Complete requests with any start line, and with any query.
Lines(n) == {line \o Ending : line \in UpToLength(n, {"M", "X", "SP", "?"})}
Queries(n) == {<<"M", "SP", "X", "?">> \o text \o <<"SP", "X">> \o Ending :
                  text \in UpToLength(n, {"X", "&", "="})}

AllInputs == Cuts(8) \cup FullBuffers(5) \cup Lines(4) \cup Queries(5)
ShortInputs == Cuts(8)
=============================================================================
