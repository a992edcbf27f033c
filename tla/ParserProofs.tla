---------------------------- MODULE ParserProofs ----------------------------
(***************************************************************************)
(* Proofs about the request parser, for a buffer of any size, for whatever *)
(* the client sends and whichever allocations fail.                        *)
(***************************************************************************)
EXTENDS Parser, FlattenLemmas
LOCAL INSTANCE SequencesExt

USE ParserAssumption, RequestAssumption

-----------------------------------------------------------------------------
(* Bytes.                                                                  *)

\* The types of what is received.
BytesTypeOK ==
    /\ unsent \in Seq(AnyByte)
    /\ buffer \in Seq(AnyByte) /\ Len(buffer) <= BufferSize
    /\ state \in Finished \cup {"Empty", "AwaitingStartLine", "AwaitingHeaders", "CompleteHeaders"}
    /\ startLine \in AnyRange /\ headers \in AnyRange
    /\ parsing \in BOOLEAN

\* A piece of the bytes is a separator.
LEMMA SeparatorCut ==
    ASSUME NEW s \in Seq(AnyByte), NEW p \in 0..Len(s) - 2
    PROVE  SubSeq(s, p + 1, p + 2) = Separator
               <=> s[p + 1] = "CR" /\ s[p + 2] = "LF"
  <1>1. /\ p \in Int /\ p + 1 \in Int /\ p + 2 \in Int
        /\ \A i \in p + 1..p + 2 : s[i] \in AnyByte
    OBVIOUS
  <1> DEFINE cut == SubSeq(s, p + 1, p + 2)
  <1>2. /\ cut \in Seq(AnyByte) /\ Len(cut) = IF p + 1 <= p + 2 THEN p + 2 - (p + 1) + 1 ELSE 0
        /\ \A i \in 1..p + 2 - (p + 1) + 1 : cut[i] = s[p + 1 + i - 1]
    BY <1>1, SubSeqProperties
  <1> HIDE DEF cut
  <1>3. /\ p + 1 <= p + 2 /\ p + 2 - (p + 1) + 1 = 2
        /\ p + 1 + 1 - 1 = p + 1 /\ p + 1 + 2 - 1 = p + 2
    OBVIOUS
  <1>4. \A i \in 1..2 : cut[i] = s[p + 1 + i - 1]
    BY <1>2, <1>3
  <1>5. /\ cut \in Seq(AnyByte) /\ Len(cut) = 2
        /\ cut[1] = s[p + 1] /\ cut[2] = s[p + 2]
    BY <1>2, <1>3, <1>4
  <1>6. /\ Separator \in Seq(AnyByte) /\ Len(Separator) = 2
        /\ Separator[1] = "CR" /\ Separator[2] = "LF"
    BY DEF Separator, AnyByte
  <1>7. cut = Separator <=> \A i \in 1..2 : cut[i] = Separator[i]
    BY <1>5, <1>6, SeqEqual
  <1>8. \A i \in 1..2 : i = 1 \/ i = 2
    OBVIOUS
  <1> QED
    BY <1>5, <1>6, <1>7, <1>8 DEF cut

LEMMA DoubleSeparatorCut ==
    ASSUME NEW s \in Seq(AnyByte), NEW p \in 0..Len(s) - 4
    PROVE  SubSeq(s, p + 1, p + 4) = DoubleSeparator
               <=> s[p + 1] = "CR" /\ s[p + 2] = "LF" /\ s[p + 3] = "CR" /\ s[p + 4] = "LF"
  <1>1. /\ p \in Int /\ p + 1 \in Int /\ p + 4 \in Int
        /\ \A i \in p + 1..p + 4 : s[i] \in AnyByte
    OBVIOUS
  <1> DEFINE cut == SubSeq(s, p + 1, p + 4)
  <1>2. /\ cut \in Seq(AnyByte) /\ Len(cut) = IF p + 1 <= p + 4 THEN p + 4 - (p + 1) + 1 ELSE 0
        /\ \A i \in 1..p + 4 - (p + 1) + 1 : cut[i] = s[p + 1 + i - 1]
    BY <1>1, SubSeqProperties
  <1> HIDE DEF cut
  <1>3. /\ p + 1 <= p + 4 /\ p + 4 - (p + 1) + 1 = 4
        /\ p + 1 + 1 - 1 = p + 1 /\ p + 1 + 2 - 1 = p + 2 /\ p + 1 + 3 - 1 = p + 3 /\ p + 1 + 4 - 1 = p + 4
    OBVIOUS
  <1>4. \A i \in 1..4 : cut[i] = s[p + 1 + i - 1]
    BY <1>2, <1>3
  <1>5. /\ cut \in Seq(AnyByte) /\ Len(cut) = 4
        /\ cut[1] = s[p + 1] /\ cut[2] = s[p + 2] /\ cut[3] = s[p + 3] /\ cut[4] = s[p + 4]
    BY <1>2, <1>3, <1>4
  <1>6. /\ DoubleSeparator \in Seq(AnyByte) /\ Len(DoubleSeparator) = 4
        /\ DoubleSeparator[1] = "CR" /\ DoubleSeparator[2] = "LF" /\ DoubleSeparator[3] = "CR" /\ DoubleSeparator[4] = "LF"
    BY DEF DoubleSeparator, AnyByte
  <1>7. cut = DoubleSeparator <=> \A i \in 1..4 : cut[i] = DoubleSeparator[i]
    BY <1>5, <1>6, SeqEqual
  <1>8. \A i \in 1..4 : i = 1 \/ i = 2 \/ i = 3 \/ i = 4
    OBVIOUS
  <1> QED
    BY <1>5, <1>6, <1>7, <1>8 DEF cut

\* A separator is at a position, by the bytes there.
LEMMA SeparatorAt ==
    ASSUME buffer \in Seq(AnyByte), NEW from \in Nat, NEW p
    PROVE  p \in Occurrences(Separator, from)
               <=> p \in from..Length - 2 /\ At(p) = "CR" /\ At(p + 1) = "LF"
  <1>1. Length = Len(buffer) /\ Len(buffer) \in Nat /\ Len(Separator) = 2
    BY DEF Length, Separator
  <1>2. ASSUME p \in from..Length - 2
        PROVE  p \in 0..Len(buffer) - 2 /\ At(p) = buffer[p + 1] /\ At(p + 1) = buffer[p + 2]
    <2>1. p + 1 + 1 = p + 2
      BY <1>1, <1>2
    <2> QED
      BY <1>1, <1>2, <2>1 DEF At
  <1> QED
    BY <1>1, <1>2, SeparatorCut DEF Occurrences

LEMMA DoubleSeparatorAt ==
    ASSUME buffer \in Seq(AnyByte), NEW from \in Nat, NEW p
    PROVE  p \in Occurrences(DoubleSeparator, from)
               <=> /\ p \in from..Length - 4
                   /\ At(p) = "CR" /\ At(p + 1) = "LF" /\ At(p + 2) = "CR" /\ At(p + 3) = "LF"
  <1>1. Length = Len(buffer) /\ Len(buffer) \in Nat /\ Len(DoubleSeparator) = 4
    BY DEF Length, DoubleSeparator
  <1>2. ASSUME p \in from..Length - 4
        PROVE  /\ p \in 0..Len(buffer) - 4 /\ At(p) = buffer[p + 1] /\ At(p + 1) = buffer[p + 2]
               /\ At(p + 2) = buffer[p + 3] /\ At(p + 3) = buffer[p + 4]
    <2>1. p \in Int /\ p \in 0..Len(buffer) - 4
      BY <1>1, <1>2
    <2>2. p + 1 + 1 = p + 2 /\ p + 2 + 1 = p + 3 /\ p + 3 + 1 = p + 4
      BY <2>1
    <2>3. At(p) = buffer[p + 1] /\ At(p + 1) = buffer[p + 2]
      BY <2>2 DEF At
    <2>4. At(p + 2) = buffer[p + 3] /\ At(p + 3) = buffer[p + 4]
      BY <2>2 DEF At
    <2> QED
      BY <2>1, <2>3, <2>4
  <1>3. p \in Occurrences(DoubleSeparator, from)
            <=> p \in from..Length - 4 /\ SubSeq(buffer, p + 1, p + 4) = DoubleSeparator
    BY <1>1 DEF Occurrences
  <1>4. p \in from..Length - 4 =>
            (SubSeq(buffer, p + 1, p + 4) = DoubleSeparator
                <=> /\ buffer[p + 1] = "CR" /\ buffer[p + 2] = "LF"
                    /\ buffer[p + 3] = "CR" /\ buffer[p + 4] = "LF")
    BY <1>2, DoubleSeparatorCut
  <1> QED
    BY <1>2, <1>3, <1>4

\* The first of some positions.
LEMMA FirstIsLeast ==
    ASSUME NEW positions, positions \subseteq Nat, positions /= {}
    PROVE  First(positions) \in positions /\ \A q \in positions : First(positions) <= q
  BY LeastNumber DEF First

\* What has been received stays where it is.
LEMMA Received ==
    ASSUME BytesTypeOK, NEW n \in 1..Len(unsent), Receive(n)
    PROVE  /\ buffer' \in Seq(AnyByte) /\ unsent' \in Seq(AnyByte)
           /\ Length' = Length + n /\ Length' <= BufferSize /\ Length \in Nat
           /\ \A p \in 0..Length - 1 : At(p)' = At(p)
  <1>1. /\ buffer \in Seq(AnyByte) /\ unsent \in Seq(AnyByte)
        /\ n <= BufferSize - Length
        /\ buffer' = buffer \o SubSeq(unsent, 1, n)
        /\ unsent' = SubSeq(unsent, n + 1, Len(unsent))
    BY DEF BytesTypeOK, Receive
  <1>2. n \in Nat /\ n <= Len(unsent) /\ Len(unsent) \in Nat /\ Len(buffer) \in Nat /\ Length = Len(buffer)
    BY <1>1 DEF Length
  <1>3. \A i \in 1..Len(unsent) : unsent[i] \in AnyByte
    BY <1>1
  <1>4. unsent' \in Seq(AnyByte)
    <2>1. \A i \in n + 1..Len(unsent) : unsent[i] \in AnyByte
      BY <1>2, <1>3
    <2> QED
      BY <1>1, <1>2, <2>1, SubSeqProperties
  <1> DEFINE piece == SubSeq(unsent, 1, n)
  <1>5. piece \in Seq(AnyByte) /\ Len(piece) = n
    BY <1>2, <1>3, SubSeqProperties
  <1> HIDE DEF piece
  <1>6. /\ buffer \o piece \in Seq(AnyByte) /\ Len(buffer \o piece) = Len(buffer) + Len(piece)
        /\ \A i \in 1..Len(buffer) + Len(piece) :
              (buffer \o piece)[i] = IF i <= Len(buffer) THEN buffer[i] ELSE piece[i - Len(buffer)]
    BY <1>1, <1>5, ConcatProperties
  <1>7. buffer' = buffer \o piece
    BY <1>1 DEF piece
  <1>8. Length' = Length + n
    BY <1>2, <1>5, <1>6, <1>7 DEF Length
  <1>9. ASSUME NEW p \in 0..Length - 1 PROVE At(p)' = At(p)
    <2>1. p + 1 \in 1..Len(buffer) + Len(piece) /\ p + 1 <= Len(buffer)
      BY <1>2, <1>5
    <2> QED
      BY <1>6, <1>7, <2>1 DEF At
  <1> QED
    BY <1>1, <1>2, <1>4, <1>6, <1>7, <1>8, <1>9

\* What occurs in what has been received occurs there for good.
LEMMA OccurrencesStay ==
    ASSUME BytesTypeOK, NEW n \in 1..Len(unsent), Receive(n), NEW from \in Nat
    PROVE  /\ Occurrences(Separator, from) \subseteq Occurrences(Separator, from)'
           /\ Occurrences(DoubleSeparator, from) \subseteq Occurrences(DoubleSeparator, from)'
  <1>1. /\ buffer \in Seq(AnyByte) /\ buffer' \in Seq(AnyByte)
        /\ n \in Nat /\ Length = Len(buffer) /\ Length \in Nat /\ Length' = Len(buffer') /\ Length' = Length + n
        /\ \A p \in 0..Length - 1 : buffer'[p + 1] = buffer[p + 1]
    BY Received DEF BytesTypeOK, Length, At
  <1>2. Len(Separator) = 2 /\ Len(DoubleSeparator) = 4
    BY DEF Separator, DoubleSeparator
  <1>3. ASSUME NEW p \in Occurrences(Separator, from)
        PROVE  p \in Occurrences(Separator, from)'
    <2>1. p \in from..Length - 2 /\ SubSeq(buffer, p + 1, p + 2) = Separator
      BY <1>2 DEF Occurrences
    <2>2. /\ p \in from..Length' - 2
          /\ p \in 0..Len(buffer) - 2 /\ p \in 0..Len(buffer') - 2
          /\ p \in 0..Length - 1 /\ p + 1 \in 0..Length - 1 /\ p + 1 + 1 = p + 2
      BY <1>1, <2>1
    <2>3. buffer'[p + 1] = buffer[p + 1] /\ buffer'[p + 2] = buffer[p + 2]
      BY <1>1, <2>2
    <2>4. SubSeq(buffer', p + 1, p + 2) = Separator
      BY <1>1, <2>1, <2>2, <2>3, SeparatorCut
    <2> QED
      BY <1>2, <2>2, <2>4 DEF Occurrences
  <1>4. ASSUME NEW p \in Occurrences(DoubleSeparator, from)
        PROVE  p \in Occurrences(DoubleSeparator, from)'
    <2>1. p \in from..Length - 4 /\ SubSeq(buffer, p + 1, p + 4) = DoubleSeparator
      BY <1>2 DEF Occurrences
    <2>2. /\ p \in from..Length' - 4
          /\ p \in 0..Len(buffer) - 4 /\ p \in 0..Len(buffer') - 4
          /\ p \in 0..Length - 1 /\ p + 1 \in 0..Length - 1 /\ p + 1 + 1 = p + 2
          /\ p + 2 \in 0..Length - 1 /\ p + 2 + 1 = p + 3
          /\ p + 3 \in 0..Length - 1 /\ p + 3 + 1 = p + 4
      BY <1>1, <2>1
    <2>3. /\ buffer'[p + 1] = buffer[p + 1] /\ buffer'[p + 2] = buffer[p + 2]
          /\ buffer'[p + 3] = buffer[p + 3] /\ buffer'[p + 4] = buffer[p + 4]
      BY <1>1, <2>2
    <2>4. SubSeq(buffer', p + 1, p + 4) = DoubleSeparator
      <3>1. /\ buffer[p + 1] = "CR" /\ buffer[p + 2] = "LF"
            /\ buffer[p + 3] = "CR" /\ buffer[p + 4] = "LF"
        BY <1>1, <2>1, <2>2, DoubleSeparatorCut
      <3>2. /\ buffer'[p + 1] = "CR" /\ buffer'[p + 2] = "LF"
            /\ buffer'[p + 3] = "CR" /\ buffer'[p + 4] = "LF"
        BY <2>3, <3>1
      <3> QED
        BY <1>1, <2>2, <3>2, DoubleSeparatorCut
    <2> QED
      BY <1>2, <2>2, <2>4 DEF Occurrences
  <1> QED
    BY <1>3, <1>4

-----------------------------------------------------------------------------
(* The inductive invariant about the bytes: where the parser stands in them *)
(* before, at and after the end of the start line and that of the headers.  *)

Blank == {"CR", "LF", "SP"}

SkippedIsBlank == ~LineFound =>
    /\ startLine.startPos <= Length
    /\ \A p \in 0..startLine.startPos - 1 : At(p) \in Blank

LineIsEnded == LineFound =>
    /\ startLine.endPos + 1 \in Occurrences(Separator, 0)
    /\ headers.startPos = IF state = "Complete" THEN 0 ELSE startLine.endPos + 3

HeadersAreEnded == state = "CompleteHeaders" =>
    headers.endPos < Length /\ HeaderEnds(headers.startPos) /= {}

\* A call that has not returned is where all the bytes would have led it; one
\* that has is waiting for a start line, or settled.
CallFollowsBytes ==
    /\ startLine.startPos /= 0 => state = "AwaitingStartLine" /\ parsing /\ Visible(0) = {}
    /\ ~parsing => state \notin {"AwaitingHeaders", "CompleteHeaders"}
    /\ parsing /\ LineFound => HasLine /\ LineEnd = startLine.endPos + 1
    /\ parsing /\ state = "CompleteHeaders" => LineEnd > 1 /\ HasHeaders
    /\ parsing /\ state \in Finished => Deserved(state)

BytesIInv == /\ BytesTypeOK /\ SkippedIsBlank /\ LineIsEnded /\ HeadersAreEnded
             /\ CallFollowsBytes

LEMMA BytesInit == Init => BytesIInv
  <1> SUFFICES ASSUME Init PROVE BytesIInv
    OBVIOUS
  <1>1. BytesTypeOK
    <2>1. unsent \in Seq(AnyByte)
      BY ParserAssumption DEF Init
    <2>2. buffer \in Seq(AnyByte) /\ Len(buffer) = 0
      BY DEF Init
    <2>3. 0 \in 0..BufferSize /\ 0 <= BufferSize
      BY ParserAssumption
    <2> QED
      BY <2>1, <2>2, <2>3 DEF Init, BytesTypeOK, AnyRange
  <1>2. Length = 0
    BY DEF Init, Length
  <1> QED
    BY <1>1, <1>2 DEF Init, BytesIInv, SkippedIsBlank, LineIsEnded, HeadersAreEnded, CallFollowsBytes,
                      LineFound, RangesInBuffer, Finished

\* Without a byte received, what occurs in the bytes stays as it is.
LEMMA SameBytes ==
    ASSUME buffer' = buffer
    PROVE  /\ Length' = Length
           /\ \A p : At(p)' = At(p)
           /\ \A from : /\ Visible(from)' = Visible(from)
                        /\ Occurrences(Separator, from)' = Occurrences(Separator, from)
                        /\ Occurrences(DoubleSeparator, from)' = Occurrences(DoubleSeparator, from)
  BY DEF Length, At, Visible, Occurrences

\* The first visible byte of the line, and the end of the line behind it.
LEMMA LineFoundAt ==
    ASSUME BytesTypeOK, Visible(startLine.startPos) /= {},
           Occurrences(Separator, LineSearchStart) /= {}
    PROVE  LET end == First(Occurrences(Separator, LineSearchStart))
           IN  /\ end \in Occurrences(Separator, 0)
               /\ end \in Nat /\ end > startLine.startPos
  <1> DEFINE start == LineSearchStart
             found == Occurrences(Separator, start)
             end == First(found)
  <1>1. /\ buffer \in Seq(AnyByte) /\ startLine.startPos \in Nat
        /\ Length \in Nat
    BY DEF BytesTypeOK, AnyRange, Length
  <1>2. Visible(startLine.startPos) \subseteq Nat
    BY <1>1 DEF Visible
  <1>3. start \in Visible(startLine.startPos)
    BY <1>2, FirstIsLeast DEF LineSearchStart
  <1>4. start \in Nat /\ start >= startLine.startPos /\ At(start) \notin Blank
    BY <1>1, <1>3 DEF Visible, Blank
  <1> HIDE DEF start
  <1>5. found \subseteq Nat
    BY <1>1, <1>4 DEF Occurrences
  <1>6. end \in found
    BY <1>5, FirstIsLeast DEF start
  <1> HIDE DEF end
  <1>7. end \in start..Length - 2 /\ At(end) = "CR" /\ At(end + 1) = "LF"
    BY <1>1, <1>4, <1>6, SeparatorAt
  <1>8. end \in Occurrences(Separator, 0)
    BY <1>1, <1>4, <1>7, SeparatorAt
  <1>9. end /= start
    BY <1>4, <1>7 DEF Blank
  <1> QED
    BY <1>1, <1>4, <1>7, <1>8, <1>9 DEF end, start

\* Receiving keeps it: what has been found is not moved.
LEMMA BytesReceive ==
    ASSUME BytesIInv, NEW n \in 1..Len(unsent), Receive(n)
    PROVE  BytesIInv'
  <1>1. /\ BytesTypeOK
        /\ state' = (IF state \in Restarts THEN "AwaitingStartLine" ELSE state)
        /\ parsing' = (state' \notin Finished)
        /\ startLine' = startLine /\ headers' = headers
        /\ n <= BufferSize - Length
    BY DEF BytesIInv, Receive, ranges
  <1>2. /\ buffer' \in Seq(AnyByte) /\ unsent' \in Seq(AnyByte)
        /\ Length' = Length + n /\ Length' <= BufferSize /\ Length \in Nat /\ n \in Nat /\ n >= 1
        /\ \A p \in 0..Length - 1 : At(p)' = At(p)
    BY <1>1, Received
  <1>3. /\ startLine.startPos \in Nat /\ startLine.endPos \in Nat
        /\ headers.startPos \in Nat /\ headers.endPos \in Nat
    BY <1>1 DEF BytesTypeOK, AnyRange
  <1>4. BytesTypeOK'
    BY <1>1, <1>2 DEF BytesTypeOK, Length, Restarts
  <1>5. SkippedIsBlank'
    <2> SUFFICES ASSUME ~LineFound'
                 PROVE  /\ startLine.startPos <= Length'
                        /\ \A p \in 0..startLine.startPos - 1 : At(p)' \in Blank
      BY <1>1 DEF SkippedIsBlank
    <2>1. ~LineFound
      BY <1>1 DEF LineFound, Restarts
    <2>2. /\ startLine.startPos <= Length
          /\ \A p \in 0..startLine.startPos - 1 : At(p) \in Blank
      BY <2>1 DEF BytesIInv, SkippedIsBlank
    <2>3. \A p \in 0..startLine.startPos - 1 : p \in 0..Length - 1
      BY <1>2, <1>3, <2>2
    <2> QED
      BY <1>2, <1>3, <2>2, <2>3
  <1>6. LineFound' => LineFound /\ state' = state
    BY <1>1 DEF LineFound, Restarts
  <1>7. LineIsEnded'
    <2> SUFFICES ASSUME LineFound'
                 PROVE  /\ startLine.endPos + 1 \in Occurrences(Separator, 0)'
                        /\ headers.startPos = IF state = "Complete" THEN 0 ELSE startLine.endPos + 3
      BY <1>1, <1>6 DEF LineIsEnded
    <2>1. Occurrences(Separator, 0) \subseteq Occurrences(Separator, 0)'
      BY <1>1, OccurrencesStay
    <2> QED
      BY <1>6, <2>1 DEF BytesIInv, LineIsEnded
  <1>8. HeaderEnds(headers.startPos) \subseteq HeaderEnds(headers.startPos)'
    BY <1>1, <1>3, OccurrencesStay DEF HeaderEnds
  <1>9. HeadersAreEnded'
    BY <1>1, <1>2, <1>3, <1>6, <1>8 DEF BytesIInv, HeadersAreEnded, LineFound
  <1>10. CallFollowsBytes'
    <2>1. startLine'.startPos = 0
      BY <1>1 DEF BytesIInv, CallFollowsBytes, Receive
    <2>2. state' \in Finished \cup {"Empty", "AwaitingStartLine"}
      BY <1>1 DEF BytesIInv, BytesTypeOK, CallFollowsBytes, Receive, Restarts
    <2> QED
      BY <1>1, <2>1, <2>2 DEF CallFollowsBytes, LineFound, Restarts, Finished
  <1> QED
    BY <1>4, <1>5, <1>7, <1>9, <1>10 DEF BytesIInv

\* So does a step that leaves the bytes, the ranges and the state alone, when
\* the call does not return with the line still to come.
LEMMA BytesKept ==
    ASSUME BytesIInv, UNCHANGED <<input, ranges, state>>,
           parsing' = parsing \/ (parsing' = FALSE /\ state \in Finished),
           faults' = faults \/ state \notin Finished
    PROVE  BytesIInv'
  <1>1. /\ buffer' = buffer /\ unsent' = unsent /\ state' = state
        /\ startLine' = startLine /\ headers' = headers
    BY DEF input, ranges
  <1>2. /\ Length' = Length
        /\ \A p : At(p)' = At(p)
        /\ \A from : /\ Visible(from)' = Visible(from)
                     /\ Occurrences(Separator, from)' = Occurrences(Separator, from)
                     /\ Occurrences(DoubleSeparator, from)' = Occurrences(DoubleSeparator, from)
    BY <1>1, SameBytes
  <1>3. BytesTypeOK'
    BY <1>1 DEF BytesIInv, BytesTypeOK
  <1>4. SkippedIsBlank' /\ LineIsEnded' /\ HeadersAreEnded'
    BY <1>1, <1>2 DEF BytesIInv, SkippedIsBlank, LineIsEnded, HeadersAreEnded, LineFound, HeaderEnds
  <1>5. CallFollowsBytes'
    <2>1. /\ HasLine' = HasLine /\ LineEnd' = LineEnd
          /\ HasHeaders' = HasHeaders
      BY <1>2 DEF HasLine, LineEnd, HasHeaders
    <2>2. state \in Finished => (Deserved(state))' = Deserved(state)
      BY <1>1, <1>2, <2>1 DEF Deserved
    <2> QED
      BY <1>1, <1>2, <2>1, <2>2 DEF BytesIInv, CallFollowsBytes, SkippedIsBlank, LineFound, Finished
  <1> QED
    BY <1>3, <1>4, <1>5 DEF BytesIInv

\* Where a search looks: nothing visible has been skipped.
LEMMA SearchFollowsBytes ==
    ASSUME BytesIInv, parsing
    PROVE  /\ startLine.startPos \in Nat /\ Visible(0) \subseteq Nat
           /\ Visible(startLine.startPos) /= {} => startLine.startPos = 0
           /\ state /= "AwaitingStartLine" => startLine.startPos = 0
           /\ state = "AwaitingHeaders" =>
                 /\ HasLine /\ LineEnd = startLine.endPos + 1 /\ headers.startPos = LineEnd + 2
                 /\ HasHeaders <=> HeaderEnds(headers.startPos) /= {}
                 /\ NoStartLine <=> LineEnd <= 1
  <1>1. /\ startLine.startPos \in Nat /\ startLine.endPos \in Nat /\ headers.startPos \in Nat
        /\ Length \in Nat
    BY DEF BytesIInv, BytesTypeOK, AnyRange, Length
  <1>2. Visible(0) \subseteq Nat /\ Visible(startLine.startPos) \subseteq Visible(0)
    BY <1>1 DEF Visible
  <1>3. startLine.startPos /= 0 => state = "AwaitingStartLine" /\ Visible(0) = {}
    BY DEF BytesIInv, CallFollowsBytes
  <1>4. ASSUME state = "AwaitingHeaders"
        PROVE  /\ HasLine /\ LineEnd = startLine.endPos + 1 /\ headers.startPos = LineEnd + 2
               /\ HasHeaders <=> HeaderEnds(headers.startPos) /= {}
               /\ NoStartLine <=> LineEnd <= 1
    <2>1. HasLine /\ LineEnd = startLine.endPos + 1
      BY <1>4 DEF BytesIInv, CallFollowsBytes, LineFound
    <2>2. headers.startPos = startLine.endPos + 3
      BY <1>4 DEF BytesIInv, LineIsEnded, LineFound
    <2>3. headers.startPos = LineEnd + 2 /\ headers.startPos /= 0
      BY <1>1, <2>1, <2>2
    <2>4. NoStartLine <=> LineEnd <= 1
      BY <1>1, <1>3, <1>4, <2>1, <2>3 DEF NoStartLine, IsEmpty
    <2> QED
      BY <2>1, <2>3, <2>4 DEF HasHeaders, HeaderEnds
  <1> QED
    BY <1>1, <1>2, <1>3, <1>4

\* The searches of a call lead it where all the bytes would.
LEMMA CallSearch ==
    ASSUME BytesIInv,
           NothingVisible \/ StartLineUnended \/ StartLineFound \/ StartLineEmpty
           \/ HeadersFound \/ HeadersTooLong \/ HeadersUnended
    PROVE  CallFollowsBytes'
  <1>1. buffer' = buffer /\ faults' = faults /\ parsing
    BY DEF NothingVisible, StartLineUnended, StartLineFound, StartLineEmpty,
           HeadersFound, HeadersTooLong, HeadersUnended, input, requestVars
  <1>2. /\ Length' = Length /\ Length \in Nat
        /\ HasLine' = HasLine /\ LineEnd' = LineEnd /\ HasHeaders' = HasHeaders
        /\ Visible(0)' = Visible(0)
        /\ Occurrences(Separator, 0)' = Occurrences(Separator, 0)
    BY <1>1, SameBytes DEF HasLine, LineEnd, HasHeaders, BytesIInv, BytesTypeOK, Length
  <1>3. \A verdict : Deserved(verdict) => Deserved(verdict)'
    BY <1>1, <1>2 DEF Deserved
  <1>4. /\ startLine \in AnyRange /\ headers \in AnyRange
        /\ startLine.startPos \in Nat /\ startLine.endPos \in Nat /\ headers.startPos \in Nat
    BY DEF BytesIInv, BytesTypeOK, AnyRange
  <1>5. CASE NothingVisible
    <2>1. /\ state = "AwaitingStartLine" /\ Visible(startLine.startPos) = {}
          /\ state' = state /\ parsing' = parsing
      BY <1>5 DEF NothingVisible
    <2>2. Visible(0) = {}
      <3>1. \A p \in 0..startLine.startPos - 1 : At(p) \in Blank
        BY <2>1 DEF BytesIInv, SkippedIsBlank, LineFound
      <3> SUFFICES ASSUME NEW p \in Visible(0) PROVE FALSE
        OBVIOUS
      <3>2. p \in 0..Length - 1 /\ At(p) \notin Blank
        BY DEF Visible, Blank
      <3>3. p >= startLine.startPos
        BY <1>2, <1>4, <3>1, <3>2
      <3> QED
        BY <1>2, <1>4, <2>1, <3>2, <3>3 DEF Visible, Blank
    <2> QED
      BY <1>1, <1>2, <2>1, <2>2 DEF CallFollowsBytes, LineFound, Finished
  <1>6. CASE StartLineUnended
    <2>1. /\ state' = "AwaitingStartLine" /\ parsing' = FALSE
          /\ startLine'.startPos = startLine.startPos /\ Visible(startLine.startPos) /= {}
      BY <1>6 DEF StartLineUnended, ranges
    <2> QED
      BY <1>1, <2>1, SearchFollowsBytes DEF CallFollowsBytes, LineFound, Finished
  <1>7. CASE StartLineFound
    <2>1. /\ Visible(startLine.startPos) /= {} /\ Occurrences(Separator, LineSearchStart) /= {}
          /\ startLine' = [startLine EXCEPT !.endPos = First(Occurrences(Separator, LineSearchStart)) - 1]
          /\ state' = "AwaitingHeaders" /\ parsing' = parsing
      BY <1>7 DEF StartLineFound
    <2>2. startLine.startPos = 0
      BY <1>1, <2>1, SearchFollowsBytes
    <2>3. HasLine /\ LineEnd = First(Occurrences(Separator, LineSearchStart))
      BY <2>1, <2>2 DEF HasLine, LineEnd, LineSearchStart
    <2>4. LineEnd \in Nat
      BY <2>1, <2>3, LineFoundAt DEF BytesIInv
    <2>5. startLine'.startPos = 0 /\ startLine'.endPos + 1 = LineEnd
      <3>1. startLine' = [startLine EXCEPT !.endPos = LineEnd - 1]
        BY <2>1, <2>3
      <3>2. startLine'.startPos = startLine.startPos /\ startLine'.endPos = LineEnd - 1
        BY <1>4, <3>1 DEF AnyRange
      <3> QED
        BY <2>2, <2>4, <3>2
    <2> QED
      BY <1>1, <1>2, <2>1, <2>3, <2>5 DEF CallFollowsBytes, LineFound, Finished
  <1>8. CASE StartLineEmpty \/ HeadersTooLong
    <2>1. /\ state = "AwaitingHeaders" /\ state' \in Finished /\ parsing' = FALSE
          /\ startLine' = startLine
      BY <1>8 DEF StartLineEmpty, HeadersTooLong, ranges, Finished
    <2> QED
      BY <1>1, <2>1, SearchFollowsBytes DEF CallFollowsBytes, Finished
  <1>9. CASE HeadersFound
    <2>1. /\ state = "AwaitingHeaders" /\ ~NoStartLine /\ HeaderEnds(headers.startPos) /= {}
          /\ state' = "CompleteHeaders" /\ parsing' = parsing /\ startLine' = startLine
      BY <1>9 DEF HeadersFound
    <2>2. HasLine /\ LineEnd = startLine.endPos + 1 /\ LineEnd > 1 /\ HasHeaders
          /\ startLine.startPos = 0
      BY <1>1, <1>4, <2>1, SearchFollowsBytes
    <2> QED
      BY <1>1, <1>2, <2>1, <2>2 DEF CallFollowsBytes, Finished
  <1>10. CASE HeadersUnended
    <2>1. /\ state = "AwaitingHeaders" /\ ~NoStartLine /\ HeaderEnds(headers.startPos) = {}
          /\ Length < BufferSize /\ parsing' = parsing /\ startLine' = startLine
      BY <1>10 DEF HeadersUnended
    <2>2. HasLine /\ LineEnd = startLine.endPos + 1 /\ LineEnd > 1 /\ ~HasHeaders
          /\ startLine.startPos = 0 /\ headers.startPos = LineEnd + 2
      BY <1>1, <1>4, <2>1, SearchFollowsBytes
    <2>3. CASE state' = "AwaitingHeaders"
      BY <1>1, <1>2, <2>1, <2>2, <2>3 DEF CallFollowsBytes, Finished
    <2>4. CASE state' = "Complete" /\ headers.startPos \in Occurrences(Separator, headers.startPos)
      <3>1. headers.startPos \in Occurrences(Separator, 0)
        <4>1. /\ headers.startPos \in headers.startPos..Length - Len(Separator)
              /\ SubSeq(buffer, headers.startPos + 1, headers.startPos + Len(Separator)) = Separator
          BY <2>4 DEF Occurrences
        <4>2. headers.startPos \in 0..Length - Len(Separator)
          BY <1>2, <1>4, <4>1 DEF Separator
        <4> QED
          BY <4>1, <4>2 DEF Occurrences
      <3>2. Deserved("Complete")
        BY <2>1, <2>2, <3>1 DEF Deserved
      <3> QED
        BY <1>1, <1>2, <1>3, <2>1, <2>2, <2>4, <3>2 DEF CallFollowsBytes
    <2> QED
      BY <1>10, <2>3, <2>4 DEF HeadersUnended
  <1> QED
    BY <1>5, <1>6, <1>7, <1>8, <1>9, <1>10

\* And the searches, each of which keeps or finds a range.
LEMMA BytesSearch ==
    ASSUME BytesIInv,
           NothingVisible \/ StartLineUnended \/ StartLineFound \/ StartLineEmpty
           \/ HeadersFound \/ HeadersTooLong \/ HeadersUnended
    PROVE  BytesIInv'
  <1>0. CallFollowsBytes'
    BY CallSearch
  <1>1. buffer' = buffer /\ unsent' = unsent
    BY DEF NothingVisible, StartLineUnended, StartLineFound, StartLineEmpty,
           HeadersFound, HeadersTooLong, HeadersUnended, input
  <1>2. /\ Length' = Length
        /\ \A p : At(p)' = At(p)
        /\ \A from : /\ Visible(from)' = Visible(from)
                     /\ Occurrences(Separator, from)' = Occurrences(Separator, from)
                     /\ Occurrences(DoubleSeparator, from)' = Occurrences(DoubleSeparator, from)
    BY <1>1, SameBytes
  <1>3. /\ buffer \in Seq(AnyByte) /\ Length \in Nat /\ Length <= BufferSize
        /\ startLine \in AnyRange /\ headers \in AnyRange
        /\ startLine.startPos \in Nat /\ startLine.endPos \in Nat
        /\ headers.startPos \in Nat /\ headers.endPos \in Nat
    BY DEF BytesIInv, BytesTypeOK, AnyRange, Length
  <1>4. CASE NothingVisible
    <2>1. /\ state = "AwaitingStartLine" /\ Visible(startLine.startPos) = {}
          /\ startLine' = [startLine EXCEPT !.startPos = Length]
          /\ state' = state /\ headers' = headers /\ parsing' = parsing /\ parsing
      BY <1>4 DEF NothingVisible
    <2>2. startLine'.startPos = Length /\ startLine' \in AnyRange
      BY <1>3, <2>1 DEF AnyRange
    <2>3. \A p \in 0..Length - 1 : At(p) \in Blank
      <3> TAKE p \in 0..Length - 1
      <3>1. CASE p < startLine.startPos
        BY <1>3, <2>1, <3>1 DEF BytesIInv, SkippedIsBlank, LineFound
      <3>2. CASE p >= startLine.startPos
        BY <1>3, <2>1, <3>2 DEF Visible, Blank
      <3> QED
        BY <1>3, <3>1, <3>2
    <2> QED
      BY <1>0, <1>1, <1>2, <1>3, <2>1, <2>2, <2>3
         DEF BytesIInv, BytesTypeOK, SkippedIsBlank, LineIsEnded, HeadersAreEnded, LineFound
  <1>5. CASE StartLineUnended
    <2>1. /\ state = "AwaitingStartLine" /\ Visible(startLine.startPos) /= {}
          /\ Occurrences(Separator, LineSearchStart) = {}
          /\ state' = state /\ headers' = headers /\ startLine' = startLine /\ parsing' = FALSE
      BY <1>5 DEF StartLineUnended, ranges
    <2> QED
      BY <1>0, <1>1, <1>2, <1>3, <2>1
         DEF BytesIInv, BytesTypeOK, SkippedIsBlank, LineIsEnded, HeadersAreEnded, LineFound
  <1>6. CASE StartLineFound
    <2> DEFINE end == First(Occurrences(Separator, LineSearchStart))
    <2>1. /\ state = "AwaitingStartLine" /\ Visible(startLine.startPos) /= {}
          /\ Occurrences(Separator, LineSearchStart) /= {}
          /\ startLine' = [startLine EXCEPT !.endPos = end - 1]
          /\ headers' = [headers EXCEPT !.startPos = HeadersAfter(end - 1)]
          /\ state' = "AwaitingHeaders" /\ parsing' = parsing
      BY <1>6 DEF StartLineFound
    <2>2. end \in Occurrences(Separator, 0) /\ end \in Nat /\ end > startLine.startPos
      BY <2>1, LineFoundAt DEF BytesIInv
    <2> HIDE DEF end
    <2>3. end \in 0..Length - 2
      BY <1>3, <2>2, SeparatorAt
    <2>4. HeadersAfter(end - 1) = end + 2 /\ end - 1 \in 0..BufferSize /\ end + 2 \in 0..BufferSize
      BY <1>3, <2>2, <2>3, ParserAssumption DEF HeadersAfter, Separator
    <2>5. /\ startLine' \in AnyRange /\ headers' \in AnyRange
          /\ startLine'.endPos = end - 1 /\ headers'.startPos = end + 2
      BY <1>3, <2>1, <2>4 DEF AnyRange
    <2>6. startLine'.endPos + 1 = end /\ startLine'.endPos + 3 = headers'.startPos
      BY <2>2, <2>5
    <2> QED
      BY <1>0, <1>1, <1>2, <1>3, <2>1, <2>2, <2>5, <2>6
         DEF BytesIInv, BytesTypeOK, SkippedIsBlank, LineIsEnded, HeadersAreEnded,
             LineFound
  <1>7. CASE StartLineEmpty
    <2>1. /\ state = "AwaitingHeaders" /\ NoStartLine
          /\ state' = "BadRequestError" /\ parsing' = FALSE
          /\ startLine' = startLine /\ headers' = headers
      BY <1>7 DEF StartLineEmpty, ranges
    <2>2. headers.startPos = startLine.endPos + 3 /\ startLine.endPos + 1 \in Occurrences(Separator, 0)
      BY <2>1 DEF BytesIInv, LineIsEnded, LineFound
    <2> QED
      BY <1>0, <1>1, <1>2, <1>3, <2>1, <2>2
         DEF BytesIInv, BytesTypeOK, SkippedIsBlank, LineIsEnded, HeadersAreEnded,
             LineFound, Finished
  <1>8. CASE HeadersFound
    <2> DEFINE ends == HeaderEnds(headers.startPos)
    <2>1. /\ state = "AwaitingHeaders" /\ ends /= {}
          /\ headers' = [headers EXCEPT !.endPos = First(ends) - 1]
          /\ state' = "CompleteHeaders" /\ startLine' = startLine /\ parsing' = parsing
      BY <1>8 DEF HeadersFound
    <2>2. headers.startPos = startLine.endPos + 3 /\ startLine.endPos + 1 \in Occurrences(Separator, 0)
      BY <2>1 DEF BytesIInv, LineIsEnded, LineFound
    <2>3. First(ends) \in headers.startPos..Length - 4
      <3>1. ends \subseteq headers.startPos..Length - 4
        BY <1>3, DoubleSeparatorAt DEF HeaderEnds
      <3>2. ends \subseteq Nat
        BY <1>3, <3>1
      <3> QED
        BY <2>1, <3>1, <3>2, FirstIsLeast
    <2>4. First(ends) - 1 \in 0..BufferSize /\ First(ends) - 1 < Length
      BY <1>3, <2>2, <2>3
    <2>5. /\ headers' \in AnyRange
          /\ headers'.startPos = headers.startPos /\ headers'.endPos = First(ends) - 1
      BY <1>3, <2>1, <2>4 DEF AnyRange
    <2> QED
      BY <1>0, <1>1, <1>2, <1>3, <2>1, <2>2, <2>4, <2>5
         DEF BytesIInv, BytesTypeOK, SkippedIsBlank, LineIsEnded, HeadersAreEnded,
             LineFound, HeaderEnds
  <1>9. CASE HeadersTooLong
    <2>1. /\ state = "AwaitingHeaders" /\ HeaderEnds(headers.startPos) = {} /\ Length >= BufferSize
          /\ state' = "LongHeadersError" /\ parsing' = FALSE
          /\ startLine' = startLine /\ headers' = headers
      BY <1>9 DEF HeadersTooLong, ranges
    <2> QED
      BY <1>0, <1>1, <1>2, <1>3, <2>1
         DEF BytesIInv, BytesTypeOK, SkippedIsBlank, LineIsEnded, HeadersAreEnded,
             LineFound, Finished
  <1>10. CASE HeadersUnended /\ headers.startPos \in Occurrences(Separator, headers.startPos)
    <2>1. /\ state = "AwaitingHeaders" /\ state' = "Complete" /\ parsing' = parsing
          /\ headers' = [startPos |-> 0, endPos |-> 0] /\ startLine' = startLine
      BY <1>10 DEF HeadersUnended
    <2>2. headers.startPos = startLine.endPos + 3 /\ startLine.endPos + 1 \in Occurrences(Separator, 0)
      BY <2>1 DEF BytesIInv, LineIsEnded, LineFound
    <2>3. headers' \in AnyRange
      BY <2>1, ParserAssumption DEF AnyRange
    <2> QED
      BY <1>0, <1>1, <1>2, <1>3, <2>1, <2>2, <2>3
         DEF BytesIInv, BytesTypeOK, SkippedIsBlank, LineIsEnded, HeadersAreEnded,
             LineFound, Finished
  <1>11. CASE HeadersUnended /\ headers.startPos \notin Occurrences(Separator, headers.startPos)
    <2>1. UNCHANGED <<input, ranges, state>> /\ parsing' = parsing /\ faults' = faults
      BY <1>11 DEF HeadersUnended, ranges, requestVars
    <2> QED
      BY <2>1, BytesKept
  <1> QED
    BY <1>4, <1>5, <1>6, <1>7, <1>8, <1>9, <1>10, <1>11

-----------------------------------------------------------------------------
(* The strings that are cut out of the bytes.                              *)

\* memchr finds the first such byte, or there is none.
LEMMA PlaceIsFirst ==
    ASSUME NEW byte, NEW bytes, NEW from \in Nat \ {0}, NEW to \in Int
    PROVE  LET place == Place(byte, bytes, from, to) IN
           \/ place = 0 /\ \A i \in from..to : bytes[i] /= byte
           \/ /\ place \in from..to /\ bytes[place] = byte
              /\ \A i \in from..place - 1 : bytes[i] /= byte
  <1> DEFINE found == {i \in from..to : bytes[i] = byte}
             place == Place(byte, bytes, from, to)
  <1>1. place = IF found /= {} THEN Min(found) ELSE 0
    BY DEF Place, SelectInSubSeq
  <1>2. found \subseteq Nat
    OBVIOUS
  <1>3. found /= {} => Min(found) \in found /\ \A i \in found : Min(found) <= i
    <2> HIDE DEF found
    <2> QED
      BY <1>2, LeastNumber DEF Min
  <1> HIDE DEF place
  <1>4. \/ place = 0 /\ \A i \in from..to : bytes[i] /= byte
        \/ /\ place \in from..to /\ bytes[place] = byte
           /\ \A i \in from..place - 1 : bytes[i] /= byte
    <2>1. CASE found = {}
      BY <1>1, <2>1
    <2>2. CASE found /= {}
      <3>1. place \in found /\ \A i \in found : place <= i
        BY <1>1, <1>3, <2>2
      <3>2. ASSUME NEW i \in from..place - 1 PROVE bytes[i] /= byte
        <4>1. i \in from..to /\ ~(place <= i)
          BY <3>1
        <4>2. i \notin found
          BY <3>1, <4>1
        <4> QED
          BY <4>1, <4>2
      <3> QED
        BY <3>1, <3>2
    <2> QED
      BY <2>1, <2>2
  <1> QED
    BY <1>4 DEF place

\* It stays in its window.
LEMMA PlaceInWindow ==
    ASSUME NEW byte, NEW bytes, NEW from \in Nat \ {0}, NEW to \in Int
    PROVE  Place(byte, bytes, from, to) \in {0} \cup from..to
  BY PlaceIsFirst

\* A piece of some bytes.
LEMMA Piece ==
    ASSUME NEW bytes \in Seq(AnyByte), NEW from \in Nat \ {0}, NEW to \in Int, to <= Len(bytes)
    PROVE  SubSeq(bytes, from, to) \in Seq(AnyByte)
  <1>1. \A i \in from..to : bytes[i] \in AnyByte
    OBVIOUS
  <1> QED
    BY <1>1, SubSeqProperties

LEMMA LineParts ==
    ASSUME NEW line \in Seq(AnyByte), Readable(line)
    PROVE  /\ Target(line) \in Seq(AnyByte) /\ Protocol(line) \in Seq(AnyByte)
           /\ Query(line) \in Seq(AnyByte)
  <1>1. Len(line) \in Nat
    OBVIOUS
  <1>2. MethodEnd(line) \in {0} \cup 1..Len(line)
    BY <1>1, PlaceInWindow DEF MethodEnd
  <1>3. MethodEnd(line) \in 1..Len(line)
    BY <1>2 DEF Readable
  <1>4. UriEnd(line) \in {0} \cup MethodEnd(line) + 1..Len(line)
    <2>1. MethodEnd(line) + 1 \in Nat \ {0} /\ Len(line) \in Int
      BY <1>1, <1>3
    <2> QED
      BY <2>1, PlaceInWindow DEF UriEnd
  <1>5. UriEnd(line) \in MethodEnd(line) + 1..Len(line)
    BY <1>4 DEF Readable
  <1>6. Question(line) \in {0} \cup MethodEnd(line) + 1..UriEnd(line) - 1
    <2>1. MethodEnd(line) + 1 \in Nat \ {0} /\ UriEnd(line) - 1 \in Int
      BY <1>1, <1>3, <1>5
    <2> QED
      BY <2>1, PlaceInWindow DEF Question
  <1>7. Target(line) \in Seq(AnyByte)
    <2> DEFINE to == (IF HasQuery(line) THEN Question(line) ELSE UriEnd(line)) - 1
    <2>1. to \in Int /\ to <= Len(line) /\ MethodEnd(line) + 1 \in Nat \ {0}
      BY <1>1, <1>3, <1>5, <1>6 DEF HasQuery
    <2> HIDE DEF to
    <2>2. SubSeq(line, MethodEnd(line) + 1, to) \in Seq(AnyByte)
      BY <2>1, Piece
    <2> QED
      BY <2>2 DEF Target, to
  <1>8. Protocol(line) \in Seq(AnyByte)
    <2>1. UriEnd(line) + 1 \in Nat \ {0} /\ Len(line) \in Int /\ Len(line) <= Len(line)
      BY <1>1, <1>3, <1>5
    <2> QED
      BY <2>1, Piece DEF Protocol
  <1>9. Query(line) \in Seq(AnyByte)
    <2>1. /\ Question(line) + 1 \in Nat \ {0}
          /\ UriEnd(line) - 1 \in Int /\ UriEnd(line) - 1 <= Len(line)
      BY <1>1, <1>3, <1>5, <1>6
    <2> QED
      BY <2>1, Piece DEF Query
  <1> QED
    BY <1>7, <1>8, <1>9

\* The start line that is parsed has been received.
LEMMA StartLineReceived ==
    ASSUME BytesIInv, LineFound
    PROVE  StartLineBytes \in Seq(AnyByte)
  <1>1. /\ buffer \in Seq(AnyByte) /\ Length = Len(buffer) /\ Length \in Nat
        /\ startLine.startPos \in Nat /\ startLine.endPos \in Nat
    BY DEF BytesIInv, BytesTypeOK, AnyRange, Length
  <1>2. startLine.endPos + 1 \in 0..Length - 2
    BY <1>1, SeparatorAt DEF BytesIInv, LineIsEnded
  <1>3. /\ startLine.startPos + 1 \in Nat \ {0}
        /\ startLine.endPos + 1 \in Int /\ startLine.endPos + 1 <= Len(buffer)
    BY <1>1, <1>2
  <1> QED
    BY <1>1, <1>3, Piece DEF StartLineBytes

\* A token of the query, which ends behind its first byte and in the query.
LEMMA Token ==
    ASSUME query \in Seq(AnyByte), left \in Nat, left < Len(query)
    PROVE  /\ Right \in left + 1..Len(query)
           /\ Key \in Seq(AnyByte) /\ Value \in Seq(AnyByte)
  <1>1. Len(query) \in Nat
    OBVIOUS
  <1> DEFINE separator == Place("&", query, left + 2, Len(query))
  <1>2. separator \in {0} \cup left + 2..Len(query)
    <2>1. left + 2 \in Nat \ {0} /\ Len(query) \in Int
      BY <1>1
    <2> QED
      BY <2>1, PlaceInWindow
  <1>3. Right = IF separator = 0 THEN Len(query) ELSE separator - 1
    BY DEF Right
  <1> HIDE DEF separator
  <1>4. Right \in left + 1..Len(query)
    BY <1>1, <1>2, <1>3
  <1>5. Equals \in {0} \cup left + 1..Right
    <2>1. left + 1 \in Nat \ {0} /\ Right \in Int
      BY <1>1, <1>4
    <2> QED
      BY <2>1, PlaceInWindow DEF Equals
  <1>6. Key \in Seq(AnyByte)
    <2> DEFINE to == IF Equals = 0 THEN Right ELSE Equals - 1
    <2>1. left + 1 \in Nat \ {0} /\ to \in Int /\ to <= Len(query)
      BY <1>1, <1>4, <1>5
    <2> HIDE DEF to
    <2>2. SubSeq(query, left + 1, to) \in Seq(AnyByte)
      BY <2>1, Piece
    <2> QED
      BY <2>2 DEF Key, to
  <1>7. Value \in Seq(AnyByte)
    <2>1. CASE Equals = 0
      BY <2>1 DEF Value
    <2>2. CASE Equals /= 0
      <3>1. Equals + 1 \in Nat \ {0} /\ Right \in Int /\ Right <= Len(query)
        BY <1>1, <1>4, <1>5, <2>2
      <3>2. SubSeq(query, Equals + 1, Right) \in Seq(AnyByte)
        BY <3>1, Piece
      <3> QED
        BY <2>2, <3>2 DEF Value
    <2> QED
      BY <2>1, <2>2
  <1> QED
    BY <1>4, <1>6, <1>7

\* The pair that is made of it, whichever of its strings are denied.
LEMMA ParsedIsPair ==
    ASSUME query \in Seq(AnyByte), left \in Nat, left < Len(query), NEW denied
    PROVE  Parsed(denied) \in Pair
  <1>1. /\ (IF "key" \in denied THEN <<>> ELSE Key) \in Seq(AnyByte)
        /\ (IF "value" \in denied THEN <<>> ELSE Value) \in Seq(AnyByte)
    BY Token
  <1> QED
    BY <1>1 DEF Parsed, Pair

LEMMA DenialsCount ==
    ASSUME NEW denied \in Denials
    PROVE  IsFiniteSet(denied) /\ Cardinality(denied) \in Nat
  <1>1. IsFiniteSet({"key", "value"})
    <2>1. IsFiniteSet({} \cup {"key"})
      BY FS_EmptySet, FS_AddElement
    <2>2. IsFiniteSet(({} \cup {"key"}) \cup {"value"})
      BY <2>1, FS_AddElement
    <2>3. ({} \cup {"key"}) \cup {"value"} = {"key", "value"}
      OBVIOUS
    <2> QED
      BY <2>2, <2>3
  <1>2. denied \subseteq {"key", "value"}
    BY DEF Denials
  <1> QED
    BY <1>1, <1>2, FS_Subset, FS_CardinalityType

-----------------------------------------------------------------------------
(* The blocks of the heap.                                                 *)

BlocksOf(r) == {<<field, 0>> : field \in {f \in DOMAIN r : r[f] /= <<>>}} \cup StringsOf(r.params)

Requests == [target : Seq(AnyByte), params : Seq(Pair), protocol : Seq(AnyByte)]

\* The strings of a pair.
LEMMA StringBlocks ==
    ASSUME NEW pair \in Pair, NEW i
    PROVE  /\ Strings(i, pair) \subseteq {"key", "value"} \X {i}
           /\ \A field \in {"key", "value"} : <<field, i>> \in Strings(i, pair) <=> pair[field] /= <<>>
  <1>1. DOMAIN pair = {"key", "value"}
    BY DEF Pair
  <1>2. \A field : <<field, i>> \in Strings(i, pair) <=> field \in {f \in DOMAIN pair : pair[f] /= <<>>}
    BY DEF Strings
  <1> QED
    BY <1>1, <1>2 DEF Strings

LEMMA StringsOfPairs ==
    ASSUME NEW pairs \in Seq(Pair)
    PROVE  /\ StringsOf(pairs) \subseteq {"key", "value"} \X (1..Len(pairs))
           /\ StringsOf(<<>>) = {}
           /\ \A b : b \in StringsOf(pairs) <=> \E i \in 1..Len(pairs) : b \in Strings(i, pairs[i])
  <1>1. DOMAIN pairs = 1..Len(pairs) /\ \A i \in 1..Len(pairs) : pairs[i] \in Pair
    OBVIOUS
  <1>2. \A b : b \in StringsOf(pairs) <=> \E i \in 1..Len(pairs) : b \in Strings(i, pairs[i])
    BY <1>1 DEF StringsOf
  <1>3. ASSUME NEW i \in 1..Len(pairs), NEW b \in Strings(i, pairs[i])
        PROVE  b \in {"key", "value"} \X (1..Len(pairs))
    <2>1. pairs[i] \in Pair
      BY <1>1
    <2>2. Strings(i, pairs[i]) \subseteq {"key", "value"} \X {i}
      BY <2>1, StringBlocks
    <2> QED
      BY <2>2
  <1>4. StringsOf(<<>>) = {}
    BY DEF StringsOf
  <1> QED
    BY <1>2, <1>3, <1>4

LEMMA StringsAppended ==
    ASSUME NEW pairs \in Seq(Pair), NEW pair \in Pair
    PROVE  StringsOf(Append(pairs, pair)) = StringsOf(pairs) \cup Strings(Len(pairs) + 1, pair)
  <1> DEFINE longer == Append(pairs, pair)
  <1>1. /\ longer \in Seq(Pair) /\ Len(longer) = Len(pairs) + 1 /\ Len(pairs) \in Nat
        /\ longer[Len(pairs) + 1] = pair
        /\ \A i \in 1..Len(pairs) : longer[i] = pairs[i]
    OBVIOUS
  <1> HIDE DEF longer
  <1>2. 1..Len(longer) = 1..Len(pairs) \cup {Len(pairs) + 1}
    BY <1>1
  <1>3. /\ \A b : b \in StringsOf(longer) <=> \E i \in 1..Len(longer) : b \in Strings(i, longer[i])
        /\ \A b : b \in StringsOf(pairs) <=> \E i \in 1..Len(pairs) : b \in Strings(i, pairs[i])
    BY <1>1, StringsOfPairs
  <1>4. ASSUME NEW b
        PROVE  b \in StringsOf(longer) <=> b \in StringsOf(pairs) \/ b \in Strings(Len(pairs) + 1, pair)
    BY <1>1, <1>2, <1>3
  <1> QED
    BY <1>4 DEF longer

\* The strings of a request and those of its parameters.
LEMMA RequestIsBlocks ==
    ASSUME NEW r \in Requests
    PROVE  /\ BlocksOf(r) = (IF r.target /= <<>> THEN {<<"target", 0>>} ELSE {})
                            \cup (IF r.params /= <<>> THEN {<<"params", 0>>} ELSE {})
                            \cup (IF r.protocol /= <<>> THEN {<<"protocol", 0>>} ELSE {})
                            \cup StringsOf(r.params)
           /\ StringsOf(r.params) \subseteq {"key", "value"} \X (1..Len(r.params))
           /\ r.params = <<>> => StringsOf(r.params) = {}
  <1>1. DOMAIN r = {"target", "params", "protocol"} /\ r.params \in Seq(Pair)
    BY DEF Requests
  <1>2. {<<field, 0>> : field \in {f \in DOMAIN r : r[f] /= <<>>}}
            = (IF r.target /= <<>> THEN {<<"target", 0>>} ELSE {})
              \cup (IF r.params /= <<>> THEN {<<"params", 0>>} ELSE {})
              \cup (IF r.protocol /= <<>> THEN {<<"protocol", 0>>} ELSE {})
    <2> DEFINE fields == {f \in DOMAIN r : r[f] /= <<>>}
    <2>1. fields = (IF r.target /= <<>> THEN {"target"} ELSE {})
              \cup (IF r.params /= <<>> THEN {"params"} ELSE {})
              \cup (IF r.protocol /= <<>> THEN {"protocol"} ELSE {})
      BY <1>1
    <2> HIDE DEF fields
    <2>2. {<<field, 0>> : field \in fields}
            = (IF r.target /= <<>> THEN {<<"target", 0>>} ELSE {})
              \cup (IF r.params /= <<>> THEN {<<"params", 0>>} ELSE {})
              \cup (IF r.protocol /= <<>> THEN {<<"protocol", 0>>} ELSE {})
      BY <2>1
    <2> QED
      BY <2>2 DEF fields
  <1> QED
    BY <1>1, <1>2, StringsOfPairs DEF BlocksOf

-----------------------------------------------------------------------------
(* The inductive invariant about the request: a request is parsed within    *)
(* one call and step by step, each step finding empty what it will fill.   *)

OnlyWhileParsing == stage /= "none" => parsing /\ state = "CompleteHeaders"

BeforeQuery == stage \in {"startLine", "query"} \/ (stage = "none" /\ state /= "BadRequestError")

StepByStep ==
    /\ stage \in {"none", "startLine"} => request = EmptyRequest
    /\ InParams \/ stage = "query" => request.params = <<>>
    /\ stage /= "free" => request.protocol = <<>>
    /\ BeforeQuery => query = <<>>
    /\ BeforeQuery \/ stage = "list" => left = 0
    /\ stage \notin {"tokens", "collect"} => list = <<>>
    /\ InParams => query /= <<>>
    /\ stage = "tokens" => left < Len(query) /\ Len(list) <= left
    /\ stage = "collect" => list /= <<>>

RequestIInv == RequestTypeOK /\ OnlyWhileParsing /\ StepByStep /\ BlocksAccounted

\* What the target, the query and the protocol are cut from was found readable.
LineRead == stage \notin {"none", "startLine", "free"} => Readable(StartLineBytes)

IInv == BytesIInv /\ RequestIInv /\ LineRead

\* The blocks that no one can reach: those of the context, the copy of a
\* query, the HttpRequest once it was refused, and the strings of one pair.
Kept == {<<"context", 0>>, <<"buffer", 0>>}
Dropped == (IF query = <<>> THEN {} ELSE {<<"query", 0>>})
               \cup (IF stage = "none" THEN {<<"request", 0>>} ELSE {})
Leaked(L) == L /= {} => /\ faults < MaxFaults /\ stage \in {"free", "none"}
                        /\ \E i \in 1..Len(query) : L \subseteq {"key", "value"} \X {i}

LEMMA AccountedNow ==
    ASSUME BlocksAccounted
    PROVE  /\ Reachable \subseteq heap
           /\ \E L : heap \subseteq Reachable \cup Kept \cup Dropped \cup L /\ Leaked(L)
  <1> DEFINE L == Lost \ {<<"query", 0>>, <<"request", 0>>}
  <1>1. heap \subseteq Reachable \cup Kept \cup Dropped \cup L
    BY DEF BlocksAccounted, Lost, Kept, Dropped
  <1>2. Leaked(L)
    BY DEF BlocksAccounted, Leaked
  <1> QED
    BY <1>1, <1>2 DEF BlocksAccounted

LEMMA AccountedThen ==
    ASSUME NEW L, Reachable' \subseteq heap',
           heap' \subseteq Reachable' \cup Kept \cup Dropped' \cup L, Leaked(L)'
    PROVE  BlocksAccounted'
  <1> DEFINE lost == heap' \ (Reachable' \cup Kept)
             strings == lost \ {<<"query", 0>>, <<"request", 0>>}
  <1>1. Lost' = lost
    BY DEF Lost, Kept
  <1>2. <<"query", 0>> \notin L /\ <<"request", 0>> \notin L
    BY DEF Leaked
  <1>3. lost \subseteq Dropped' \cup L
    OBVIOUS
  <1>4. <<"query", 0>> \in lost => query' /= <<>>
    BY <1>2, <1>3 DEF Dropped
  <1>5. <<"request", 0>> \in lost => stage' = "none"
    BY <1>2, <1>3 DEF Dropped
  <1>6. strings \subseteq L
    BY <1>3 DEF Dropped
  <1>7. strings /= {} => /\ faults' < MaxFaults /\ stage' \in {"free", "none"}
                         /\ \E i \in 1..Len(query)' : strings \subseteq {"key", "value"} \X {i}
    <2> HAVE strings /= {}
    <2>1. L /= {}
      BY <1>6
    <2>2. /\ faults' < MaxFaults /\ stage' \in {"free", "none"}
          /\ \E i \in 1..Len(query)' : L \subseteq {"key", "value"} \X {i}
      BY <2>1 DEF Leaked
    <2> QED
      BY <1>6, <2>2
  <1> HIDE DEF lost
  <1> QED
    BY <1>1, <1>4, <1>5, <1>7 DEF BlocksAccounted

LEMMA RequestStarts == Init => RequestIInv
  <1> SUFFICES ASSUME Init PROVE RequestIInv
    OBVIOUS
  <1>1. /\ request = EmptyRequest /\ stage = "none" /\ query = <<>> /\ left = 0 /\ list = <<>>
        /\ heap = Kept /\ faults = MaxFaults
    BY DEF Init, RequestInit, Kept
  <1>2. <<>> \in Seq(AnyByte) /\ <<>> \in Seq(Pair) /\ Len(<<>>) = 0
    OBVIOUS
  <1>3. EmptyRequest \in Requests /\ EmptyRequest.params = <<>> /\ EmptyRequest.protocol = <<>>
    BY <1>2 DEF EmptyRequest, Requests
  <1>4. RequestTypeOK
    BY <1>1, <1>2, <1>3, RequestAssumption DEF RequestTypeOK, Requests, Kept
  <1>5. OnlyWhileParsing /\ StepByStep
    BY <1>1, <1>3 DEF OnlyWhileParsing, StepByStep, InParams
  <1>6. BlocksOf(EmptyRequest) = {}
    BY <1>3, RequestIsBlocks DEF EmptyRequest
  <1>7. Reachable = {}
    BY <1>1, <1>6 DEF Reachable, RequestBlocks, BlocksOf, InParams
  <1>8. BlocksAccounted
    BY <1>1, <1>7 DEF BlocksAccounted, Lost, Kept
  <1> QED
    BY <1>4, <1>5, <1>8 DEF RequestIInv

\* NKString_CopyFrom.
LEMMA CopyFromCopies ==
    ASSUME NEW name, NEW bytes \in Seq(AnyByte), NEW copy \in {bytes, <<>>},
           CopyFrom(name, bytes, copy), faults \in 0..MaxFaults
    PROVE  /\ copy \in Seq(AnyByte)
           /\ heap' = heap \cup (IF copy = <<>> THEN {} ELSE {<<name, 0>>})
           /\ faults' \in 0..MaxFaults
  <1>1. copy \in Seq(AnyByte)
    <2>1. <<>> \in Seq(AnyByte)
      OBVIOUS
    <2> QED
      BY <2>1
  <1> QED
    BY <1>1, RequestAssumption DEF CopyFrom, Fails, Works

-----------------------------------------------------------------------------
(* The steps of a request keep it.                                         *)

\* What the invariant says of the blocks before a step, and what is to be
\* shown of them behind it.
LEMMA BlocksBefore ==
    ASSUME RequestIInv
    PROVE  /\ request \in Requests /\ query \in Seq(AnyByte) /\ left \in Nat
           /\ list \in Seq(Pair) /\ faults \in 0..MaxFaults
           /\ Reachable = BlocksOf(request)
                  \cup (IF stage = "none" THEN {} ELSE {<<"request", 0>>})
                  \cup (IF InParams THEN {<<"query", 0>>} ELSE {})
                  \cup (IF stage \in {"tokens", "collect"} THEN ListBlocks \cup StringsOf(list) ELSE {})
           /\ Reachable \subseteq heap
           /\ \E L : heap \subseteq Reachable \cup Kept \cup Dropped \cup L /\ Leaked(L)
  <1>1. /\ request \in Requests /\ query \in Seq(AnyByte) /\ left \in Nat
        /\ list \in Seq(Pair) /\ faults \in 0..MaxFaults
    BY DEF RequestIInv, RequestTypeOK, Requests
  <1>2. Reachable = BlocksOf(request)
            \cup (IF stage = "none" THEN {} ELSE {<<"request", 0>>})
            \cup (IF InParams THEN {<<"query", 0>>} ELSE {})
            \cup (IF stage \in {"tokens", "collect"} THEN ListBlocks \cup StringsOf(list) ELSE {})
    BY DEF Reachable, RequestBlocks, BlocksOf, InParams
  <1> QED
    BY <1>1, <1>2, AccountedNow DEF RequestIInv

LEMMA ReachableThen ==
    Reachable' = BlocksOf(request')
        \cup (IF stage' = "none" THEN {} ELSE {<<"request", 0>>})
        \cup (IF stage' \in {"list", "tokens", "collect"} THEN {<<"query", 0>>} ELSE {})
        \cup (IF stage' \in {"tokens", "collect"} THEN ListBlocks' \cup StringsOf(list') ELSE {})
  <1>1. Reachable' = (RequestBlocks
        \cup (IF stage = "none" THEN {} ELSE {<<"request", 0>>})
        \cup (IF InParams THEN {<<"query", 0>>} ELSE {})
        \cup (IF InParams /\ stage /= "list" THEN ListBlocks \cup StringsOf(list) ELSE {}))'
    BY DEF Reachable
  <1>2. RequestBlocks' = BlocksOf(request')
    BY DEF RequestBlocks, BlocksOf
  <1>3. StringsOf(list)' = StringsOf(list')
    BY DEF StringsOf
  <1> QED
    BY <1>1, <1>2, <1>3 DEF InParams

\* The names of the blocks.
LEMMA BlockNames ==
    ASSUME list \in Seq(Pair), request \in Requests
    PROVE  /\ ListBlocks \cup StringsOf(list) \subseteq
                  {<<"list", 0>>} \cup {"pair", "node", "key", "value"} \X (1..Len(list))
           /\ request.params = <<>> => BlocksOf(request) \subseteq {<<"target", 0>>, <<"protocol", 0>>}
  <1>1. DOMAIN list = 1..Len(list)
    OBVIOUS
  <1>2. StringsOf(list) \subseteq {"key", "value"} \X (1..Len(list))
    BY StringsOfPairs
  <1>3. ListBlocks \subseteq {<<"list", 0>>} \cup {"pair", "node"} \X (1..Len(list))
    BY <1>1 DEF ListBlocks
  <1>4. request.params = <<>> => BlocksOf(request) \subseteq {<<"target", 0>>, <<"protocol", 0>>}
    BY RequestIsBlocks
  <1> QED
    BY <1>2, <1>3, <1>4

LEMMA StepNewRequest ==
    ASSUME RequestIInv, NewRequest, parsing, state = "CompleteHeaders", UNCHANGED <<state, parsing>>
    PROVE  RequestIInv'
  <1>1. /\ stage = "none" /\ stage' = "startLine"
        /\ heap' = heap \cup {<<"request", 0>>}
        /\ request' = EmptyRequest
        /\ faults' = faults /\ query' = query /\ left' = left /\ list' = list
    BY DEF NewRequest, Goto, Works
  <1>2. request = EmptyRequest /\ query = <<>> /\ left = 0 /\ list = <<>> /\ request.protocol = <<>>
    BY <1>1 DEF RequestIInv, StepByStep, BeforeQuery
  <1>3. RequestTypeOK'
    BY <1>1, <1>2 DEF RequestIInv, RequestTypeOK
  <1>4. OnlyWhileParsing' /\ StepByStep'
    BY <1>1, <1>2 DEF OnlyWhileParsing, StepByStep, BeforeQuery, InParams, RequestIInv
  <1>5. PICK L : heap \subseteq Reachable \cup Kept \cup Dropped \cup L /\ Leaked(L)
    BY BlocksBefore
  <1>6. Reachable \subseteq heap /\ Reachable = BlocksOf(request)
    BY <1>1, BlocksBefore DEF InParams
  <1>7. Reachable' = BlocksOf(request) \cup {<<"request", 0>>}
    BY <1>1, <1>2, ReachableThen
  <1>8. Dropped \cup {<<"request", 0>>} = Dropped' \cup {<<"request", 0>>}
    BY <1>1 DEF Dropped
  <1>9. L = {}
    BY <1>2, <1>5 DEF Leaked
  <1>10. BlocksAccounted'
    <2>1. Leaked({})'
      BY DEF Leaked
    <2> QED
      BY <1>1, <1>5, <1>6, <1>7, <1>8, <1>9, <2>1, AccountedThen
  <1> QED
    BY <1>3, <1>4, <1>10 DEF RequestIInv

LEMMA StepFreeRequest ==
    ASSUME RequestIInv, FreeRequest, state' = "BadRequestError"
    PROVE  RequestIInv'
  <1>1. /\ stage = "free" /\ stage' = "none"
        /\ heap' = heap \ RequestBlocks
        /\ request' = EmptyRequest
        /\ faults' = faults /\ query' = query /\ left' = left /\ list' = list
    BY DEF FreeRequest, Goto
  <1>2. /\ <<>> \in Seq(AnyByte) /\ <<>> \in Seq(Pair)
        /\ EmptyRequest \in Requests /\ EmptyRequest.params = <<>> /\ EmptyRequest.protocol = <<>>
        /\ BlocksOf(EmptyRequest) = {}
    <2>1. <<>> \in Seq(AnyByte) /\ <<>> \in Seq(Pair)
      OBVIOUS
    <2>2. EmptyRequest \in Requests
      BY <2>1 DEF EmptyRequest, Requests
    <2> QED
      BY <2>1, <2>2, RequestIsBlocks DEF EmptyRequest
  <1>3. RequestTypeOK'
    BY <1>1, <1>2 DEF RequestIInv, RequestTypeOK, Requests
  <1>4. OnlyWhileParsing' /\ StepByStep'
    BY <1>1, <1>2 DEF OnlyWhileParsing, StepByStep, BeforeQuery, InParams, RequestIInv
  <1>5. PICK L : heap \subseteq Reachable \cup Kept \cup Dropped \cup L /\ Leaked(L)
    BY BlocksBefore
  <1>6. Reachable \subseteq heap /\ Reachable = RequestBlocks \cup {<<"request", 0>>}
    BY <1>1, BlocksBefore DEF InParams, RequestBlocks, BlocksOf
  <1>7. Reachable' = {}
    BY <1>1, <1>2, ReachableThen
  <1>8. Dropped' = Dropped \cup {<<"request", 0>>}
    BY <1>1 DEF Dropped
  <1>9. Leaked(L)'
    BY <1>1, <1>5 DEF Leaked
  <1>10. BlocksAccounted'
    BY <1>1, <1>5, <1>6, <1>7, <1>8, <1>9, AccountedThen
  <1> QED
    BY <1>3, <1>4, <1>10 DEF RequestIInv

\* parseStartLine: the copies of the target, the query and the protocol.
LEMMA StepLine ==
    ASSUME RequestIInv, NEW line \in Seq(AnyByte), UNCHANGED <<state, parsing>>,
           RefuseLine(line) \/ CopyTarget(line)
    PROVE  RequestIInv'
  <1>1. /\ stage = "startLine" /\ query' = query /\ left' = left /\ list' = list
        /\ state' = state /\ parsing' = parsing
    BY DEF RefuseLine, CopyTarget, Goto
  <1>2. /\ request = EmptyRequest /\ query = <<>> /\ left = 0 /\ list = <<>>
        /\ request.params = <<>> /\ request.protocol = <<>> /\ request.target = <<>>
    BY <1>1 DEF RequestIInv, StepByStep, BeforeQuery, EmptyRequest
  <1>3. PICK L : heap \subseteq Reachable \cup Kept \cup Dropped \cup L /\ Leaked(L)
    BY BlocksBefore
  <1>4. L = {}
    BY <1>1, <1>3 DEF Leaked
  <1>5. Leaked({})'
    BY DEF Leaked
  <1>6. /\ Reachable \subseteq heap /\ Reachable = BlocksOf(request) \cup {<<"request", 0>>}
        /\ request \in Requests /\ faults \in 0..MaxFaults
    BY <1>1, BlocksBefore DEF InParams
  <1>7. Dropped' \cup {<<"request", 0>>} = Dropped \cup {<<"request", 0>>}
    BY <1>1 DEF Dropped
  <1>8. CASE RefuseLine(line)
    <2>1. stage' = "free" /\ request' = request /\ heap' = heap /\ faults' = faults
      BY <1>8 DEF RefuseLine, Goto
    <2>2. RequestTypeOK'
      BY <1>1, <2>1 DEF RequestIInv, RequestTypeOK
    <2>3. OnlyWhileParsing' /\ StepByStep'
      BY <1>1, <1>2, <2>1 DEF OnlyWhileParsing, StepByStep, BeforeQuery, InParams, RequestIInv
    <2>4. Reachable' = Reachable
      BY <1>6, <2>1, ReachableThen
    <2>5. BlocksAccounted'
      BY <1>3, <1>4, <1>5, <1>6, <1>7, <2>1, <2>4, AccountedThen
    <2> QED
      BY <2>2, <2>3, <2>5 DEF RequestIInv
  <1>9. CASE CopyTarget(line)
    <2>1. PICK copy \in {Target(line), <<>>} :
              CopyFrom("target", Target(line), copy) /\ request' = [request EXCEPT !.target = copy]
      BY <1>9 DEF CopyTarget
    <2>2. stage' \in {"query", "protocol"} /\ Target(line) \in Seq(AnyByte)
      BY <1>9, LineParts DEF CopyTarget, Goto
    <2>3. /\ copy \in Seq(AnyByte) /\ faults' \in 0..MaxFaults
          /\ heap' = heap \cup (IF copy = <<>> THEN {} ELSE {<<"target", 0>>})
      <3>1. Target(line) \in Seq(AnyByte) /\ CopyFrom("target", Target(line), copy)
        BY <2>1, <2>2
      <3>2. faults \in 0..MaxFaults
        BY <1>6
      <3> QED
        BY <3>1, <3>2, CopyFromCopies
    <2>4. /\ request' \in Requests
          /\ request'.target = copy /\ request'.params = <<>> /\ request'.protocol = <<>>
      BY <1>2, <1>6, <2>1, <2>3 DEF Requests
    <2>5. RequestTypeOK'
      <3>1. heap' \subseteq heap \cup {<<"target", 0>>}
        BY <2>3
      <3> QED
        BY <1>1, <2>2, <2>3, <2>4, <3>1 DEF RequestIInv, RequestTypeOK, Requests
    <2>6. OnlyWhileParsing' /\ StepByStep'
      BY <1>1, <1>2, <2>2, <2>4 DEF OnlyWhileParsing, StepByStep, BeforeQuery, InParams, RequestIInv
    <2>7. /\ BlocksOf(request) = {}
          /\ BlocksOf(request') = IF copy = <<>> THEN {} ELSE {<<"target", 0>>}
      <3>1. BlocksOf(request) = {}
        BY <1>2, <1>6, RequestIsBlocks
      <3>2. BlocksOf(request') = IF copy = <<>> THEN {} ELSE {<<"target", 0>>}
        BY <2>4, RequestIsBlocks
      <3> QED
        BY <3>1, <3>2
    <2>8. Reachable' = BlocksOf(request') \cup {<<"request", 0>>}
      BY <2>2, ReachableThen
    <2>9. BlocksAccounted'
      BY <1>3, <1>4, <1>5, <1>6, <1>7, <2>3, <2>7, <2>8, AccountedThen
    <2> QED
      BY <2>5, <2>6, <2>9 DEF RequestIInv
  <1> QED
    BY <1>8, <1>9

LEMMA StepQuery ==
    ASSUME RequestIInv, NEW line \in Seq(AnyByte), Readable(line),
           UNCHANGED <<state, parsing>>, CopyQuery(line)
    PROVE  RequestIInv'
  <1>1. PICK copy \in {Query(line), <<>>} :
            /\ CopyFrom("query", Query(line), copy) /\ query' = copy
            /\ Goto("query", IF copy = <<>> THEN "protocol" ELSE "list")
    BY DEF CopyQuery
  <1>2. /\ stage = "query" /\ stage' = (IF copy = <<>> THEN "protocol" ELSE "list")
        /\ request' = request /\ left' = left /\ list' = list
        /\ state' = state /\ parsing' = parsing
    BY <1>1 DEF CopyQuery, Goto
  <1>3. /\ query = <<>> /\ left = 0 /\ list = <<>>
        /\ request.params = <<>> /\ request.protocol = <<>>
    BY <1>2 DEF RequestIInv, StepByStep, BeforeQuery
  <1>4. /\ Reachable \subseteq heap /\ Reachable = BlocksOf(request) \cup {<<"request", 0>>}
        /\ request \in Requests /\ faults \in 0..MaxFaults
    BY <1>2, BlocksBefore DEF InParams
  <1>5. /\ copy \in Seq(AnyByte) /\ faults' \in 0..MaxFaults
        /\ heap' = heap \cup (IF copy = <<>> THEN {} ELSE {<<"query", 0>>})
    <2>1. Query(line) \in Seq(AnyByte) /\ CopyFrom("query", Query(line), copy)
      BY <1>1, LineParts
    <2>2. faults \in 0..MaxFaults
      BY <1>4
    <2> QED
      BY <2>1, <2>2, CopyFromCopies
  <1>6. RequestTypeOK'
    <2>1. Len(query) = 0 /\ Len(copy) \in Nat
      BY <1>3, <1>5
    <2>2. \A b : b \in {"pair", "node", "key", "value"} \X (1..1)
                     => b \in {"pair", "node", "key", "value"} \X (1..Len(copy) + 1)
      BY <2>1
    <2>3. heap \subseteq {"context", "buffer", "request", "target", "query", "list", "params", "protocol"}
                            \X {0} \cup {"pair", "node", "key", "value"} \X (1..Len(query) + 1)
      BY DEF RequestIInv, RequestTypeOK
    <2>4. Len(query) + 1 = 1
      BY <2>1
    <2>5. heap' \subseteq {"context", "buffer", "request", "target", "query", "list", "params", "protocol"}
                            \X {0} \cup {"pair", "node", "key", "value"} \X (1..Len(copy) + 1)
      BY <1>5, <2>2, <2>3, <2>4
    <2>6. left \in 0..Len(copy) + 1
      BY <1>3, <2>1
    <2> QED
      BY <1>1, <1>2, <1>5, <2>5, <2>6 DEF RequestIInv, RequestTypeOK
  <1>7. OnlyWhileParsing' /\ StepByStep'
    BY <1>1, <1>2, <1>3 DEF OnlyWhileParsing, StepByStep, BeforeQuery, InParams, RequestIInv
  <1>8. PICK L : heap \subseteq Reachable \cup Kept \cup Dropped \cup L /\ Leaked(L)
    BY BlocksBefore
  <1>9. L = {} /\ Leaked({})'
    BY <1>2, <1>8 DEF Leaked
  <1>10. Reachable' = Reachable \cup (IF copy = <<>> THEN {} ELSE {<<"query", 0>>})
    BY <1>2, <1>4, ReachableThen
  <1>11. Dropped = {}
    BY <1>2, <1>3 DEF Dropped
  <1>12. BlocksAccounted'
    BY <1>4, <1>5, <1>8, <1>9, <1>10, <1>11, AccountedThen
  <1> QED
    BY <1>6, <1>7, <1>12 DEF RequestIInv

LEMMA StepProtocol ==
    ASSUME RequestIInv, NEW line \in Seq(AnyByte), Readable(line),
           UNCHANGED <<state, parsing>>, CopyProtocol(line)
    PROVE  RequestIInv'
  <1>1. PICK copy \in {Protocol(line), <<>>} :
            /\ CopyFrom("protocol", Protocol(line), copy)
            /\ request' = [request EXCEPT !.protocol = copy]
    BY DEF CopyProtocol
  <1>2. /\ stage = "protocol" /\ stage' = "free"
        /\ query' = query /\ left' = left /\ list' = list
        /\ state' = state /\ parsing' = parsing
    BY DEF CopyProtocol, Goto
  <1>3. list = <<>> /\ request.protocol = <<>>
    BY <1>2 DEF RequestIInv, StepByStep
  <1>4. /\ Reachable \subseteq heap /\ Reachable = BlocksOf(request) \cup {<<"request", 0>>}
        /\ request \in Requests /\ faults \in 0..MaxFaults
    BY <1>2, BlocksBefore DEF InParams
  <1>5. /\ copy \in Seq(AnyByte) /\ faults' \in 0..MaxFaults
        /\ heap' = heap \cup (IF copy = <<>> THEN {} ELSE {<<"protocol", 0>>})
    <2>1. Protocol(line) \in Seq(AnyByte) /\ CopyFrom("protocol", Protocol(line), copy)
      BY <1>1, LineParts
    <2>2. faults \in 0..MaxFaults
      BY <1>4
    <2> QED
      BY <2>1, <2>2, CopyFromCopies
  <1>6. /\ request' \in Requests
        /\ request'.target = request.target /\ request'.params = request.params
        /\ request'.protocol = copy
    BY <1>1, <1>4, <1>5 DEF Requests
  <1>7. RequestTypeOK'
    <2>1. heap' \subseteq heap \cup {<<"protocol", 0>>}
      BY <1>5
    <2> QED
      BY <1>2, <1>5, <1>6, <2>1 DEF RequestIInv, RequestTypeOK, Requests
  <1>8. OnlyWhileParsing' /\ StepByStep'
    BY <1>2, <1>3, <1>6 DEF OnlyWhileParsing, StepByStep, BeforeQuery, InParams, RequestIInv
  <1>9. BlocksOf(request') = BlocksOf(request) \cup (IF copy = <<>> THEN {} ELSE {<<"protocol", 0>>})
    <2>1. BlocksOf(request') = (IF request.target /= <<>> THEN {<<"target", 0>>} ELSE {})
                            \cup (IF request.params /= <<>> THEN {<<"params", 0>>} ELSE {})
                            \cup (IF copy /= <<>> THEN {<<"protocol", 0>>} ELSE {})
                            \cup StringsOf(request.params)
      BY <1>6, RequestIsBlocks
    <2>2. BlocksOf(request) = (IF request.target /= <<>> THEN {<<"target", 0>>} ELSE {})
                            \cup (IF request.params /= <<>> THEN {<<"params", 0>>} ELSE {})
                            \cup StringsOf(request.params)
      BY <1>3, <1>4, RequestIsBlocks
    <2> QED
      BY <2>1, <2>2
  <1>10. PICK L : heap \subseteq Reachable \cup Kept \cup Dropped \cup L /\ Leaked(L)
    BY BlocksBefore
  <1>11. L = {} /\ Leaked({})'
    BY <1>2, <1>10 DEF Leaked
  <1>12. Reachable' = BlocksOf(request') \cup {<<"request", 0>>}
    BY <1>2, ReachableThen
  <1>13. Dropped' = Dropped
    BY <1>2 DEF Dropped
  <1>14. BlocksAccounted'
    BY <1>4, <1>5, <1>9, <1>10, <1>11, <1>12, <1>13, AccountedThen
  <1> QED
    BY <1>7, <1>8, <1>14 DEF RequestIInv

\* parseParams: the list and the pairs.
LEMMA StepList ==
    ASSUME RequestIInv, UNCHANGED <<state, parsing>>, CreateList
    PROVE  RequestIInv'
  <1>1. /\ stage = "list" /\ stage' \in {"tokens", "free"}
        /\ heap' = (IF stage' = "tokens" THEN heap \cup {<<"list", 0>>} ELSE heap)
        /\ faults' \in {faults, faults - 1} /\ (stage' = "tokens" \/ faults > 0)
        /\ faults' = faults \/ faults > 0
        /\ request' = request /\ query' = query /\ left' = left /\ list' = list
        /\ state' = state /\ parsing' = parsing
    BY DEF CreateList, Works, Fails
  <1>2. /\ left = 0 /\ list = <<>> /\ query /= <<>> /\ query \in Seq(AnyByte)
        /\ request.params = <<>> /\ request.protocol = <<>> /\ faults \in 0..MaxFaults
    BY <1>1, BlocksBefore DEF RequestIInv, StepByStep, InParams
  <1>3. RequestTypeOK'
    <2>1. faults' \in 0..MaxFaults
      BY <1>1, <1>2, RequestAssumption
    <2>2. heap' \subseteq heap \cup {<<"list", 0>>}
      BY <1>1
    <2> QED
      BY <1>1, <2>1, <2>2 DEF RequestIInv, RequestTypeOK
  <1>4. OnlyWhileParsing' /\ StepByStep'
    <2>1. left < Len(query) /\ Len(list) <= left
      BY <1>2
    <2> QED
      BY <1>1, <1>2, <2>1 DEF OnlyWhileParsing, StepByStep, BeforeQuery, InParams, RequestIInv
  <1>5. /\ Reachable \subseteq heap
        /\ Reachable = BlocksOf(request) \cup {<<"request", 0>>, <<"query", 0>>}
    BY <1>1, BlocksBefore DEF InParams
  <1>6. PICK L : heap \subseteq Reachable \cup Kept \cup Dropped \cup L /\ Leaked(L)
    BY BlocksBefore
  <1>7. L = {} /\ Leaked({})'
    BY <1>1, <1>6 DEF Leaked
  <1>8. Dropped' = {<<"query", 0>>} /\ Dropped = {<<"query", 0>>}
    BY <1>1, <1>2 DEF Dropped
  <1>9. CASE stage' = "free"
    <2>1. Reachable' = BlocksOf(request) \cup {<<"request", 0>>}
      BY <1>1, <1>9, ReachableThen
    <2>2. BlocksAccounted'
      BY <1>1, <1>5, <1>6, <1>7, <1>8, <1>9, <2>1, AccountedThen
    <2> QED
      BY <1>3, <1>4, <2>2 DEF RequestIInv
  <1>10. CASE stage' = "tokens"
    <2>1. ListBlocks' = {<<"list", 0>>} /\ StringsOf(list') = {}
      <3>1. list' = <<>> /\ DOMAIN <<>> = {}
        BY <1>1, <1>2
      <3> QED
        BY <3>1 DEF ListBlocks, StringsOf
    <2>2. Reachable' = Reachable \cup {<<"list", 0>>}
      BY <1>1, <1>5, <1>10, <2>1, ReachableThen
    <2>3. BlocksAccounted'
      BY <1>1, <1>5, <1>6, <1>7, <1>8, <1>10, <2>2, AccountedThen
    <2> QED
      BY <1>3, <1>4, <2>3 DEF RequestIInv
  <1> QED
    BY <1>1, <1>9, <1>10

LEMMA StepKeepPair ==
    ASSUME RequestIInv, UNCHANGED <<state, parsing>>, KeepPair
    PROVE  RequestIInv'
  <1> DEFINE i == Len(list) + 1
  <1>1. PICK denied \in Denials :
            /\ faults' = faults - Cardinality(denied) /\ faults' >= 0
            /\ list' = Append(list, Parsed(denied))
            /\ heap' = heap \cup ({"pair", "node"} \X {i}) \cup Strings(i, Parsed(denied))
    BY DEF KeepPair
  <1>2. /\ stage = "tokens" /\ left' = Right + 1
        /\ stage' = (IF Right + 1 < Len(query) THEN "tokens" ELSE "collect")
        /\ request' = request /\ query' = query
        /\ state' = state /\ parsing' = parsing
    BY DEF KeepPair, NextLeft
  <1>3. /\ query \in Seq(AnyByte) /\ left \in Nat /\ list \in Seq(Pair) /\ faults \in 0..MaxFaults
        /\ left < Len(query) /\ Len(list) <= left /\ query /= <<>>
        /\ request.params = <<>> /\ request.protocol = <<>>
    BY <1>2, BlocksBefore DEF RequestIInv, StepByStep, InParams
  <1>4. Right \in left + 1..Len(query) /\ Parsed(denied) \in Pair
    BY <1>3, Token, ParsedIsPair
  <1>5. /\ Len(query) \in Nat /\ i \in 1..Len(query) /\ i <= Right
        /\ list' \in Seq(Pair) /\ Len(list') = i /\ list' /= <<>>
    <2>1. Len(query) \in Nat /\ Len(list) \in Nat
      BY <1>3
    <2>2. list' \in Seq(Pair) /\ Len(list') = i
      BY <1>1, <1>3, <1>4
    <2> QED
      BY <1>3, <1>4, <2>1, <2>2
  <1>6. Strings(i, Parsed(denied)) \subseteq {"key", "value"} \X {i}
    BY <1>4, StringBlocks
  <1>7. RequestTypeOK'
    <2>1. faults' \in 0..MaxFaults
      BY <1>1, <1>3, DenialsCount, RequestAssumption
    <2>2. heap' \subseteq heap \cup {"pair", "node", "key", "value"} \X {i}
      BY <1>1, <1>6
    <2>3. i \in 1..Len(query) + 1 /\ Right + 1 \in 0..Len(query) + 1
      BY <1>3, <1>4, <1>5
    <2>4. heap' \subseteq {"context", "buffer", "request", "target", "query", "list", "params", "protocol"}
                              \X {0} \cup {"pair", "node", "key", "value"} \X (1..Len(query) + 1)
      BY <2>2, <2>3 DEF RequestIInv, RequestTypeOK
    <2> HIDE DEF i
    <2> QED
      BY <1>2, <1>5, <2>1, <2>3, <2>4 DEF RequestIInv, RequestTypeOK
  <1>8. OnlyWhileParsing' /\ StepByStep'
    <2>1. Len(list') <= left'
      BY <1>2, <1>4, <1>5
    <2> QED
      BY <1>2, <1>3, <1>5, <2>1 DEF OnlyWhileParsing, StepByStep, BeforeQuery, InParams, RequestIInv
  <1>9. PICK L : heap \subseteq Reachable \cup Kept \cup Dropped \cup L /\ Leaked(L)
    BY BlocksBefore
  <1>10. L = {} /\ Leaked({})'
    BY <1>2, <1>9 DEF Leaked
  <1>11. Dropped' = Dropped
    BY <1>2 DEF Dropped
  <1>12. ListBlocks' = ListBlocks \cup {"pair", "node"} \X {i}
    <2>1. DOMAIN list' = DOMAIN list \cup {i}
      BY <1>1, <1>3
    <2> HIDE DEF i
    <2> QED
      BY <2>1 DEF ListBlocks
  <1>13. StringsOf(list') = StringsOf(list) \cup Strings(i, Parsed(denied))
    BY <1>1, <1>3, <1>4, StringsAppended
  <1> HIDE DEF i
  <1>14. /\ Reachable \subseteq heap
         /\ Reachable = BlocksOf(request) \cup {<<"request", 0>>, <<"query", 0>>}
                            \cup ListBlocks \cup StringsOf(list)
    BY <1>2, BlocksBefore DEF InParams
  <1>15. Reachable' = Reachable \cup ({"pair", "node"} \X {i}) \cup Strings(i, Parsed(denied))
    <2>1. Reachable' = BlocksOf(request) \cup {<<"request", 0>>, <<"query", 0>>}
                            \cup ListBlocks' \cup StringsOf(list')
      BY <1>2, ReachableThen
    <2> QED
      BY <1>12, <1>13, <1>14, <2>1
  <1>16. BlocksAccounted'
    BY <1>1, <1>9, <1>10, <1>11, <1>14, <1>15, AccountedThen
  <1> QED
    BY <1>7, <1>8, <1>16 DEF RequestIInv

\* freeListReturnFalse, and what it leaves to the blocks.
LEMMA StepAbandon ==
    ASSUME RequestIInv, stage \in {"tokens", "collect"}, Abandon, UNCHANGED <<state, parsing>>,
           faults' \in 0..MaxFaults,
           NEW L, heap' = (heap \ (ListBlocks \cup StringsOf(list))) \cup L,
           L = {} \/ faults' < MaxFaults,
           L = {} \/ \E i \in 1..Len(query) : L \subseteq {"key", "value"} \X {i}
    PROVE  RequestIInv'
  <1>1. /\ list' = <<>> /\ stage' = "free" /\ request' = request /\ query' = query /\ left' = left
        /\ state' = state /\ parsing' = parsing
    BY DEF Abandon
  <1>2. /\ query \in Seq(AnyByte) /\ list \in Seq(Pair) /\ request \in Requests /\ query /= <<>>
        /\ request.params = <<>> /\ request.protocol = <<>>
    BY BlocksBefore DEF RequestIInv, StepByStep, InParams
  <1>3. Leaked(L)'
    BY <1>1 DEF Leaked
  <1>4. <<>> \in Seq(Pair) /\ Len(query) \in Nat
    BY <1>2
  <1>5. RequestTypeOK'
    <2>1. \A i \in 1..Len(query) : i \in 1..Len(query) + 1
      BY <1>4
    <2>2. L \subseteq {"key", "value"} \X (1..Len(query) + 1)
      BY <2>1
    <2> QED
      BY <1>1, <1>4, <2>2 DEF RequestIInv, RequestTypeOK
  <1>6. OnlyWhileParsing' /\ StepByStep'
    BY <1>1, <1>2 DEF OnlyWhileParsing, StepByStep, BeforeQuery, InParams, RequestIInv
  <1>7. PICK M : heap \subseteq Reachable \cup Kept \cup Dropped \cup M /\ Leaked(M)
    BY BlocksBefore
  <1>8. M = {}
    BY <1>7 DEF Leaked
  <1>9. /\ Reachable \subseteq heap
        /\ Reachable = BlocksOf(request) \cup {<<"request", 0>>, <<"query", 0>>}
                           \cup ListBlocks \cup StringsOf(list)
    BY BlocksBefore DEF InParams
  <1>10. Reachable' = BlocksOf(request) \cup {<<"request", 0>>}
    BY <1>1, ReachableThen
  <1>11. Dropped' = {<<"query", 0>>} /\ Dropped = {<<"query", 0>>}
    BY <1>1, <1>2 DEF Dropped
  <1>12. (BlocksOf(request) \cup {<<"request", 0>>}) \cap (ListBlocks \cup StringsOf(list)) = {}
    BY <1>2, BlockNames
  <1>13. BlocksAccounted'
    BY <1>3, <1>7, <1>8, <1>9, <1>10, <1>11, <1>12, AccountedThen
  <1> QED
    BY <1>5, <1>6, <1>13 DEF RequestIInv

LEMMA StepFails ==
    ASSUME RequestIInv, UNCHANGED <<state, parsing>>, PairFails \/ AddEndFails \/ CollectFails
    PROVE  RequestIInv'
  <1>1. faults \in 0..MaxFaults /\ query \in Seq(AnyByte) /\ left \in Nat /\ list \in Seq(Pair)
    BY BlocksBefore
  <1>2. CASE PairFails \/ CollectFails
    <2>1. /\ stage \in {"tokens", "collect"} /\ Abandon
          /\ heap' = (heap \ (ListBlocks \cup StringsOf(list))) \cup {}
          /\ faults > 0 /\ faults' = faults - 1
      BY <1>2 DEF PairFails, CollectFails, Fails
    <2>2. faults' \in 0..MaxFaults
      BY <1>1, <2>1, RequestAssumption
    <2> QED
      BY <2>1, <2>2, StepAbandon
  <1>3. CASE AddEndFails
    <2> DEFINE i == Len(list) + 1
    <2>1. /\ stage = "tokens" /\ Abandon
          /\ left < Len(query) /\ Len(list) <= left
      BY <1>3 DEF AddEndFails, RequestIInv, StepByStep
    <2>2. PICK denied \in Denials :
              /\ faults' = faults - Cardinality(denied) - 1 /\ faults' >= 0
              /\ heap' = (heap \ (ListBlocks \cup StringsOf(list))) \cup Strings(i, Parsed(denied))
      BY <1>3 DEF AddEndFails
    <2>3. faults' \in 0..MaxFaults /\ faults' < MaxFaults
      BY <1>1, <2>2, DenialsCount, RequestAssumption
    <2>4. Strings(i, Parsed(denied)) \subseteq {"key", "value"} \X {i}
      BY <1>1, <2>1, ParsedIsPair, StringBlocks
    <2>5. i \in 1..Len(query)
      BY <1>1, <2>1
    <2> HIDE DEF i
    <2> QED
      BY <2>1, <2>2, <2>3, <2>4, <2>5, StepAbandon
  <1> QED
    BY <1>2, <1>3

LEMMA StepCollect ==
    ASSUME RequestIInv, UNCHANGED <<state, parsing>>, Collect
    PROVE  RequestIInv'
  <1>1. /\ stage = "collect" /\ stage' = "protocol"
        /\ heap' = (heap \ ListBlocks) \cup {<<"params", 0>>}
        /\ request' = [request EXCEPT !.params = list]
        /\ list' = <<>> /\ faults' = faults /\ query' = query /\ left' = left
        /\ state' = state /\ parsing' = parsing
    BY DEF Collect, Goto, Works
  <1>2. /\ list \in Seq(Pair) /\ list /= <<>> /\ request \in Requests /\ query /= <<>>
        /\ request.params = <<>> /\ request.protocol = <<>>
    BY <1>1, BlocksBefore DEF RequestIInv, StepByStep, InParams
  <1>3. /\ request' \in Requests
        /\ request'.target = request.target /\ request'.params = list /\ request'.protocol = <<>>
    BY <1>1, <1>2 DEF Requests
  <1>4. RequestTypeOK'
    <2>1. heap' \subseteq heap \cup {<<"params", 0>>} /\ <<>> \in Seq(Pair)
      BY <1>1
    <2> QED
      BY <1>1, <1>3, <2>1 DEF RequestIInv, RequestTypeOK, Requests
  <1>5. OnlyWhileParsing' /\ StepByStep'
    BY <1>1, <1>2, <1>3 DEF OnlyWhileParsing, StepByStep, BeforeQuery, InParams, RequestIInv
  <1>6. PICK L : heap \subseteq Reachable \cup Kept \cup Dropped \cup L /\ Leaked(L)
    BY BlocksBefore
  <1>7. L = {} /\ Leaked({})'
    BY <1>1, <1>6 DEF Leaked
  <1>8. /\ Reachable \subseteq heap
        /\ Reachable = BlocksOf(request) \cup {<<"request", 0>>, <<"query", 0>>}
                           \cup ListBlocks \cup StringsOf(list)
    BY <1>1, BlocksBefore DEF InParams
  <1>9. BlocksOf(request') = BlocksOf(request) \cup {<<"params", 0>>} \cup StringsOf(list)
    <2>1. BlocksOf(request') = (IF request.target /= <<>> THEN {<<"target", 0>>} ELSE {})
                            \cup {<<"params", 0>>} \cup StringsOf(list)
      BY <1>2, <1>3, RequestIsBlocks
    <2>2. BlocksOf(request) = (IF request.target /= <<>> THEN {<<"target", 0>>} ELSE {})
      BY <1>2, RequestIsBlocks
    <2> QED
      BY <2>1, <2>2
  <1>10. Reachable' = BlocksOf(request') \cup {<<"request", 0>>}
    BY <1>1, ReachableThen
  <1>11. Dropped' = {<<"query", 0>>} /\ Dropped = {<<"query", 0>>}
    BY <1>1, <1>2 DEF Dropped
  <1>12. (BlocksOf(request) \cup {<<"request", 0>>} \cup StringsOf(list)) \cap ListBlocks = {}
    <2>1. ListBlocks \subseteq {<<"list", 0>>} \cup {"pair", "node"} \X (1..Len(list))
      <3>1. DOMAIN list = 1..Len(list)
        BY <1>2
      <3> QED
        BY <3>1 DEF ListBlocks
    <2>2. BlocksOf(request) \subseteq {<<"target", 0>>, <<"protocol", 0>>}
      BY <1>2, BlockNames
    <2>3. StringsOf(list) \subseteq {"key", "value"} \X (1..Len(list))
      BY <1>2, StringsOfPairs
    <2> QED
      BY <2>1, <2>2, <2>3
  <1>13. BlocksAccounted'
    BY <1>1, <1>6, <1>7, <1>8, <1>9, <1>10, <1>11, <1>12, AccountedThen
  <1> QED
    BY <1>4, <1>5, <1>13 DEF RequestIInv

\* The steps that leave the request alone.
LEMMA RequestKept ==
    ASSUME RequestIInv, UNCHANGED requestVars, OnlyWhileParsing',
           state = "BadRequestError" => state' = "BadRequestError"
    PROVE  RequestIInv'
  <1>1. /\ request' = request /\ stage' = stage /\ query' = query /\ left' = left
        /\ list' = list /\ heap' = heap /\ faults' = faults
    BY DEF requestVars
  <1>2. RequestTypeOK' /\ StepByStep'
    BY <1>1 DEF RequestIInv, RequestTypeOK, StepByStep, BeforeQuery, InParams
  <1>3. BlocksAccounted'
    BY <1>1 DEF RequestIInv, BlocksAccounted, Lost, Reachable, RequestBlocks, ListBlocks, StringsOf, InParams
  <1> QED
    BY <1>2, <1>3 DEF RequestIInv

\* All the steps on the line that was read.
LEMMA StepRead ==
    ASSUME RequestIInv, LineRead, StartLineBytes \in Seq(AnyByte),
           ReadRequest(StartLineBytes), UNCHANGED <<state, parsing>>
    PROVE  RequestIInv'
  <1> DEFINE line == StartLineBytes
  <1>1. CASE RefuseLine(line) \/ CopyTarget(line)
    BY <1>1, StepLine
  <1>2. CASE CopyQuery(line)
    <2>1. Readable(line)
      BY <1>2 DEF CopyQuery, Goto, LineRead
    <2> QED
      BY <1>2, <2>1, StepQuery
  <1>3. CASE CopyProtocol(line)
    <2>1. Readable(line)
      BY <1>3 DEF CopyProtocol, Goto, LineRead
    <2> QED
      BY <1>3, <2>1, StepProtocol
  <1>4. CASE SkipToken
    <2>1. UNCHANGED requestVars
      BY <1>4 DEF SkipToken
    <2>2. OnlyWhileParsing'
      BY <2>1 DEF RequestIInv, OnlyWhileParsing, requestVars
    <2> QED
      BY <2>1, <2>2, RequestKept
  <1>5. CASE CreateList \/ KeepPair \/ PairFails \/ AddEndFails \/ CollectFails \/ Collect
    BY <1>5, StepList, StepKeepPair, StepFails, StepCollect
  <1> QED
    BY <1>1, <1>2, <1>3, <1>4, <1>5 DEF ReadRequest

LEMMA RequestUnallocated ==
    ASSUME RequestIInv, AllocateFails
    PROVE  RequestIInv'
  <1>1. /\ stage = "none" /\ stage' = "none" /\ state = "CompleteHeaders" /\ state' = "InternalError"
        /\ request' = request /\ query' = query /\ left' = left /\ list' = list /\ heap' = heap
        /\ faults > 0 /\ faults' = faults - 1
    BY DEF AllocateFails, Fails
  <1>2. RequestTypeOK'
    <2>1. faults' \in 0..MaxFaults
      BY <1>1, BlocksBefore, RequestAssumption
    <2> QED
      BY <1>1, <2>1 DEF RequestIInv, RequestTypeOK
  <1>3. OnlyWhileParsing' /\ StepByStep'
    BY <1>1 DEF RequestIInv, OnlyWhileParsing, StepByStep, BeforeQuery, InParams
  <1>4. PICK L : heap \subseteq Reachable \cup Kept \cup Dropped \cup L /\ Leaked(L)
    BY BlocksBefore
  <1>5. L = {} /\ Leaked({})'
    <2>1. query = <<>>
      BY <1>1 DEF RequestIInv, StepByStep, BeforeQuery
    <2> QED
      BY <1>4, <2>1 DEF Leaked
  <1>6. Reachable \subseteq heap /\ Reachable' = Reachable /\ Dropped' = Dropped
    BY <1>1, BlocksBefore, ReachableThen DEF Dropped, InParams
  <1>7. BlocksAccounted'
    BY <1>1, <1>4, <1>5, <1>6, AccountedThen
  <1> QED
    BY <1>2, <1>3, <1>7 DEF RequestIInv

LEMMA RequestFreed ==
    ASSUME RequestIInv, FreeContext
    PROVE  RequestIInv'
  <1>1. /\ stage = "none" /\ stage' = "none" /\ state' = state
        /\ request' = request /\ query' = query /\ left' = left /\ list' = list
        /\ faults' = faults /\ heap' \subseteq heap
    BY DEF FreeContext, RequestIInv, OnlyWhileParsing
  <1>2. RequestTypeOK' /\ OnlyWhileParsing' /\ StepByStep'
    BY <1>1 DEF RequestIInv, RequestTypeOK, OnlyWhileParsing, StepByStep, BeforeQuery, InParams
  <1>3. BlocksOf(request) = {}
    <2>1. request \in Requests /\ request = EmptyRequest
      BY <1>1, BlocksBefore DEF RequestIInv, StepByStep
    <2> QED
      BY <2>1, RequestIsBlocks DEF EmptyRequest
  <1>4. Reachable = {} /\ Reachable' = {} /\ Dropped' = Dropped
    BY <1>1, <1>3, BlocksBefore, ReachableThen DEF Dropped, InParams
  <1>5. PICK L : heap \subseteq Reachable \cup Kept \cup Dropped \cup L /\ Leaked(L)
    BY BlocksBefore
  <1>6. Leaked(L)'
    BY <1>1, <1>5 DEF Leaked
  <1>7. BlocksAccounted'
    BY <1>1, <1>4, <1>5, <1>6, AccountedThen
  <1> QED
    BY <1>2, <1>7 DEF RequestIInv

-----------------------------------------------------------------------------
(* All the steps keep the whole invariant.                                 *)

Search == NothingVisible \/ StartLineUnended \/ StartLineFound \/ StartLineEmpty
          \/ HeadersFound \/ HeadersTooLong \/ HeadersUnended

LEMMA StepSearch ==
    ASSUME IInv, Search
    PROVE  IInv'
  <1>1. BytesIInv'
    BY BytesSearch DEF IInv, Search
  <1>2. state \in {"AwaitingStartLine", "AwaitingHeaders"} /\ UNCHANGED requestVars
    BY DEF Search, NothingVisible, StartLineUnended, StartLineFound, StartLineEmpty,
           HeadersFound, HeadersTooLong, HeadersUnended
  <1>3. stage = "none" /\ stage' = "none"
    BY <1>2 DEF IInv, RequestIInv, OnlyWhileParsing, requestVars
  <1>4. RequestIInv'
    <2>1. OnlyWhileParsing'
      BY <1>3 DEF OnlyWhileParsing
    <2> QED
      BY <1>2, <2>1, RequestKept DEF IInv
  <1>5. LineRead'
    BY <1>3 DEF LineRead
  <1> QED
    BY <1>1, <1>4, <1>5 DEF IInv

LEMMA StepReceive ==
    ASSUME IInv, NEW n \in 1..Len(unsent), Receive(n)
    PROVE  IInv'
  <1>1. BytesIInv'
    BY BytesReceive DEF IInv
  <1>2. /\ ~parsing /\ UNCHANGED requestVars
        /\ state' = IF state \in Restarts THEN "AwaitingStartLine" ELSE state
    BY DEF Receive
  <1>3. stage = "none" /\ stage' = "none"
    BY <1>2 DEF IInv, RequestIInv, OnlyWhileParsing, requestVars
  <1>4. RequestIInv'
    <2>1. OnlyWhileParsing'
      BY <1>3 DEF OnlyWhileParsing
    <2> QED
      BY <1>2, <2>1, RequestKept DEF IInv, Restarts
  <1>5. LineRead'
    BY <1>3 DEF LineRead
  <1> QED
    BY <1>1, <1>4, <1>5 DEF IInv

\* The same start line is as readable.
LEMMA SameLine ==
    ASSUME buffer' = buffer, startLine' = startLine
    PROVE  Readable(StartLineBytes)' = Readable(StartLineBytes)
  <1>1. StartLineBytes' = StartLineBytes
    BY DEF StartLineBytes
  <1>2. Readable(StartLineBytes)' = Readable(StartLineBytes')
    BY DEF Readable, MethodEnd, UriEnd, Methods, Place, SelectInSubSeq, Min
  <1> QED
    BY <1>1, <1>2

\* The request of a call: its bytes and its state stay until it is refused.
LEMMA StepRequest ==
    ASSUME IInv, AllocateRequest \/ ParseRequest
    PROVE  IInv'
  <1>1. /\ UNCHANGED <<input, state, ranges, parsing>>
        /\ parsing /\ state = "CompleteHeaders"
    BY DEF AllocateRequest, ParseRequest
  <1>2. BytesIInv'
    BY <1>1, BytesKept DEF IInv, Finished
  <1>3. StartLineBytes \in Seq(AnyByte)
    BY <1>1, StartLineReceived DEF IInv, LineFound
  <1>4. RequestIInv'
    <2>1. CASE AllocateRequest
      BY <1>1, <2>1, StepNewRequest DEF IInv, AllocateRequest
    <2>2. CASE ParseRequest
      BY <1>1, <1>3, <2>2, StepRead DEF IInv, ParseRequest
    <2> QED
      BY <2>1, <2>2
  <1>5. LineRead'
    <2>1. Readable(StartLineBytes)' = Readable(StartLineBytes)
      BY <1>1, SameLine DEF input, ranges
    <2>2. stage' \in {"startLine", "free"} \/ Readable(StartLineBytes)
      BY DEF IInv, LineRead, AllocateRequest, NewRequest, ParseRequest, ReadRequest, Goto,
             RefuseLine, CopyTarget, CopyQuery, CopyProtocol, CreateList, SkipToken, KeepPair,
             PairFails, AddEndFails, Abandon, Collect, CollectFails, requestVars
    <2> QED
      BY <2>1, <2>2 DEF LineRead
  <1> QED
    BY <1>2, <1>4, <1>5 DEF IInv

\* A request is given up only with its headers found.
LEMMA StepRefuse ==
    ASSUME IInv, AllocateFails \/ RefuseRequest
    PROVE  IInv'
  <1>1. /\ state = "CompleteHeaders" /\ state' \in {"InternalError", "BadRequestError"}
        /\ buffer' = buffer /\ unsent' = unsent /\ parsing' = parsing
        /\ startLine' = startLine /\ headers' = headers
    BY DEF AllocateFails, RefuseRequest, input, ranges
  <1>2. BytesIInv'
    <2>1. HeaderEnds(headers.startPos) /= {} /\ LineFound /\ LineFound'
      BY <1>1 DEF IInv, BytesIInv, HeadersAreEnded, LineFound
    <2>2. Occurrences(Separator, 0)' = Occurrences(Separator, 0)
      BY <1>1, SameBytes
    <2>3. BytesTypeOK' /\ SkippedIsBlank' /\ LineIsEnded' /\ HeadersAreEnded'
      BY <1>1, <2>1, <2>2 DEF IInv, BytesIInv, BytesTypeOK, SkippedIsBlank, LineIsEnded, HeadersAreEnded, Finished
    <2>4. CallFollowsBytes'
      <3>1. parsing /\ startLine.startPos = 0 /\ HasLine /\ LineEnd > 1 /\ HasHeaders
            /\ LineEnd = startLine.endPos + 1
        BY <1>1, <2>1 DEF IInv, BytesIInv, CallFollowsBytes, AllocateFails, RefuseRequest
      <3>2. HasLine' /\ LineEnd' = LineEnd /\ HasHeaders'
        BY <1>1, <3>1, SameBytes DEF HasLine, LineEnd, HasHeaders
      <3>3. state' = "InternalError" => faults' < MaxFaults
        BY DEF AllocateFails, RefuseRequest, Fails, IInv, RequestIInv, RequestTypeOK
      <3>4. Deserved(state)'
        BY <1>1, <3>1, <3>2, <3>3 DEF Deserved
      <3> QED
        BY <1>1, <3>1, <3>2, <3>4 DEF CallFollowsBytes
    <2> QED
      BY <2>3, <2>4 DEF BytesIInv
  <1>3. RequestIInv'
    BY RequestUnallocated, StepFreeRequest DEF IInv, RefuseRequest
  <1>4. stage' = "none"
    BY DEF AllocateFails, RefuseRequest, FreeRequest, Goto
  <1>5. LineRead'
    BY <1>4 DEF LineRead
  <1> QED
    BY <1>2, <1>3, <1>5 DEF IInv

LEMMA StepReturn ==
    ASSUME IInv, Return \/ FreeContext \/ UNCHANGED vars
    PROVE  IInv'
  <1>1. /\ UNCHANGED <<input, ranges, state>> /\ faults' = faults
        /\ parsing' = parsing \/ (parsing' = FALSE /\ state \in Finished)
    BY DEF Return, Exits, FreeContext, vars, input, ranges, requestVars
  <1>2. BytesIInv'
    BY <1>1, BytesKept DEF IInv
  <1>3. RequestIInv'
    <2>1. CASE Return
      <3>1. stage = "none" /\ UNCHANGED requestVars
        BY <2>1 DEF Return, Exits, Finished, IInv, RequestIInv, OnlyWhileParsing
      <3>2. OnlyWhileParsing'
        BY <3>1 DEF OnlyWhileParsing, requestVars
      <3> QED
        BY <1>1, <3>1, <3>2, RequestKept DEF IInv
    <2>2. CASE FreeContext
      BY <2>2, RequestFreed DEF IInv
    <2>3. CASE UNCHANGED vars
      <3>1. UNCHANGED requestVars /\ OnlyWhileParsing'
        BY <2>3 DEF vars, requestVars, IInv, RequestIInv, OnlyWhileParsing
      <3> QED
        BY <1>1, <3>1, RequestKept DEF IInv
    <2> QED
      BY <2>1, <2>2, <2>3
  <1>4. LineRead'
    <2>1. stage' = "none" \/ UNCHANGED vars
      BY DEF IInv, RequestIInv, OnlyWhileParsing, Return, Exits, Finished, FreeContext, requestVars
    <2>2. ASSUME UNCHANGED vars PROVE LineRead'
      <3>1. Readable(StartLineBytes)' = Readable(StartLineBytes)
        BY <2>2, SameLine DEF vars
      <3> QED
        BY <2>2, <3>1 DEF vars, requestVars, IInv, LineRead
    <2> QED
      BY <2>1, <2>2 DEF LineRead
  <1> QED
    BY <1>2, <1>3, <1>4 DEF IInv

\* Whatever the client sends, however it is cut and whichever allocations
\* fail, the bytes, the ranges, the steps of a request and its blocks stay as
\* the invariant has them.
THEOREM Invariance == Spec => []IInv
  <1>1. Init => IInv
    <2> SUFFICES ASSUME Init PROVE IInv
      OBVIOUS
    <2>1. stage = "none"
      BY DEF Init, RequestInit
    <2> QED
      BY <2>1, BytesInit, RequestStarts DEF IInv, LineRead
  <1>2. IInv /\ [Next]_vars => IInv'
    <2> SUFFICES ASSUME IInv, [Next]_vars PROVE IInv'
      OBVIOUS
    <2>1. ASSUME NEW n \in 1..Len(unsent), Receive(n) PROVE IInv'
      BY <2>1, StepReceive
    <2>2. ASSUME Search PROVE IInv'
      BY <2>2, StepSearch
    <2>3. ASSUME AllocateRequest \/ ParseRequest PROVE IInv'
      BY <2>3, StepRequest
    <2>4. ASSUME AllocateFails \/ RefuseRequest PROVE IInv'
      BY <2>4, StepRefuse
    <2>5. ASSUME Return \/ FreeContext \/ UNCHANGED vars PROVE IInv'
      BY <2>5, StepReturn
    <2> QED
      BY <2>1, <2>2, <2>3, <2>4, <2>5 DEF Next, TryParseRequest, Search
  <1> QED
    BY <1>1, <1>2, PTL DEF Spec

\* Every variable keeps its type.
THEOREM TypeCorrect == Spec => []TypeOK
  <1>1. IInv => TypeOK
    BY DEF IInv, BytesIInv, BytesTypeOK, RequestIInv, TypeOK
  <1> QED
    BY <1>1, Invariance, PTL

\* No search and no copy reads past the bytes received: the ranges of the
\* start line and the headers end before them.
THEOREM RangesCorrect == Spec => []RangesInBuffer
  <1>1. IInv => RangesInBuffer
    <2> SUFFICES ASSUME IInv PROVE RangesInBuffer
      OBVIOUS
    <2>1. /\ buffer \in Seq(AnyByte) /\ Length \in Nat /\ startLine.endPos \in Nat
      BY DEF IInv, BytesIInv, BytesTypeOK, AnyRange, Length
    <2>2. LineFound => startLine.endPos + 1 \in 0..Length - 2
      BY <2>1, SeparatorAt DEF IInv, BytesIInv, LineIsEnded
    <2>3. LineFound => startLine.endPos < Length /\ headers.startPos <= Length
      BY <2>1, <2>2 DEF IInv, BytesIInv, LineIsEnded
    <2> QED
      BY <2>3 DEF IInv, BytesIInv, HeadersAreEnded, RangesInBuffer
  <1> QED
    BY <1>1, Invariance, PTL

\* Every call that returns leaves the state that all the bytes received so far
\* deserve, however many calls have looked at them before.
THEOREM VerdictCorrect == Spec => VerdictFollowsBytes
  <1>1. ASSUME IInv, [Next]_vars, parsing, ~parsing'
        PROVE  Deserved(state')
    <2>1. BytesIInv
      BY <1>1 DEF IInv
    <2>2. /\ state \in Finished => Deserved(state)
          /\ startLine.endPos \in Nat /\ Length \in Nat /\ Length <= BufferSize
      BY <1>1, <2>1 DEF BytesIInv, CallFollowsBytes, BytesTypeOK, AnyRange, Length
    <2>3. CASE StartLineUnended
      <3>1. /\ Visible(startLine.startPos) /= {} /\ Occurrences(Separator, LineSearchStart) = {}
            /\ state' = "AwaitingStartLine"
        BY <2>3 DEF StartLineUnended
      <3>2. startLine.startPos = 0
        BY <1>1, <2>1, <3>1, SearchFollowsBytes
      <3> QED
        BY <3>1, <3>2 DEF Deserved, HasLine, LineSearchStart
    <2>4. CASE StartLineEmpty
      <3>1. state = "AwaitingHeaders" /\ NoStartLine /\ state' = "BadRequestError"
        BY <2>4 DEF StartLineEmpty
      <3> QED
        BY <1>1, <2>1, <3>1, SearchFollowsBytes DEF Deserved
    <2>5. CASE HeadersTooLong
      <3>1. /\ state = "AwaitingHeaders" /\ ~NoStartLine /\ HeaderEnds(headers.startPos) = {}
            /\ Length >= BufferSize /\ state' = "LongHeadersError"
        BY <2>5 DEF HeadersTooLong
      <3>2. HasLine /\ LineEnd > 1 /\ ~HasHeaders /\ Length = BufferSize
        BY <1>1, <2>1, <2>2, <3>1, SearchFollowsBytes, ParserAssumption
      <3> QED
        BY <3>1, <3>2 DEF Deserved
    <2>6. CASE Return
      BY <2>2, <2>6 DEF Return, Exits
    <2> QED
      BY <1>1, <2>3, <2>4, <2>5, <2>6
         DEF Next, TryParseRequest, Receive, NothingVisible, StartLineFound, HeadersFound, HeadersUnended,
             AllocateRequest, AllocateFails, ParseRequest, RefuseRequest, FreeContext, vars
  <1>2. IInv /\ [Next]_vars => ((parsing /\ ~parsing') => Deserved(state'))
    BY <1>1
  <1> QED
    BY <1>2, Invariance, PTL DEF Spec, VerdictFollowsBytes

\* Whichever allocations fail, what the parser can reach has not been freed,
\* and it loses no more than the copy of a query, a refused HttpRequest and, once
\* an allocation has failed, the strings of one pair.
THEOREM BlocksCorrect == Spec => []BlocksAccounted
  <1>1. IInv => BlocksAccounted
    BY DEF IInv, RequestIInv
  <1> QED
    BY <1>1, Invariance, PTL

-----------------------------------------------------------------------------
(* The parameters spell the query.  The list of pairs spells what has been *)
(* read of it, which is proved from the invariant above.                   *)

\* The pairs, written out again, are some bytes.
SpelledBy(pairs, bytes) ==
    \E equals \in SUBSET DOMAIN pairs :
        FlattenSeq([i \in DOMAIN pairs |-> Spelled(pairs[i], i \in equals)]) = bytes

CutAtSigns(pair) ==
    /\ pair.key /= <<>>
    /\ \A j \in DOMAIN pair.key : pair.key[j] /= "=" /\ (pair.key[j] = "&" => j = 1)
    /\ \A j \in DOMAIN pair.value : pair.value[j] /= "&"

\* The query with the '&' that may follow it.
Text == query \o <<"&">>

\* While no allocation has failed, the pairs so far spell what has been read.
ListSpellsQuery ==
    (stage \in {"tokens", "collect"} /\ faults = MaxFaults) =>
        /\ SpelledBy(list, SubSeq(Text, 1, left))
        /\ \A i \in DOMAIN list : CutAtSigns(list[i])
        /\ stage = "collect" => left >= Len(query)

\* Where a token with a key ends, and its '='.
LEMMA TokenSigns ==
    ASSUME query \in Seq(AnyByte), left \in Nat, left < Len(query), ~KeyMissing
    PROVE  /\ Right \in left + 1..Len(query)
           /\ Right < Len(query) => query[Right + 1] = "&"
           /\ \A i \in left + 2..Right : query[i] /= "&"
           /\ \/ Equals = 0 /\ \A i \in left + 1..Right : query[i] /= "="
              \/ /\ Equals \in left + 2..Right /\ query[Equals] = "="
                 /\ \A i \in left + 1..Equals - 1 : query[i] /= "="
  <1>1. Len(query) \in Nat /\ left + 1 \in Nat \ {0} /\ left + 2 \in Nat \ {0}
    OBVIOUS
  <1>2. Right \in left + 1..Len(query)
    BY Token
  <1> DEFINE separator == Place("&", query, left + 2, Len(query))
  <1>3. \/ separator = 0 /\ \A i \in left + 2..Len(query) : query[i] /= "&"
        \/ /\ separator \in left + 2..Len(query) /\ query[separator] = "&"
           /\ \A i \in left + 2..separator - 1 : query[i] /= "&"
    BY <1>1, PlaceIsFirst
  <1>4. Right = IF separator = 0 THEN Len(query) ELSE separator - 1
    BY DEF Right
  <1> HIDE DEF separator
  <1>5. /\ Right < Len(query) => query[Right + 1] = "&"
        /\ \A i \in left + 2..Right : query[i] /= "&"
    <2>1. CASE separator = 0
      BY <1>1, <1>3, <1>4, <2>1
    <2>2. CASE separator /= 0
      <3>1. Right = separator - 1 /\ Right + 1 = separator
        BY <1>1, <1>3, <1>4, <2>2
      <3> QED
        BY <1>3, <2>2, <3>1
    <2> QED
      BY <2>1, <2>2
  <1>6. \/ Equals = 0 /\ \A i \in left + 1..Right : query[i] /= "="
        \/ /\ Equals \in left + 1..Right /\ query[Equals] = "="
           /\ \A i \in left + 1..Equals - 1 : query[i] /= "="
    <2>1. Right \in Int
      BY <1>1, <1>2
    <2> QED
      BY <1>1, <2>1, PlaceIsFirst DEF Equals
  <1>7. Equals /= left + 1
    BY <1>1, <1>6 DEF KeyMissing
  <1>8. Equals \in left + 1..Right => Equals \in left + 2..Right
    BY <1>1, <1>2, <1>7
  <1> QED
    BY <1>2, <1>5, <1>6, <1>8
\* The query goes on in its text.
LEMMA TextBytes ==
    ASSUME query \in Seq(AnyByte)
    PROVE  /\ Text \in Seq(AnyByte) /\ Len(Text) = Len(query) + 1
           /\ \A i \in 1..Len(query) : Text[i] = query[i]
           /\ Text[Len(query) + 1] = "&"
  <1>1. Len(query) \in Nat
    OBVIOUS
  <1>2. Text = Append(query, "&")
    BY DEF Text
  <1>3. "&" \in AnyByte
    BY DEF AnyByte
  <1> QED
    BY <1>1, <1>2, <1>3, AppendProperties

\* The strings that a token with a key is cut into.
LEMMA TokenCut ==
    ASSUME query \in Seq(AnyByte), left \in Nat, left < Len(query), ~KeyMissing
    PROVE  CutAtSigns(Parsed({}))
  <1> DEFINE end == IF Equals = 0 THEN Right ELSE Equals - 1
  <1>1. /\ Right \in left + 1..Len(query) /\ Len(query) \in Nat
        /\ \A i \in left + 2..Right : query[i] /= "&"
        /\ \/ Equals = 0 /\ \A i \in left + 1..Right : query[i] /= "="
           \/ /\ Equals \in left + 2..Right /\ query[Equals] = "="
              /\ \A i \in left + 1..Equals - 1 : query[i] /= "="
    BY TokenSigns
  <1>2. end \in left + 1..Right /\ \A i \in left + 1..end : query[i] /= "="
    BY <1>1
  <1>3. Key = SubSeq(query, left + 1, end)
    BY DEF Key
  <1> HIDE DEF end
  <1>4. /\ Key \in Seq(AnyByte) /\ Len(Key) = end - left
        /\ \A j \in 1..end - left : Key[j] = query[left + j]
    <2>1. left + 1 \in Int /\ end \in Int /\ \A i \in left + 1..end : query[i] \in AnyByte
      BY <1>1, <1>2
    <2>2. /\ Key \in Seq(AnyByte) /\ Len(Key) = IF left + 1 <= end THEN end - (left + 1) + 1 ELSE 0
          /\ \A j \in 1..end - (left + 1) + 1 : Key[j] = query[left + 1 + j - 1]
      BY <1>3, <2>1, SubSeqProperties
    <2>3. /\ left + 1 <= end /\ end - (left + 1) + 1 = end - left
          /\ \A j \in Int : left + 1 + j - 1 = left + j
      BY <1>2
    <2> QED
      BY <2>2, <2>3
  <1>5. Key /= <<>> /\ DOMAIN Key = 1..end - left
    BY <1>1, <1>2, <1>4
  <1>6. ASSUME NEW j \in DOMAIN Key PROVE Key[j] /= "=" /\ (Key[j] = "&" => j = 1)
    <2>1. j \in 1..end - left /\ left + j \in left + 1..end
      BY <1>1, <1>2, <1>5
    <2>2. j /= 1 => left + j \in left + 2..Right
      BY <1>1, <1>2, <2>1
    <2> QED
      BY <1>1, <1>2, <1>4, <2>1, <2>2
  <1>7. ASSUME NEW j \in DOMAIN Value PROVE Value[j] /= "&"
    <2>1. CASE Equals = 0
      BY <2>1 DEF Value
    <2>2. CASE Equals /= 0
      <3>1. Equals \in left + 2..Right /\ Value = SubSeq(query, Equals + 1, Right)
        BY <1>1, <2>2 DEF Value
      <3>2. /\ Equals + 1 \in Int /\ Right \in Int
            /\ \A i \in Equals + 1..Right : query[i] \in AnyByte
        BY <1>1, <3>1
      <3>3. /\ Value \in Seq(AnyByte)
            /\ Len(Value) = IF Equals + 1 <= Right THEN Right - (Equals + 1) + 1 ELSE 0
            /\ \A i \in 1..Right - (Equals + 1) + 1 : Value[i] = query[Equals + 1 + i - 1]
        BY <3>1, <3>2, SubSeqProperties
      <3>4. j \in 1..Len(Value)
        BY <3>3
      <3>5. j \in 1..Right - (Equals + 1) + 1 /\ Equals + 1 + j - 1 \in left + 2..Right
        BY <1>1, <3>1, <3>3, <3>4
      <3> QED
        BY <1>1, <3>3, <3>5
    <2> QED
      BY <2>1, <2>2
  <1>8. Parsed({}).key = Key /\ Parsed({}).value = Value
    BY DEF Parsed
  <1> QED
    BY <1>5, <1>6, <1>7, <1>8 DEF CutAtSigns

\* Written out again they are the token, and the '&' behind it.
LEMMA TokenSpelled ==
    ASSUME query \in Seq(AnyByte), left \in Nat, left < Len(query), ~KeyMissing
    PROVE  Spelled(Parsed({}), Equals /= 0) = SubSeq(Text, left + 1, Right + 1)
  <1>1. /\ Right \in left + 1..Len(query) /\ Len(query) \in Nat
        /\ Right < Len(query) => query[Right + 1] = "&"
        /\ Equals = 0 \/ (Equals \in left + 2..Right /\ query[Equals] = "=")
    <2>1. Len(query) \in Nat
      OBVIOUS
    <2> QED
      BY <2>1, TokenSigns
  <1>2. /\ Text \in Seq(AnyByte) /\ Len(Text) = Len(query) + 1
        /\ \A i \in 1..Len(query) : Text[i] = query[i]
        /\ Text[Len(query) + 1] = "&"
    BY TextBytes
  <1>3. Text[Right + 1] = "&" /\ Right + 1 \in 1..Len(Text)
    BY <1>1, <1>2
  <1>4. <<"&">> = SubSeq(Text, Right + 1, Right + 1)
    BY <1>2, <1>3, OnePlace
  <1>5. Spelled(Parsed({}), Equals /= 0)
            = Key \o (IF Value /= <<>> \/ Equals /= 0 THEN <<"=">> ELSE <<>>) \o Value \o <<"&">>
    BY DEF Spelled, Parsed
  <1>6. ASSUME NEW a \in left + 1..Len(query), NEW b \in 0..Len(query)
        PROVE  SubSeq(query, a, b) = SubSeq(Text, a, b)
    <2>1. a \in Nat \ {0} /\ b \in Nat /\ b <= Len(query) /\ b <= Len(Text)
      BY <1>1, <1>2
    <2>2. \A i \in a..b : query[i] = Text[i]
      BY <1>2, <2>1
    <2>3. query \in Seq(AnyByte) /\ Text \in Seq(AnyByte)
      BY <1>2
    <2> QED
      BY <2>1, <2>2, <2>3, SamePiece
  <1>7. CASE Equals = 0
    <2>1. Key = SubSeq(Text, left + 1, Right) /\ Value = <<>>
      BY <1>1, <1>6, <1>7 DEF Key, Value
    <2>2. Spelled(Parsed({}), Equals /= 0) = Key \o <<>> \o <<>> \o <<"&">>
      BY <1>5, <1>7, <2>1
    <2>3. Key \in Seq(AnyByte)
      BY Token
    <2>4. Key \o <<>> = Key
      BY <2>3
    <2>5. SubSeq(Text, left + 1, Right) \o SubSeq(Text, Right + 1, Right + 1)
              = SubSeq(Text, left + 1, Right + 1)
      <3>1. /\ left + 1 \in Nat \ {0} /\ Right \in Nat /\ Right + 1 \in Nat
            /\ left + 1 <= Right + 1 /\ Right <= Right + 1 /\ Right + 1 <= Len(Text)
        BY <1>1, <1>2
      <3> QED
        BY <1>2, <3>1, PiecesJoin
    <2> QED
      BY <1>4, <2>1, <2>2, <2>4, <2>5
  <1>8. CASE Equals /= 0
    <2>1. Equals \in left + 2..Right /\ Text[Equals] = "="
      BY <1>1, <1>2, <1>8
    <2>2. Key = SubSeq(Text, left + 1, Equals - 1)
      BY <1>1, <1>6, <1>8, <2>1 DEF Key
    <2>3. Value = SubSeq(Text, Equals + 1, Right)
      <3>1. CASE Equals = Right
        <4>1. /\ Equals + 1 \in Int /\ Right \in Int /\ Right < Equals + 1
          BY <1>1, <3>1
        <4> QED
          BY <1>8, <4>1, SubSeqEmpty DEF Value
      <3>2. CASE Equals < Right
        BY <1>1, <1>6, <1>8, <2>1, <3>2 DEF Value
      <3> QED
        BY <1>1, <2>1, <3>1, <3>2
    <2>4. <<"=">> = SubSeq(Text, Equals, Equals)
      <3>1. Equals \in 1..Len(Text)
        BY <1>1, <1>2, <2>1
      <3> QED
        BY <1>2, <2>1, <3>1, OnePlace
    <2>5. Spelled(Parsed({}), Equals /= 0) = Key \o <<"=">> \o Value \o <<"&">>
      BY <1>5, <1>8
    <2>6. /\ left + 1 \in Nat \ {0} /\ Equals - 1 \in Nat /\ Equals \in Nat
          /\ Right \in Nat /\ Right + 1 \in Nat
          /\ left + 1 <= Equals /\ left + 1 <= Right + 1 /\ left + 1 <= Equals + 1
          /\ Equals <= Right /\ Right + 1 <= Len(Text) /\ Equals - 1 + 1 = Equals
      BY <1>1, <1>2, <2>1
    <2>7. SubSeq(Text, left + 1, Equals - 1) \o SubSeq(Text, Equals, Equals)
              = SubSeq(Text, left + 1, Equals)
      <3>1. Equals <= Len(Text) /\ Equals - 1 <= Equals /\ left + 1 <= Equals - 1 + 1
        BY <2>6
      <3>2. SubSeq(Text, left + 1, Equals - 1) \o SubSeq(Text, Equals - 1 + 1, Equals)
                = SubSeq(Text, left + 1, Equals)
        BY <1>2, <2>6, <3>1, PiecesJoin
      <3> QED
        BY <2>6, <3>2
    <2>8. SubSeq(Text, left + 1, Equals) \o SubSeq(Text, Equals + 1, Right)
              = SubSeq(Text, left + 1, Right)
      <3>1. Right <= Len(Text)
        BY <2>6
      <3> QED
        BY <1>2, <2>6, <3>1, PiecesJoin
    <2>9. SubSeq(Text, left + 1, Right) \o SubSeq(Text, Right + 1, Right + 1)
              = SubSeq(Text, left + 1, Right + 1)
      <3>1. Right <= Right + 1
        BY <2>6
      <3> QED
        BY <1>2, <2>6, <3>1, PiecesJoin
    <2> QED
      BY <1>4, <2>2, <2>3, <2>4, <2>5, <2>7, <2>8, <2>9
  <1> QED
    BY <1>7, <1>8

LEMMA SpelledIsBytes ==
    ASSUME NEW pair \in Pair, NEW e
    PROVE  Spelled(pair, e) \in Seq(AnyByte)
  <1>1. pair.key \in Seq(AnyByte) /\ pair.value \in Seq(AnyByte)
    BY DEF Pair
  <1> DEFINE sign == IF pair.value /= <<>> \/ e THEN <<"=">> ELSE <<>>
  <1>2. sign \in Seq(AnyByte) /\ <<"&">> \in Seq(AnyByte)
    <2>1. "=" \in AnyByte /\ "&" \in AnyByte
      BY DEF AnyByte
    <2>2. <<"=">> \in Seq(AnyByte) /\ <<"&">> \in Seq(AnyByte) /\ <<>> \in Seq(AnyByte)
      BY <2>1
    <2> QED
      BY <2>2
  <1> HIDE DEF sign
  <1>3. pair.key \o sign \o pair.value \o <<"&">> \in Seq(AnyByte)
    BY <1>1, <1>2, ConcatProperties
  <1> QED
    BY <1>3 DEF Spelled, sign

\* One more pair spells one more token.
LEMMA SpelledOneMore ==
    ASSUME NEW pairs \in Seq(Pair), NEW pair \in Pair, NEW bytes, NEW e \in BOOLEAN,
           SpelledBy(pairs, bytes)
    PROVE  SpelledBy(Append(pairs, pair), bytes \o Spelled(pair, e))
  <1> DEFINE all == Append(pairs, pair)
  <1>1. PICK n \in Nat : n = Len(pairs)
    BY LenProperties
  <1>2. PICK m \in Nat : m = n + 1
    OBVIOUS
  <1>3. /\ DOMAIN pairs = 1..n /\ DOMAIN all = 1..m
        /\ all[m] = pair /\ \A i \in 1..n : all[i] = pairs[i] /\ pairs[i] \in Pair
    BY <1>1, <1>2, AppendProperties, LenProperties
  <1> HIDE DEF all
  <1>4. PICK equals \in SUBSET (1..n) :
            FlattenSeq([i \in 1..n |-> Spelled(pairs[i], i \in equals)]) = bytes
    BY <1>3 DEF SpelledBy
  <1> DEFINE more == IF e THEN equals \cup {m} ELSE equals
             last == Spelled(pair, e)
             spells == [i \in 1..n |-> Spelled(pairs[i], i \in equals)]
             longer == [i \in 1..m |-> Spelled(all[i], i \in more)]
  <1>5. last \in Seq(AnyByte)
    BY SpelledIsBytes
  <1>6. spells \in Seq(Seq(AnyByte)) /\ Len(spells) = n
    <2>1. spells \in [1..n -> Seq(AnyByte)]
      BY <1>3, SpelledIsBytes
    <2> HIDE DEF spells
    <2> QED
      BY <2>1, FunctionIsSeq, LenProperties
  <1>7. more \in SUBSET (1..m) /\ (m \in more) = e /\ \A i \in 1..n : (i \in more) = (i \in equals)
    <2>1. m \in 1..m /\ m \notin 1..n /\ 1..n \subseteq 1..m
      BY <1>2
    <2> QED
      BY <1>4, <2>1
  <1>8. longer[m] = last /\ \A i \in 1..n : longer[i] = spells[i]
    <2>1. m \in 1..m /\ 1..n \subseteq 1..m
      BY <1>2
    <2> HIDE DEF more
    <2>2. longer[m] = last
      BY <1>3, <1>7, <2>1
    <2>3. ASSUME NEW i \in 1..n PROVE longer[i] = spells[i]
      BY <1>3, <1>7, <2>1
    <2> QED
      BY <2>2, <2>3
  <1>9. longer \in Seq(Seq(AnyByte)) /\ Len(longer) = m
    <2>1. \A i \in 1..m : i = m \/ i \in 1..n
      BY <1>2
    <2>2. \A i \in 1..n : spells[i] \in Seq(AnyByte)
      BY <1>6, LenProperties
    <2>3. longer \in [1..m -> Seq(AnyByte)]
      <3>1. \A i \in 1..m : longer[i] \in Seq(AnyByte)
        BY <1>5, <1>8, <2>1, <2>2
      <3> QED
        BY <3>1
    <2> HIDE DEF longer
    <2> QED
      BY <2>3, FunctionIsSeq, LenProperties
  <1> HIDE DEF spells, longer, last
  <1>10. longer = Append(spells, last)
    <2>1. /\ Append(spells, last) \in Seq(Seq(AnyByte)) /\ Len(Append(spells, last)) = n + 1
          /\ \A i \in 1..n : Append(spells, last)[i] = spells[i]
          /\ Append(spells, last)[n + 1] = last
      BY <1>5, <1>6, AppendProperties
    <2>2. \A i \in 1..m : i = m \/ i \in 1..n
      BY <1>2
    <2>3. \A i \in 1..m : longer[i] = Append(spells, last)[i]
      BY <1>2, <1>8, <2>1, <2>2
    <2> QED
      BY <1>2, <1>9, <2>1, <2>3, SeqEqual
  <1>11. FlattenSeq(longer) = FlattenSeq(spells) \o last
    BY <1>5, <1>6, <1>10, FlattenAppended
  <1>12. FlattenSeq(longer) = bytes \o last
    BY <1>4, <1>11 DEF spells
  <1>13. \E set \in SUBSET DOMAIN all :
            FlattenSeq([i \in DOMAIN all |-> Spelled(all[i], i \in set)]) = bytes \o last
    BY <1>3, <1>7, <1>12 DEF longer
  <1> QED
    BY <1>13 DEF SpelledBy, all, last

LEMMA NoneDenied ==
    ASSUME NEW denied \in Denials, Cardinality(denied) = 0
    PROVE  denied = {}
  <1>1. IsFiniteSet(denied)
    BY DenialsCount
  <1> QED
    BY <1>1, FS_EmptySet

\* KeepPair: the list spells one more token.
LEMMA PairSpells ==
    ASSUME RequestIInv, ListSpellsQuery, KeepPair
    PROVE  ListSpellsQuery'
  <1> SUFFICES ASSUME faults' = MaxFaults PROVE ListSpellsQuery'
    BY DEF ListSpellsQuery
  <1>1. PICK denied \in Denials :
            /\ faults' = faults - Cardinality(denied)
            /\ list' = Append(list, Parsed(denied))
    BY DEF KeepPair
  <1>2. /\ stage = "tokens" /\ ~KeyMissing /\ left' = Right + 1 /\ query' = query
        /\ stage' = (IF Right + 1 < Len(query) THEN "tokens" ELSE "collect")
    BY DEF KeepPair, NextLeft
  <1>3. /\ query \in Seq(AnyByte) /\ left \in Nat /\ list \in Seq(Pair) /\ faults \in 0..MaxFaults
        /\ left < Len(query) /\ Len(query) \in Nat
    BY <1>2, BlocksBefore DEF RequestIInv, StepByStep
  <1>4. denied = {} /\ faults = MaxFaults
    <2>1. Cardinality(denied) \in Nat
      BY DenialsCount
    <2>2. Cardinality(denied) = 0 /\ faults = MaxFaults
      BY <1>1, <1>3, <2>1, RequestAssumption
    <2> QED
      BY <2>2, NoneDenied
  <1> DEFINE pair == Parsed({})
             bytes == SubSeq(Text, 1, left)
  <1>5. SpelledBy(list, bytes) /\ \A i \in DOMAIN list : CutAtSigns(list[i])
    BY <1>2, <1>4 DEF ListSpellsQuery
  <1>6. pair \in Pair /\ CutAtSigns(pair) /\ list' = Append(list, pair)
    BY <1>1, <1>2, <1>3, <1>4, ParsedIsPair, TokenCut
  <1>7. Right \in left + 1..Len(query)
    BY <1>3, Token
  <1>8. Text' = Text
    BY <1>2 DEF Text
  <1>9. bytes \o Spelled(pair, Equals /= 0) = SubSeq(Text, 1, Right + 1)
    <2>1. Spelled(pair, Equals /= 0) = SubSeq(Text, left + 1, Right + 1)
      BY <1>2, <1>3, TokenSpelled
    <2>2. Text \in Seq(AnyByte) /\ Len(Text) = Len(query) + 1
      BY <1>3, TextBytes
    <2>3. /\ 1 \in Nat \ {0} /\ left \in Nat /\ Right + 1 \in Nat
          /\ 1 <= left + 1 /\ left <= Right + 1 /\ Right + 1 <= Len(Text)
      BY <1>3, <1>7, <2>2
    <2>4. SubSeq(Text, 1, left) \o SubSeq(Text, left + 1, Right + 1) = SubSeq(Text, 1, Right + 1)
      BY <2>2, <2>3, PiecesJoin
    <2> QED
      BY <2>1, <2>4
  <1> HIDE DEF pair, bytes
  <1>10. SpelledBy(list', SubSeq(Text, 1, Right + 1))
    <2>1. (Equals /= 0) \in BOOLEAN
      OBVIOUS
    <2>2. SpelledBy(Append(list, pair), bytes \o Spelled(pair, Equals /= 0))
      BY <1>3, <1>5, <1>6, <2>1, SpelledOneMore
    <2> QED
      BY <1>6, <1>9, <2>2
  <1>11. \A i \in DOMAIN list' : CutAtSigns(list'[i])
    <2>1. DOMAIN list' = 1..Len(list) + 1 /\ Len(list) \in Nat /\ DOMAIN list = 1..Len(list)
      BY <1>3, <1>6
    <2>2. list'[Len(list) + 1] = pair /\ \A i \in 1..Len(list) : list'[i] = list[i]
      BY <1>3, <1>6, AppendProperties
    <2>3. \A i \in DOMAIN list' : i = Len(list) + 1 \/ i \in DOMAIN list
      BY <2>1
    <2> QED
      BY <1>5, <1>6, <2>1, <2>2, <2>3
  <1>12. stage' = "collect" => left' >= Len(query)
    BY <1>2, <1>3, <1>7
  <1> QED
    BY <1>2, <1>8, <1>10, <1>11, <1>12 DEF ListSpellsQuery

LEMMA EmptySpells == SpelledBy(<<>>, <<>>)
  <1> DEFINE none == [i \in DOMAIN <<>> |-> Spelled(<<>>[i], i \in {})]
  <1>1. none = <<>>
    OBVIOUS
  <1> HIDE DEF none
  <1>2. FlattenSeq(none) = <<>>
    BY <1>1 DEF FlattenSeq
  <1> QED
    BY <1>2 DEF SpelledBy, none

\* Collect: the parameters are the pairs of the list.
LEMMA CollectSpells ==
    ASSUME RequestIInv, ListSpellsQuery, Collect
    PROVE  ParamsSpellQuery'
  <1> SUFFICES ASSUME faults' = MaxFaults PROVE ParamsSpellQuery'
    BY DEF ParamsSpellQuery
  <1>1. /\ stage = "collect" /\ faults = MaxFaults /\ query' = query
        /\ request \in Requests /\ request' = [request EXCEPT !.params = list]
    BY BlocksBefore DEF Collect, Goto, Works
  <1>2. request'.params = list
    BY <1>1 DEF Requests
  <1>3. /\ SpelledBy(list, SubSeq(Text, 1, left)) /\ left >= Len(query)
        /\ \A i \in DOMAIN list : CutAtSigns(list[i])
    BY <1>1 DEF ListSpellsQuery
  <1>4. /\ query \in Seq(AnyByte) /\ Len(query) \in Nat /\ left \in 0..Len(query) + 1
    BY DEF RequestIInv, RequestTypeOK
  <1>5. SubSeq(Text, 1, left) \in {query, query \o <<"&">>}
    <2>1. /\ Text \in Seq(AnyByte) /\ Len(Text) = Len(query) + 1
          /\ \A i \in 1..Len(query) : Text[i] = query[i]
      BY <1>4, TextBytes
    <2>2. CASE left = Len(query)
      <3>1. /\ 1 \in Nat \ {0} /\ Len(query) <= Len(query) /\ Len(query) <= Len(Text)
            /\ \A i \in 1..Len(query) : query[i] = Text[i]
        BY <1>4, <2>1
      <3>2. SubSeq(query, 1, Len(query)) = SubSeq(Text, 1, Len(query))
        BY <1>4, <2>1, <3>1, SamePiece
      <3>3. SubSeq(query, 1, Len(query)) = query
        BY <1>4
      <3> QED
        BY <2>2, <3>2, <3>3
    <2>3. CASE left = Len(Text)
      <3>1. SubSeq(Text, 1, Len(Text)) = Text
        BY <2>1
      <3> QED
        BY <2>3, <3>1 DEF Text
    <2> QED
      BY <1>3, <1>4, <2>1, <2>2, <2>3
  <1>6. \E equals \in SUBSET DOMAIN request'.params :
            FlattenSeq([i \in DOMAIN request'.params |-> Spelled(request'.params[i], i \in equals)])
                \in {query', query' \o <<"&">>}
    <2>1. \E equals \in SUBSET DOMAIN list :
              FlattenSeq([i \in DOMAIN list |-> Spelled(list[i], i \in equals)])
                  \in {query, query \o <<"&">>}
      BY <1>3, <1>5 DEF SpelledBy
    <2> QED
      BY <1>1, <1>2, <2>1
  <1>7. \A i \in DOMAIN request'.params : CutAtSigns(request'.params[i])
    BY <1>2, <1>3
  <1> QED
    BY <1>6, <1>7 DEF ParamsSpellQuery, CutAtSigns

LEMMA SpellsStep ==
    ASSUME IInv, ListSpellsQuery, ParamsSpellQuery, [Next]_vars
    PROVE  (ListSpellsQuery /\ ParamsSpellQuery)'
  <1>0. RequestIInv
    BY DEF IInv
  <1>1. ASSUME UNCHANGED <<request, stage, query, left, list, faults>>
        PROVE  (ListSpellsQuery /\ ParamsSpellQuery)'
    BY <1>1 DEF ListSpellsQuery, ParamsSpellQuery, Text, SpelledBy
  <1>2. ASSUME stage' \in {"none", "startLine", "query", "list", "free"} \/ (stage' = "protocol" /\ query' = <<>>)
        PROVE  (ListSpellsQuery /\ ParamsSpellQuery)'
    BY <1>2 DEF ListSpellsQuery, ParamsSpellQuery
  <1>3. CASE \/ \E n \in 1..Len(unsent) : Receive(n)
             \/ Search \/ Return \/ FreeContext \/ UNCHANGED vars
    BY <1>1, <1>3 DEF Receive, Search, NothingVisible, StartLineUnended, StartLineFound, StartLineEmpty,
           HeadersFound, HeadersTooLong, HeadersUnended, Return, FreeContext, vars, requestVars
  <1>4. CASE AllocateRequest \/ AllocateFails \/ RefuseRequest
    BY <1>2, <1>4 DEF AllocateRequest, NewRequest, AllocateFails, RefuseRequest, FreeRequest, Goto
  <1>5. CASE ParseRequest
    <2>1. ReadRequest(StartLineBytes)
      BY <1>5 DEF ParseRequest
    <2>2. CASE RefuseLine(StartLineBytes) \/ CopyProtocol(StartLineBytes)
               \/ PairFails \/ AddEndFails \/ CollectFails
      BY <1>2, <2>2 DEF RefuseLine, CopyProtocol, PairFails, AddEndFails, CollectFails, Abandon, Goto
    <2>3. CASE CopyTarget(StartLineBytes) \/ CopyQuery(StartLineBytes)
      <3>1. CASE CopyTarget(StartLineBytes)
        <4>1. query = <<>> /\ query' = query /\ stage' \in {"query", "protocol"}
          BY <1>0, <3>1 DEF CopyTarget, Goto, RequestIInv, StepByStep, BeforeQuery
        <4> QED
          BY <1>2, <4>1
      <3>2. CASE CopyQuery(StartLineBytes)
        <4>1. stage' = "list" \/ (stage' = "protocol" /\ query' = <<>>)
          BY <3>2 DEF CopyQuery, Goto
        <4> QED
          BY <1>2, <4>1
      <3> QED
        BY <2>3, <3>1, <3>2
    <2>4. CASE CreateList
      <3>1. CASE stage' = "free"
        BY <1>2, <3>1
      <3>2. CASE stage' = "tokens"
        <4>1. list' = <<>> /\ left' = 0
          BY <1>0, <2>4 DEF CreateList, RequestIInv, StepByStep
        <4>2. SubSeq(Text', 1, 0) = <<>>
          BY SubSeqEmpty
        <4>3. SubSeq(Text', 1, left') = <<>>
          BY <4>1, <4>2
        <4>4. SpelledBy(list', SubSeq(Text', 1, left'))
          BY <4>1, <4>3, EmptySpells
        <4>5. DOMAIN list' = {}
          BY <4>1
        <4> QED
          BY <3>2, <4>4, <4>5 DEF ListSpellsQuery, ParamsSpellQuery
      <3> QED
        BY <2>4, <3>1, <3>2 DEF CreateList
    <2>5. CASE SkipToken
      BY <1>1, <2>5 DEF SkipToken, requestVars
    <2>6. CASE KeepPair
      <3>1. stage' \in {"tokens", "collect"}
        BY <2>6 DEF KeepPair
      <3>2. ListSpellsQuery'
        BY <1>0, <2>6, PairSpells
      <3> QED
        BY <3>1, <3>2 DEF ParamsSpellQuery
    <2>7. CASE Collect
      <3>1. stage' = "protocol"
        BY <2>7 DEF Collect, Goto
      <3>2. ParamsSpellQuery'
        BY <1>0, <2>7, CollectSpells
      <3> QED
        BY <3>1, <3>2 DEF ListSpellsQuery
    <2> QED
      BY <2>1, <2>2, <2>3, <2>4, <2>5, <2>6, <2>7 DEF ReadRequest
  <1> QED
    BY <1>3, <1>4, <1>5 DEF Next, TryParseRequest, Search

\* When no allocation failed, the parameters that parseParams collects are the
\* query and nothing else, each cut at the signs of its token.
THEOREM ParamsCorrect == Spec => []ParamsSpellQuery
  <1>1. Init => ListSpellsQuery /\ ParamsSpellQuery
    BY DEF Init, RequestInit, ListSpellsQuery, ParamsSpellQuery
  <1>2. IInv /\ (ListSpellsQuery /\ ParamsSpellQuery) /\ [Next]_vars
            => (ListSpellsQuery /\ ParamsSpellQuery)'
    BY SpellsStep
  <1> QED
    BY <1>1, <1>2, Invariance, PTL DEF Spec

-----------------------------------------------------------------------------
\* The parser keeps the contract that the reader thread relies on: every step
\* is a call, the settling of a request, a return, or none of them, and no
\* settled request is opened again.
THEOREM Refinement == Spec => ImplementsParse
  <1>1. Init => Contract!Init
    BY DEF Init, Contract!Init, Finished
  <1>2. BytesTypeOK /\ [Next]_vars
            => [Contract!Call \/ Contract!Settle \/ Contract!Return]_<<parsing, state \in Finished>>
    <2> SUFFICES ASSUME BytesTypeOK, [Next]_vars
                 PROVE  \/ Contract!Call \/ Contract!Settle \/ Contract!Return
                        \/ UNCHANGED <<parsing, state \in Finished>>
      OBVIOUS
    <2>1. ASSUME NEW n \in 1..Len(unsent), Receive(n)
          PROVE  Contract!Call \/ UNCHANGED <<parsing, state \in Finished>>
      <3>1. /\ parsing = FALSE /\ parsing' = (state' \notin Finished)
            /\ state' \in Finished <=> state \in Finished
        BY <2>1 DEF Receive, Restarts, Finished, BytesTypeOK
      <3>2. CASE state \in Finished
        BY <3>1, <3>2
      <3>3. CASE state \notin Finished
        <4>1. ~parsing /\ parsing' = TRUE
          BY <3>1, <3>3
        <4>2. UNCHANGED (state \in Finished)
          BY <3>1
        <4>3. Contract!MayLoop(state \in Finished)
          BY <3>3 DEF Contract!MayLoop
        <4> QED
          BY <4>1, <4>2, <4>3 DEF Contract!Call
      <3> QED
        BY <3>2, <3>3
    <2>2. ASSUME Search
          PROVE  \/ Contract!Settle \/ Contract!Return
                 \/ UNCHANGED <<parsing, state \in Finished>>
      BY <2>2 DEF Search, NothingVisible, StartLineUnended, StartLineFound, StartLineEmpty,
                  HeadersFound, HeadersTooLong, HeadersUnended, Finished,
                  Contract!Settle, Contract!Return, Contract!Outcomes
    <2>3. ASSUME AllocateRequest \/ ParseRequest \/ FreeContext \/ UNCHANGED vars
          PROVE  UNCHANGED <<parsing, state \in Finished>>
      BY <2>3 DEF AllocateRequest, ParseRequest, FreeContext, vars
    <2>4. ASSUME AllocateFails \/ RefuseRequest
          PROVE  Contract!Settle
      BY <2>4 DEF AllocateFails, RefuseRequest, Finished, Contract!Settle, Contract!Outcomes
    <2>5. ASSUME Return
          PROVE  Contract!Return
      BY <2>5 DEF Return, Exits, Finished, Contract!Return, Contract!Outcomes
    <2> QED
      BY <2>1, <2>2, <2>3, <2>4, <2>5 DEF Next, TryParseRequest, Search
  <1>3. IInv => BytesTypeOK
    BY DEF IInv, BytesIInv
  <1> QED
    BY <1>1, <1>2, <1>3, Invariance, PTL DEF Spec, ImplementsParse, Contract!Spec
=============================================================================
