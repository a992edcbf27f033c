------------------------------- MODULE Parser -------------------------------
(***************************************************************************)
(* The request parser: one ParserContext, filled by readFromClient in      *)
(* pieces of any size, Parser_TryParseRequest called after each of them,   *)
(* and the Request that it makes.  Positions count from 0 as in the code.  *)
(***************************************************************************)
EXTENDS Request

CONSTANTS BufferSize,   \* REQUEST_HEADERS_BUFFER_SIZE
          Inputs        \* what a client may send on a connection

ASSUME ParserAssumption == /\ BufferSize \in Nat \ {0}
                           /\ Inputs \subseteq Seq(AnyByte)

VARIABLES unsent,      \* the client's bytes still to come
          buffer,      \* ctx->buffer, the bytes received
          state,       \* ctx->state
          startLine,   \* ctx->startLineRange
          headers,     \* ctx->headersRange
          parsing      \* a call of Parser_TryParseRequest is in its loop

vars == <<unsent, buffer, state, startLine, headers, parsing, requestVars>>
ranges == <<startLine, headers>>
input == <<unsent, buffer>>

Separator == <<"CR", "LF">>
DoubleSeparator == <<"CR", "LF", "CR", "LF">>

AnyRange == [startPos : 0..BufferSize, endPos : 0..BufferSize]
IsEmpty(range) == range.startPos >= range.endPos

Finished == {"Complete", "GenericError", "LongHeadersError",
             "BadRequestError", "InternalError", "UnknownError"}

\* Every state but AwaitingBody, which nothing enters.
TypeOK == /\ RequestTypeOK
          /\ unsent \in Seq(AnyByte)
          /\ buffer \in Seq(AnyByte) /\ Len(buffer) <= BufferSize
          /\ state \in Finished \cup {"Empty", "AwaitingStartLine", "AwaitingHeaders", "CompleteHeaders"}
          /\ startLine \in AnyRange /\ headers \in AnyRange
          /\ parsing \in BOOLEAN

\* ParserContext_Init
Init == /\ RequestInit
        /\ unsent \in Inputs
        /\ buffer = <<>>
        /\ state = "Empty"
        /\ startLine = [startPos |-> 0, endPos |-> 0]
        /\ headers = [startPos |-> 0, endPos |-> 0]
        /\ parsing = FALSE

Length == Len(buffer)
At(pos) == buffer[pos + 1]

\* memmem: where pattern occurs at or after a position.
Occurrences(pattern, from) ==
    {p \in from..Length - Len(pattern) : SubSeq(buffer, p + 1, p + Len(pattern)) = pattern}
First(positions) == CHOOSE p \in positions : \A q \in positions : p <= q

-----------------------------------------------------------------------------
(* readFromClient, then the call: the switch on entry.                     *)

\* Fault: a completed request makes room for the next one.
RestartsComplete == {"Empty", "Complete"}
Restarts == {"Empty"}

Exists == <<"context", 0>> \in heap

Receive(n) ==
    /\ ~parsing /\ Exists
    /\ n <= BufferSize - Length
    /\ buffer' = buffer \o SubSeq(unsent, 1, n)
    /\ unsent' = SubSeq(unsent, n + 1, Len(unsent))
    /\ state' = IF state \in Restarts THEN "AwaitingStartLine" ELSE state
    /\ parsing' = (state' \notin Finished)
    /\ UNCHANGED <<ranges, requestVars>>

\* findStartLine: the bytes above ' ', the first of which starts the line.
Visible(from) == {p \in from..Length - 1 : At(p) \notin {"CR", "LF", "SP"}}

\* Fault: the search begins before the bytes that were skipped.
SearchFromStart == startLine.startPos
LineSearchStart == First(Visible(startLine.startPos))

NothingVisible ==
    /\ parsing /\ state = "AwaitingStartLine"
    /\ Visible(startLine.startPos) = {}
    /\ startLine' = [startLine EXCEPT !.startPos = Length]
    /\ UNCHANGED <<input, state, headers, parsing, requestVars>>

StartLineUnended ==
    /\ parsing /\ state = "AwaitingStartLine"
    /\ Visible(startLine.startPos) /= {}
    /\ Occurrences(Separator, LineSearchStart) = {}
    /\ parsing' = FALSE
    /\ UNCHANGED <<input, state, ranges, requestVars>>

\* Fault: one byte too far.
HeadersOnePast(lineEnd) == lineEnd + Len(Separator) + 2
HeadersAfter(lineEnd) == lineEnd + Len(Separator) + 1

StartLineFound ==
    /\ parsing /\ state = "AwaitingStartLine"
    /\ Visible(startLine.startPos) /= {}
    /\ LET found == Occurrences(Separator, LineSearchStart)
           lineEnd == First(found) - 1
       IN  /\ found /= {}
           /\ startLine' = [startLine EXCEPT !.endPos = lineEnd]
           /\ headers' = [headers EXCEPT !.startPos = HeadersAfter(lineEnd)]
    /\ state' = "AwaitingHeaders"
    /\ UNCHANGED <<input, parsing, requestVars>>

\* findHeaders
NoStartLine == IsEmpty(startLine) \/ headers.startPos = 0
\* Fault: the end of a line is taken for the end of the headers.
OneSeparator(from) == Occurrences(Separator, from)
HeaderEnds(from) == Occurrences(DoubleSeparator, from)

StartLineEmpty ==
    /\ parsing /\ state = "AwaitingHeaders"
    /\ NoStartLine
    /\ state' = "BadRequestError"
    /\ parsing' = FALSE
    /\ UNCHANGED <<input, ranges, requestVars>>

HeadersFound ==
    /\ parsing /\ state = "AwaitingHeaders"
    /\ ~NoStartLine
    /\ HeaderEnds(headers.startPos) /= {}
    /\ headers' = [headers EXCEPT !.endPos = First(HeaderEnds(headers.startPos)) - 1]
    /\ state' = "CompleteHeaders"
    /\ UNCHANGED <<input, startLine, parsing, requestVars>>

HeadersTooLong ==
    /\ parsing /\ state = "AwaitingHeaders"
    /\ ~NoStartLine
    /\ HeaderEnds(headers.startPos) = {}
    /\ Length >= BufferSize
    /\ state' = "LongHeadersError"
    /\ parsing' = FALSE
    /\ UNCHANGED <<input, ranges, requestVars>>

\* No "\r\n\r\n" and room for more: a request without headers, or the loop
\* comes back to the same bytes.
HeadersUnended ==
    /\ parsing /\ state = "AwaitingHeaders"
    /\ ~NoStartLine
    /\ HeaderEnds(headers.startPos) = {}
    /\ Length < BufferSize
    /\ IF headers.startPos \in Occurrences(Separator, headers.startPos)
       THEN /\ headers' = [startPos |-> 0, endPos |-> 0]
            /\ state' = "Complete"
       ELSE /\ state' = "AwaitingHeaders"
            /\ UNCHANGED headers
    /\ UNCHANGED <<input, startLine, parsing, requestVars>>

StartLineBytes == SubSeq(buffer, startLine.startPos + 1, startLine.endPos + 1)

AllocateRequest ==
    /\ parsing /\ state = "CompleteHeaders"
    /\ NewRequest
    /\ UNCHANGED <<input, state, ranges, parsing>>

AllocateFails ==
    /\ parsing /\ state = "CompleteHeaders" /\ stage = "none"
    /\ Fails
    /\ state' = "InternalError"
    /\ UNCHANGED <<input, ranges, parsing, request, stage, query, left, list, heap>>

ParseRequest ==
    /\ parsing /\ state = "CompleteHeaders"
    /\ ReadRequest(StartLineBytes)
    /\ UNCHANGED <<input, state, ranges, parsing>>

\* parseStartLine failed, or parseHeaders, which always does.
RefuseRequest ==
    /\ parsing /\ state = "CompleteHeaders"
    /\ FreeRequest
    /\ state' = "BadRequestError"
    /\ UNCHANGED <<input, ranges, parsing>>

\* Fault: a request without headers stays in the loop.
ErrorsExit == Finished \ {"Complete"}
Exits == Finished

Return == /\ parsing /\ state \in Exits
          /\ parsing' = FALSE
          /\ UNCHANGED <<input, state, ranges, requestVars>>

TryParseRequest == \/ NothingVisible \/ StartLineUnended \/ StartLineFound
                   \/ StartLineEmpty \/ HeadersFound \/ HeadersTooLong \/ HeadersUnended
                   \/ AllocateRequest \/ AllocateFails \/ ParseRequest \/ RefuseRequest
                   \/ Return

\* freeContext, when the connection is closed: ParserContext_Free and free.
FreeContext == /\ ~parsing /\ Exists
               /\ heap' = heap \ ({<<"context", 0>>, <<"buffer", 0>>} \cup RequestBlocks)
               /\ UNCHANGED <<input, state, ranges, parsing, request, stage, query, left, list, faults>>

Next == \/ \E n \in 1..Len(unsent) : Receive(n)
        \/ TryParseRequest
        \/ FreeContext

Spec == Init /\ [][Next]_vars

\* The loop runs on; nothing obliges an allocation to fail.
FairSpec == Spec /\ WF_vars(TryParseRequest /\ faults' = faults)

-----------------------------------------------------------------------------
(* Properties.                                                             *)

LineFound == state \notin {"Empty", "AwaitingStartLine"}

\* What the ranges point at has been received: no search and no copy reads
\* past the buffer's length.
RangesInBuffer ==
    /\ LineFound => startLine.endPos < Length /\ headers.startPos <= Length
    /\ state = "CompleteHeaders" => headers.endPos < Length

\* The start line in the bytes received so far, and the end of headers behind it.
HasLine == Visible(0) /= {} /\ Occurrences(Separator, First(Visible(0))) /= {}
LineEnd == First(Occurrences(Separator, First(Visible(0))))
HasHeaders == Occurrences(DoubleSeparator, LineEnd + 2) /= {}

\* What all the bytes received so far, were they one piece, amount to.
Deserved(verdict) ==
    \/ ~HasLine /\ verdict = "AwaitingStartLine"
    \/ HasLine /\ LineEnd <= 1 /\ verdict = "BadRequestError"
    \/ /\ HasLine /\ LineEnd > 1 /\ HasHeaders
       /\ \/ verdict = "BadRequestError"
          \/ verdict = "InternalError" /\ faults < MaxFaults
    \/ /\ HasLine /\ LineEnd > 1 /\ ~HasHeaders
       /\ \/ Length = BufferSize /\ verdict = "LongHeadersError"
          \/ /\ Length < BufferSize /\ verdict = "Complete"
             /\ LineEnd + 2 \in Occurrences(Separator, 0)

\* A call that returns concludes from the bytes it finds what a single call
\* on all of them would: what earlier calls have searched and skipped, and
\* where the bytes were cut, does not show.  (When they were cut does: a
\* request that is settled is not looked at again, so that X X CR LF CR LF is
\* Complete by itself and a bad request with one more CR LF in the same piece.)
VerdictFollowsBytes == [][(parsing /\ ~parsing') => Deserved(state')]_vars

\* The contract that Server relies on.
Contract == INSTANCE Parse WITH busy <- parsing, settled <- state \in Finished

\* A request is settled, completed or refused, by a call on its own bytes and
\* stays so, whatever else arrives on the connection.
ImplementsParse == Contract!Spec

\* The loop goes round on bytes that are not there: a buffer of blanks, full or
\* not, or headers that are not complete and have room left; or the loop of
\* parseParams on a token without a key.
WaitsForBytes == \/ state = "AwaitingStartLine" /\ Visible(0) = {}
                 \/ /\ state = "AwaitingHeaders" /\ Length < BufferSize
                    /\ HeaderEnds(headers.startPos) = {}
StaysAtToken == stage = "tokens" /\ KeyMissing

\* A parse returns to the reader thread unless it looks again and again for bytes
\* that are not in the buffer, or a token of the query begins with '='.
ReturnsUnlessLooping == parsing ~> (~parsing \/ WaitsForBytes \/ StaysAtToken)

\* Headers that are not complete yet: "continue reading from client", that is,
\* the parse returns so that the reader thread can read on.
IncompleteHeadersReturn == (parsing /\ state = "AwaitingHeaders") ~> ~parsing

\* The headers end at the first empty line of the request.
HeadersEndAtFirstEmptyLine ==
    state = "CompleteHeaders"
        => headers.endPos + 1 = First(Occurrences(DoubleSeparator, startLine.endPos + 1))
=============================================================================
