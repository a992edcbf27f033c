------------------------------- MODULE Request -------------------------------
(***************************************************************************)
(* What the parser makes of a start line: the HttpRequest of request.c,    *)
(* filled by parseStartLine and parseParams of client_parser.c, one action *)
(* per allocation or per token of the query, and the heap blocks that this *)
(* takes.  A block is named for what it holds and, in the list of tokens,  *)
(* for its place there.                                                    *)
(*                                                                         *)
(* A byte is CR, LF, SP, one of ? & =, M for the name of a method, which   *)
(* is one byte here, or X for any other.  NUL, where strncpy stops, is     *)
(* left out, and so are windows of more than UINT16_MAX bytes, which the   *)
(* buffer cannot hold.                                                     *)
(***************************************************************************)
EXTENDS Integers, Sequences, FiniteSets
LOCAL INSTANCE SequencesExt

CONSTANTS MaxFaults    \* bound: the allocations that fail

ASSUME RequestAssumption == MaxFaults \in Nat

VARIABLES request,     \* what *ctx->request holds
          stage,       \* which step of parsing it comes next; "none" without a request
          query,       \* the copy of the query that parseParams gets
          left,        \* where its next token begins
          list,        \* paramsList, the pairs in order
          heap,        \* the blocks allocated and not freed
          faults       \* allocations that may still fail

requestVars == <<request, stage, query, left, list, heap, faults>>

AnyByte == {"CR", "LF", "SP", "M", "?", "&", "=", "X"}
Pair == [key : Seq(AnyByte), value : Seq(AnyByte)]

RequestTypeOK ==
    /\ request \in [target : Seq(AnyByte), params : Seq(Pair), protocol : Seq(AnyByte)]
    /\ stage \in {"none", "startLine", "query", "list", "tokens", "collect", "protocol", "free"}
    /\ query \in Seq(AnyByte)
    /\ left \in 0..Len(query) + 1
    /\ list \in Seq(Pair)
    /\ heap \subseteq {"context", "buffer", "request", "target", "query", "list", "params", "protocol"}
                        \X {0} \cup {"pair", "node", "key", "value"} \X (1..Len(query) + 1)
    /\ faults \in 0..MaxFaults

\* RequestStartLine_Init
EmptyRequest == [target |-> <<>>, params |-> <<>>, protocol |-> <<>>]

\* ParserContext_Init
RequestInit == /\ request = EmptyRequest
               /\ stage = "none"
               /\ query = <<>> /\ left = 0 /\ list = <<>>
               /\ heap = {<<"context", 0>>, <<"buffer", 0>>}
               /\ faults = MaxFaults

-----------------------------------------------------------------------------
(* Bytes.                                                                  *)

\* memchr: where a byte first occurs in a window, or 0.
Place(byte, bytes, from, to) == SelectInSubSeq(bytes, from, to, LAMBDA b : b = byte)

\* METHODS_MAP
Methods == {<<"M">>}

\* The two spaces of a start line, and the question mark between them.
MethodEnd(line) == Place("SP", line, 1, Len(line))
UriEnd(line) == Place("SP", line, MethodEnd(line) + 1, Len(line))
Question(line) == Place("?", line, MethodEnd(line) + 1, UriEnd(line) - 1)

Readable(line) == /\ MethodEnd(line) /= 0
                  /\ SubSeq(line, 1, MethodEnd(line) - 1) \in Methods
                  /\ UriEnd(line) /= 0
HasQuery(line) == Question(line) /= 0
Target(line) == SubSeq(line, MethodEnd(line) + 1,
                       (IF HasQuery(line) THEN Question(line) ELSE UriEnd(line)) - 1)
Query(line) == SubSeq(line, Question(line) + 1, UriEnd(line) - 1)
Protocol(line) == SubSeq(line, UriEnd(line) + 1, Len(line))

-----------------------------------------------------------------------------
(* Allocation.                                                             *)

Goto(from, to) == stage = from /\ stage' = to
Fails == faults > 0 /\ faults' = faults - 1
Works == UNCHANGED faults

\* NKString_CopyFrom: no bytes and no memory both give the empty string.
CopyFrom(name, bytes, copy) ==
    \/ copy = bytes /\ heap' = heap \cup (IF bytes = <<>> THEN {} ELSE {<<name, 0>>}) /\ Works
    \/ bytes /= <<>> /\ copy = <<>> /\ UNCHANGED heap /\ Fails

\* The strings of the i-th pair that are on the heap.
Strings(i, pair) == {<<field, i>> : field \in {f \in DOMAIN pair : pair[f] /= <<>>}}
StringsOf(pairs) == UNION {Strings(i, pairs[i]) : i \in DOMAIN pairs}

\* The list, its nodes and the pairs they hold.
ListBlocks == {<<"list", 0>>} \cup {"node", "pair"} \X DOMAIN list

\* Fault: the array of parameters goes without their strings.
ArrayBlocks == {<<field, 0>> : field \in {f \in DOMAIN request : request[f] /= <<>>}}
RequestBlocks == {<<field, 0>> : field \in {f \in DOMAIN request : request[f] /= <<>>}}
                     \cup StringsOf(request.params)

-----------------------------------------------------------------------------
(* parseStartLine.                                                         *)

NewRequest == /\ Goto("none", "startLine")
              /\ heap' = heap \cup {<<"request", 0>>}
              /\ request' = EmptyRequest
              /\ Works
              /\ UNCHANGED <<query, left, list>>

RefuseLine(line) == /\ Goto("startLine", "free")
                    /\ ~Readable(line)
                    /\ UNCHANGED <<request, query, left, list, heap, faults>>

CopyTarget(line) ==
    /\ Goto("startLine", IF HasQuery(line) THEN "query" ELSE "protocol")
    /\ Readable(line)
    /\ \E copy \in {Target(line), <<>>} :
          /\ CopyFrom("target", Target(line), copy)
          /\ request' = [request EXCEPT !.target = copy]
    /\ UNCHANGED <<query, left, list>>

\* An empty query, or one that could not be copied, has no parameters.
CopyQuery(line) ==
    /\ \E copy \in {Query(line), <<>>} :
          /\ CopyFrom("query", Query(line), copy)
          /\ query' = copy
          /\ Goto("query", IF copy = <<>> THEN "protocol" ELSE "list")
    /\ UNCHANGED <<request, left, list>>

\* parseHeaders fails whatever the protocol.
CopyProtocol(line) ==
    /\ Goto("protocol", "free")
    /\ \E copy \in {Protocol(line), <<>>} :
          /\ CopyFrom("protocol", Protocol(line), copy)
          /\ request' = [request EXCEPT !.protocol = copy]
    /\ UNCHANGED <<query, left, list>>

-----------------------------------------------------------------------------
(* parseParams.                                                            *)

CreateList == /\ stage = "list"
              /\ \/ heap' = heap \cup {<<"list", 0>>} /\ stage' = "tokens" /\ Works
                 \/ UNCHANGED heap /\ stage' = "free" /\ Fails
              /\ UNCHANGED <<request, query, left, list>>

\* right: the next '&' but for one at left, or the end.
Right == LET separator == Place("&", query, left + 2, Len(query))
         IN  IF separator = 0 THEN Len(query) ELSE separator - 1
Equals == Place("=", query, left + 1, Right)
Key == SubSeq(query, left + 1, IF Equals = 0 THEN Right ELSE Equals - 1)
Value == IF Equals = 0 THEN <<>> ELSE SubSeq(query, Equals + 1, Right)
KeyMissing == query[left + 1] = "="

\* A token without a key: the pair is freed and the loop continues, with left
\* and right where they are.
SkipToken == /\ stage = "tokens"
             /\ KeyMissing
             /\ UNCHANGED requestVars

\* The pair of the token; the copies of some of its strings may fail.
Parsed(denied) == [key   |-> IF "key" \in denied THEN <<>> ELSE Key,
                   value |-> IF "value" \in denied THEN <<>> ELSE Value]
Denials == SUBSET {f \in {"key", "value"} : Parsed({})[f] /= <<>>}

\* Fault: the '&' is taken for the first byte of the next token.
LeftAtSeparator == Right
NextLeft == Right + 1

KeepPair ==
    LET i == Len(list) + 1 IN
    /\ stage = "tokens"
    /\ ~KeyMissing
    /\ \E denied \in Denials :
          /\ faults' = faults - Cardinality(denied) /\ faults' >= 0
          /\ list' = Append(list, Parsed(denied))
          /\ heap' = heap \cup ({"pair", "node"} \X {i}) \cup Strings(i, Parsed(denied))
    /\ left' = NextLeft
    /\ stage' = IF NextLeft < Len(query) THEN "tokens" ELSE "collect"
    /\ UNCHANGED <<request, query>>

\* freeListReturnFalse
Abandon == /\ list' = <<>>
           /\ stage' = "free"
           /\ UNCHANGED <<request, query, left>>

PairFails == /\ stage = "tokens"
             /\ Fails
             /\ heap' = heap \ (ListBlocks \cup StringsOf(list))
             /\ Abandon

\* LinkedList_AddEnd fails: the pair is freed, its strings are not.
AddEndFails ==
    /\ stage = "tokens"
    /\ ~KeyMissing
    /\ \E denied \in Denials :
          /\ faults' = faults - Cardinality(denied) - 1 /\ faults' >= 0
          /\ heap' = (heap \ (ListBlocks \cup StringsOf(list)))
                         \cup Strings(Len(list) + 1, Parsed(denied))
    /\ Abandon

\* The pairs move from the list to the array.
Collect == /\ Goto("collect", "protocol")
           /\ heap' = (heap \ ListBlocks) \cup {<<"params", 0>>}
           /\ request' = [request EXCEPT !.params = list]
           /\ list' = <<>>
           /\ Works
           /\ UNCHANGED <<query, left>>

CollectFails == /\ stage = "collect"
                /\ Fails
                /\ heap' = heap \ (ListBlocks \cup StringsOf(list))
                /\ Abandon

-----------------------------------------------------------------------------
\* HttpRequest_Free, and ctx->request is NULL: the HttpRequest itself stays.
FreeRequest == /\ Goto("free", "none")
               /\ heap' = heap \ RequestBlocks
               /\ request' = EmptyRequest
               /\ UNCHANGED <<query, left, list, faults>>

\* The steps between malloc and HttpRequest_Free.
ReadRequest(line) == \/ RefuseLine(line) \/ CopyTarget(line) \/ CopyQuery(line) \/ CopyProtocol(line)
                     \/ CreateList \/ SkipToken \/ KeepPair \/ PairFails \/ AddEndFails
                     \/ Collect \/ CollectFails

-----------------------------------------------------------------------------
(* Properties.                                                             *)

Spelled(pair, equals) == pair.key \o (IF pair.value /= <<>> \/ equals THEN <<"=">> ELSE <<>>)
                                  \o pair.value \o <<"&">>

\* The parameters are the query and nothing else: written out again, with '='
\* where a value is empty or not, they give its bytes, but for an '&' at the
\* end; each is cut at the first '=' of its token, which no '&' but a first byte
\* is part of.  (An empty token swallows the '&' behind it.)
ParamsSpellQuery ==
    (stage = "protocol" /\ query /= <<>> /\ faults = MaxFaults) =>
        LET params == request.params IN
        /\ \E equals \in SUBSET DOMAIN params :
              FlattenSeq([i \in DOMAIN params |-> Spelled(params[i], i \in equals)])
                  \in {query, query \o <<"&">>}
        /\ \A i \in DOMAIN params :
              /\ params[i].key /= <<>>
              /\ \A j \in DOMAIN params[i].key : params[i].key[j] /= "=" /\ (params[i].key[j] = "&" => j = 1)
              /\ \A j \in DOMAIN params[i].value : params[i].value[j] /= "&"

InParams == stage \in {"list", "tokens", "collect"}

\* What the parser can still reach.
Reachable == RequestBlocks
    \cup (IF stage = "none" THEN {} ELSE {<<"request", 0>>})
    \cup (IF InParams THEN {<<"query", 0>>} ELSE {})
    \cup (IF InParams /\ stage /= "list" THEN ListBlocks \cup StringsOf(list) ELSE {})

\* What it has lost track of.
Lost == heap \ (Reachable \cup {<<"context", 0>>, <<"buffer", 0>>})

\* Whichever allocation fails, nothing reachable has been freed, and what is
\* lost is the copy of the query, the HttpRequest of a request that was refused
\* and, once an allocation has failed, the strings of one pair at most (in the
\* code those of a pair that could not be added to the list).
BlocksAccounted ==
    /\ Reachable \subseteq heap
    /\ <<"query", 0>> \in Lost => query /= <<>>
    /\ <<"request", 0>> \in Lost => stage = "none"
    /\ LET strings == Lost \ {<<"query", 0>>, <<"request", 0>>} IN
          strings /= {} => /\ faults < MaxFaults /\ stage \in {"free", "none"}
                          /\ \E i \in 1..Len(query) : strings \subseteq {"key", "value"} \X {i}
=============================================================================
