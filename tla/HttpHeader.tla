------------------------------ MODULE HttpHeader ------------------------------
(***************************************************************************)
(* The headers of a request (lib/esp_http_client/lib/http_header.c): a     *)
(* list that is edited key by key and then written                         *)
(* (http_header_generate_string and its loop in esp_http_client_open), one *)
(* buffer after the other, each with the headers from an index on, the     *)
(* first one behind the request line. Of a value only its size matters.    *)
(***************************************************************************)
EXTENDS Integers, Sequences, SequencesExt

CONSTANTS
  HeaderBuffer,             \* buffer_size, in characters
  HeaderSizes, MaxHeaders,  \* bounds: the sizes of a header and of the request line, the headers there may be
  MaxEdits                  \* bound: the changes made to the list

ASSUME HeaderBounds == {MaxHeaders, MaxEdits} \subseteq Nat /\ HeaderSizes \subseteq Nat \ {0}

VARIABLES
  request,  \* items, the list; line, the size of the request line; index, sent, ended, pc: how it is written;
            \* overrun, past the end of the buffer
  asked     \* history: sizes, what each key was set to last, 0 for none; twice, a key that was there was given with
            \* blanks around it; edits, for the bound

headers == <<request, asked>>

Headers == 1..MaxHeaders
HeaderInit ==
  /\ \E n \in Headers : \E sizes \in [1..n -> HeaderSizes] :
       /\ request = [items |-> [i \in 1..n |-> [key |-> i, size |-> sizes[i]]], line |-> 0, index |-> 0, sent |-> <<>>,
                     ended |-> FALSE, pc |-> "edits", overrun |-> FALSE]
       /\ asked = [sizes |-> [k \in Headers |-> IF k \in 1..n THEN sizes[k] ELSE 0], twice |-> FALSE, edits |-> 0]

-----------------------------------------------------------------------------
\* http_header_get_item; a key in the list has lost its blanks, the one looked for has not.
Item1(key, blanks) == IF blanks THEN 0 ELSE SelectInSeq(request.items, LAMBDA x : x.key = key)
Edits(items, sizes, blanks, key) ==
  /\ request.pc = "edits" /\ asked.edits < MaxEdits
  /\ request' = [request EXCEPT !.items = items]
  /\ asked' = [sizes |-> sizes, twice |-> asked.twice \/ (blanks /\ asked.sizes[key] # 0), edits |-> asked.edits + 1]

\* http_header_set; http_header_set_from_string and _set_format come down to it.
NewItem(key, size) == Append(request.items, [key |-> key, size |-> size])
HeaderSet(key, blanks, size) ==
  LET at == Item1(key, blanks)
  IN Edits(IF at = 0 THEN NewItem(key, size) ELSE [request.items EXCEPT ![at].size = size],
           [asked.sizes EXCEPT ![key] = size], blanks, key)
Deleted(at) == RemoveAt(request.items, at)
\* http_header_delete, and a value of NULL.
HeaderDelete(key) ==
  /\ Item1(key, FALSE) # 0
  /\ Edits(Deleted(Item1(key, FALSE)), [asked.sizes EXCEPT ![key] = 0], FALSE, key)
HeaderClean == Edits(<<>>, [k \in Headers |-> 0], FALSE, 1)

-----------------------------------------------------------------------------
RequestLine ==
  /\ request.pc = "edits"
  /\ \E line \in HeaderSizes : request' = [request EXCEPT !.pc = "writes", !.line = line]
  /\ UNCHANGED asked

Room == HeaderBuffer - (IF request.sent = <<>> THEN request.line ELSE 0)
SizeOf(from, to) == FoldLeft(LAMBDA sum, x : sum + x.size, 0, SubSeq(request.items, from, to))

\* Fault: the header that did not fit is taken for written.
NextIndexAll == Len(request.items)

\* As soon as one header does not fit, all but the last are taken, and the last is left for later.
NextIndex == IF SizeOf(request.index + 1, Len(request.items)) + 1 > Room - 2
             THEN Len(request.items) - 1 ELSE Len(request.items)

HeaderWrites ==
  /\ request.pc = "writes" /\ request.index < Len(request.items)
  /\ LET to == NextIndex
     IN request' = [request EXCEPT !.index = to,
                      !.sent = @ \o [i \in 1..(to - request.index) |-> request.index + i],
                      !.ended = to = Len(request.items),
                      !.overrun = @ \/ SizeOf(request.index + 1, to) >= Room,
                      \* a buffer with nothing in it ends the loop
                      !.pc = IF to = request.index THEN "done" ELSE "writes"]
  /\ UNCHANGED asked

HeadersEnd ==
  /\ request.pc = "writes" /\ request.index = Len(request.items)
  /\ request' = [request EXCEPT !.pc = "done"]
  /\ UNCHANGED asked

HeaderNext ==
  \/ \E key \in Headers, blanks \in BOOLEAN, size \in HeaderSizes : HeaderSet(key, blanks, size)
  \/ (\E key \in Headers : HeaderDelete(key)) \/ HeaderClean
  \/ RequestLine \/ HeaderWrites \/ HeadersEnd

-----------------------------------------------------------------------------
\* The list has each key that is set, once and with the value it was given last, and no other: unless a key that
\* was there was named with blanks around it, which http_header_get_item does not find (http_header.c:116).
HeadersListed ==
  ~asked.twice =>
    /\ {<<x.key, x.size>> : x \in Range(request.items)} = {<<k, asked.sizes[k]>> : k \in {h \in Headers : asked.sizes[h] # 0}}
    /\ IsInjective([i \in DOMAIN request.items |-> request.items[i].key])
\* When two or more headers of which all but the last fit the buffer behind the request line are
\* sent, the request has each of them once and in order and the empty line, and no buffer was
\* written past its end (http_header.c:174-215).
HeadersWhole ==
  LET n == Len(request.items)
  IN request.pc = "done" /\ n > 1 /\ request.items[n].size + 3 <= HeaderBuffer
       /\ request.line + SizeOf(1, n - 1) < HeaderBuffer =>
       request.sent = [i \in 1..n |-> i] /\ request.ended /\ ~request.overrun
=============================================================================
