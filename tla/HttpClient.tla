------------------------------ MODULE HttpClient ------------------------------
(***************************************************************************)
(* The HTTP client (lib/esp_http_client/esp_http_client.c): one connection *)
(* that is kept from request to request, the answer's parser and what it   *)
(* read beyond the headers, and the calls made on them, each of which may  *)
(* wait for the connection several times: open, fetch_headers, read, and   *)
(* perform, which follows redirections and authenticates.                  *)
(*                                                                         *)
(* A body is the sequence of its units <<url, 1>>, <<url, 2>>, ... The     *)
(* connection brings a head, the units and, of a chunked body, the end.    *)
(***************************************************************************)
EXTENDS Integers, Sequences, FiniteSets, SequencesExt

CONSTANTS
  Web,             \* what each url answers: [host, status, to, body, chunked, user]
  FirstUrls,       \* the urls the calls begin with
  MaxRedirect,     \* max_redirection_count
  BufferSize,      \* buffer_size, in units
  MaxLosses, MaxJobs

ASSUME ClientAssumption == MaxRedirect \in Nat \ {0} /\ BufferSize \in Nat \ {0}

Urls == DOMAIN Web

\* esp_http_state_t.
Init0 == 1
Connected == 2
ReqHeader == 3
ReqData == 4
ResHeader == 5

VARIABLES
  client,   \* the client and its response
  wire,     \* what the connection has brought and was not read, and whether it is up
  call,     \* the call that is in progress
  spoilt,   \* history: what has made the answers unreliable
  job       \* the perform that is in progress

webs == <<client, wire, call, spoilt>>

HeadOf(u, status, length) == [kind |-> "head", url |-> u, n |-> length, status |-> status]
UnitOf(u, i) == [kind |-> "unit", url |-> u, n |-> i, status |-> 0]
EndOf(u) == [kind |-> "end", url |-> u, n |-> 0, status |-> 0]

NewClient(u) ==
  [state |-> Init0, url |-> u, peer |-> "none", range |-> 0, auth |-> FALSE, post |-> FALSE,
   status |-> 0, length |-> 0, chunked |-> FALSE, over |-> FALSE, got |-> 0,
   rawLen |-> 0, raw |-> <<>>, heard |-> <<>>, redirects |-> 0, again |-> FALSE, parser |-> "start"]

NoCall == [fn |-> "none", arg |-> 0, ret |-> 0, out |-> <<>>]
Calls(fn, arg) == [fn |-> fn, arg |-> arg, ret |-> 0, out |-> <<>>]
Returns(ret) == call' = [call EXCEPT !.fn = "done", !.ret = ret]

ClientInit ==
  /\ client = NewClient(CHOOSE u \in Urls : TRUE) /\ call = NoCall
  /\ wire = [up |-> FALSE, sent |-> <<>>, losses |-> 0] /\ spoilt = {}

\* The server: any but the right host knows nothing of the url.
Answer(c) ==
  LET site == Web[c.url]
      wanted == site.status = 401 => c.auth /\ site.user
      known == c.peer = site.host
      status == IF site.status = 401 /\ wanted THEN 200
                ELSE IF site.status = 200 /\ c.range > 0 THEN 206 ELSE site.status
      first == IF status = 206 THEN c.range + 1 ELSE 1
      last == site.body
      body == [i \in 1..(IF last < first THEN 0 ELSE last - first + 1) |-> UnitOf(c.url, first + i - 1)]
  IN IF ~known THEN <<HeadOf(c.url, 404, 1), UnitOf(c.peer, 1)>>
     ELSE IF site.chunked
     THEN <<HeadOf(c.url, status, -1)>> \o body \o <<EndOf(c.url)>>
     ELSE <<HeadOf(c.url, status, Len(body))>> \o body

\* http_parser_execute on one token, with the callbacks it makes: on_message_begin, on_header_value,
\* on_headers_complete, on_body, on_message_complete. heard is what the callbacks gave away.
Parse(c, token) ==
  CASE c.parser = "start" /\ token.kind = "head" ->
         [c EXCEPT !.status = token.status, !.length = token.n, !.got = 0, !.chunked = token.n = -1,
                   !.over = token.n = 0, !.state = ResHeader,
                   !.parser = IF token.n = 0 THEN "start" ELSE "body"]
    [] c.parser = "body" /\ token.kind = "unit" ->
         LET ended == c.length >= 0 /\ c.got + 1 >= c.length
         IN [c EXCEPT !.got = @ + 1, !.rawLen = @ + 1, !.heard = Append(@, <<token.url, token.n>>),
                      !.over = @ \/ ended, !.parser = IF ended THEN "start" ELSE "body"]
    [] c.parser = "body" /\ token.kind = "end" -> [c EXCEPT !.over = TRUE, !.parser = "start"]
    [] OTHER -> [c EXCEPT !.parser = "error"]

\* transport_read: up to n units, with the head before and the end behind them, are parsed. raw_data
\* is left at the last callback's data: a whole read of a body of known length, one chunk else.
ReadSizes(n) ==
  {k \in 1..Len(wire.sent) : Cardinality({i \in 1..k : wire.sent[i].kind = "unit"}) <= n}
ReadOf(c, k) ==
  LET d == FoldLeft(Parse, c, SubSeq(wire.sent, 1, k))
      units == SubSeq(d.heard, Len(c.heard) + 1, Len(d.heard))
  IN IF units = <<>> THEN d
     ELSE [d EXCEPT !.raw = IF d.length < 0 THEN <<Last(units)>> ELSE units]
Took(k) == [wire EXCEPT !.sent = SubSeq(@, k + 1, Len(@))]

\* esp_http_client_close.
Closed(c) == [c EXCEPT !.state = Init0]
Down == [wire EXCEPT !.up = FALSE, !.sent = <<>>]

\* esp_http_client_set_url. The old host it compares with is the string it has just written the new
\* one into, or one that realloc has freed: whether it sees another host is open (:625-640).
SetUrl(u) ==
  \E seen \in BOOLEAN :
    /\ seen => Web[u].host # Web[client.url].host
    /\ client' = [IF seen THEN Closed(client) ELSE client EXCEPT !.url = u]
    /\ wire' = IF seen THEN Down ELSE wire

\* esp_http_client_prepare: what the last answer left in raw_data stays.
Prepared(c) == [c EXCEPT !.again = FALSE, !.got = 0, !.parser = "start", !.heard = <<>>]

\* esp_http_client_open connects unless there is a connection,
OpenConnects ==
  /\ call.fn = "open" /\ client.state < Connected
  /\ \E ok \in BOOLEAN :
       IF ok
       THEN /\ client' = [Prepared(client) EXCEPT !.state = Connected, !.peer = Web[client.url].host]
            /\ wire' = [wire EXCEPT !.up = TRUE, !.sent = <<>>] /\ UNCHANGED call
       ELSE /\ wire.losses < MaxLosses /\ wire' = [wire EXCEPT !.losses = @ + 1]
            /\ client' = Prepared(client) /\ Returns(-1)
  /\ UNCHANGED spoilt

\* and sends the request: on a connection that is gone this fails or only seems to work.
Spoils(c) ==
  (IF c.rawLen > 0 THEN {"leftover"} ELSE {})
    \cup (IF c.peer # Web[c.url].host THEN {"host"} ELSE {})
Posts(c) == [c EXCEPT !.post = @ \/ call.arg < 0]
OpenAsks ==
  /\ call.fn = "open" /\ client.state >= Connected
  /\ \/ /\ wire.up
        /\ wire' = [wire EXCEPT !.sent = @ \o Answer(client)]
        /\ client' = [Posts(Prepared(client)) EXCEPT !.state = ReqHeader] /\ Returns(0)
     \/ /\ ~wire.up
        /\ client' = [Posts(Prepared(client)) EXCEPT !.state = ReqHeader] /\ Returns(0) /\ UNCHANGED wire
     \/ /\ ~wire.up
        /\ client' = Closed(Posts(Prepared(client))) /\ Returns(-1) /\ wire' = Down
  /\ spoilt' = spoilt \cup Spoils(client)

\* esp_http_client_fetch_headers reads until the head has come.
FetchStarts ==
  /\ call.fn = "fetch" /\ client.state >= ReqHeader   \* no caller fetches what it has not asked for
  /\ call' = [call EXCEPT !.fn = "fetching"] /\ client' = [client EXCEPT !.state = ReqData, !.status = -1]
  /\ UNCHANGED <<wire, spoilt>>

FetchReads ==
  /\ call.fn = "fetching" /\ client.state < ResHeader
  /\ \E k \in ReadSizes(BufferSize) :
       LET c == ReadOf(client, k)
       IN /\ client' = c /\ wire' = Took(k)
          /\ spoilt' = IF c.state = ResHeader /\ c.length < 0 /\ Len(c.heard) > 1
                       THEN spoilt \cup {"chunks"} ELSE spoilt
  /\ UNCHANGED call

FetchEnds ==
  /\ call.fn = "fetching"
  /\ \/ /\ client.state = ResHeader
        /\ client' = [client EXCEPT !.chunked = @ \/ client.length <= 0]
        /\ Returns(IF client.length <= 0 THEN 0 ELSE client.length)
     \/ /\ client.state < ResHeader /\ wire.sent = <<>>
        /\ Returns(-1) /\ UNCHANGED client
  /\ UNCHANGED <<wire, spoilt>>

\* esp_http_client_read first hands out what stands in raw_data, raw_len units of it,
RawUnit(i) == IF i <= Len(client.raw) THEN client.raw[i] ELSE <<"junk", 0>>
ReadStarts ==
  /\ call.fn = "read"
  /\ LET n == IF client.rawLen < call.arg THEN client.rawLen ELSE call.arg
     IN /\ client' = [client EXCEPT !.rawLen = @ - n, !.raw = SubSeq(@, n + 1, Len(@))]
        /\ call' = [fn |-> "reading", arg |-> call.arg - n, ret |-> 0, out |-> [i \in 1..n |-> RawUnit(i)]]
  /\ UNCHANGED <<wire, spoilt>>

\* then what the connection brings, until it has what was asked for or the body is over.
Remains(c) == IF c.chunked THEN ~c.over ELSE c.got < c.length
ReadMore ==
  /\ call.fn = "reading" /\ call.arg > 0 /\ Remains(client)
  /\ \E k \in ReadSizes(IF call.arg < BufferSize THEN call.arg ELSE BufferSize) :
       LET c == ReadOf(client, k)
           units == SubSeq(c.heard, Len(client.heard) + 1, Len(c.heard))
       IN /\ client' = [c EXCEPT !.rawLen = 0, !.raw = <<>>] /\ wire' = Took(k)
          /\ call' = [call EXCEPT !.arg = @ - Len(units), !.out = @ \o units]
  /\ UNCHANGED spoilt

ReadEnds ==
  /\ call.fn = "reading"
  /\ call.arg = 0 \/ ~Remains(client) \/ wire.sent = <<>>
  /\ Returns(Len(call.out))
  /\ UNCHANGED <<client, wire, spoilt>>

\* The connection breaks: some of what it had brought still arrives.
Breaks ==
  /\ wire.up /\ wire.losses < MaxLosses
  /\ \E k \in 0..Len(wire.sent) :
       wire' = [wire EXCEPT !.up = FALSE, !.sent = SubSeq(@, 1, k), !.losses = @ + 1]
  /\ UNCHANGED <<client, call, spoilt>>

CallSteps ==
  OpenConnects \/ OpenAsks \/ FetchStarts \/ FetchReads \/ FetchEnds \/ ReadStarts \/ ReadMore \/ ReadEnds

-----------------------------------------------------------------------------
(* esp_http_client_perform: requests made one after the other on the same  *)
(* client, each with its redirections and its authentication, the body     *)
(* given to the event handler as it comes.                                 *)
PerformInit == job = [pc |-> "idle", count |-> 0, result |-> "none"]

Fails(result) == job' = [job EXCEPT !.pc = "idle", !.result = result]

JobStarts ==
  /\ job.pc = "idle" /\ job.count < MaxJobs
  /\ \E u \in FirstUrls : SetUrl(u)
  /\ job' = [pc |-> "opens", count |-> job.count + 1, result |-> "none"]
  /\ call' = Calls("open", 0)
  /\ UNCHANGED spoilt

JobOpened ==
  /\ job.pc = "opens" /\ call.fn = "done"
  /\ IF call.ret < 0
     THEN Fails("open") /\ call' = NoCall
     ELSE job' = [job EXCEPT !.pc = "fetches"] /\ call' = Calls("fetch", 0)
  /\ UNCHANGED <<client, wire, spoilt>>

\* esp_http_check_response: the counter is the client's and is never set back.
Limit == client.redirects >= MaxRedirect
\* Fault: a redirection is not counted.
JobChecksUncounted ==
  /\ job.pc = "fetches" /\ call.fn = "done" /\ call.ret >= 0 /\ ~Limit
  /\ job' = [job EXCEPT !.pc = "drains"] /\ call' = NoCall
  /\ UNCHANGED <<wire, spoilt>>
  /\ client' = IF client.status \in {301, 302}
               THEN [client EXCEPT !.url = Web[client.url].to, !.again = TRUE] ELSE client

JobChecks ==
  /\ job.pc = "fetches" /\ call.fn = "done" /\ call.ret >= 0 /\ ~Limit
  /\ job' = [job EXCEPT !.pc = "drains"] /\ call' = NoCall
  /\ UNCHANGED spoilt
  /\ \/ /\ client.status \in {301, 302}
        /\ \E seen \in BOOLEAN :
             LET to == Web[client.url].to
                 c == [client EXCEPT !.url = to, !.redirects = @ + 1, !.again = TRUE]
             IN /\ seen => Web[to].host # Web[client.url].host
                /\ client' = IF seen THEN Closed(c) ELSE c
                /\ wire' = IF seen THEN Down ELSE wire
     \/ /\ client.status = 401
        /\ client' = [client EXCEPT !.redirects = @ + 1, !.auth = TRUE, !.again = TRUE] /\ UNCHANGED wire
     \/ /\ client.status \notin {301, 302, 401}
        /\ UNCHANGED <<client, wire>>
JobFails ==
  /\ job.pc = "fetches" /\ call.fn = "done"
  /\ call.ret < 0 \/ Limit
  /\ Fails(IF call.ret < 0 THEN "fetch" ELSE "limit") /\ call' = NoCall
  /\ UNCHANGED <<client, wire, spoilt>>

\* The body is read with esp_http_client_get_data until it is over or nothing comes.
\* Fault: the chunked body is not read to its end.
DrainsLength(c) == c.state >= ResHeader /\ c.got < c.length
Drains(c) == c.state >= ResHeader /\ ((c.chunked /\ ~c.over) \/ c.got < c.length)
JobDrains ==
  /\ job.pc = "drains" /\ Drains(client)
  /\ \E k \in ReadSizes(BufferSize) : client' = ReadOf(client, k) /\ wire' = Took(k)
  /\ UNCHANGED <<call, job, spoilt>>

\* ON_FINISH, and the connection is kept where the server allows it.
JobFinishes ==
  /\ job.pc = "drains" /\ (~Drains(client) \/ wire.sent = <<>>)
  /\ \E keep \in BOOLEAN :
       /\ client' = IF ~keep THEN Closed(client)
                    ELSE [client EXCEPT !.state = IF @ > Connected THEN Connected ELSE @]
       /\ wire' = IF keep THEN wire ELSE Down
  /\ IF client.again
     THEN job' = [job EXCEPT !.pc = "opens"] /\ call' = Calls("open", 0)
     ELSE job' = [job EXCEPT !.pc = "idle", !.result = "ok"] /\ UNCHANGED call
  /\ UNCHANGED spoilt

JobSteps == JobOpened \/ JobChecks \/ JobFails \/ JobDrains \/ JobFinishes
PerformNext ==
  \/ (OpenConnects \/ OpenAsks \/ FetchStarts \/ FetchReads \/ FetchEnds) /\ UNCHANGED job
  \/ Breaks /\ UNCHANGED job
  \/ JobStarts \/ JobSteps

\* A perform that reports success has given the handler the whole body of the url it ended on, each
\* unit once and in order - where no connection broke and no request went to another host than its
\* url's (esp_http_client.c:781).
BodyWhole ==
  job.pc = "idle" /\ job.result = "ok" /\ wire.losses = 0 /\ "host" \notin spoilt /\ client.status = 200 =>
    client.heard = [i \in 1..Web[client.url].body |-> <<client.url, i>>]

\* Every perform ends, around a circle of redirections too (esp_http_client.c:557, 780).
PerformEnds == job.pc # "idle" ~> job.pc = "idle"
=============================================================================
