------------------------------ MODULE HttpStream ------------------------------
(***************************************************************************)
(* The HTTP stream (lib/audio_stream/http_stream.c), an element that plays *)
(* what a url answers, or the tracks of the playlist it answers, or sends  *)
(* what another element produced. Its functions run in the element's task, *)
(* the user's hook among them; AudioElement says in which order.           *)
(*                                                                         *)
(* A playlist gives some first tracks of its list: PlaylistLines shows     *)
(* that its lines come in order, and why the last ones may be missing.     *)
(***************************************************************************)
EXTENDS HttpClient

CONSTANTS
  Lists,               \* what each url that is a playlist lists, by its version
  Jammed,              \* the playlists the reader of the lines may get stuck in (see PlaylistLines)
  KeepTrack, MaxTrack, \* MAX_PLAYLIST_KEEP_TRACK and MAX_PLAYLIST_TRACK
  ReadLen,             \* what the element asks a read for
  MaxOpens, MaxRestarts, MaxPauses

ASSUME TrackAssumption == KeepTrack \in Nat /\ MaxTrack \in Nat /\ KeepTrack < MaxTrack
ASSUME ListsAssumption ==
  /\ FirstUrls \subseteq Urls
  /\ \A u \in DOMAIN Lists : Lists[u] \in Seq(Seq(Urls)) /\ Lists[u] # <<>>
  /\ Jammed \subseteq DOMAIN Lists

VARIABLE stream

StreamInit ==
  stream \in [pc : {"idle"}, type : {"reader", "writer"}, parses : BOOLEAN, uri : FirstUrls, opened : {FALSE}, made : {FALSE},
              resolved : {FALSE}, list : {<<>>}, total : {0}, pos : {0}, track : {"none"}, paused : {FALSE},
              out : {<<>>}, from : {0}, opens : {0}, restarts : {0}, pauses : {0}, version : {1},
              played : {<<>>}, dropped : {{}}, replay : {"none"}]

IsPlaylist(u) == u \in DOMAIN Lists
Unplayed == {i \in DOMAIN stream.list : ~stream.list[i].played}
NextOne == CHOOSE i \in Unplayed : \A j \in Unplayed : i <= j
Goes(pc) == [stream EXCEPT !.pc = pc]

\* audio_element_run or a resume: the element calls open in its task.
Opens ==
  /\ stream.pc = "idle" /\ stream.opens < MaxOpens
  /\ stream' = [stream EXCEPT !.pc = "begins", !.opens = @ + 1, !.paused = FALSE]
  /\ UNCHANGED webs

\* _http_open: the first track that was not played, or the element's uri.
PicksTrack ==
  /\ stream.pc = "begins" /\ stream.type = "reader"
  /\ stream.resolved /\ Unplayed # {}
  /\ stream' = [stream EXCEPT !.pc = "sets", !.track = stream.list[NextOne].uri]
  /\ UNCHANGED webs

PicksUri ==
  /\ stream.pc = "begins" /\ ~stream.resolved
  /\ stream' = [stream EXCEPT !.pc = "sets", !.track = stream.uri]
  /\ UNCHANGED webs

\* HTTP_STREAM_FINISH_PLAYLIST: the hook has the playlist fetched again (http_stream_restart), by
\* then perhaps with other tracks, or gives up. One that does neither, or is missing, is asked again
\* at once, and for ever: the stream spins.
FinishesPlaylist ==
  /\ stream.pc = "begins" /\ stream.resolved /\ Unplayed = {}
  /\ \/ /\ stream.restarts < MaxRestarts
        /\ \E v \in {stream.version, stream.version + 1} :
             /\ v <= Len(Lists[stream.uri])
             /\ stream' = [stream EXCEPT !.resolved = FALSE, !.restarts = @ + 1, !.version = v]
     \/ stream' \in {Goes("failed"), Goes("spins")}
  /\ UNCHANGED webs

\* Fault: a stream that is resumed does not say from where.
RangeNone(c) == c.range
RangeFrom(c) == IF stream.pos > 0 THEN stream.pos ELSE c.range

\* esp_http_client_init or set_url, and the Range header: also on a playlist that is resumed.
SetsUrl ==
  /\ stream.pc = "sets"
  /\ \E seen \in BOOLEAN :
       LET u == stream.track
           c == IF ~stream.made THEN NewClient(u) ELSE [client EXCEPT !.url = u]
       IN /\ seen => stream.made /\ Web[u].host # Web[client.url].host
          /\ client' = [IF seen THEN Closed(c) ELSE c EXCEPT !.range = RangeFrom(c)]
          /\ wire' = IF seen \/ ~stream.made THEN Down ELSE wire
          /\ spoilt' = (IF stream.made THEN spoilt ELSE {})
                         \cup (IF IsPlaylist(u) /\ stream.pos > 0 THEN {"listpart"} ELSE {})
  /\ call' = Calls("open", IF stream.type = "writer" THEN -1 ELSE 0)
  /\ stream' = [stream EXCEPT !.pc = "opens", !.made = TRUE, !.from = stream.pos, !.out = <<>>]

\* esp_http_client_open has answered: a writer is open, a reader fetches the headers.
Opened ==
  /\ stream.pc = "opens" /\ call.fn = "done"
  /\ IF call.ret < 0 THEN stream' = Goes("failed") /\ call' = NoCall
     ELSE IF stream.type = "writer"
     THEN stream' = [stream EXCEPT !.pc = "runs", !.opened = TRUE] /\ call' = NoCall
     ELSE stream' = Goes("fetches") /\ call' = Calls("fetch", 0)
  /\ UNCHANGED <<client, wire, spoilt>>

Target == Web[client.url].to

\* 301 and 302 are followed as often as they come.
Redirected ==
  /\ stream.pc = "fetches" /\ call.fn = "done" /\ client.status \in {301, 302}
  /\ SetUrl(Target)
  /\ call' = Calls("open", 0) /\ stream' = Goes("opens") /\ UNCHANGED spoilt

\* Any other bad status ends a stream that has a playlist parser.
Refused ==
  /\ stream.pc = "fetches" /\ call.fn = "done" /\ client.status \notin {200, 206, 301, 302} /\ stream.parses
  /\ stream' = [stream EXCEPT !.pc = "failed", !.list = <<>>, !.resolved = FALSE]
  /\ call' = NoCall /\ UNCHANGED <<client, wire, spoilt>>

\* _insert_to_playlist: old tracks make room, known ones are not taken again.
Purged(lt) ==
  LET over == IF lt.total > MaxTrack THEN lt.total - MaxTrack ELSE 0
      n == IF over < Len(lt.list) THEN over ELSE Len(lt.list)
  IN [list |-> SubSeq(lt.list, n + 1, Len(lt.list)), total |-> lt.total - n]
Insert(lt, u) ==
  LET p == Purged(lt)
  IN IF \E i \in DOMAIN p.list : p.list[i].uri = u THEN p
     ELSE [list |-> Append(p.list, [uri |-> u, played |-> FALSE]), total |-> p.total + 1]
Resolved(lines, n) ==
  LET lt[k \in 0..n] == IF k = 0 THEN [list |-> stream.list, total |-> stream.total] ELSE Insert(lt[k - 1], lines[k])
  IN lt[n]
\* _resolve_playlist, once for a playlist of known length: it gives the first n of its tracks. What
\* starts in its middle is none.
Listed(u) == Lists[u][stream.version]
Unresolved == IsPlaylist(stream.track) /\ ~stream.resolved
Resolvable == stream.parses /\ Unresolved /\ client.length > 0 /\ client.range = 0
Answered == stream.pc = "fetches" /\ call.fn = "done" /\ client.status \notin {301, 302}

\* Fault: the playlist is not marked as resolved.
TakesUnmarked(lt) == [stream EXCEPT !.pc = "begins", !.list = lt.list, !.total = lt.total]
Takes(lt) ==
  [stream EXCEPT !.pc = "begins", !.resolved = TRUE, !.list = lt.list, !.total = lt.total,
                 !.dropped = @ \cup {x.uri : x \in Range(stream.list) \ Range(lt.list)}]
Resolves ==
  /\ Answered /\ client.status = 200 /\ Resolvable
  /\ \E n \in 0..Len(Listed(stream.track)) : stream' = Takes(Resolved(Listed(stream.track), n))
  /\ client' = [client EXCEPT !.rawLen = 0, !.raw = <<>>, !.parser = "start", !.over = TRUE, !.got = client.length]
  /\ wire' = [wire EXCEPT !.sent = <<>>]
  /\ call' = NoCall /\ UNCHANGED spoilt

\* The reader of the lines is handed the same line again and again: open does not return.
Jams ==
  /\ Answered /\ client.status = 200 /\ Resolvable /\ stream.track \in Jammed
  /\ stream' = Goes("jams") /\ call' = NoCall /\ UNCHANGED <<client, wire, spoilt>>

\* A stream without a playlist parser has no playlist: what names one is read through NULL.
LacksPlaylist ==
  /\ Answered /\ Unresolved /\ ~stream.parses
  /\ stream' = Goes("faults") /\ call' = NoCall /\ UNCHANGED <<client, wire, spoilt>>

\* Any other answer is played; without a playlist parser one of a bad status is, too.
Starts ==
  /\ Answered /\ (IF stream.parses THEN client.status \in {200, 206} ELSE ~Unresolved)
  /\ Resolvable => "leftover" \in spoilt
  /\ stream' = [stream EXCEPT !.pc = "runs", !.opened = TRUE, !.played = Append(@, stream.track),
                              !.replay = IF \E i \in DOMAIN stream.played : stream.played[i] = stream.track
                                         THEN stream.track ELSE "none"]
  /\ call' = NoCall /\ UNCHANGED <<client, wire, spoilt>>

\* _http_read, called for the element's next buffer.
StreamReads ==
  /\ stream.pc = "runs" /\ stream.type = "reader"
  /\ stream' = Goes("reads") /\ call' = Calls("read", ReadLen)
  /\ UNCHANGED <<client, wire, spoilt>>

StreamRead ==
  /\ stream.pc = "reads" /\ call.fn = "done" /\ call.ret > 0
  /\ stream' = [stream EXCEPT !.pc = "runs", !.pos = @ + call.ret, !.out = @ \o call.out]
  /\ call' = NoCall /\ UNCHANGED <<client, wire, spoilt>>

\* Fault: the track that was finished is not marked.
NextTrackUnmarked ==
  /\ stream.pc = "reads" /\ call.fn = "done" /\ call.ret = 0
  /\ stream.resolved /\ Unplayed # {}
  /\ stream' = [stream EXCEPT !.pc = "begins", !.pos = 0, !.opened = FALSE]
  /\ call' = NoCall /\ UNCHANGED <<client, wire, spoilt>>

\* Nothing more: HTTP_STREAM_FINISH_TRACK, where the hook goes on with http_stream_next_track. The
\* track was finished; with more than KeepTrack counted it is forgotten. The element opens again.
NextTrack ==
  /\ stream.pc = "reads" /\ call.fn = "done" /\ call.ret = 0
  /\ stream.resolved /\ Unplayed # {}
  /\ LET forgets == stream.total > KeepTrack
         list == IF forgets THEN RemoveAt(stream.list, NextOne)
                 ELSE [stream.list EXCEPT ![NextOne].played = TRUE]
     IN stream' = [stream EXCEPT !.pc = "begins", !.list = list, !.pos = 0, !.opened = FALSE,
                                 !.total = IF forgets THEN @ - 1 ELSE @,
                                 !.dropped = IF forgets THEN @ \cup {stream.list[NextOne].uri} ELSE @]
  /\ call' = NoCall /\ UNCHANGED <<client, wire, spoilt>>
\* Without a track to go on from, and where the hook is missing or fails, the element has finished.
TrackEnds ==
  /\ stream.pc = "reads" /\ call.fn = "done" /\ call.ret = 0
  /\ stream' = Goes("failed") /\ call' = NoCall /\ UNCHANGED <<client, wire, spoilt>>

\* _http_write: what is written or the failure is the element's affair.
StreamWrites ==
  /\ stream.pc = "runs" /\ stream.type = "writer" /\ wire.up /\ stream.pos = 0
  /\ stream' = [stream EXCEPT !.pos = 1] /\ UNCHANGED webs

\* The element stops or pauses between two reads.
Halts ==
  /\ stream.pc = "runs"
  /\ \E paused \in BOOLEAN :
       /\ paused => stream.pauses < MaxPauses
       /\ stream' = [stream EXCEPT !.pc = "failed", !.paused = paused,
                                   !.pauses = IF paused THEN @ + 1 ELSE @]
  /\ UNCHANGED webs

\* _http_close: a writer that is open waits for its answer,
ClosesWriter ==
  /\ stream.pc = "failed" /\ stream.type = "writer" /\ stream.opened
  /\ stream' = [stream EXCEPT !.pc = "closes", !.opened = FALSE] /\ call' = Calls("fetch", 0)
  /\ UNCHANGED <<client, wire, spoilt>>

\* then the playlist and the client go; total_tracks stays, and the position of a pause.
Closes ==
  /\ \/ stream.pc = "failed" /\ (stream.type = "reader" \/ ~stream.opened)
     \/ stream.pc = "closes" /\ call.fn = "done"
  /\ stream' = [stream EXCEPT !.pc = "idle", !.opened = FALSE, !.made = FALSE, !.list = <<>>, !.resolved = FALSE,
                              !.pos = IF stream.paused THEN @ ELSE 0,
                              !.played = <<>>, !.dropped = {}, !.replay = "none"]
  /\ client' = Closed(client) /\ wire' = Down /\ call' = NoCall /\ UNCHANGED spoilt

StreamSteps ==
  \/ PicksTrack \/ PicksUri \/ FinishesPlaylist \/ SetsUrl \/ Opened \/ Redirected \/ Refused
  \/ Resolves \/ Jams \/ LacksPlaylist \/ Starts \/ StreamReads \/ StreamRead \/ NextTrack \/ TrackEnds \/ ClosesWriter \/ Closes
StreamNext ==
  \/ CallSteps /\ UNCHANGED stream
  \/ Breaks /\ UNCHANGED stream
  \/ StreamSteps \/ Opens \/ StreamWrites \/ Halts

\* What the stream hands on are the units of what it plays, each once and in order from the position
\* it was opened at, and never the text of a playlist it could read - but for what spoilt names: a
\* body left over from a redirection, several chunks that came with the headers, a connection kept
\* to another host, a playlist that is resumed (http_stream.c:427, esp_http_client.c:738).
HandsOnInOrder ==
  stream.out # <<>> /\ spoilt = {} =>
    /\ stream.parses /\ ~Web[client.url].chunked => ~IsPlaylist(client.url)
    /\ stream.out = [i \in 1..Len(stream.out) |-> <<client.url, stream.from + i>>]

\* No track is played twice before the stream is closed, the playlist being fetched again or not,
\* unless it had been taken off the list because too many were counted (http_stream.c:214, 648).
PlaysOnce == stream.replay # "none" /\ ~IsPlaylist(stream.replay) => stream.replay \in stream.dropped

\* Every open ends with the stream running or failed, however the playlist and its tracks are
\* answered and as long as the hook does not have the playlist fetched for ever - unless what it
\* fetches redirects in a circle, which it follows without a limit (http_stream.c:455), the playlist
\* has a line that fills the buffer or ends where a refill does (http_stream.c:190), the hook that is
\* told the playlist is finished does nothing or is missing (http_stream.c:373), or the stream has no
\* parser for the playlist it is given (http_stream.c:294).
Leads(u) ==
  LET hop[n \in 0..Cardinality(Urls)] == IF n = 0 THEN u ELSE Web[hop[n - 1]].to
  IN {hop[n] : n \in 0..Cardinality(Urls)}
Circles(u) == Web[u].status \in {301, 302} /\ \A v \in Leads(u) : Web[v].status \in {301, 302}
Endless ==
  \/ stream.pc \in {"opens", "fetches"} /\ Circles(client.url)
  \/ stream.pc = "jams" /\ stream.track \in Jammed
  \/ stream.pc = "spins" /\ stream.resolved /\ Unplayed = {}
  \/ stream.pc = "faults" /\ IsPlaylist(stream.track) /\ ~stream.parses
OpenEnds == stream.pc = "begins" ~> stream.pc \in {"runs", "failed"} \/ Endless
=============================================================================
