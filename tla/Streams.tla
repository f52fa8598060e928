--------------------------------- MODULE Streams ---------------------------------
(***************************************************************************)
(* The streams and what they are linked by, checked part by part: the HTTP *)
(* stream that plays and the perform of other callers both drive the       *)
(* client, the lines of a playlist and the headers of a request are cut up *)
(* on their own, and so are the client's transports used; a file is played *)
(* or recorded, a song decoded, music played through the port, and         *)
(* pipelines put together.                                                 *)
(***************************************************************************)
EXTENDS HttpStream, HttpHeader, PlaylistLines, Transport, FatfsStream, I2sStream, EspCodec, PipelineLink

VARIABLE part

https == <<webs, stream, job, headers, playlist>>
vars == <<part, https, trans, files, i2ss, codecs, links, pcm>>

Site(h, status, to, body, chunked, user) ==
  [host |-> h, status |-> status, to |-> to, body |-> body, chunked |-> chunked, user |-> user]
WebMC ==
  [u \in {"song", "radio", "list", "moved", "gone", "circle", "locked", "shut", "odd", "t1", "t2", "t3"} |->
    CASE u = "song" -> Site("h1", 200, u, 3, FALSE, FALSE)
      [] u = "radio" -> Site("h1", 200, u, 2, TRUE, FALSE)
      [] u \in {"list", "odd"} -> Site("h1", 200, u, 2, FALSE, FALSE)
      [] u = "moved" -> Site("h2", 302, "song", 1, FALSE, FALSE)
      [] u = "gone" -> Site("h2", 301, "song", 0, FALSE, FALSE)
      [] u = "circle" -> Site("h1", 301, u, 0, FALSE, FALSE)
      [] u = "locked" -> Site("h1", 401, u, 1, FALSE, TRUE)
      [] u = "shut" -> Site("h1", 401, u, 0, FALSE, FALSE)
      [] OTHER -> Site(IF u = "t3" THEN "h2" ELSE "h1", 200, u, 1, FALSE, FALSE)]
\* A playlist that goes on: when it is fetched again one track has come before the others, and they are more than are kept.
\* One that the lines may jam, with a track that redirects in a circle.
ListsMC == [u \in {"list", "odd"} |->
  IF u = "odd" THEN <<<<"t1", "circle">>>> ELSE <<<<"t1", "t2">>, <<"t3", "t1", "t2">>>>]

\* What a client talks to one after the other: another scheme, another host, another port, or no transport.
PlacesMC == [scheme : {"http", "https"}, host : {"h1", "h2"}, port : {80, 443}] \cup
  {[scheme |-> "mms", host |-> "h1", port |-> 443]}
\* Samples on both sides of each edge of the range.
LevelsMC == {-128, -1, 0, 127}
ChainsMC == {<<"out", "in">>, <<"in", "filter", "out">>}

Init ==
  /\ part \in {"stream", "perform", "lines", "headers", "transport", "file", "i2s", "codec", "pcm", "links"}
  \* A part that does not run begins in one way.
  /\ TransportInit /\ (part # "transport" => ~caller.cert)
  /\ FileInit /\ (part # "file" => fatfs.type = "reader" /\ player.uri = "wav")
  /\ CodecInit /\ (part # "codec" => codec.kind = "wav_encoder")
  /\ PcmInit /\ (part # "pcm" => pcm.bits = 16 /\ pcm.channels = 2 /\ pcm.dac /\ pcm.given = [i \in {0} |-> 0])
  /\ LinkInit /\ (part # "links" => line.items = <<>>)
  /\ StreamInit /\ (part # "stream" => stream.uri = "song" /\ stream.parses /\ stream.type = "reader")
  /\ part = "stream" => Web[stream.uri].status # 401
  /\ HeaderInit /\ (part # "headers" => asked.sizes = [k \in Headers |-> IF k = 1 THEN 1 ELSE 0])
  /\ LinesInit /\ (part # "lines" => playlist.text = <<>>)
  /\ ClientInit /\ PerformInit /\ I2sInit

HttpOnly == UNCHANGED <<trans, files, i2ss, codecs, links, pcm>>
Next ==
  /\ UNCHANGED part
  /\ \/ part = "stream" /\ StreamNext /\ HttpOnly /\ UNCHANGED <<job, headers, playlist>>
     \/ part = "perform" /\ PerformNext /\ HttpOnly /\ UNCHANGED <<stream, headers, playlist>>
     \/ part = "lines" /\ LinesNext /\ HttpOnly /\ UNCHANGED <<webs, stream, job, headers>>
     \/ part = "headers" /\ HeaderNext /\ HttpOnly /\ UNCHANGED <<webs, stream, job, playlist>>
     \/ part = "transport" /\ TransportNext /\ UNCHANGED <<https, files, i2ss, codecs, links, pcm>>
     \/ part = "file" /\ FileNext /\ UNCHANGED <<https, trans, i2ss, codecs, links, pcm>>
     \/ part = "i2s" /\ I2sNext /\ UNCHANGED <<https, trans, files, codecs, links, pcm>>
     \/ part = "codec" /\ CodecNext /\ UNCHANGED <<https, trans, files, i2ss, links, pcm>>
     \/ part = "pcm" /\ PcmNext /\ UNCHANGED <<https, trans, files, i2ss, codecs, links>>
     \/ part = "links" /\ LinkNext /\ UNCHANGED <<https, trans, files, i2ss, codecs, pcm>>

\* The tasks that make the calls go on with them; a connection need not break, nor a stream be used.
Progress ==
  /\ HttpOnly /\ UNCHANGED <<part, headers, playlist>>
  /\ \/ part = "stream" /\ (StreamSteps \/ (CallSteps /\ UNCHANGED stream)) /\ UNCHANGED job
     \/ part = "perform" /\ (JobSteps \/ (CallSteps /\ UNCHANGED job)) /\ UNCHANGED stream
Spec == Init /\ [][Next]_vars /\ WF_vars(Progress)

\* Whoever reads a body gets it as the server sent it: the ring of a stream that plays (see HttpStream) and the
\* handler of a perform (see HttpClient).
BodiesInOrder == HandsOnInOrder /\ BodyWhole

\* Every open of a stream and every perform ends (see HttpStream and HttpClient).
CallsEnd == OpenEnds /\ PerformEnds

\* Music passes a codec, and the port, whole and in order (see EspCodec and I2sStream).
PlayedOut == SamplesInOrder /\ BuffersPlayed /\ PairsKept

\* What is cut to the size of a buffer comes out whole: the headers of a request, each of those that were set, the lines of a playlist.
CutsWhole == HeadersListed /\ HeadersWhole /\ LinesWhole

\* "Close the connection if host was changed" (esp_http_client.c:632): a client has no connection to
\* another host than the one its url names.
HostFollowsUrl == client.state >= Connected => client.peer = Web[client.url].host
=============================================================================
