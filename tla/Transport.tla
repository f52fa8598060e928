------------------------------- MODULE Transport -------------------------------
(***************************************************************************)
(* The transports of the HTTP client (lib/esp_http_client/lib/transport.c, *)
(* transport_tcp.c, transport_ssl.c) under the calls one task makes of the *)
(* client: which sockets and which contexts of mbedtls are there, while    *)
(* other tasks open and close sockets of theirs, with the same numbers.    *)
(* 0 stands for the socket -1. mbedtls_net_connect keeps no socket it      *)
(* could not connect.                                                      *)
(***************************************************************************)
EXTENDS Integers, FiniteSets, Sequences

CONSTANTS
  Places,   \* what the urls name: [scheme, host, port]
  Fds,      \* the numbers sockets may have
  MaxUses,  \* bound: the calls of the client and the sockets of other tasks
  Pieces    \* the sizes of the pieces (records, for mbedtls) a server sends

ASSUME TransportAssumption == Places # {} /\ Fds \in SUBSET (Nat \ {0}) /\ MaxUses \in Nat /\ Pieces \subseteq Nat \ {0}

VARIABLES
  net,    \* fds, who has a socket; tcp, sock of that transport; ssl: sock, of client_fd, init, ssl_initialized,
          \* verify, verify_server, and so a chain of certificates to free; struck: see below
  talk,   \* pieces, those that wait in the socket; ready, what is left of the last one, decrypted; over, the server
          \* has closed; missed, a read has given up although there was something to read
  caller    \* the client: state, place, transport; cert, whether it was given one; uses, for the bound

trans == <<net, talk, caller>>

NoSsl == [sock |-> 0, init |-> FALSE, verify |-> FALSE]
NewUser(cert) == [state |-> "init", place |-> CHOOSE p \in Places : TRUE, transport |-> "none", cert |-> cert, uses |-> 0]
Silence == [pieces |-> <<>>, ready |-> 0, over |-> FALSE, missed |-> FALSE]
TransportInit ==
  /\ net = [fds |-> [f \in Fds |-> "free"], tcp |-> 0, ssl |-> NoSsl, struck |-> FALSE]
  /\ talk = Silence
  /\ \E cert \in BOOLEAN : caller = NewUser(cert)

FreeFds(n) == {f \in Fds : n.fds[f] = "free"}
NextFd(n) == CHOOSE f \in FreeFds(n) : \A g \in FreeFds(n) : f <= g
Gets(n) == [n EXCEPT !.fds[NextFd(n)] = "client"]
\* close() of a number; struck is set when it was not the client's.
Shut(n, f) == IF f = 0 THEN n ELSE [n EXCEPT !.fds[f] = "free", !.struck = @ \/ n.fds[f] # "client"]

-----------------------------------------------------------------------------
(* tcp_close, ssl_close and transport_close on what there is. *)
\* Fault: the number is not forgotten.
TcpClosedStale(n) == Shut(n, n.tcp)
TcpClosed(n) == [Shut(n, n.tcp) EXCEPT !.tcp = 0]
SslClosed(n) == IF n.ssl.init THEN [Shut(n, n.ssl.sock) EXCEPT !.ssl = NoSsl] ELSE n
TransportClosed(n, t) == CASE t = "tcp" -> TcpClosed(n) [] t = "ssl" -> SslClosed(n) [] OTHER -> n

(* What a connect may come to: whether it succeeds, and what there is then. *)
Outcome(ok, n) == [ok |-> ok, net |-> n]
\* tcp_connect: no address or no socket, nobody there, or connected.
TcpConnects(n) ==
  {Outcome(FALSE, n)}
    \cup (IF FreeFds(n) = {} THEN {}
          ELSE LET m == [Gets(n) EXCEPT !.tcp = NextFd(n)]
               IN {Outcome(FALSE, TcpClosed(m)), Outcome(TRUE, m)})
\* ssl_connect: it gives up before mbedtls_net_init, or, with client_fd new, without a connection or at the handshake.
SslConnects(n, cert) ==
  LET begun == [n EXCEPT !.ssl.init = TRUE, !.ssl.verify = @ \/ cert]
      unconnected == [begun EXCEPT !.ssl.sock = 0]
  IN {Outcome(FALSE, SslClosed(begun)), Outcome(FALSE, SslClosed(unconnected))}
       \cup (IF FreeFds(n) = {} THEN {}
             ELSE LET m == [Gets(unconnected) EXCEPT !.ssl.sock = NextFd(n)]
                  IN {Outcome(FALSE, SslClosed(m)), Outcome(TRUE, m)})
\* transport_connect.
Connects(t, cert) ==
  CASE t = "tcp" -> TcpConnects(net) [] t = "ssl" -> SslConnects(net, cert) [] OTHER -> {Outcome(FALSE, net)}
\* transport_list_get_transport in the list that esp_http_client_init makes.
ByScheme(scheme) == CASE scheme = "http" -> "tcp" [] scheme = "https" -> "ssl" [] OTHER -> "none"

-----------------------------------------------------------------------------
(* The calls of the client. *)
Used(u) == [u EXCEPT !.uses = @ + 1]
Uses == caller.uses < MaxUses
Ready == caller.state \in {"init", "connected", "asked"}
Holding == caller.state \in {"connected", "asked"}

\* esp_http_client_set_url; whether it sees another host is open (see HttpClient).
MovesTo(p) ==
  /\ Ready /\ Uses /\ p # caller.place
  /\ \E seen \in BOOLEAN :
       LET closes == seen \/ p.port # caller.place.port
       IN /\ seen => p.host # caller.place.host
          /\ talk' = IF closes THEN Silence ELSE talk
          /\ caller' = [Used(caller) EXCEPT !.place = p, !.state = IF closes THEN "init" ELSE @]
          /\ net' = IF closes THEN TransportClosed(net, caller.transport) ELSE net

\* esp_http_client_open connects if it has to; then the request is written (connected: it was too long for the
\* buffer), or poll ran out or failed, and the connection is closed.
OpensWith(t, n) ==
  /\ \/ \E next \in {"connected", "asked"} : caller' = [Used(caller) EXCEPT !.transport = t, !.state = next] /\ net' = n
     \/ caller' = [Used(caller) EXCEPT !.transport = t, !.state = "init"] /\ net' = TransportClosed(n, t)
  /\ talk' = IF caller'.state = "init" THEN Silence ELSE talk
OpensAnew ==
  /\ caller.state = "init" /\ Uses
  /\ LET t == ByScheme(caller.place.scheme)
     IN \E o \in Connects(t, caller.cert) :
          \/ o.ok /\ OpensWith(t, o.net)
          \/ ~o.ok /\ caller' = [Used(caller) EXCEPT !.transport = t] /\ net' = o.net /\ UNCHANGED talk
OpensAgain == Holding /\ Uses /\ OpensWith(caller.transport, net)

\* tcp_poll_read and ssl_poll_read: select sees what is in the socket, its end included.
PollRead == talk.pieces # <<>> \/ talk.over
Least(m, n) == IF m < n THEN m ELSE n
\* tcp_read takes what there is, ssl_read what it has decrypted or the next piece; they poll first, ssl_read
\* only if it has nothing left.
GivesUp == [talk EXCEPT !.missed = @ \/ talk.ready > 0 \/ talk.pieces # <<>>]
TcpRead(n) ==
  CASE ~PollRead -> GivesUp
    [] talk.pieces # <<>> ->
         LET piece == Head(talk.pieces)
         IN [talk EXCEPT !.pieces = (IF piece > n THEN <<piece - n>> ELSE <<>>) \o Tail(@)]
    [] OTHER -> GivesUp
\* Fault: it always polls first.
SslPollsAlways == TRUE
SslPolls == talk.ready = 0
SslRead(n) ==
  CASE SslPolls /\ ~PollRead -> GivesUp
    [] talk.ready > 0 -> [talk EXCEPT !.ready = @ - Least(n, @)]
    [] talk.ready = 0 /\ talk.pieces # <<>> ->
         [talk EXCEPT !.ready = Head(talk.pieces) - Least(n, Head(talk.pieces)), !.pieces = Tail(@)]
    [] OTHER -> GivesUp
TransportReads ==
  /\ caller.state = "asked"
  /\ \E n \in Pieces : talk' = IF caller.transport = "ssl" THEN SslRead(n) ELSE TcpRead(n)
  /\ UNCHANGED <<net, caller>>
\* The server.
ServerSends ==
  /\ caller.state = "asked" /\ ~talk.over /\ Len(talk.pieces) < 2
  /\ \E n \in Pieces : talk' = [talk EXCEPT !.pieces = Append(@, n)]
  /\ UNCHANGED <<net, caller>>
ServerCloses == Holding /\ talk' = [talk EXCEPT !.over = TRUE] /\ UNCHANGED <<net, caller>>

\* The end of esp_http_client_perform, or esp_http_client_close.
KeepsAlive == caller.state = "asked" /\ caller' = [caller EXCEPT !.state = "connected"] /\ UNCHANGED <<net, talk>>
ClosesClient(next) ==
  /\ Ready
  /\ net' = TransportClosed(net, caller.transport)
  /\ caller' = [caller EXCEPT !.state = next]
  /\ talk' = Silence

\* transport_list_clean closes each transport on its way out.
ListCleans(from, t, next) ==
  /\ caller.state = from
  /\ net' = TransportClosed(net, t)
  /\ caller' = [caller EXCEPT !.state = next]
  /\ UNCHANGED talk
CleansUp ==
  ClosesClient("cleaning") \/ ListCleans("cleaning", "tcp", "cleaned") \/ ListCleans("cleaned", "ssl", "gone")
\* esp_http_client_init.
Begins ==
  /\ caller.state = "gone" /\ Uses
  /\ net' = [net EXCEPT !.tcp = 0, !.ssl = NoSsl]
  /\ \E cert \in BOOLEAN : caller' = [NewUser(cert) EXCEPT !.uses = caller.uses + 1]
  /\ UNCHANGED talk

\* Other tasks.
OthersOpen ==
  /\ FreeFds(net) # {} /\ Uses
  /\ net' = [net EXCEPT !.fds[NextFd(net)] = "other"] /\ caller' = Used(caller) /\ UNCHANGED talk
OthersClose(f) ==
  /\ net.fds[f] = "other" /\ net' = [net EXCEPT !.fds[f] = "free"]
  /\ UNCHANGED <<talk, caller>>

TransportNext ==
  \/ \E p \in Places : MovesTo(p)
  \/ OpensAnew \/ OpensAgain \/ KeepsAlive \/ TransportReads \/ ServerSends \/ ServerCloses
  \/ ClosesClient("init") \/ CleansUp \/ Begins
  \/ OthersOpen \/ \E f \in Fds : OthersClose(f)

-----------------------------------------------------------------------------
\* However calls fail, hosts, ports and schemes change and clients come and go: between the calls a client has
\* the one socket of the transport it talks through and no other, none when it is not connected; the contexts
\* of mbedtls are set up just while that transport is connected; no close ever hits a socket of another task
\* that has got a number the client had before; and no read gives up on what has come but does not wait in the
\* socket any more.
TransportKept ==
  /\ ~net.struck /\ ~talk.missed
  /\ {f \in Fds : net.fds[f] = "client"} =
       IF ~Holding THEN {} ELSE {IF caller.transport = "ssl" THEN net.ssl.sock ELSE net.tcp}
  /\ net.ssl.init = (Holding /\ caller.transport = "ssl")
  /\ net.ssl.verify => net.ssl.init
=============================================================================
