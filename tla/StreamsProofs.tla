----------------------------- MODULE StreamsProofs -----------------------------
(***************************************************************************)
(* What Streams checks of a client's transports, of a file, of a codec and *)
(* of the port, of a playlist and of the putting together of a pipeline,   *)
(* proved for any places, sockets, sizes, numbers, songs, lists and chains.*)
(* Each part has an inductive invariant of its own, which its Init gives   *)
(* and its Next keeps; the last theorems put the parts together.           *)
(***************************************************************************)
EXTENDS Streams, FiniteSetTheorems, SequenceTheorems, WellFoundedInduction, TLAPS

(***************************************************************************)
(* Naturals.                                                               *)
(***************************************************************************)

\* A set of naturals that is not empty has a least one.
LEMMA LeastNumber ==
  ASSUME NEW S \in SUBSET Nat, S # {}
  PROVE  \E m \in S : \A x \in S : m <= x
<1> DEFINE R == OpToRel(<, Nat)
<1>1. \A x, y \in Nat : x < y => <<x, y>> \in R
  BY DEF OpToRel
<1>2. IsWellFoundedOn(R, Nat)
  BY NatLessThanWellFounded
<1> HIDE DEF R
<1>3. PICK m \in S : \A x \in S : ~(<<x, m>> \in R)
  BY <1>2, WFMin
<1>4. ASSUME NEW x \in S PROVE m <= x
  <2>1. ~(x < m)
    BY <1>1, <1>3
  <2> QED BY <2>1
<1> QED
  BY <1>4

\* What holds of 0, and of n + 1 with n, holds of all.
LEMMA Induction ==
  ASSUME NEW T, 0 \in T, \A n \in Nat : n \in T => n + 1 \in T
  PROVE  Nat \subseteq T
<1> SUFFICES ASSUME Nat \ T # {} PROVE FALSE
  OBVIOUS
<1>1. PICK m \in Nat \ T : \A k \in Nat \ T : m <= k
  BY LeastNumber
<1>2. m - 1 \in Nat /\ m - 1 + 1 = m /\ m - 1 \notin Nat \ T
  BY <1>1
<1> QED
  BY <1>1, <1>2

-----------------------------------------------------------------------------
(* The transports.                                                         *)

\* The sockets and the contexts there can be.
Nets ==
  [fds : [Fds -> {"free", "client", "other"}], tcp : Fds \cup {0},
   ssl : [sock : Fds \cup {0}, init : BOOLEAN, verify : BOOLEAN], struck : BOOLEAN]

\* What is true of them while the client is connected (on) by transport t, or is not: just that transport
\* has a socket, which is the client's one, and what is the other transport's is as it was made.
NetInv(n, on, t) ==
  /\ n \in Nets /\ ~n.struck
  /\ \A f \in Fds : n.fds[f] = "client" <=> f \in {n.tcp, n.ssl.sock}
  /\ (n.tcp # 0) <=> (on /\ t = "tcp")
  /\ (n.ssl.sock # 0) <=> (on /\ t = "ssl")
  /\ n.ssl.init <=> (on /\ t = "ssl")
  /\ n.ssl.init \/ ~n.ssl.verify

\* A number that is free is found when there is one.
LEMMA NextFdFree ==
  ASSUME NEW n \in Nets, FreeFds(n) # {}
  PROVE  NextFd(n) \in Fds /\ n.fds[NextFd(n)] = "free" /\ NextFd(n) # 0
<1>1. FreeFds(n) \in SUBSET Nat
  BY TransportAssumption DEF FreeFds
<1>2. \E f \in FreeFds(n) : \A g \in FreeFds(n) : f <= g
  BY <1>1, LeastNumber
<1>3. NextFd(n) \in FreeFds(n)
  BY <1>2 DEF NextFd
<1> QED
  BY <1>3, TransportAssumption DEF FreeFds

\* A close leaves nothing of a connection, and harms nobody when there is none.
LEMMA TransportClosedInv ==
  ASSUME NEW n, NEW on \in BOOLEAN, NEW t, NEW s, NetInv(n, on, t), ~on \/ s = t
  PROVE  \A u : NetInv(TransportClosed(n, s), FALSE, u)
<1> SUFFICES ASSUME NEW u PROVE NetInv(TransportClosed(n, s), FALSE, u)
  OBVIOUS
<1>0. n \in Nets /\ 0 \notin Fds
  BY TransportAssumption DEF NetInv
<1>1. CASE s = "tcp"
  <2>1. n.ssl.sock = 0 /\ ~n.ssl.init /\ ~n.ssl.verify
    BY <1>1 DEF NetInv
  <2>2. CASE n.tcp = 0
    BY <1>0, <1>1, <2>1, <2>2 DEF NetInv, Nets, TransportClosed, TcpClosed, Shut
  <2>3. CASE n.tcp # 0
    <3>1. n.tcp \in Fds /\ n.fds[n.tcp] = "client"
      BY <1>0, <2>3 DEF NetInv, Nets
    <3> DEFINE fds == [n.fds EXCEPT ![n.tcp] = "free"]
               m == [fds |-> fds, tcp |-> 0, ssl |-> n.ssl, struck |-> FALSE]
    <3>2. TransportClosed(n, s) = m
      BY <1>0, <1>1, <2>3, <3>1 DEF NetInv, Nets, TransportClosed, TcpClosed, Shut
    <3>3. fds \in [Fds -> {"free", "client", "other"}]
          /\ \A f \in Fds : fds[f] # "client"
      BY <1>0, <2>1, <3>1 DEF NetInv, Nets
    <3> HIDE DEF fds
    <3>4. m \in Nets
      BY <1>0, <3>3 DEF Nets
    <3> QED
      BY <1>0, <2>1, <3>2, <3>3, <3>4 DEF NetInv
  <2> QED
    BY <2>2, <2>3
<1>2. CASE s = "ssl"
  <2>1. n.tcp = 0
    BY <1>2 DEF NetInv
  <2>2. CASE ~n.ssl.init
    BY <1>0, <1>2, <2>1, <2>2 DEF NetInv, TransportClosed, SslClosed
  <2>3. CASE n.ssl.init
    <3>1. n.ssl.sock \in Fds /\ n.fds[n.ssl.sock] = "client"
      BY <1>0, <2>3 DEF NetInv, Nets
    <3> DEFINE fds == [n.fds EXCEPT ![n.ssl.sock] = "free"]
               m == [fds |-> fds, tcp |-> 0, ssl |-> NoSsl, struck |-> FALSE]
    <3>2. TransportClosed(n, s) = m
      BY <1>0, <1>2, <2>1, <2>3, <3>1 DEF NetInv, Nets, TransportClosed, SslClosed, Shut
    <3>3. fds \in [Fds -> {"free", "client", "other"}]
          /\ \A f \in Fds : fds[f] # "client"
      BY <1>0, <2>1, <3>1 DEF NetInv, Nets
    <3> HIDE DEF fds
    <3>4. m \in Nets
      BY <1>0, <3>3 DEF Nets, NoSsl
    <3> QED
      BY <1>0, <3>2, <3>3, <3>4 DEF NetInv, NoSsl
  <2> QED
    BY <2>2, <2>3
<1>3. CASE s \notin {"tcp", "ssl"}
  <2>1. TransportClosed(n, s) = n
    BY <1>3 DEF TransportClosed
  <2> QED
    BY <2>1, <1>3 DEF NetInv
<1> QED
  BY <1>1, <1>2, <1>3

\* What a net with one of its fields changed is.
LEMMA GetsIs ==
  ASSUME NEW n \in Nets
  PROVE  Gets(n) = [fds |-> [n.fds EXCEPT ![NextFd(n)] = "client"], tcp |-> n.tcp, ssl |-> n.ssl, struck |-> n.struck]
<1> DEFINE f == NextFd(n)
<1> HIDE DEF f
<1>1. [n EXCEPT !.fds[f] = "client"]
        = [fds |-> [n.fds EXCEPT ![f] = "client"], tcp |-> n.tcp, ssl |-> n.ssl, struck |-> n.struck]
  BY DEF Nets
<1> QED
  BY <1>1 DEF f, Gets
LEMMA WithTcp ==
  ASSUME NEW n \in Nets, NEW s
  PROVE  [n EXCEPT !.tcp = s] = [fds |-> n.fds, tcp |-> s, ssl |-> n.ssl, struck |-> n.struck]
  BY DEF Nets
LEMMA WithSsl ==
  ASSUME NEW n \in Nets, NEW s
  PROVE  [n EXCEPT !.ssl = s] = [fds |-> n.fds, tcp |-> n.tcp, ssl |-> s, struck |-> n.struck]
  BY DEF Nets
LEMMA WithSock ==
  ASSUME NEW n \in Nets, NEW s
  PROVE  [n EXCEPT !.ssl.sock = s]
           = [fds |-> n.fds, tcp |-> n.tcp, ssl |-> [sock |-> s, init |-> n.ssl.init, verify |-> n.ssl.verify],
              struck |-> n.struck]
  BY DEF Nets
LEMMA WithInit ==
  ASSUME NEW n \in Nets, NEW s
  PROVE  [n EXCEPT !.ssl.init = s]
           = [fds |-> n.fds, tcp |-> n.tcp, ssl |-> [sock |-> n.ssl.sock, init |-> s, verify |-> n.ssl.verify],
              struck |-> n.struck]
  BY DEF Nets
LEMMA WithVerify ==
  ASSUME NEW n \in Nets, NEW s
  PROVE  [n EXCEPT !.ssl.verify = s]
           = [fds |-> n.fds, tcp |-> n.tcp, ssl |-> [sock |-> n.ssl.sock, init |-> n.ssl.init, verify |-> s],
              struck |-> n.struck]
  BY DEF Nets
LEMMA WithContext ==
  ASSUME NEW n \in Nets, n.ssl = NoSsl, NEW cert \in BOOLEAN
  PROVE  [n EXCEPT !.ssl.init = TRUE, !.ssl.verify = @ \/ cert]
           = [fds |-> n.fds, tcp |-> n.tcp, ssl |-> [sock |-> 0, init |-> TRUE, verify |-> cert], struck |-> n.struck]
<1> DEFINE m == [n EXCEPT !.ssl.init = TRUE]
<1>1. m = [fds |-> n.fds, tcp |-> n.tcp, ssl |-> [sock |-> n.ssl.sock, init |-> TRUE, verify |-> n.ssl.verify], struck |-> n.struck]
  BY WithInit
<1> HIDE DEF m
<1>0. n.ssl.sock = 0 /\ n.ssl.verify = FALSE
  BY DEF NoSsl
<1>2. m.fds = n.fds /\ m.tcp = n.tcp /\ m.struck = n.struck
      /\ m.ssl.sock = 0 /\ m.ssl.init = TRUE /\ m.ssl.verify = FALSE
  BY ONLY <1>0, <1>1
<1>3. m \in Nets
  <2>1. [sock |-> n.ssl.sock, init |-> TRUE, verify |-> n.ssl.verify] \in [sock : Fds \cup {0}, init : BOOLEAN, verify : BOOLEAN]
    BY DEF Nets
  <2> QED
    BY <1>1, <2>1 DEF Nets
<1> DEFINE v == n.ssl.verify \/ cert
<1>4. v = cert
  BY <1>0
<1> HIDE DEF v
<1>5. [m EXCEPT !.ssl.verify = v]
        = [fds |-> m.fds, tcp |-> m.tcp, ssl |-> [sock |-> m.ssl.sock, init |-> m.ssl.init, verify |-> v], struck |-> m.struck]
  BY <1>3, WithVerify
<1> DEFINE k == [m EXCEPT !.ssl.verify = v]
<1> HIDE DEF k
<1>6. k = [fds |-> n.fds, tcp |-> n.tcp, ssl |-> [sock |-> 0, init |-> TRUE, verify |-> cert], struck |-> n.struck]
  <2>1. k = [fds |-> m.fds, tcp |-> m.tcp, ssl |-> [sock |-> m.ssl.sock, init |-> m.ssl.init, verify |-> v], struck |-> m.struck]
    BY <1>5 DEF k
  <2> QED
    BY ONLY <2>1, <1>2, <1>4
<1>7. k = [m EXCEPT !.ssl.verify = n.ssl.verify \/ cert]
  BY DEF k, v
<1> QED
  BY <1>6, <1>7 DEF m
LEMMA OutcomeIs == \A ok, n : Outcome(ok, n).ok = ok /\ Outcome(ok, n).net = n
  BY DEF Outcome

\* A socket for a transport that has none.
LEMMA GetsInv ==
  ASSUME NEW n, NEW t, NetInv(n, FALSE, t), FreeFds(n) # {}
  PROVE  /\ NetInv([Gets(n) EXCEPT !.tcp = NextFd(n)], TRUE, "tcp")
         /\ \A v \in BOOLEAN :
              NetInv([Gets(n) EXCEPT !.ssl = [sock |-> NextFd(n), init |-> TRUE, verify |-> v]], TRUE, "ssl")
<1> DEFINE f == NextFd(n)
           fds == [n.fds EXCEPT ![f] = "client"]
<1>0. n \in Nets /\ 0 \notin Fds
  BY TransportAssumption DEF NetInv
<1>1. f \in Fds /\ n.fds[f] = "free" /\ f # 0
  BY <1>0, NextFdFree
<1> HIDE DEF f
<1>2. n.tcp = 0 /\ n.ssl.sock = 0 /\ ~n.ssl.init /\ ~n.ssl.verify
  BY DEF NetInv
<1>3. fds \in [Fds -> {"free", "client", "other"}] /\ \A g \in Fds : fds[g] = "client" <=> g = f
  BY <1>0, <1>1, <1>2 DEF NetInv, Nets
<1> DEFINE g == Gets(n)
<1>4. g = [fds |-> fds, tcp |-> 0, ssl |-> n.ssl, struck |-> FALSE] /\ g \in Nets
  <2>1. g = [fds |-> fds, tcp |-> n.tcp, ssl |-> n.ssl, struck |-> n.struck]
    BY <1>0, GetsIs DEF f
  <2> HIDE DEF fds, g
  <2>2. n.struck = FALSE
    BY <1>0 DEF NetInv, Nets
  <2>3. n.ssl \in [sock : Fds \cup {0}, init : BOOLEAN, verify : BOOLEAN]
    BY <1>0 DEF Nets
  <2>4. g = [fds |-> fds, tcp |-> 0, ssl |-> n.ssl, struck |-> FALSE]
    BY <1>2, <2>1, <2>2
  <2> QED
    BY <1>3, <2>3, <2>4 DEF Nets
<1> HIDE DEF fds, g
<1> DEFINE m == [g EXCEPT !.tcp = f]
<1>5. m = [fds |-> fds, tcp |-> f, ssl |-> n.ssl, struck |-> FALSE]
  BY <1>4, WithTcp
<1> HIDE DEF m
<1>6. NetInv(m, TRUE, "tcp")
  <2>1. n.ssl \in [sock : Fds \cup {0}, init : BOOLEAN, verify : BOOLEAN]
    BY <1>0 DEF Nets
  <2> QED
    BY <1>0, <1>1, <1>2, <1>3, <1>5, <2>1 DEF Nets, NetInv
<1>7. ASSUME NEW v \in BOOLEAN
      PROVE  NetInv([g EXCEPT !.ssl = [sock |-> f, init |-> TRUE, verify |-> v]], TRUE, "ssl")
  <2> DEFINE h == [g EXCEPT !.ssl = [sock |-> f, init |-> TRUE, verify |-> v]]
  <2>1. h = [fds |-> fds, tcp |-> 0, ssl |-> [sock |-> f, init |-> TRUE, verify |-> v], struck |-> FALSE]
    BY <1>4, WithSsl
  <2> HIDE DEF h
  <2>2. NetInv(h, TRUE, "ssl")
    BY <1>0, <1>1, <1>2, <1>3, <2>1 DEF Nets, NetInv
  <2> QED
    BY <2>2 DEF h
<1> QED
  BY <1>6, <1>7 DEF f, m, g

\* tcp_connect and ssl_connect leave a connection, or nothing.
LEMMA TcpConnectsInv ==
  ASSUME NEW n, NEW t, NetInv(n, FALSE, t), NEW o \in TcpConnects(n)
  PROVE  o.ok \in BOOLEAN /\ NetInv(o.net, o.ok, "tcp")
<1>1. NetInv(n, FALSE, "tcp")
  BY DEF NetInv
<1> DEFINE m == [Gets(n) EXCEPT !.tcp = NextFd(n)]
<1>2. CASE o = Outcome(FALSE, n)
  BY <1>1, <1>2, OutcomeIs
<1>3. CASE o # Outcome(FALSE, n)
  <2>1. FreeFds(n) # {} /\ (o = Outcome(FALSE, TcpClosed(m)) \/ o = Outcome(TRUE, m))
    BY <1>3 DEF TcpConnects
  <2>2. NetInv(m, TRUE, "tcp")
    BY <2>1, GetsInv
  <2> HIDE DEF m
  <2>3. NetInv(TransportClosed(m, "tcp"), FALSE, "tcp")
    BY <2>2, TransportClosedInv
  <2>4. TransportClosed(m, "tcp") = TcpClosed(m)
    BY DEF TransportClosed
  <2>5. CASE o = Outcome(TRUE, m)
    <3>1. o.ok = TRUE /\ o.net = m
      BY <2>5, OutcomeIs
    <3> QED
      BY <2>2, <3>1
  <2>6. CASE o = Outcome(FALSE, TcpClosed(m))
    <3>1. o.ok = FALSE /\ o.net = TcpClosed(m)
      BY <2>6, OutcomeIs
    <3> QED
      BY <2>3, <2>4, <3>1
  <2> QED
    BY <2>1, <2>5, <2>6
<1> QED
  BY <1>2, <1>3

LEMMA SslConnectsInv ==
  ASSUME NEW n, NEW t, NetInv(n, FALSE, t), NEW cert \in BOOLEAN, NEW o \in SslConnects(n, cert)
  PROVE  o.ok \in BOOLEAN /\ NetInv(o.net, o.ok, "ssl")
<1>0. n \in Nets /\ n.tcp = 0 /\ n.ssl = NoSsl
  <2>1. n \in Nets /\ n.tcp = 0 /\ n.ssl.sock = 0 /\ n.ssl.init = FALSE /\ n.ssl.verify = FALSE
    BY DEF NetInv, Nets
  <2> QED
    BY <2>1 DEF Nets, NoSsl
<1> DEFINE begun == [n EXCEPT !.ssl.init = TRUE, !.ssl.verify = @ \/ cert]
           unconnected == [begun EXCEPT !.ssl.sock = 0]
           context == [sock |-> 0, init |-> TRUE, verify |-> cert]
           plain == [fds |-> n.fds, tcp |-> n.tcp, ssl |-> context, struck |-> n.struck]
           f == NextFd(n)
           m == [Gets(unconnected) EXCEPT !.ssl.sock = NextFd(n)]
           g == [Gets(n) EXCEPT !.ssl = [sock |-> f, init |-> TRUE, verify |-> cert]]
<1>1. begun = plain /\ plain \in Nets
  <2>1. begun = plain
    BY <1>0, WithContext
  <2>2. context \in [sock : Fds \cup {0}, init : BOOLEAN, verify : BOOLEAN]
    OBVIOUS
  <2> HIDE DEF context, begun
  <2> QED
    BY <1>0, <2>1, <2>2 DEF Nets
<1> HIDE DEF begun
<1>2. unconnected = plain
  <2>1. unconnected = [begun EXCEPT !.ssl.sock = 0]
    OBVIOUS
  <2> HIDE DEF unconnected
  <2>2. unconnected = [plain EXCEPT !.ssl.sock = 0]
    BY <1>1, <2>1
  <2>3. plain.fds = n.fds /\ plain.tcp = n.tcp /\ plain.ssl = context /\ plain.struck = n.struck
    OBVIOUS
  <2> HIDE DEF plain
  <2>5. unconnected = [fds |-> plain.fds, tcp |-> plain.tcp,
                       ssl |-> [sock |-> 0, init |-> plain.ssl.init, verify |-> plain.ssl.verify], struck |-> plain.struck]
    BY <1>1, <2>2, WithSock
  <2>4. unconnected = [fds |-> n.fds, tcp |-> n.tcp, ssl |-> context, struck |-> n.struck]
    BY ONLY <2>5, <2>3
  <2> QED
    BY <2>4 DEF plain
<1> HIDE DEF unconnected
<1>3. NetInv(SslClosed(plain), FALSE, "ssl")
  <2>1. SslClosed(plain) = [plain EXCEPT !.ssl = NoSsl]
    BY DEF SslClosed, Shut
  <2>2. SslClosed(plain) = n
    BY <1>0, <2>1, <1>1 DEF Nets
  <2> QED
    BY <2>2 DEF NetInv
<1>4. ASSUME FreeFds(n) # {}
      PROVE  NetInv(m, TRUE, "ssl") /\ NetInv(SslClosed(m), FALSE, "ssl")
  <2>1. NetInv(g, TRUE, "ssl")
    BY <1>4, GetsInv
  <2>2. NextFd(plain) = f
    BY DEF NextFd, FreeFds
  <2> HIDE DEF f
  <2>3. Gets(plain) = [fds |-> [n.fds EXCEPT ![f] = "client"], tcp |-> n.tcp, ssl |-> context, struck |-> n.struck]
    BY <1>1, <2>2, GetsIs
  <2>4. Gets(n) = [fds |-> [n.fds EXCEPT ![f] = "client"], tcp |-> n.tcp, ssl |-> n.ssl, struck |-> n.struck]
    BY <1>0, GetsIs DEF f
  <2>5. f \in Fds
    BY <1>0, <1>4, NextFdFree DEF f
  <2> DEFINE h == Gets(plain)
  <2>6. h \in Nets
    <3>1. context \in [sock : Fds \cup {0}, init : BOOLEAN, verify : BOOLEAN]
      OBVIOUS
    <3>2. [n.fds EXCEPT ![f] = "client"] \in [Fds -> {"free", "client", "other"}]
      BY <1>0, <2>5 DEF Nets
    <3> HIDE DEF context
    <3> QED
      BY <1>0, <2>3, <3>1, <3>2 DEF Nets
  <2>7. m = [fds |-> [n.fds EXCEPT ![f] = "client"], tcp |-> n.tcp, ssl |-> [sock |-> f, init |-> TRUE, verify |-> cert],
             struck |-> n.struck]
    <3>1. m = [h EXCEPT !.ssl.sock = f]
      BY <1>2 DEF f
    <3> HIDE DEF m
    <3>2. h = [fds |-> [n.fds EXCEPT ![f] = "client"], tcp |-> n.tcp, ssl |-> context, struck |-> n.struck]
      BY <2>3
    <3> HIDE DEF h
    <3>3. h.fds = [n.fds EXCEPT ![f] = "client"] /\ h.tcp = n.tcp /\ h.ssl = context /\ h.struck = n.struck
      BY ONLY <3>2
    <3>4. m = [fds |-> h.fds, tcp |-> h.tcp, ssl |-> [sock |-> f, init |-> h.ssl.init, verify |-> h.ssl.verify],
               struck |-> h.struck]
      BY <2>6, <3>1, WithSock
    <3> QED
      BY ONLY <3>3, <3>4
  <2> HIDE DEF m
  <2> DEFINE k == Gets(n)
  <2>8. k \in Nets
    <3>2. [n.fds EXCEPT ![f] = "client"] \in [Fds -> {"free", "client", "other"}]
      BY <1>0, <2>5 DEF Nets
    <3> QED
      BY <1>0, <2>4, <3>2 DEF Nets
  <2>9. m = g
    <3>1. k.fds = [n.fds EXCEPT ![f] = "client"] /\ k.tcp = n.tcp /\ k.struck = n.struck
      BY <2>4
    <3> HIDE DEF k
    <3>2. g = [k EXCEPT !.ssl = [sock |-> f, init |-> TRUE, verify |-> cert]]
      BY DEF k
    <3> HIDE DEF g
    <3> QED
      BY <2>7, <2>8, <3>1, <3>2, WithSsl, ZenonT(40)
  <2> HIDE DEF g
  <2>10. NetInv(TransportClosed(m, "ssl"), FALSE, "ssl")
    BY <2>1, <2>9, TransportClosedInv
  <2>11. TransportClosed(m, "ssl") = SslClosed(m)
    BY DEF TransportClosed
  <2> QED
    BY <2>1, <2>9, <2>10, <2>11
<1>5. \/ o = Outcome(FALSE, SslClosed(begun))
      \/ o = Outcome(FALSE, SslClosed(unconnected))
      \/ FreeFds(n) # {} /\ (o = Outcome(FALSE, SslClosed(m)) \/ o = Outcome(TRUE, m))
  BY DEF SslConnects, begun, unconnected
<1> HIDE DEF m, plain
<1>6. CASE o = Outcome(FALSE, SslClosed(plain))
  <2>1. o.ok = FALSE /\ o.net = SslClosed(plain)
    BY <1>6, OutcomeIs
  <2> QED
    BY <1>3, <2>1
<1>7. CASE FreeFds(n) # {} /\ o = Outcome(FALSE, SslClosed(m))
  <2>1. o.ok = FALSE /\ o.net = SslClosed(m)
    BY <1>7, OutcomeIs
  <2> QED
    BY <1>4, <1>7, <2>1
<1>8. CASE FreeFds(n) # {} /\ o = Outcome(TRUE, m)
  <2>1. o.ok = TRUE /\ o.net = m
    BY <1>8, OutcomeIs
  <2> QED
    BY <1>4, <1>8, <2>1
<1> QED
  BY <1>1, <1>2, <1>5, <1>6, <1>7, <1>8

\* transport_connect leaves a connection by the transport it was asked for, or nothing.
LEMMA ConnectsInv ==
  ASSUME NEW t, NetInv(net, FALSE, t), NEW u, NEW cert \in BOOLEAN, NEW o \in Connects(u, cert)
  PROVE  o.ok \in BOOLEAN /\ NetInv(o.net, o.ok, u) /\ (o.ok => u \in {"tcp", "ssl"})
<1>1. CASE u = "tcp"
  <2>1. o \in TcpConnects(net)
    BY <1>1 DEF Connects
  <2> QED
    BY <1>1, <2>1, TcpConnectsInv
<1>2. CASE u = "ssl"
  <2>1. o \in SslConnects(net, cert)
    BY <1>2 DEF Connects
  <2> QED
    BY <1>2, <2>1, SslConnectsInv
<1>3. CASE u \notin {"tcp", "ssl"}
  <2>1. o = Outcome(FALSE, net)
    BY <1>3 DEF Connects
  <2>2. o.ok = FALSE /\ o.net = net
    BY <2>1, OutcomeIs
  <2> QED
    BY <2>2 DEF NetInv
<1> QED
  BY <1>1, <1>2, <1>3
States == {"init", "connected", "asked", "cleaning", "cleaned", "gone"}
Callers ==
  [state : States, place : Places, transport : {"none", "tcp", "ssl"}, cert : BOOLEAN, uses : Nat]
Talks == [pieces : Seq(Nat \ {0}), ready : Nat, over : BOOLEAN, missed : BOOLEAN]
On(c) == c.state \in {"connected", "asked"}
\* What is decrypted and not read belongs to a connection by ssl.
TalkInv(w, c) ==
  /\ w \in Talks /\ ~w.missed
  /\ w.ready # 0 => On(c) /\ c.transport = "ssl"
TransportInv ==
  /\ caller \in Callers
  /\ On(caller) => caller.transport \in {"tcp", "ssl"}
  /\ NetInv(net, On(caller), caller.transport)
  /\ TalkInv(talk, caller)

LEMMA SilenceInv == \A c : TalkInv(Silence, c)
  BY DEF TalkInv, Silence, Talks

\* A caller some of whose fields are changed.
LEMMA UsedIs ==
  ASSUME NEW c \in Callers
  PROVE  /\ Used(c) \in Callers /\ Used(c).state = c.state /\ Used(c).transport = c.transport
         /\ Used(c).place = c.place /\ Used(c).cert = c.cert
  BY DEF Callers, Used
LEMMA WithState ==
  ASSUME NEW c \in Callers, NEW s \in States
  PROVE  /\ [c EXCEPT !.state = s] \in Callers
         /\ [c EXCEPT !.state = s].state = s /\ [c EXCEPT !.state = s].transport = c.transport
  BY DEF Callers
LEMMA WithTransport ==
  ASSUME NEW c \in Callers, NEW t \in {"none", "tcp", "ssl"}
  PROVE  /\ [c EXCEPT !.transport = t] \in Callers
         /\ [c EXCEPT !.transport = t].state = c.state /\ [c EXCEPT !.transport = t].transport = t
  BY DEF Callers
LEMMA WithPlaceState ==
  ASSUME NEW c \in Callers, NEW p \in Places, NEW s \in States
  PROVE  /\ [c EXCEPT !.place = p, !.state = s] \in Callers
         /\ [c EXCEPT !.place = p, !.state = s].state = s
         /\ [c EXCEPT !.place = p, !.state = s].transport = c.transport
  BY DEF Callers

\* A new client.
LEMMA NewUserInv ==
  ASSUME NEW cert \in BOOLEAN
  PROVE  /\ NewUser(cert) \in Callers /\ NewUser(cert).state = "init" /\ NewUser(cert).transport = "none"
         /\ \A k \in Nat : /\ [NewUser(cert) EXCEPT !.uses = k] \in Callers
                           /\ [NewUser(cert) EXCEPT !.uses = k].state = "init"
<1>1. PICK q : q = CHOOSE p \in Places : TRUE
  OBVIOUS
<1>2. q \in Places
  BY <1>1, TransportAssumption
<1>3. NewUser(cert) = [state |-> "init", place |-> q, transport |-> "none", cert |-> cert, uses |-> 0]
  BY <1>1 DEF NewUser
<1> QED
  BY <1>2, <1>3 DEF Callers, States

LEMMA TransportInitInv == TransportInit => TransportInv
<1> SUFFICES ASSUME TransportInit PROVE TransportInv
  OBVIOUS
<1>1. PICK cert \in BOOLEAN : caller = NewUser(cert)
  BY DEF TransportInit
<1>2. caller \in Callers /\ ~On(caller)
  BY <1>1, NewUserInv DEF On
<1>3. NetInv(net, FALSE, caller.transport)
  <2>1. net = [fds |-> [f \in Fds |-> "free"], tcp |-> 0, ssl |-> NoSsl, struck |-> FALSE]
    BY DEF TransportInit
  <2>2. 0 \notin Fds
    BY TransportAssumption
  <2> QED
    BY <2>1, <2>2 DEF NetInv, Nets, NoSsl
<1>4. TalkInv(talk, caller)
  BY SilenceInv DEF TransportInit
<1>5. On(caller) = FALSE
  BY <1>1, NewUserInv DEF On
<1> QED
  BY <1>2, <1>3, <1>4, <1>5 DEF TransportInv

-----------------------------------------------------------------------------
(* The calls of the client. *)

\* The invariant of a client that has no connection.
LEMMA NotConnected ==
  ASSUME caller' \in Callers, ~On(caller)', NetInv(net', FALSE, caller.transport'), TalkInv(talk', caller')
  PROVE  TransportInv'
<1>1. On(caller)' = FALSE
  BY DEF On
<1> QED
  BY <1>1 DEF TransportInv

\* What closing the connection leaves, whoever it is for.
LEMMA TransportCloses ==
  ASSUME TransportInv
  PROVE  /\ \A u : NetInv(TransportClosed(net, caller.transport), FALSE, u)
         /\ ~On(caller) => \A s, u : NetInv(TransportClosed(net, s), FALSE, u)
<1>1. NetInv(net, On(caller), caller.transport) /\ On(caller) \in BOOLEAN
  BY DEF TransportInv, On
<1>2. \A u : NetInv(TransportClosed(net, caller.transport), FALSE, u)
  BY <1>1, TransportClosedInv
<1>3. ASSUME ~On(caller), NEW s PROVE \A u : NetInv(TransportClosed(net, s), FALSE, u)
  BY <1>1, <1>3, TransportClosedInv
<1> QED
  BY <1>2, <1>3

\* Another url: the connection is closed, or is good for it.
LEMMA MovesToInv ==
  ASSUME TransportInv, NEW p \in Places, MovesTo(p)
  PROVE  TransportInv'
<1>0. caller \in Callers
  BY DEF TransportInv
<1>1. PICK seen \in BOOLEAN :
        LET closes == seen \/ p.port # caller.place.port
        IN /\ talk' = IF closes THEN Silence ELSE talk
           /\ caller' = [Used(caller) EXCEPT !.place = p, !.state = IF closes THEN "init" ELSE @]
           /\ net' = IF closes THEN TransportClosed(net, caller.transport) ELSE net
  BY DEF MovesTo
<1> DEFINE c == Used(caller)
<1>2. c \in Callers /\ c.state = caller.state /\ c.transport = caller.transport
  BY <1>0, UsedIs
<1>3. CASE seen \/ p.port # caller.place.port
  <2>1. caller' = [c EXCEPT !.place = p, !.state = "init"] /\ net' = TransportClosed(net, caller.transport) /\ talk' = Silence
    BY <1>1, <1>3
  <2> HIDE DEF c
  <2>2. "init" \in States
    BY DEF States
  <2>3. caller' \in Callers /\ caller'.state = "init"
    BY <1>2, <2>1, <2>2, WithPlaceState
  <2>4. NetInv(net', FALSE, caller'.transport)
    BY <2>1, TransportCloses
  <2>5. TalkInv(talk', caller')
    BY <2>1, SilenceInv
  <2> QED
    BY <2>3, <2>4, <2>5, NotConnected DEF On
<1>4. CASE ~(seen \/ p.port # caller.place.port)
  <2>1. caller' = [c EXCEPT !.place = p, !.state = c.state] /\ net' = net /\ talk' = talk
    BY <1>1, <1>4
  <2> HIDE DEF c
  <2>2. c.state \in States
    BY <1>2 DEF Callers
  <2>3. caller' \in Callers /\ caller'.state = caller.state /\ caller'.transport = caller.transport
    BY <1>2, <2>1, <2>2, WithPlaceState, ZenonT(40)
  <2> QED
    BY <2>1, <2>3 DEF TransportInv, TalkInv, On
<1> QED
  BY <1>3, <1>4

\* A request that is written, or one that ends the connection.
LEMMA OpensWithInv ==
  ASSUME TransportInv, NEW t \in {"tcp", "ssl"}, NEW n, NetInv(n, TRUE, t), OpensWith(t, n),
         talk.ready # 0 => t = "ssl"
  PROVE  TransportInv'
<1>0. caller \in Callers /\ TalkInv(talk, caller)
  BY DEF TransportInv
<1> DEFINE c == Used(caller)
<1>2. c \in Callers
  BY <1>0, UsedIs
<1>3. t \in {"none", "tcp", "ssl"} /\ "init" \in States
  BY DEF States
<1>4. ASSUME NEW next \in {"connected", "asked"}, caller' = [c EXCEPT !.transport = t, !.state = next], net' = n
      PROVE  TransportInv'
  <2> HIDE DEF c
  <2>0. next \in States
    BY DEF States
  <2> DEFINE d == [c EXCEPT !.transport = t, !.state = next]
  <2>a. d \in Callers /\ d.state = next /\ d.transport = t
    BY <1>2, <1>3, <2>0 DEF Callers
  <2>1. caller' \in Callers /\ caller'.state = next /\ caller'.transport = t
    BY <1>4, <2>a
  <2>2. talk' = talk
    BY <2>1 DEF OpensWith
  <2>3. TalkInv(talk', caller')
    BY <1>0, <2>1, <2>2 DEF TalkInv, On
  <2> QED
    BY <1>4, <2>1, <2>3 DEF TransportInv, On
<1>5. ASSUME caller' = [c EXCEPT !.transport = t, !.state = "init"], net' = TransportClosed(n, t)
      PROVE  TransportInv'
  <2> HIDE DEF c
  <2> DEFINE d == [c EXCEPT !.transport = t, !.state = "init"]
  <2>a. d \in Callers /\ d.state = "init" /\ d.transport = t
    BY <1>2, <1>3 DEF Callers
  <2>1. caller' \in Callers /\ caller'.state = "init"
    BY <1>5, <2>a
  <2>2. talk' = Silence
    BY <2>1 DEF OpensWith
  <2>3. NetInv(net', FALSE, caller'.transport)
    BY <1>5, TransportClosedInv
  <2>4. TalkInv(talk', caller')
    BY <2>2, SilenceInv
  <2> QED
    BY <2>1, <2>3, <2>4, NotConnected DEF On
<1> QED
  BY <1>4, <1>5 DEF OpensWith

LEMMA OpensAnewInv == TransportInv /\ OpensAnew => TransportInv'
<1> SUFFICES ASSUME TransportInv, OpensAnew PROVE TransportInv'
  OBVIOUS
<1>0. caller \in Callers /\ caller.state = "init" /\ TalkInv(talk, caller) /\ On(caller) = FALSE
  BY DEF TransportInv, OpensAnew, On
<1>1. NetInv(net, FALSE, caller.transport)
  BY <1>0 DEF TransportInv
<1>2. talk.ready = 0
  BY <1>0 DEF TalkInv
<1> DEFINE t == ByScheme(caller.place.scheme)
<1>3. t \in {"none", "tcp", "ssl"}
  BY DEF ByScheme
<1>4. PICK o \in Connects(t, caller.cert) :
        \/ o.ok /\ OpensWith(t, o.net)
        \/ ~o.ok /\ caller' = [Used(caller) EXCEPT !.transport = t] /\ net' = o.net /\ UNCHANGED talk
  BY DEF OpensAnew
<1> HIDE DEF t
<1>5. caller.cert \in BOOLEAN
  BY <1>0 DEF Callers
<1>6. o.ok \in BOOLEAN /\ NetInv(o.net, o.ok, t) /\ (o.ok => t \in {"tcp", "ssl"})
  BY <1>1, <1>5, ConnectsInv
<1>7. CASE o.ok /\ OpensWith(t, o.net)
  <2>1. NetInv(o.net, TRUE, t) /\ t \in {"tcp", "ssl"}
    BY <1>6, <1>7
  <2> QED
    BY <1>2, <1>7, <2>1, OpensWithInv
<1>8. CASE ~o.ok /\ caller' = [Used(caller) EXCEPT !.transport = t] /\ net' = o.net /\ UNCHANGED talk
  <2> DEFINE c == Used(caller)
  <2>1. c \in Callers /\ c.state = "init"
    BY <1>0, UsedIs
  <2>2. caller' = [c EXCEPT !.transport = t]
    BY <1>8
  <2> HIDE DEF c
  <2>3. caller' \in Callers /\ caller'.state = "init" /\ caller'.transport = t
    BY <1>3, <2>1, <2>2, WithTransport
  <2>4. NetInv(net', FALSE, caller'.transport)
    BY <1>6, <1>8, <2>3
  <2>5. TalkInv(talk', caller')
    BY <1>0, <1>2, <1>8 DEF TalkInv
  <2> QED
    BY <2>3, <2>4, <2>5, NotConnected DEF On
<1> QED
  BY <1>4, <1>7, <1>8

LEMMA OpensAgainInv == TransportInv /\ OpensAgain => TransportInv'
<1> SUFFICES ASSUME TransportInv, OpensAgain PROVE TransportInv'
  OBVIOUS
<1>0. On(caller) = TRUE /\ OpensWith(caller.transport, net)
  BY DEF OpensAgain, Holding, On
<1>1. NetInv(net, TRUE, caller.transport)
  BY <1>0 DEF TransportInv
<1>2. caller.transport \in {"tcp", "ssl"}
  BY <1>0 DEF TransportInv
<1>3. talk.ready # 0 => caller.transport = "ssl"
  BY DEF TransportInv, TalkInv
<1> QED
  BY <1>0, <1>1, <1>2, <1>3, OpensWithInv

\* The end of a request, the end of a connection, and of the client.
LEMMA EndsInv ==
  TransportInv /\ (KeepsAlive \/ ClosesClient("init") \/ CleansUp) => TransportInv'
<1> SUFFICES ASSUME TransportInv PROVE KeepsAlive \/ ClosesClient("init") \/ CleansUp => TransportInv'
  OBVIOUS
<1>0. caller \in Callers /\ TalkInv(talk, caller)
  BY DEF TransportInv
<1>1. ASSUME KeepsAlive PROVE TransportInv'
  <2>1. caller.state = "asked" /\ caller' = [caller EXCEPT !.state = "connected"] /\ net' = net /\ talk' = talk
    BY <1>1 DEF KeepsAlive
  <2>2. "connected" \in States
    BY DEF States
  <2>3. caller' \in Callers /\ caller'.state = "connected" /\ caller'.transport = caller.transport
    BY <1>0, <2>1, <2>2, WithState
  <2>4. On(caller) = TRUE /\ On(caller') = TRUE
    BY <2>1, <2>3 DEF On
  <2> QED
    BY <2>1, <2>3, <2>4 DEF TransportInv, TalkInv
<1>2. ASSUME NEW next \in {"init", "cleaning"}, ClosesClient(next) PROVE TransportInv'
  <2>1. net' = TransportClosed(net, caller.transport) /\ caller' = [caller EXCEPT !.state = next] /\ talk' = Silence
    BY <1>2 DEF ClosesClient
  <2>2. next \in States
    BY DEF States
  <2>3. caller' \in Callers /\ caller'.state = next
    BY <1>0, <2>1, <2>2, WithState
  <2>4. NetInv(net', FALSE, caller'.transport)
    BY <2>1, TransportCloses
  <2>5. TalkInv(talk', caller')
    BY <2>1, SilenceInv
  <2> QED
    BY <2>3, <2>4, <2>5, NotConnected DEF On
<1>3. ASSUME NEW from \in {"cleaning", "cleaned"}, NEW t, NEW next \in {"cleaned", "gone"}, ListCleans(from, t, next)
      PROVE  TransportInv'
  <2>1. /\ caller.state = from /\ net' = TransportClosed(net, t)
        /\ caller' = [caller EXCEPT !.state = next] /\ talk' = talk
    BY <1>3 DEF ListCleans
  <2>2. next \in States
    BY DEF States
  <2>3. caller' \in Callers /\ caller'.state = next
    BY <1>0, <2>1, <2>2, WithState
  <2>4. ~On(caller)
    BY <2>1 DEF On
  <2>5. NetInv(net', FALSE, caller'.transport)
    BY <2>1, <2>4, TransportCloses
  <2>6. TalkInv(talk', caller')
    BY <1>0, <2>1, <2>4 DEF TalkInv
  <2> QED
    BY <2>3, <2>5, <2>6, NotConnected DEF On
<1> QED
  BY <1>1, <1>2, <1>3 DEF CleansUp

\* A new client after the last one.
LEMMA BeginsInv == TransportInv /\ Begins => TransportInv'
<1> SUFFICES ASSUME TransportInv, Begins PROVE TransportInv'
  OBVIOUS
<1>0. caller \in Callers /\ TalkInv(talk, caller) /\ On(caller) = FALSE /\ talk' = talk
  BY DEF TransportInv, Begins, On
<1>1. NetInv(net, FALSE, caller.transport)
  BY <1>0 DEF TransportInv
<1>2. PICK cert \in BOOLEAN : caller' = [NewUser(cert) EXCEPT !.uses = caller.uses + 1]
  BY DEF Begins
<1>3. caller.uses + 1 \in Nat
  BY <1>0 DEF Callers
<1>4. caller' \in Callers /\ caller'.state = "init"
  BY <1>2, <1>3, NewUserInv
<1>5. net' = [net EXCEPT !.tcp = 0, !.ssl = NoSsl]
  BY DEF Begins
<1>6. net' = net
  <2>1. net \in Nets /\ net.tcp = 0 /\ net.ssl.sock = 0 /\ net.ssl.init = FALSE /\ net.ssl.verify = FALSE
    BY <1>1 DEF NetInv, Nets
  <2>2. net.ssl = NoSsl
    BY <2>1 DEF Nets, NoSsl
  <2>3. net' = [net EXCEPT !.tcp = net.tcp, !.ssl = net.ssl]
    BY <1>5, <2>1, <2>2
  <2> QED
    BY <2>1, <2>3 DEF Nets
<1>7. NetInv(net', FALSE, caller'.transport)
  BY <1>1, <1>6 DEF NetInv
<1>8. TalkInv(talk', caller')
  BY <1>0 DEF TalkInv
<1> QED
  BY <1>4, <1>7, <1>8, NotConnected DEF On
-----------------------------------------------------------------------------
(* The reads, the server and other tasks. *)

\* A read takes what there is, or gives up when there is nothing.
LEMMA GivesUpKept ==
  ASSUME TalkInv(talk, caller), talk.ready = 0, talk.pieces = <<>>
  PROVE  GivesUp = talk
  BY DEF GivesUp, TalkInv, Talks

LEMMA ReadsInv == TransportInv /\ TransportReads => TransportInv'
<1> SUFFICES ASSUME TransportInv, TransportReads PROVE TransportInv'
  OBVIOUS
<1>0. TalkInv(talk, caller) /\ On(caller) = TRUE /\ net' = net /\ caller' = caller
  BY DEF TransportInv, TransportReads, On
<1>1. PICK n \in Pieces : talk' = IF caller.transport = "ssl" THEN SslRead(n) ELSE TcpRead(n)
  BY DEF TransportReads
<1>2. n \in Nat \ {0}
  BY TransportAssumption
<1>3. /\ talk \in Talks /\ talk.pieces \in Seq(Nat \ {0}) /\ talk.ready \in Nat /\ talk.missed = FALSE
      /\ talk.over \in BOOLEAN
  BY <1>0 DEF TalkInv, Talks
<1>4. CASE talk' = GivesUp /\ talk.ready = 0 /\ talk.pieces = <<>>
  BY <1>0, <1>4, GivesUpKept DEF TransportInv, TalkInv
<1>5. ASSUME NEW k \in Nat, NEW q \in Seq(Nat \ {0}), talk' = [talk EXCEPT !.ready = k, !.pieces = q], k # 0 => caller.transport = "ssl"
      PROVE  TransportInv'
  <2>1. talk' \in Talks /\ talk'.missed = FALSE /\ talk'.ready = k
    BY <1>3, <1>5 DEF Talks
  <2> QED
    BY <1>0, <1>5, <2>1 DEF TransportInv, TalkInv
<1>6. CASE caller.transport = "ssl"
  <2>1. talk' = SslRead(n)
    BY <1>1, <1>6
  <2>2. CASE talk.ready > 0
    <3>1. talk' = [talk EXCEPT !.ready = talk.ready - Least(n, talk.ready)]
      BY <1>3, <2>1, <2>2 DEF SslRead, SslPolls
    <3> DEFINE k == talk.ready - Least(n, talk.ready)
    <3>2. k \in Nat
      BY <1>2, <1>3 DEF Least
    <3> HIDE DEF k
    <3>3. talk' = [talk EXCEPT !.ready = k, !.pieces = talk.pieces]
      BY <1>3, <3>1 DEF k, Talks
    <3> QED
      BY <1>3, <1>5, <1>6, <3>2, <3>3
  <2>3. CASE talk.ready = 0 /\ talk.pieces # <<>>
    <3>1. talk' = [talk EXCEPT !.ready = Head(talk.pieces) - Least(n, Head(talk.pieces)), !.pieces = Tail(talk.pieces)]
      BY <1>3, <2>1, <2>3 DEF SslRead, SslPolls, PollRead
    <3> DEFINE h == Head(talk.pieces)
               k == h - Least(n, h)
    <3>2. h \in Nat \ {0} /\ Tail(talk.pieces) \in Seq(Nat \ {0})
      BY <1>3, <2>3
    <3>3. talk' = [talk EXCEPT !.ready = k, !.pieces = Tail(talk.pieces)]
      BY <3>1
    <3> HIDE DEF h
    <3>4. k \in Nat
      BY <1>2, <3>2 DEF Least
    <3> HIDE DEF k
    <3> QED
      BY <1>5, <1>6, <3>2, <3>3, <3>4
  <2>4. CASE talk.ready = 0 /\ talk.pieces = <<>>
    <3>1. talk' = GivesUp
      BY <1>3, <2>1, <2>4 DEF SslRead
    <3> QED
      BY <1>4, <2>4, <3>1
  <2> QED
    BY <1>3, <2>2, <2>3, <2>4
<1>7. CASE caller.transport # "ssl"
  <2>1. talk' = TcpRead(n) /\ talk.ready = 0
    BY <1>0, <1>1, <1>7 DEF TalkInv
  <2>2. CASE talk.pieces = <<>>
    <3>1. talk' = GivesUp
      BY <1>3, <2>1, <2>2 DEF TcpRead
    <3> QED
      BY <1>4, <2>1, <2>2, <3>1
  <2>3. CASE talk.pieces # <<>>
    <3> DEFINE piece == Head(talk.pieces)
               q == (IF piece > n THEN <<piece - n>> ELSE <<>>) \o Tail(talk.pieces)
    <3>1. piece \in Nat \ {0} /\ Tail(talk.pieces) \in Seq(Nat \ {0})
      BY <1>3, <2>3
    <3>2. talk' = [talk EXCEPT !.pieces = q]
      BY <2>1, <2>3 DEF TcpRead, PollRead
    <3>3. (IF piece > n THEN <<piece - n>> ELSE <<>>) \in Seq(Nat \ {0})
      <4> HIDE DEF piece
      <4>1. CASE piece > n
        <5>1. piece - n \in Nat \ {0}
          BY <1>2, <3>1, <4>1
        <5> QED
          BY <4>1, <5>1
      <4> QED
        BY <4>1
    <3>4. q \in Seq(Nat \ {0})
      BY <3>1, <3>3
    <3> HIDE DEF q
    <3>5. talk' = [talk EXCEPT !.ready = 0, !.pieces = q]
      BY <1>3, <2>1, <3>2 DEF Talks
    <3> QED
      BY <1>5, <3>4, <3>5
  <2> QED
    BY <2>2, <2>3
<1> QED
  BY <1>6, <1>7

LEMMA ServerInv == TransportInv /\ (ServerSends \/ ServerCloses) => TransportInv'
<1> SUFFICES ASSUME TransportInv PROVE ServerSends \/ ServerCloses => TransportInv'
  OBVIOUS
<1>0. TalkInv(talk, caller) /\ talk \in Talks
  BY DEF TransportInv, TalkInv
<1>1. ASSUME talk' \in Talks, talk'.missed = talk.missed, talk'.ready = talk.ready, net' = net, caller' = caller
      PROVE  TransportInv'
  BY <1>1 DEF TransportInv, TalkInv
<1>2. ASSUME ServerSends PROVE TransportInv'
  <2>1. PICK n \in Pieces : talk' = [talk EXCEPT !.pieces = Append(talk.pieces, n)]
    BY <1>2 DEF ServerSends
  <2>2. n \in Nat \ {0}
    BY TransportAssumption
  <2>3. Append(talk.pieces, n) \in Seq(Nat \ {0})
    BY <1>0, <2>2 DEF Talks
  <2>4. talk' \in Talks /\ talk'.missed = talk.missed /\ talk'.ready = talk.ready
    BY <1>0, <2>1, <2>3 DEF Talks
  <2> QED
    BY <1>1, <1>2, <2>4 DEF ServerSends
<1>3. ASSUME ServerCloses PROVE TransportInv'
  <2>1. talk' \in Talks /\ talk'.missed = talk.missed /\ talk'.ready = talk.ready
    BY <1>0, <1>3 DEF Talks, ServerCloses
  <2> QED
    BY <1>1, <1>3, <2>1 DEF ServerCloses
<1> QED
  BY <1>2, <1>3

\* What other tasks do to sockets of their own does not touch the client's.
LEMMA OthersInv == TransportInv /\ (OthersOpen \/ \E f \in Fds : OthersClose(f)) => TransportInv'
<1> SUFFICES ASSUME TransportInv PROVE OthersOpen \/ (\E f \in Fds : OthersClose(f)) => TransportInv'
  OBVIOUS
<1>0. caller \in Callers /\ net \in Nets /\ 0 \notin Fds
  BY TransportAssumption DEF TransportInv, NetInv
<1>1. ASSUME NEW f \in Fds, NEW s \in {"free", "other"}, net.fds[f] # "client", net' = [net EXCEPT !.fds[f] = s]
      PROVE  \A on, t : NetInv(net, on, t) => NetInv(net', on, t)
  <2>1. /\ net'.fds = [net.fds EXCEPT ![f] = s] /\ net'.tcp = net.tcp /\ net'.ssl = net.ssl /\ net'.struck = net.struck
        /\ net' \in Nets
    BY <1>0, <1>1 DEF Nets
  <2>2. \A g \in Fds : net'.fds[g] = "client" <=> net.fds[g] = "client"
    BY <1>0, <1>1, <2>1 DEF Nets
  <2> QED
    BY <2>1, <2>2 DEF NetInv
<1>2. ASSUME OthersOpen PROVE TransportInv'
  <2> DEFINE f == NextFd(net)
  <2>1. f \in Fds /\ net.fds[f] = "free"
    BY <1>0, <1>2, NextFdFree DEF OthersOpen
  <2>2. net' = [net EXCEPT !.fds[f] = "other"] /\ caller' = Used(caller) /\ talk' = talk
    BY <1>2 DEF OthersOpen
  <2> HIDE DEF f
  <2>3. NetInv(net', On(caller), caller.transport)
    BY <1>1, <2>1, <2>2 DEF TransportInv
  <2>4. caller' \in Callers /\ caller'.state = caller.state /\ caller'.transport = caller.transport
    BY <1>0, <2>2, UsedIs
  <2>5. On(caller') <=> On(caller)
    BY <2>4 DEF On
  <2>6. On(caller') = On(caller)
    BY <2>4 DEF On
  <2>7. NetInv(net', On(caller'), caller'.transport)
    BY <2>3, <2>4, <2>6
  <2> QED
    BY <2>2, <2>4, <2>5, <2>7 DEF TransportInv, TalkInv
<1>3. ASSUME NEW f \in Fds, OthersClose(f) PROVE TransportInv'
  <2>1. net.fds[f] = "other" /\ net' = [net EXCEPT !.fds[f] = "free"] /\ caller' = caller /\ talk' = talk
    BY <1>3 DEF OthersClose
  <2>2. NetInv(net', On(caller), caller.transport)
    BY <1>1, <2>1 DEF TransportInv
  <2> QED
    BY <2>1, <2>2 DEF TransportInv
<1> QED
  BY <1>2, <1>3

LEMMA TransportStep == TransportInv /\ [TransportNext]_trans => TransportInv'
<1> SUFFICES ASSUME TransportInv, [TransportNext]_trans PROVE TransportInv'
  OBVIOUS
<1>1. CASE TransportNext
  BY <1>1, MovesToInv, OpensAnewInv, OpensAgainInv, EndsInv, ReadsInv, ServerInv, BeginsInv, OthersInv
     DEF TransportNext
<1>2. CASE UNCHANGED trans
  BY <1>2 DEF trans, TransportInv
<1> QED
  BY <1>1, <1>2

LEMMA TransportInvKept == TransportInv => TransportKept
<1> SUFFICES ASSUME TransportInv PROVE TransportKept
  OBVIOUS
<1>1. NetInv(net, On(caller), caller.transport) /\ ~talk.missed /\ 0 \notin Fds
  BY TransportAssumption DEF TransportInv, TalkInv
<1>2. Holding <=> On(caller)
  BY DEF Holding, On
<1>3. net \in Nets /\ ~net.struck
  BY <1>1 DEF NetInv
<1>4. {f \in Fds : net.fds[f] = "client"} = {f \in Fds : f \in {net.tcp, net.ssl.sock}}
  BY <1>1 DEF NetInv
<1>5. net.ssl.init = (Holding /\ caller.transport = "ssl") /\ (net.ssl.verify => net.ssl.init)
  BY <1>1, <1>2, <1>3 DEF NetInv, Nets
<1>6. CASE ~On(caller)
  <2>1. net.tcp = 0 /\ net.ssl.sock = 0
    BY <1>1, <1>6 DEF NetInv
  <2>2. {f \in Fds : net.fds[f] = "client"} = {}
    BY <1>1, <1>4, <2>1
  <2> QED
    BY <1>1, <1>2, <1>3, <1>5, <1>6, <2>2 DEF TransportKept
<1>7. CASE On(caller) /\ caller.transport = "ssl"
  <2>1. net.tcp = 0 /\ net.ssl.sock # 0
    BY <1>1, <1>7 DEF NetInv
  <2>2. {f \in Fds : net.fds[f] = "client"} = {net.ssl.sock}
    BY <1>1, <1>3, <1>4, <2>1 DEF Nets
  <2> QED
    BY <1>1, <1>2, <1>3, <1>5, <1>7, <2>2 DEF TransportKept
<1>8. CASE On(caller) /\ caller.transport # "ssl"
  <2>0. caller.transport = "tcp"
    BY <1>8 DEF TransportInv
  <2>1. net.tcp # 0 /\ net.ssl.sock = 0
    BY <1>1, <1>8, <2>0 DEF NetInv
  <2>2. {f \in Fds : net.fds[f] = "client"} = {net.tcp}
    BY <1>1, <1>3, <1>4, <2>1 DEF Nets
  <2> QED
    BY <1>1, <1>2, <1>3, <1>5, <1>8, <2>2 DEF TransportKept
<1> QED
  BY <1>6, <1>7, <1>8
-----------------------------------------------------------------------------
(***************************************************************************)
(* A file.                                                                 *)
(***************************************************************************)

\* The first n numbers, as they come.
UpTo(n) == [i \in 1..n |-> i]
LEMMA UpToNext ==
  ASSUME NEW n \in Nat
  PROVE  /\ UpTo(n) \in Seq(Nat) /\ Len(UpTo(n)) = n
         /\ Append(UpTo(n), n + 1) = UpTo(n + 1)
         /\ UpTo(0) = <<>>
<1>1. UpTo(n) \in Seq(Nat) /\ Len(UpTo(n)) = n
  BY DEF UpTo
<1>2. Append(UpTo(n), n + 1) = UpTo(n + 1)
  BY <1>1 DEF UpTo
<1>3. UpTo(0) = <<>>
  BY DEF UpTo
<1> QED
  BY <1>1, <1>2, <1>3

HeaderLen(w) == IF w \in {"wav", "amr"} THEN 1 ELSE 0
\* A recording of n units that was begun as w, under the header that is given.
Recording(w, n, header) == [i \in 1..(HeaderLen(w) + n) |-> IF i <= HeaderLen(w) THEN header ELSE Audio(i - HeaderLen(w))]
Final(w, n) == Recording(w, n, IF w = "wav" THEN Wav(n) ELSE Empty)

FileStates == {"INIT", "RUNNING", "PAUSED", "STOPPED", "FINISHED", "ERROR"}
FileTypes ==
  /\ fatfs \in [type : {"reader", "writer"}, isOpen : BOOLEAN, wType : FileUris \cup {"unknown"},
                file : {"none", "open", "closed"}, at : Nat]
  /\ player \in [state : FileStates, isOpen : BOOLEAN, uri : FileUris, pos : Nat]
  /\ story \in [got : Seq(Nat), odd : BOOLEAN, orders : Nat]
\* The element runs on an open file. What it hands on or writes is the audio in its order, and its position is
\* behind what it has of it.
RunInv ==
  player.state = "RUNNING" => /\ player.isOpen /\ fatfs.isOpen /\ fatfs.file = "open"
PlayInv ==
  Reader /\ ~story.odd =>
    /\ story.got = UpTo(Len(story.got)) /\ Len(story.got) <= FileSize
    /\ player.state = "RUNNING" => fatfs.at = Len(story.got)
    /\ player.state \in {"RUNNING", "PAUSED"} => player.pos = Len(story.got)
    /\ player.state = "FINISHED" => Len(story.got) = FileSize
\* A recording is odd from its first pause on, so that one which is not is closed once, with all it has under
\* its header.
RecordInv ==
  ~Reader /\ ~story.odd =>
    /\ player.state # "PAUSED"
    /\ player.state # "RUNNING" => player.pos = 0 /\ fatfs.file # "open" /\ ~fatfs.isOpen
    /\ player.state = "RUNNING" =>
         /\ story.got = UpTo(Len(story.got)) /\ player.pos = Len(story.got)
         /\ fatfs.at = HeaderLen(fatfs.wType) + Len(story.got)
         /\ card = Recording(fatfs.wType, Len(story.got), Empty)
    /\ fatfs.file = "closed" /\ story.got # <<>> =>
         story.got = UpTo(Len(story.got)) /\ card = Final(fatfs.wType, Len(story.got))
FileInv == FileTypes /\ RunInv /\ PlayInv /\ RecordInv

\* What a write makes of a recording.
LEMMA PutNext ==
  ASSUME NEW w, NEW n \in Nat
  PROVE  Put(Recording(w, n, Empty), HeaderLen(w) + n, Audio(n + 1)) = Recording(w, n + 1, Empty)
<1> DEFINE h == HeaderLen(w)
           c == Recording(w, n, Empty)
<1>1. h \in {0, 1}
  BY DEF HeaderLen
<1>2. c = [i \in 1..(h + n) |-> IF i <= h THEN Empty ELSE Audio(i - h)]
  BY DEF Recording
<1>3. Recording(w, n + 1, Empty) = [i \in 1..(h + (n + 1)) |-> IF i <= h THEN Empty ELSE Audio(i - h)]
  BY DEF Recording
<1>4. Len(c) = h + n
  <2> HIDE DEF h
  <2> QED
    BY <1>1, <1>2
<1> HIDE DEF h, c
<1>5. Put(c, h + n, Audio(n + 1)) = [i \in 1..(h + n + 1) |-> IF i = h + n + 1 THEN Audio(n + 1) ELSE IF i <= h + n THEN c[i] ELSE Hole]
  BY <1>1, <1>4 DEF Put
<1>6. ASSUME NEW i \in 1..(h + n + 1)
      PROVE  (IF i = h + n + 1 THEN Audio(n + 1) ELSE IF i <= h + n THEN c[i] ELSE Hole)
                = IF i <= h THEN Empty ELSE Audio(i - h)
  BY <1>1, <1>2
<1>7. 1..(h + (n + 1)) = 1..(h + n + 1)
  BY <1>1
<1>8. Put(c, h + n, Audio(n + 1)) = Recording(w, n + 1, Empty)
  BY <1>3, <1>5, <1>6, <1>7
<1> QED
  BY <1>8 DEF h, c
LEMMA PutHeader ==
  ASSUME NEW n \in Nat
  PROVE  Put(Recording("wav", n, Empty), 0, Wav(n)) = Final("wav", n)
<1> DEFINE c == Recording("wav", n, Empty)
<1>1. c = [i \in 1..(1 + n) |-> IF i <= 1 THEN Empty ELSE Audio(i - 1)]
  BY DEF Recording, HeaderLen
<1>2. Final("wav", n) = [i \in 1..(1 + n) |-> IF i <= 1 THEN Wav(n) ELSE Audio(i - 1)]
  BY DEF Recording, HeaderLen, Final
<1>3. Len(c) = 1 + n
  BY <1>1
<1> HIDE DEF c
<1>4. Put(c, 0, Wav(n)) = [i \in 1..(1 + n) |-> IF i = 1 THEN Wav(n) ELSE IF i <= 1 + n THEN c[i] ELSE Hole]
  BY <1>3 DEF Put
<1>5. \A i \in 1..(1 + n) : (IF i = 1 THEN Wav(n) ELSE IF i <= 1 + n THEN c[i] ELSE Hole) = IF i <= 1 THEN Wav(n) ELSE Audio(i - 1)
  BY <1>1
<1>6. Put(c, 0, Wav(n)) = Final("wav", n)
  BY <1>2, <1>4, <1>5
<1> QED
  BY <1>6 DEF c

\* A file that is created.
LEMMA CreatedIs ==
  Created = Recording(player.uri, 0, Empty) /\ Len(Created) = HeaderLen(player.uri)
<1>1. CASE player.uri \in {"wav", "amr"}
  <2>1. Created = <<Empty>> /\ HeaderLen(player.uri) = 1
    BY <1>1 DEF Created, HeaderLen
  <2>2. Recording(player.uri, 0, Empty) = [i \in 1..1 |-> Empty]
    BY <2>1 DEF Recording
  <2>3. <<Empty>> = [i \in 1..1 |-> Empty]
    OBVIOUS
  <2> QED
    BY <2>1, <2>2, <2>3
<1>2. CASE player.uri \notin {"wav", "amr"}
  <2>1. Created = <<>> /\ HeaderLen(player.uri) = 0
    BY <1>2 DEF Created, HeaderLen
  <2>2. Recording(player.uri, 0, Empty) = <<>>
    BY <2>1 DEF Recording
  <2> QED
    BY <2>1, <2>2
<1> QED
  BY <1>1, <1>2

LEMMA FileInitInv == FileInit => FileInv
<1> SUFFICES ASSUME FileInit PROVE FileInv
  OBVIOUS
<1>1. player.state = "INIT" /\ player.pos = 0 /\ fatfs.file = "none" /\ fatfs.isOpen = FALSE /\ story = [got |-> <<>>, odd |-> FALSE, orders |-> 0]
  BY DEF FileInit
<1>2. FileTypes
  BY DEF FileInit, FileTypes, FileStates, FileUris
<1>3. story.got = UpTo(Len(story.got)) /\ Len(story.got) = 0
  BY <1>1, UpToNext
<1>4. PlayInv
  BY <1>1, <1>3, FileBounds DEF PlayInv
<1> QED
  BY <1>1, <1>2, <1>4 DEF FileInv, RunInv, RecordInv

-----------------------------------------------------------------------------
\* The history of a command.
LEMMA OddWith ==
  ASSUME NEW S, NEW T, NEW h \in [got : S, odd : BOOLEAN, orders : T], NEW odd \in BOOLEAN
  PROVE  [h EXCEPT !.odd = odd] = [got |-> h.got, odd |-> odd, orders |-> h.orders]
  OBVIOUS
LEMMA GotWith ==
  ASSUME NEW S, NEW T, NEW h \in [got : S, odd : BOOLEAN, orders : T], NEW g \in S
  PROVE  [h EXCEPT !.got = g] = [got |-> g, odd |-> h.odd, orders |-> h.orders]
  OBVIOUS
LEMMA GotOddWith ==
  ASSUME NEW S, NEW T, NEW h \in [got : S, odd : BOOLEAN, orders : T], NEW g \in S, NEW odd \in BOOLEAN
  PROVE  [h EXCEPT !.got = g, !.odd = odd] = [got |-> g, odd |-> odd, orders |-> h.orders]
<1> DEFINE k == [h EXCEPT !.got = g, !.odd = odd]
<1>3. k \in [got : S, odd : BOOLEAN, orders : T]
  OBVIOUS
<1>4. k.got = g
  OBVIOUS
<1>5. k.odd = odd
  OBVIOUS
<1>6. k.orders = h.orders
  OBVIOUS
<1> HIDE DEF k
<1>7. k = [got |-> g, odd |-> odd, orders |-> h.orders]
  BY <1>3, <1>4, <1>5, <1>6
<1> QED
  BY <1>7 DEF k
LEMMA OrderedIs ==
  ASSUME FileTypes
  PROVE  /\ Ordered(story) = [got |-> story.got, odd |-> story.odd, orders |-> story.orders + 1]
         /\ Ordered(story) \in [got : Seq(Nat), odd : BOOLEAN, orders : Nat]
         /\ Ordered(story).got = story.got /\ Ordered(story).odd = story.odd /\ Ordered(story).orders = story.orders + 1
  BY DEF FileTypes, Ordered

LEMMA OpenSucceedsInv ==
  ASSUME FileInv, Resume, OpenSucceeds
  PROVE  FileInv'
<1>0. FileTypes /\ player.state # "RUNNING"
  BY DEF FileInv, RunInv, Resume, FileTypes
<1>1. /\ fatfs' = [fatfs EXCEPT !.isOpen = TRUE, !.file = "open", !.wType = IF Reader THEN @ ELSE player.uri,
                                !.at = IF player.pos > 0 \/ Reader THEN player.pos ELSE Len(Created)]
      /\ card' = IF Reader THEN card ELSE Created
      /\ player' = [player EXCEPT !.state = "RUNNING", !.isOpen = TRUE]
      /\ player.uri \notin {"gone", "pathless"}
  BY DEF OpenSucceeds
<1> DEFINE odd == player.pos > 0
           h == Ordered(story)
<1>a. odd \in BOOLEAN /\ (odd <=> player.pos > 0)
  BY <1>0 DEF FileTypes
<1>b. h \in [got : Seq(Nat), odd : BOOLEAN, orders : Nat] /\ h.got = story.got /\ h.odd = story.odd
  BY <1>0, OrderedIs
<1>c. IF player.state = "PAUSED" THEN story' = h ELSE story' = [h EXCEPT !.got = <<>>, !.odd = odd]
  BY DEF OpenSucceeds
<1> HIDE DEF odd, h
<1>2. /\ story' \in [got : Seq(Nat), odd : BOOLEAN, orders : Nat]
      /\ \/ player.state = "PAUSED" /\ story'.got = story.got /\ story'.odd = story.odd
         \/ player.state # "PAUSED" /\ story'.got = <<>> /\ story'.odd = odd
  <2>2. CASE player.state = "PAUSED"
    BY <1>b, <1>c, <2>2
  <2>3. CASE player.state # "PAUSED"
    <3>0. <<>> \in Seq(Nat)
      OBVIOUS
    <3>1. story' = [got |-> <<>>, odd |-> odd, orders |-> h.orders]
      BY <1>a, <1>b, <1>c, <2>3, <3>0, GotOddWith, ZenonT(40)
    <3>2. h.orders \in Nat
      BY <1>b
    <3> QED
      BY <1>a, <2>3, <3>0, <3>1, <3>2
  <2> QED
    BY <2>2, <2>3
<1>3. /\ player'.state = "RUNNING" /\ player'.isOpen = TRUE /\ player'.pos = player.pos /\ player'.uri = player.uri
      /\ player' \in [state : FileStates, isOpen : BOOLEAN, uri : FileUris, pos : Nat]
  BY <1>0, <1>1 DEF FileTypes, FileStates
<1>4. HeaderLen(player.uri) \in Nat /\ Len(Created) \in Nat
  BY CreatedIs DEF HeaderLen
<1>5. /\ fatfs'.isOpen = TRUE /\ fatfs'.file = "open" /\ fatfs'.type = fatfs.type
      /\ fatfs'.wType = (IF Reader THEN fatfs.wType ELSE player.uri)
      /\ fatfs'.at = (IF player.pos > 0 \/ Reader THEN player.pos ELSE Len(Created))
  BY <1>0, <1>1 DEF FileTypes
<1>6. fatfs' \in [type : {"reader", "writer"}, isOpen : BOOLEAN, wType : FileUris \cup {"unknown"},
                  file : {"none", "open", "closed"}, at : Nat]
  BY <1>0, <1>1, <1>4 DEF FileTypes
<1>8. FileTypes' /\ RunInv'
  BY <1>2, <1>3, <1>5, <1>6 DEF FileTypes, RunInv
<1>9. player.pos \in Nat /\ Reader' = Reader
  BY <1>0, <1>5 DEF FileTypes, Reader
<1>10. PlayInv'
  <2> SUFFICES ASSUME Reader, ~story'.odd PROVE PlayInv'
    BY <1>9 DEF PlayInv
  <2>1. fatfs'.at = player.pos
    BY <1>5
  <2>2. CASE player.state = "PAUSED"
    <3>1. story'.got = story.got /\ ~story.odd
      BY <1>2, <2>2
    <3> QED
      BY <1>3, <2>1, <2>2, <3>1 DEF PlayInv, FileInv
  <2>3. CASE player.state # "PAUSED"
    <3>1. story'.got = <<>> /\ player.pos = 0
      BY <1>a, <1>2, <1>9, <2>3
    <3> QED
      BY <1>3, <2>1, <3>1, UpToNext, FileBounds DEF PlayInv
  <2> QED
    BY <2>2, <2>3
<1>11. RecordInv'
  <2> SUFFICES ASSUME ~Reader, ~story'.odd PROVE RecordInv'
    BY <1>9 DEF RecordInv
  <2>1. player.state # "PAUSED"
    BY <1>2 DEF FileInv, RecordInv
  <2>2. story'.got = <<>> /\ player.pos = 0
    BY <1>a, <1>2, <1>9, <2>1
  <2>3. fatfs'.at = HeaderLen(player.uri) /\ card' = Recording(player.uri, 0, Empty) /\ fatfs'.wType = player.uri
    BY <1>1, <1>5, <2>2, CreatedIs
  <2>4. Len(story'.got) = 0 /\ story'.got = UpTo(0)
    BY <2>2, UpToNext
  <2> QED
    BY <1>3, <1>4, <1>5, <2>2, <2>3, <2>4 DEF RecordInv
<1> QED
  BY <1>8, <1>10, <1>11 DEF FileInv

LEMMA OpenFailsInv ==
  ASSUME FileInv, Resume, OpenFails
  PROVE  FileInv'
<1>0. FileTypes /\ player.state # "RUNNING"
  BY DEF FileInv, RunInv, Resume, FileTypes
<1>1. /\ player' \in [state : FileStates, isOpen : BOOLEAN, uri : FileUris, pos : Nat]
      /\ player'.state = player.state /\ player'.pos = player.pos
  BY <1>0 DEF FileTypes, OpenFails
<1>2. story' = [got |-> story.got, odd |-> story.odd, orders |-> story.orders + 1]
  BY <1>0, OrderedIs DEF OpenFails
<1>3. story' \in [got : Seq(Nat), odd : BOOLEAN, orders : Nat] /\ story'.got = story.got /\ story'.odd = story.odd
  BY <1>0, <1>2 DEF FileTypes
<1>4. /\ fatfs' \in [type : {"reader", "writer"}, isOpen : BOOLEAN, wType : FileUris \cup {"unknown"},
                     file : {"none", "open", "closed"}, at : Nat]
      /\ fatfs'.type = fatfs.type
      /\ \/ fatfs' = fatfs /\ card' = card
         \/ fatfs'.file = "none" /\ fatfs'.isOpen = fatfs.isOpen
         \/ player.pos > 0
  BY <1>0, ZenonT(40) DEF FileTypes, OpenFails
<1>5. FileTypes' /\ RunInv'
  BY <1>0, <1>1, <1>3, <1>4 DEF FileTypes, RunInv
<1>6. Reader' = Reader
  BY <1>4 DEF Reader
<1>7. PlayInv'
  BY <1>0, <1>1, <1>3, <1>6 DEF PlayInv, FileInv
<1>8. RecordInv'
  <2> SUFFICES ASSUME ~Reader, ~story.odd PROVE RecordInv'
    BY <1>3, <1>6 DEF RecordInv
  <2>1. player.pos = 0 /\ player.state # "PAUSED"
    BY <1>0 DEF FileInv, RecordInv
  <2> QED
    BY <1>0, <1>1, <1>3, <1>4, <2>1 DEF RecordInv, FileInv
<1> QED
  BY <1>5, <1>7, <1>8 DEF FileInv

-----------------------------------------------------------------------------
\* What closing the file leaves of the invariant, but for the element's own part of it.
LEMMA FileClosesIs ==
  ASSUME FileInv, NEW while, NEW s \in FileStates, player.isOpen \/ player.state # "RUNNING", FileCloses(while, s)
  PROVE  /\ fatfs' \in [type : {"reader", "writer"}, isOpen : BOOLEAN, wType : FileUris \cup {"unknown"},
                        file : {"none", "open", "closed"}, at : Nat]
         /\ player' \in [state : FileStates, isOpen : BOOLEAN, uri : FileUris, pos : Nat]
         /\ player'.state = s /\ fatfs'.type = fatfs.type /\ fatfs'.wType = fatfs.wType
         /\ player.isOpen =>
              /\ player'.pos = IF while = "PAUSED" THEN player.pos ELSE 0
              /\ fatfs'.file = IF fatfs.isOpen THEN "closed" ELSE fatfs.file
              /\ fatfs'.isOpen = FALSE /\ card' = ClosedCard
         /\ ~player.isOpen => player'.pos = player.pos /\ fatfs' = fatfs /\ card' = card
<1>0. FileTypes
  BY DEF FileInv
<1>1. CASE player.isOpen
  <2>1. fatfs' = [fatfs EXCEPT !.isOpen = FALSE, !.file = IF fatfs.isOpen THEN "closed" ELSE @] /\ card' = ClosedCard
    BY <1>1 DEF FileCloses, ClosedFatfs
  <2>2. player' = [player EXCEPT !.state = s, !.isOpen = FALSE, !.pos = IF while = "PAUSED" THEN player.pos ELSE 0]
    BY <1>1 DEF FileCloses, ClosedPos
  <2>3. player' \in [state : FileStates, isOpen : BOOLEAN, uri : FileUris, pos : Nat]
        /\ player'.state = s /\ player'.pos = IF while = "PAUSED" THEN player.pos ELSE 0
    BY <1>0, <2>2 DEF FileTypes
  <2>4. /\ fatfs' \in [type : {"reader", "writer"}, isOpen : BOOLEAN, wType : FileUris \cup {"unknown"},
                       file : {"none", "open", "closed"}, at : Nat]
        /\ fatfs'.type = fatfs.type /\ fatfs'.wType = fatfs.wType
        /\ fatfs'.file = (IF fatfs.isOpen THEN "closed" ELSE fatfs.file) /\ fatfs'.isOpen = FALSE
    BY <1>0, <2>1 DEF FileTypes
  <2> QED
    BY <1>1, <2>1, <2>3, <2>4
<1>2. CASE ~player.isOpen
  BY <1>0, <1>2 DEF FileTypes, FileCloses
<1> QED
  BY <1>1, <1>2

\* A recording that has run and is closed is final.
LEMMA ClosedCardFinal ==
  ASSUME FileInv, player.state = "RUNNING", ~Reader, ~story.odd
  PROVE  story.got = UpTo(Len(story.got)) /\ ClosedCard = Final(fatfs.wType, Len(story.got))
<1> DEFINE n == Len(story.got)
<1>1. /\ fatfs.file = "open" /\ story.got = UpTo(n) /\ player.pos = n /\ card = Recording(fatfs.wType, n, Empty)
      /\ n \in Nat
  BY DEF FileInv, FileTypes, RunInv, RecordInv
<1>2. CASE fatfs.wType = "wav"
  <2>1. ClosedCard = Put(card, 0, Wav(n))
    BY <1>1, <1>2 DEF ClosedCard, Tells
  <2> QED
    BY <1>1, <1>2, <2>1, PutHeader
<1>3. CASE fatfs.wType # "wav"
  <2>1. ClosedCard = card
    BY <1>3 DEF ClosedCard, Tells
  <2> QED
    BY <1>1, <1>3, <2>1 DEF Final
<1> QED
  BY <1>1, <1>2, <1>3

\* A file that runs is closed.
LEMMA RunCloses ==
  ASSUME FileInv, player.state = "RUNNING", NEW s \in {"PAUSED", "STOPPED", "FINISHED"},
         FileCloses(IF s = "PAUSED" THEN "PAUSED" ELSE "RUNNING", s), FileTypes', story'.got = story.got,
         story'.odd = (story.odd \/ (s = "PAUSED" /\ ~Reader)), s = "FINISHED" /\ Reader => fatfs.at >= FileSize
  PROVE  FileInv'
<1>0. FileTypes /\ player.isOpen /\ fatfs.isOpen /\ fatfs.file = "open"
  BY DEF FileInv, RunInv
<1> DEFINE while == IF s = "PAUSED" THEN "PAUSED" ELSE "RUNNING"
<1>1. s \in FileStates
  BY DEF FileStates
<1>2. /\ player'.state = s /\ fatfs'.type = fatfs.type /\ fatfs'.wType = fatfs.wType
      /\ player'.pos = (IF while = "PAUSED" THEN player.pos ELSE 0)
      /\ fatfs'.file = "closed" /\ fatfs'.isOpen = FALSE /\ card' = ClosedCard
  <2>1. FileCloses(while, s)
    OBVIOUS
  <2> HIDE DEF while
  <2> QED
    BY <1>0, <1>1, <2>1, FileClosesIs
<1>3. player'.pos = IF s = "PAUSED" THEN player.pos ELSE 0
  BY <1>2
<1>4. RunInv'
  BY <1>2 DEF RunInv
<1>5. Reader' = Reader
  BY <1>2 DEF Reader
<1>6. PlayInv'
  <2> SUFFICES ASSUME Reader, ~story.odd PROVE PlayInv'
    BY <1>5 DEF PlayInv
  <2>1. /\ story.got = UpTo(Len(story.got)) /\ Len(story.got) <= FileSize
        /\ fatfs.at = Len(story.got) /\ player.pos = Len(story.got)
    BY DEF FileInv, PlayInv
  <2>2. s = "FINISHED" => Len(story.got) = FileSize
    BY <1>0, <2>1, FileBounds DEF FileTypes
  <2> QED
    BY <1>2, <1>3, <2>1, <2>2 DEF PlayInv
<1>7. RecordInv'
  <2> SUFFICES ASSUME ~Reader, ~story.odd, s # "PAUSED" PROVE RecordInv'
    BY <1>5 DEF RecordInv
  <2> QED
    BY <1>2, <1>3, ClosedCardFinal DEF RecordInv
<1> QED
  BY <1>4, <1>6, <1>7 DEF FileInv

LEMMA PauseInv == FileInv /\ Pause => FileInv'
<1> SUFFICES ASSUME FileInv, Pause PROVE FileInv'
  OBVIOUS
<1>0. FileTypes /\ player.state = "RUNNING" /\ FileCloses("PAUSED", "PAUSED")
  BY DEF FileInv, Pause
<1> DEFINE odd == story.odd \/ ~Reader
<1>1. odd \in BOOLEAN /\ odd = (story.odd \/ ~Reader)
  BY <1>0 DEF FileTypes, Reader
<1> DEFINE h == Ordered(story)
<1>2. /\ story' = [h EXCEPT !.odd = @ \/ ~Reader]
      /\ h \in [got : Seq(Nat), odd : BOOLEAN, orders : Nat] /\ h.got = story.got /\ h.odd = story.odd
  BY <1>0, OrderedIs DEF Pause
<1> HIDE DEF odd, h
<1>3. story' = [h EXCEPT !.odd = odd]
  BY <1>1, <1>2
<1>4. story' \in [got : Seq(Nat), odd : BOOLEAN, orders : Nat] /\ story'.got = story.got /\ story'.odd = odd
  <2>1. story' = [got |-> h.got, odd |-> odd, orders |-> h.orders]
    BY <1>1, <1>2, <1>3, OddWith
  <2>2. h.orders \in Nat /\ h.got \in Seq(Nat)
    BY <1>2
  <2> QED
    BY <1>1, <1>2, <2>1, <2>2
<1>5. FileTypes'
  <2>1. "PAUSED" \in FileStates
    BY DEF FileStates
  <2> QED
    BY <1>0, <1>4, <2>1, FileClosesIs DEF FileTypes, FileInv, RunInv
<1> QED
  BY <1>0, <1>1, <1>4, <1>5, RunCloses
LEMMA StopInv == FileInv /\ Stop => FileInv'
<1> SUFFICES ASSUME FileInv, Stop PROVE FileInv'
  OBVIOUS
<1>0. FileTypes /\ FileCloses(player.state, "STOPPED") /\ story' = Ordered(story)
  BY DEF FileInv, Stop
<1>1. story' \in [got : Seq(Nat), odd : BOOLEAN, orders : Nat] /\ story'.got = story.got /\ story'.odd = story.odd
  BY <1>0, OrderedIs
<1>2. "STOPPED" \in FileStates
  BY DEF FileStates
<1>3. FileTypes'
  BY <1>0, <1>1, <1>2, FileClosesIs DEF FileTypes, FileInv, RunInv
<1>4. CASE player.state = "RUNNING"
  <2>1. FileCloses("RUNNING", "STOPPED") /\ story'.odd = (story.odd \/ ("STOPPED" = "PAUSED" /\ ~Reader))
    BY <1>0, <1>1, <1>4 DEF FileTypes
  <2> QED
    BY <1>0, <1>1, <1>3, <1>4, <2>1, RunCloses
<1>5. CASE player.state = "PAUSED" /\ ~player.isOpen
  <2>1. player'.state = "STOPPED" /\ player'.pos = player.pos /\ fatfs' = fatfs /\ card' = card
    BY <1>0, <1>2, <1>5, FileClosesIs
  <2>2. Reader' = Reader
    BY <2>1 DEF Reader
  <2>3. PlayInv'
    BY <1>1, <1>5, <2>1, <2>2 DEF PlayInv, FileInv
  <2>4. RecordInv'
    BY <1>1, <1>5, <2>1, <2>2 DEF RecordInv, FileInv
  <2>5. RunInv'
    BY <2>1 DEF RunInv
  <2> QED
    BY <1>3, <2>3, <2>4, <2>5 DEF FileInv
<1> QED
  BY <1>4, <1>5 DEF Stop

LEMMA SetUriInv ==
  ASSUME FileInv, NEW u \in FileUris, SetUri(u)
  PROVE  FileInv'
<1>0. FileTypes /\ player.state # "RUNNING" /\ fatfs' = fatfs /\ card' = card
  BY DEF FileInv, SetUri, RunInv
<1>1. /\ player' \in [state : FileStates, isOpen : BOOLEAN, uri : FileUris, pos : Nat]
      /\ player'.state = player.state /\ player'.pos = player.pos
  BY <1>0 DEF FileTypes, SetUri
<1> DEFINE odd == story.odd \/ player.pos > 0
           h == Ordered(story)
<1>2. odd \in BOOLEAN /\ odd = (story.odd \/ player.pos > 0) /\ (story.odd => odd)
  BY <1>0 DEF FileTypes
<1>3. /\ story' = [h EXCEPT !.odd = @ \/ player.pos > 0]
      /\ h \in [got : Seq(Nat), odd : BOOLEAN, orders : Nat] /\ h.got = story.got /\ h.odd = story.odd
  BY <1>0, OrderedIs DEF SetUri
<1> HIDE DEF odd, h
<1>4. story' = [h EXCEPT !.odd = odd]
  BY <1>2, <1>3
<1>5. story' \in [got : Seq(Nat), odd : BOOLEAN, orders : Nat] /\ story'.got = story.got /\ (story.odd => story'.odd)
  <2>1. story' = [got |-> h.got, odd |-> odd, orders |-> h.orders]
    BY <1>2, <1>3, <1>4, OddWith
  <2>2. h.orders \in Nat /\ h.got \in Seq(Nat)
    BY <1>3
  <2> QED
    BY <1>2, <1>3, <2>1, <2>2
<1>6. FileTypes' /\ RunInv' /\ Reader' = Reader
  BY <1>0, <1>1, <1>5 DEF FileTypes, RunInv, Reader
<1>7. PlayInv'
  BY <1>0, <1>1, <1>5, <1>6 DEF PlayInv, FileInv
<1>8. RecordInv'
  BY <1>0, <1>1, <1>5, <1>6 DEF RecordInv, FileInv
<1> QED
  BY <1>6, <1>7, <1>8 DEF FileInv

\* An open that has failed.
LEMMA FailsOpenInv == FileInv /\ FailsOpen => FileInv'
<1> SUFFICES ASSUME FileInv, FailsOpen PROVE FileInv'
  OBVIOUS
<1>0. FileTypes /\ FileCloses(player.state, "ERROR") /\ story' = story /\ player.isOpen /\ player.state # "RUNNING"
  BY DEF FileInv, FailsOpen
<1>1. "ERROR" \in FileStates
  BY DEF FileStates
<1>2. /\ player'.state = "ERROR" /\ fatfs'.type = fatfs.type /\ fatfs'.wType = fatfs.wType
      /\ player'.pos = (IF player.state = "PAUSED" THEN player.pos ELSE 0)
      /\ fatfs'.file = (IF fatfs.isOpen THEN "closed" ELSE fatfs.file) /\ fatfs'.isOpen = FALSE /\ card' = ClosedCard
  BY <1>0, <1>1, FileClosesIs
<1>3. FileTypes' /\ RunInv' /\ Reader' = Reader
  BY <1>0, <1>1, <1>2, FileClosesIs DEF FileTypes, RunInv, Reader
<1>4. PlayInv'
  BY <1>0, <1>2, <1>3 DEF PlayInv, FileInv
<1>5. RecordInv'
  <2> SUFFICES ASSUME ~Reader, ~story.odd PROVE RecordInv'
    BY <1>0, <1>3 DEF RecordInv
  <2>1. player.state # "PAUSED" /\ player.pos = 0 /\ fatfs.file # "open" /\ ~fatfs.isOpen
    BY <1>0 DEF FileInv, RecordInv
  <2>2. card' = card
    BY <1>2, <2>1 DEF ClosedCard
  <2>3. player'.pos = 0 /\ fatfs'.file # "open" /\ fatfs'.isOpen = FALSE /\ story'.got = story.got
    BY <1>0, <1>2, <2>1
  <2>4. ASSUME fatfs'.file = "closed", story.got # <<>>
        PROVE  story.got = UpTo(Len(story.got)) /\ card' = Final(fatfs'.wType, Len(story.got))
    <3>1. fatfs.file = "closed"
      BY <1>2, <2>1, <2>4
    <3> QED
      BY <1>0, <1>2, <2>2, <2>4, <3>1 DEF FileInv, RecordInv
  <2> QED
    BY <1>2, <2>3, <2>4 DEF RecordInv
<1> QED
  BY <1>3, <1>4, <1>5 DEF FileInv

-----------------------------------------------------------------------------
LEMMA FileReadsInv == FileInv /\ FileReads => FileInv'
<1> SUFFICES ASSUME FileInv, FileReads PROVE FileInv'
  OBVIOUS
<1>0. /\ FileTypes /\ player.state = "RUNNING" /\ Reader /\ fatfs.at < FileSize /\ card' = card
      /\ fatfs' = [fatfs EXCEPT !.at = fatfs.at + 1] /\ player' = [player EXCEPT !.pos = player.pos + 1]
      /\ story' = [story EXCEPT !.got = Append(story.got, fatfs.at + 1)]
  BY DEF FileInv, FileReads
<1>1. /\ fatfs'.at = fatfs.at + 1 /\ fatfs'.type = fatfs.type /\ fatfs'.isOpen = fatfs.isOpen /\ fatfs'.file = fatfs.file
      /\ player'.pos = player.pos + 1 /\ player'.state = "RUNNING" /\ player'.isOpen = player.isOpen
  BY <1>0 DEF FileTypes
<1>2. /\ story'.got = Append(story.got, fatfs.at + 1) /\ story'.odd = story.odd
      /\ story' \in [got : Seq(Nat), odd : BOOLEAN, orders : Nat]
  <2>1. story \in [got : Seq(Nat), odd : BOOLEAN, orders : Nat] /\ Append(story.got, fatfs.at + 1) \in Seq(Nat)
    BY <1>0 DEF FileTypes
  <2>2. story' = [got |-> Append(story.got, fatfs.at + 1), odd |-> story.odd, orders |-> story.orders]
    BY <1>0, <2>1, GotWith
  <2> QED
    BY <2>1, <2>2
<1>3. FileTypes' /\ RunInv' /\ Reader'
  <2>1. fatfs' \in [type : {"reader", "writer"}, isOpen : BOOLEAN, wType : FileUris \cup {"unknown"},
                    file : {"none", "open", "closed"}, at : Nat]
    BY <1>0 DEF FileTypes
  <2>2. player' \in [state : FileStates, isOpen : BOOLEAN, uri : FileUris, pos : Nat]
    BY <1>0 DEF FileTypes
  <2> QED
    BY <1>0, <1>1, <1>2, <2>1, <2>2 DEF FileTypes, FileInv, RunInv, Reader
<1>4. PlayInv'
  <2> SUFFICES ASSUME ~story.odd PROVE PlayInv'
    BY <1>2 DEF PlayInv
  <2> DEFINE n == Len(story.got)
  <2>1. story.got = UpTo(n) /\ n \in Nat /\ fatfs.at = n /\ player.pos = n
    BY <1>0 DEF PlayInv, FileInv, FileTypes
  <2> HIDE DEF n
  <2>2. story'.got = UpTo(n + 1)
    BY <1>2, <2>1, UpToNext
  <2>3. Len(story'.got) = n + 1 /\ n + 1 <= FileSize
    <3>1. n \in Nat /\ n + 1 \in Nat /\ FileSize \in Nat /\ n < FileSize
      BY <1>0, <2>1, FileBounds
    <3>2. Len(UpTo(n + 1)) = n + 1
      BY <3>1, UpToNext
    <3>3. n + 1 <= FileSize
      BY <3>1
    <3> QED
      BY <2>2, <3>2, <3>3
  <2> QED
    BY <1>1, <2>1, <2>2, <2>3 DEF PlayInv
<1>5. RecordInv'
  BY <1>3 DEF RecordInv
<1> QED
  BY <1>3, <1>4, <1>5 DEF FileInv

LEMMA FileWritesInv == FileInv /\ FileWrites => FileInv'
<1> SUFFICES ASSUME FileInv, FileWrites PROVE FileInv'
  OBVIOUS
<1> DEFINE n == Len(story.got)
<1>0. /\ FileTypes /\ player.state = "RUNNING" /\ ~Reader /\ n \in Nat
      /\ card' = Put(card, fatfs.at, Audio(n + 1))
      /\ fatfs' = [fatfs EXCEPT !.at = fatfs.at + 1] /\ player' = [player EXCEPT !.pos = player.pos + 1]
      /\ story' = [story EXCEPT !.got = Append(story.got, n + 1)]
  BY DEF FileInv, FileTypes, FileWrites
<1> HIDE DEF n
<1>1. /\ fatfs'.at = fatfs.at + 1 /\ fatfs'.type = fatfs.type /\ fatfs'.isOpen = fatfs.isOpen /\ fatfs'.file = fatfs.file
      /\ fatfs'.wType = fatfs.wType
      /\ player'.pos = player.pos + 1 /\ player'.state = "RUNNING" /\ player'.isOpen = player.isOpen
  BY <1>0 DEF FileTypes
<1>2. /\ story'.got = Append(story.got, n + 1) /\ story'.odd = story.odd
      /\ story' \in [got : Seq(Nat), odd : BOOLEAN, orders : Nat]
  <2>1. story \in [got : Seq(Nat), odd : BOOLEAN, orders : Nat] /\ Append(story.got, n + 1) \in Seq(Nat)
    BY <1>0 DEF FileTypes
  <2>2. story' = [got |-> Append(story.got, n + 1), odd |-> story.odd, orders |-> story.orders]
    BY <1>0, <2>1, GotWith
  <2> QED
    BY <2>1, <2>2
<1>3. FileTypes' /\ RunInv' /\ ~Reader'
  <2>1. fatfs' \in [type : {"reader", "writer"}, isOpen : BOOLEAN, wType : FileUris \cup {"unknown"},
                    file : {"none", "open", "closed"}, at : Nat]
    <3>1. fatfs.at + 1 \in Nat
      BY <1>0 DEF FileTypes
    <3> QED
      BY <1>0, <3>1 DEF FileTypes
  <2>2. player' \in [state : FileStates, isOpen : BOOLEAN, uri : FileUris, pos : Nat]
    BY <1>0 DEF FileTypes
  <2> QED
    BY <1>0, <1>1, <1>2, <2>1, <2>2 DEF FileTypes, FileInv, RunInv, Reader
<1>4. PlayInv'
  BY <1>3 DEF PlayInv
<1>5. RecordInv'
  <2> SUFFICES ASSUME ~story.odd PROVE RecordInv'
    BY <1>2 DEF RecordInv
  <2>1. /\ story.got = UpTo(n) /\ player.pos = n /\ fatfs.at = HeaderLen(fatfs.wType) + n
        /\ card = Recording(fatfs.wType, n, Empty) /\ fatfs.file = "open"
    BY <1>0 DEF RecordInv, RunInv, FileInv, n
  <2>2. story'.got = UpTo(n + 1) /\ Len(story'.got) = n + 1
    BY <1>0, <1>2, <2>1, UpToNext
  <2>3. card' = Recording(fatfs.wType, n + 1, Empty)
    BY <1>0, <2>1, PutNext
  <2>4. fatfs'.at = HeaderLen(fatfs.wType) + (n + 1)
    BY <1>0, <1>1, <2>1 DEF HeaderLen
  <2> QED
    BY <1>1, <2>1, <2>2, <2>3, <2>4 DEF RecordInv
<1> QED
  BY <1>3, <1>4, <1>5 DEF FileInv

LEMMA FileFinishesInv == FileInv /\ FileFinishes => FileInv'
<1> SUFFICES ASSUME FileInv, FileFinishes PROVE FileInv'
  OBVIOUS
<1>0. /\ FileTypes /\ player.state = "RUNNING" /\ FileCloses("RUNNING", "FINISHED") /\ story' = story
      /\ Reader => fatfs.at >= FileSize
  BY DEF FileInv, FileFinishes
<1>1. "FINISHED" \in FileStates
  BY DEF FileStates
<1>2. FileTypes'
  BY <1>0, <1>1, FileClosesIs DEF FileTypes, FileInv, RunInv
<1>3. story'.odd = (story.odd \/ ("FINISHED" = "PAUSED" /\ ~Reader))
  BY <1>0 DEF FileTypes
<1> QED
  BY <1>0, <1>2, <1>3, RunCloses

LEMMA FileStep == FileInv /\ [FileNext]_files => FileInv'
<1> SUFFICES ASSUME FileInv, [FileNext]_files PROVE FileInv'
  OBVIOUS
<1>1. CASE FileNext
  <2>1. CASE Resume
    BY <2>1, OpenSucceedsInv, OpenFailsInv DEF Resume
  <2> QED
    BY <1>1, <2>1, FileReadsInv, FileWritesInv, FileFinishesInv, FailsOpenInv, PauseInv, StopInv, SetUriInv
       DEF FileNext, FileSteps
<1>2. CASE UNCHANGED files
  BY <1>2 DEF files, FileInv, FileTypes, RunInv, PlayInv, RecordInv, Reader
<1> QED
  BY <1>1, <1>2

\* A final recording in the words of FileKept.
LEMMA FinalIs ==
  ASSUME NEW w, NEW n \in Nat, NEW got, got = UpTo(n)
  PROVE  LET audio == [i \in DOMAIN got |-> Audio(got[i])]
         IN  /\ Len(audio) = n
             /\ Final(w, n) = CASE w = "wav" -> <<Wav(Len(audio))>> \o audio
                                [] w = "amr" -> <<Empty>> \o audio
                                [] OTHER -> audio
<1> DEFINE audio == [i \in DOMAIN got |-> Audio(got[i])]
<1>1. audio = [i \in 1..n |-> Audio(i)]
  BY DEF UpTo
<1>2. Len(audio) = n /\ audio \in Seq({Audio(i) : i \in 1..n})
  BY <1>1
<1> HIDE DEF audio
<1>3. ASSUME NEW h PROVE <<h>> \o audio = [i \in 1..(1 + n) |-> IF i <= 1 THEN h ELSE Audio(i - 1)]
  <2> DEFINE all == {h} \cup {Audio(i) : i \in 1..n}
             c == <<h>> \o audio
  <2>1. <<h>> \in Seq(all) /\ audio \in Seq(all) /\ Len(<<h>>) = 1
    BY <1>1, <1>2
  <2>2. c \in Seq(all) /\ Len(c) = 1 + n
    BY <1>2, <2>1
  <2>3. DOMAIN c = 1..(1 + n)
    BY <2>2
  <2>4. ASSUME NEW i \in 1..(1 + n) PROVE c[i] = IF i <= 1 THEN h ELSE Audio(i - 1)
    BY <1>1, <1>2, <2>1
  <2> HIDE DEF c
  <2>5. c = [i \in 1..(1 + n) |-> IF i <= 1 THEN h ELSE Audio(i - 1)]
    BY <2>2, <2>3, <2>4
  <2> QED
    BY <2>5 DEF c
<1>4. CASE w = "wav"
  <2>1. Final(w, n) = [i \in 1..(1 + n) |-> IF i <= 1 THEN Wav(n) ELSE Audio(i - 1)]
    BY <1>4 DEF Final, Recording, HeaderLen
  <2>2. Final(w, n) = <<Wav(Len(audio))>> \o audio
    BY <1>2, <1>3, <2>1
  <2> QED
    BY <1>2, <1>4, <2>2 DEF audio
<1>5. CASE w = "amr"
  <2>1. Final(w, n) = [i \in 1..(1 + n) |-> IF i <= 1 THEN Empty ELSE Audio(i - 1)]
    BY <1>5 DEF Final, Recording, HeaderLen
  <2>2. Final(w, n) = <<Empty>> \o audio
    BY <1>3, <2>1
  <2> QED
    BY <1>2, <1>5, <2>2 DEF audio
<1>6. CASE w \notin {"wav", "amr"}
  <2>1. Final(w, n) = [i \in 1..(0 + n) |-> IF i <= 0 THEN Empty ELSE Audio(i - 0)]
    BY <1>6 DEF Final, Recording, HeaderLen
  <2>2. Final(w, n) = audio
    BY <1>1, <2>1
  <2> QED
    BY <1>2, <1>6, <2>2 DEF audio
<1> QED
  BY <1>4, <1>5, <1>6

LEMMA FileInvKept == FileInv => FileKept
<1> SUFFICES ASSUME FileInv PROVE FileKept
  OBVIOUS
<1>1. Reader /\ ~story.odd => story.got = [i \in 1..Len(story.got) |-> i]
  BY DEF FileInv, PlayInv, UpTo
<1>2. Reader /\ ~story.odd /\ player.state = "FINISHED" => Len(story.got) = FileSize
  BY DEF FileInv, PlayInv
<1>3. ASSUME ~Reader, fatfs.file = "closed", ~story.odd, story.got # <<>>
      PROVE  LET audio == [i \in DOMAIN story.got |-> Audio(story.got[i])]
             IN  card = CASE fatfs.wType = "wav" -> <<Wav(Len(audio))>> \o audio
                          [] fatfs.wType = "amr" -> <<Empty>> \o audio
                          [] OTHER -> audio
  <2>1. story.got = UpTo(Len(story.got)) /\ card = Final(fatfs.wType, Len(story.got)) /\ Len(story.got) \in Nat
    BY <1>3 DEF FileInv, RecordInv, FileTypes
  <2> QED
    BY <2>1, FinalIs, ZenonT(40)
<1> QED
  BY <1>1, <1>2, <1>3 DEF FileKept
-----------------------------------------------------------------------------
(***************************************************************************)
(* A codec.                                                                *)
(***************************************************************************)

Codecs ==
  [kind : Kinds, state : {"INIT", "RUNNING", "PAUSED", "STOPPED", "FINISHED", "ERROR"}, parsed : BOOLEAN,
   buf : [1..PointNum -> Int], offset : 0..PointNum, pos : Nat]
SongRecords == [left : Seq(Int), came : Nat, out : Seq(Int), ends : BOOLEAN, spoilt : BOOLEAN, turns : Nat]
\* Only the encoder keeps units.
CodecTypes ==
  /\ codec \in Codecs /\ song \in SongRecords
  /\ codec.kind # "rsp_encoder" => codec.offset = 0
\* What has come is what has gone on and what waits in the buffer.
OutInv ==
  /\ song.came = Len(song.out) + codec.offset
  /\ \A i \in 1..Len(song.out) : song.out[i] = i
  /\ \A i \in 1..codec.offset : codec.buf[i] = Len(song.out) + i
\* What is still to come goes on from there, or is a song whose header is not parsed yet, or none.
LeftInv ==
  codec.state \in {"RUNNING", "PAUSED"} =>
    \/ /\ codec.kind = "wav_decoder" /\ ~codec.parsed /\ song.came = 0
       /\ \A i \in 2..Len(song.left) : song.left[1] = Head1 => song.left[i] = i - 1
    \/ /\ codec.kind = "wav_decoder" => codec.parsed
       /\ \A i \in 1..Len(song.left) : song.left[i] = song.came + i
PosInv == ~Resamples /\ codec.state \in {"RUNNING", "PAUSED"} => codec.pos = Len(song.out)
CodecInv ==
  /\ CodecTypes
  /\ ~song.spoilt /\ ~song.ends => OutInv /\ LeftInv /\ PosInv

\* How much music there is in what was read.
LEMMA MusicCount ==
  ASSUME NEW read \in Seq(Int)
  PROVE  /\ Cardinality(MusicIn(read)) \in Nat
         /\ (\A i \in 1..Len(read) : read[i] # Head1) => Cardinality(MusicIn(read)) = Len(read)
         /\ read # <<>> /\ read[1] = Head1 /\ (\A i \in 2..Len(read) : read[i] # Head1)
              => Cardinality(MusicIn(read)) = Len(read) - 1
<1>0. Len(read) \in Nat /\ DOMAIN read = 1..Len(read)
  OBVIOUS
<1>1. IsFiniteSet(1..Len(read)) /\ Cardinality(1..Len(read)) = Len(read)
  BY <1>0, FS_Interval, SMTT(30)
<1>2. Cardinality(MusicIn(read)) \in Nat
  <2>1. MusicIn(read) \subseteq 1..Len(read)
    BY <1>0 DEF MusicIn
  <2>2. IsFiniteSet(MusicIn(read))
    BY <1>1, <2>1, FS_Subset
  <2> QED
    BY <2>2, FS_CardinalityType
<1>3. ASSUME \A i \in 1..Len(read) : read[i] # Head1 PROVE Cardinality(MusicIn(read)) = Len(read)
  <2>1. MusicIn(read) = 1..Len(read)
    BY <1>0, <1>3 DEF MusicIn
  <2> QED
    BY <1>1, <2>1
<1>4. ASSUME read # <<>>, read[1] = Head1, \A i \in 2..Len(read) : read[i] # Head1
      PROVE  Cardinality(MusicIn(read)) = Len(read) - 1
  <2>0. Len(read) >= 1
    BY <1>4
  <2>1. MusicIn(read) = 2..Len(read)
    <3>1. \A i \in 1..Len(read) : i = 1 \/ i \in 2..Len(read)
      BY <1>0
    <3>2. \A i \in 2..Len(read) : i \in 1..Len(read)
      BY <1>0
    <3> QED
      BY <1>0, <1>4, <3>1, <3>2 DEF MusicIn
  <2>2. 2 \in Int /\ Len(read) \in Int
    BY <1>0
  <2>3. Cardinality(2..Len(read)) = IF 2 > Len(read) THEN 0 ELSE Len(read) - 2 + 1
    BY <2>2, FS_Interval
  <2> QED
    BY <1>0, <2>0, <2>1, <2>3
<1> QED
  BY <1>2, <1>3, <1>4

\* What a read gets, and what it leaves.
LEMMA InputIs ==
  ASSUME CodecTypes, NEW wanted \in Nat
  PROVE  LET read == InputOf(wanted)
             rest == SubSeq(song.left, Len(read) + 1, Len(song.left))
         IN  /\ read \in Seq(Int) /\ rest \in Seq(Int)
             /\ Len(read) = IF wanted < Len(song.left) THEN wanted ELSE Len(song.left)
             /\ \A i \in 1..Len(read) : read[i] = song.left[i]
             /\ Len(rest) = Len(song.left) - Len(read)
             /\ \A i \in 1..Len(rest) : rest[i] = song.left[Len(read) + i]
<1>0. song.left \in Seq(Int) /\ Len(song.left) \in Nat
  BY DEF CodecTypes, SongRecords
<1> DEFINE n == IF wanted < Len(song.left) THEN wanted ELSE Len(song.left)
           read == InputOf(wanted)
           rest == SubSeq(song.left, Len(read) + 1, Len(song.left))
<1>1. n \in Nat /\ n <= Len(song.left)
  BY <1>0
<1>2. read = SubSeq(song.left, 1, n)
  BY DEF InputOf
<1> HIDE DEF n
<1>3. read \in Seq(Int) /\ Len(read) = n /\ \A i \in 1..Len(read) : read[i] = song.left[i]
  BY <1>0, <1>1, <1>2
<1> HIDE DEF read
<1>4. rest \in Seq(Int) /\ Len(rest) = Len(song.left) - n /\ \A i \in 1..Len(rest) : rest[i] = song.left[n + i]
  BY <1>0, <1>1, <1>3
<1> QED
  BY <1>3, <1>4 DEF n, read

LEMMA GivenIs ==
  ASSUME CodecTypes, NEW wanted \in Nat, NEW out \in Seq(Int), NEW e \in BOOLEAN
  PROVE  LET read == InputOf(wanted)
             rest == SubSeq(song.left, Len(read) + 1, Len(song.left))
             s == Given(read, out)
         IN  /\ s = [left |-> rest, came |-> song.came + Cardinality(MusicIn(read)), out |-> song.out \o out,
                     ends |-> song.ends, spoilt |-> song.spoilt, turns |-> song.turns]
             /\ s \in SongRecords
<1> DEFINE read == InputOf(wanted)
           rest == SubSeq(song.left, Len(read) + 1, Len(song.left))
           k == song.came + Cardinality(MusicIn(read))
           o == song.out \o out
<1>1. read \in Seq(Int) /\ rest \in Seq(Int)
  BY InputIs
<1>2. k \in Nat
  <2>1. Cardinality(MusicIn(read)) \in Nat
    BY <1>1, MusicCount
  <2> HIDE DEF read
  <2> QED
    BY <2>1 DEF CodecTypes, SongRecords
<1>3. o \in Seq(Int)
  BY DEF CodecTypes, SongRecords
<1>4. Given(read, out) = [song EXCEPT !.left = rest, !.came = k, !.out = o]
  BY DEF Given
<1> HIDE DEF read, rest, k, o
<1> DEFINE u == [song EXCEPT !.left = rest, !.came = k, !.out = o]
<1>a. song \in SongRecords
  BY DEF CodecTypes
<1>b. u \in SongRecords
  BY <1>1, <1>2, <1>3, <1>a DEF SongRecords
<1>c. u.left = rest /\ u.came = k /\ u.out = o
  BY <1>a DEF SongRecords
<1>d. u.ends = song.ends /\ u.spoilt = song.spoilt /\ u.turns = song.turns
  BY <1>a DEF SongRecords
<1>e. Given(read, out) = u
  BY <1>4
<1> HIDE DEF u
<1>5. u = [left |-> rest, came |-> k, out |-> o, ends |-> song.ends, spoilt |-> song.spoilt, turns |-> song.turns]
  BY <1>b, <1>c, <1>d DEF SongRecords
<1>6. Given(read, out) \in SongRecords
  BY <1>b, <1>e
<1> QED
  BY <1>5, <1>6, <1>e DEF read, rest, k, o

LEMMA CodecInitInv == CodecInit => CodecInv
<1> SUFFICES ASSUME CodecInit PROVE CodecInv
  OBVIOUS
<1>1. Fresh \in [1..PointNum -> Int]
  BY DEF Fresh, Junk
<1>2. codec \in [kind : Kinds, state : {"INIT"}, parsed : {FALSE}, buf : {Fresh}, offset : {0}, pos : {0}]
  BY DEF CodecInit
<1>3. codec \in Codecs /\ codec.state = "INIT" /\ codec.offset = 0
  <2>1. PICK k \in Kinds : codec = [kind |-> k, state |-> "INIT", parsed |-> FALSE, buf |-> Fresh, offset |-> 0, pos |-> 0]
    BY <1>2
  <2>2. 0 \in 0..PointNum
    BY CodecBounds
  <2>3. codec \in Codecs
    BY <1>1, <2>1, <2>2 DEF Codecs
  <2> QED
    BY <2>1, <2>3
<1>4. song = [left |-> <<>>, came |-> 0, out |-> <<>>, ends |-> FALSE, spoilt |-> FALSE, turns |-> 0]
  BY DEF CodecInit
<1>5. song \in SongRecords /\ song.out = <<>> /\ song.came = 0
  BY <1>4 DEF SongRecords
<1> QED
  BY <1>3, <1>5 DEF CodecInv, CodecTypes, OutInv, LeftInv, PosInv

-----------------------------------------------------------------------------
\* What an open makes of a codec.
LEMMA OpenedIs ==
  ASSUME CodecTypes
  PROVE  /\ CodecOpened \in Codecs /\ CodecOpened.kind = codec.kind /\ CodecOpened.state = "RUNNING"
         /\ CodecOpened.parsed = codec.parsed /\ CodecOpened.offset = codec.offset /\ CodecOpened.pos = codec.pos
         /\ Resamples \/ CodecOpened.buf = codec.buf
<1> DEFINE b == IF Resamples THEN Fresh ELSE codec.buf
<1>1. b \in [1..PointNum -> Int] /\ (Resamples \/ b = codec.buf)
  BY DEF CodecTypes, Codecs, Fresh, Junk
<1>2. CodecOpened = [codec EXCEPT !.state = "RUNNING", !.buf = b]
  BY DEF CodecOpened
<1> HIDE DEF b
<1> QED
  BY <1>1, <1>2 DEF CodecTypes, Codecs

\* A song, in each of its forms.
LEMMA SongIs ==
  ASSUME NEW s \in Songs
  PROVE  /\ s \in Seq(Int)
         /\ \/ Head(s \o <<0>>) # Head1 /\ \A i \in 1..Len(s) : s[i] = i
            \/ Head(s \o <<0>>) = Head1 /\ \A i \in 2..Len(s) : s[i] = i - 1
<1>1. CASE s \in {[i \in 1..n |-> i] : n \in 0..SongLen}
  <2>1. PICK n \in 0..SongLen : s = [i \in 1..n |-> i]
    BY <1>1
  <2>2. n \in Nat
    BY CodecBounds
  <2>3. s \in Seq(Int) /\ Len(s) = n /\ \A i \in 1..Len(s) : s[i] = i
    BY <2>1, <2>2
  <2>4. Head(s \o <<0>>) # Head1
    <3>1. Head(s \o <<0>>) = IF n = 0 THEN 0 ELSE s[1]
      BY <2>2, <2>3
    <3> QED
      BY <2>2, <2>3, <3>1 DEF Head1
  <2> QED
    BY <2>3, <2>4
<1>2. CASE s \in {<<Head1>> \o [i \in 1..n |-> i] : n \in 0..SongLen}
  <2>1. PICK n \in 0..SongLen : s = <<Head1>> \o [i \in 1..n |-> i]
    BY <1>2
  <2> DEFINE m == [i \in 1..n |-> i]
  <2>2. n \in Nat
    BY CodecBounds
  <2>3. m \in Seq(Int) /\ Len(m) = n /\ \A i \in 1..n : m[i] = i
    BY <2>2
  <2>4. s = <<Head1>> \o m /\ <<Head1>> \in Seq(Int)
    BY <2>1 DEF Head1
  <2> HIDE DEF m
  <2>5. s \in Seq(Int) /\ Len(s) = 1 + n /\ s[1] = Head1 /\ \A i \in 2..Len(s) : s[i] = i - 1
    BY <2>2, <2>3, <2>4
  <2>6. Head(s \o <<0>>) = Head1
    BY <2>2, <2>5
  <2> QED
    BY <2>5, <2>6
<1> QED
  BY <1>1, <1>2 DEF Songs

LEMMA SongBeginsInv == CodecInv /\ SongBegins => CodecInv'
<1> SUFFICES ASSUME CodecInv, SongBegins PROVE CodecInv'
  OBVIOUS
<1>0. CodecTypes /\ codec' = CodecOpened
  BY DEF CodecInv, SongBegins
<1> DEFINE bad == codec.parsed \/ codec.offset > 0 \/ codec.pos > 0
<1>1. bad \in BOOLEAN /\ (~bad => ~codec.parsed /\ codec.offset = 0 /\ codec.pos = 0)
  BY <1>0 DEF CodecTypes, Codecs
<1>2. PICK s \in Songs :
        /\ (Head(s \o <<0>>) = Head1) => codec.kind = "wav_decoder"
        /\ song' = [left |-> s, came |-> 0, out |-> <<>>, ends |-> FALSE, turns |-> song.turns + 1, spoilt |-> bad]
  BY DEF SongBegins
<1> HIDE DEF bad
<1>3. /\ codec' \in Codecs /\ codec'.kind = codec.kind /\ codec'.parsed = codec.parsed /\ codec'.offset = codec.offset
      /\ codec'.pos = codec.pos
  BY <1>0, OpenedIs
<1>4. s \in Seq(Int)
  BY SongIs
<1>5. song.turns + 1 \in Nat
  BY <1>0 DEF CodecTypes, SongRecords
<1>6. /\ song' \in SongRecords /\ song'.left = s /\ song'.came = 0 /\ song'.out = <<>> /\ song'.spoilt = bad
  BY <1>1, <1>2, <1>4, <1>5 DEF SongRecords
<1>7. CodecTypes'
  BY <1>0, <1>3, <1>6 DEF CodecTypes
<1>8. ASSUME ~song'.spoilt PROVE OutInv' /\ LeftInv' /\ PosInv'
  <2>1. ~codec'.parsed /\ codec'.offset = 0 /\ codec'.pos = 0
    BY <1>1, <1>3, <1>6, <1>8
  <2>2. OutInv' /\ PosInv'
    BY <1>6, <2>1 DEF OutInv, PosInv
  <2>3. LeftInv'
    <3>1. CASE Head(s \o <<0>>) = Head1
      <4>1. \A i \in 2..Len(s) : s[i] = i - 1
        BY <3>1, SongIs
      <4> QED
        BY <1>2, <1>3, <1>6, <2>1, <3>1, <4>1 DEF LeftInv
    <3>2. CASE Head(s \o <<0>>) # Head1
      <4>1. \A i \in 1..Len(s) : s[i] = i
        BY <3>2, SongIs
      <4>2. \A i \in 1..Len(s) : s[i] = 0 + i
        BY <4>1
      <4>3. \A i \in 2..Len(s) : s[1] # Head1
        BY <1>4, <4>1 DEF Head1
      <4> QED
        BY <1>6, <2>1, <4>2, <4>3 DEF LeftInv
    <3> QED
      BY <3>1, <3>2
  <2> QED
    BY <2>2, <2>3
<1> QED
  BY <1>7, <1>8 DEF CodecInv
LEMMA ResumedInv == CodecInv /\ Resumed => CodecInv'
<1> SUFFICES ASSUME CodecInv, Resumed PROVE CodecInv'
  OBVIOUS
<1>0. CodecTypes /\ codec' = CodecOpened /\ codec.state = "PAUSED" /\ song \in SongRecords
  BY DEF CodecInv, CodecTypes, Resumed
<1> DEFINE bad == song.spoilt \/ codec.offset > 0
<1>1. bad \in BOOLEAN /\ (~bad => ~song.spoilt /\ codec.offset = 0)
  BY <1>0 DEF CodecTypes, SongRecords, Codecs
<1>2. song' = [song EXCEPT !.spoilt = bad]
  BY DEF Resumed
<1> HIDE DEF bad
<1>3. /\ codec' \in Codecs /\ codec'.kind = codec.kind /\ codec'.parsed = codec.parsed /\ codec'.offset = codec.offset
      /\ codec'.pos = codec.pos
  BY <1>0, OpenedIs
<1>4. /\ song' \in SongRecords /\ song'.left = song.left /\ song'.came = song.came /\ song'.out = song.out
      /\ song'.spoilt = bad /\ song'.ends = song.ends
  BY <1>0, <1>1, <1>2 DEF SongRecords
<1>5. CodecTypes'
  BY <1>0, <1>3, <1>4 DEF CodecTypes
<1>6. ASSUME ~song'.spoilt, ~song'.ends PROVE OutInv' /\ LeftInv' /\ PosInv'
  <2>1. codec.offset = 0 /\ OutInv /\ LeftInv /\ PosInv
    BY <1>1, <1>4, <1>6 DEF CodecInv
  <2>2. OutInv'
    BY <1>3, <1>4, <2>1 DEF OutInv
  <2>3. LeftInv'
    BY <1>0, <1>3, <1>4, <2>1 DEF LeftInv
  <2>4. PosInv'
    BY <1>0, <1>3, <1>4, <2>1 DEF PosInv, Resamples
  <2> QED
    BY <2>2, <2>3, <2>4
<1> QED
  BY <1>5, <1>6 DEF CodecInv

\* A codec that does not run any more keeps what it has given on.
LEMMA StillInv ==
  ASSUME CodecInv, codec' \in Codecs, codec'.kind = codec.kind, codec'.offset = codec.offset, codec'.buf = codec.buf,
         codec'.state \notin {"RUNNING", "PAUSED"},
         song' \in SongRecords, song'.came = song.came, song'.out = song.out, song'.spoilt = song.spoilt, song'.ends = song.ends
  PROVE  CodecInv'
<1>1. CodecTypes'
  BY DEF CodecInv, CodecTypes
<1>2. LeftInv' /\ PosInv'
  BY DEF LeftInv, PosInv
<1>3. OutInv => OutInv'
  BY DEF OutInv
<1> QED
  BY <1>1, <1>2, <1>3 DEF CodecInv

\* What the ends of a codec are.
LEMMA Closed2Is ==
  ASSUME CodecTypes, NEW s \in {"STOPPED", "FINISHED", "ERROR"}
  PROVE  /\ Closed2(s) \in Codecs /\ Closed2(s).kind = codec.kind /\ Closed2(s).offset = codec.offset
         /\ Closed2(s).buf = codec.buf /\ Closed2(s).state = s
  BY DEF CodecTypes, Codecs, Closed2

LEMMA HoldsInv == CodecInv /\ (Pauses2 \/ Stops2 \/ Finishes) => CodecInv'
<1> SUFFICES ASSUME CodecInv PROVE Pauses2 \/ Stops2 \/ Finishes => CodecInv'
  OBVIOUS
<1>0. CodecTypes /\ codec \in Codecs /\ song \in SongRecords
  BY DEF CodecInv, CodecTypes
<1>1. ASSUME Pauses2 PROVE CodecInv'
  <2>1. codec' = [codec EXCEPT !.state = "PAUSED"] /\ song' = [song EXCEPT !.turns = song.turns + 1] /\ Running
    BY <1>1 DEF Pauses2, ClosedPaused
  <2>2. /\ codec' \in Codecs /\ codec'.kind = codec.kind /\ codec'.parsed = codec.parsed /\ codec'.offset = codec.offset
        /\ codec'.pos = codec.pos /\ codec'.buf = codec.buf
    BY <1>0, <2>1 DEF Codecs
  <2>3. /\ song' \in SongRecords /\ song'.left = song.left /\ song'.came = song.came /\ song'.out = song.out
        /\ song'.spoilt = song.spoilt /\ song'.ends = song.ends
    BY <1>0, <2>1, SMTT(30) DEF SongRecords
  <2>4. CodecTypes'
    BY <1>0, <2>2, <2>3 DEF CodecTypes
  <2>5. OutInv => OutInv'
    BY <2>2, <2>3 DEF OutInv
  <2>6. LeftInv => LeftInv'
    BY <2>1, <2>2, <2>3 DEF LeftInv, Running
  <2>7. PosInv => PosInv'
    BY <2>1, <2>2, <2>3 DEF PosInv, Running, Resamples
  <2> QED
    BY <2>3, <2>4, <2>5, <2>6, <2>7 DEF CodecInv
<1>2. ASSUME Stops2 PROVE CodecInv'
  <2>1. song' = song
    BY <1>2 DEF Stops2
  <2>2. codec' = Closed2("STOPPED") \/ codec' = [codec EXCEPT !.state = "STOPPED"]
    BY <1>2 DEF Stops2
  <2>3. /\ codec' \in Codecs /\ codec'.kind = codec.kind /\ codec'.offset = codec.offset
        /\ codec'.buf = codec.buf /\ codec'.state = "STOPPED"
    <3>1. CASE codec' = Closed2("STOPPED")
      BY <1>0, <3>1, Closed2Is
    <3>2. CASE codec' = [codec EXCEPT !.state = "STOPPED"]
      BY <1>0, <3>2 DEF Codecs
    <3> QED
      BY <2>2, <3>1, <3>2
  <2> QED
    BY <1>0, <2>1, <2>3, StillInv
<1>3. ASSUME Finishes PROVE CodecInv'
  <2>1. song' = song /\ codec' = Closed2("FINISHED")
    BY <1>3 DEF Finishes
  <2>2. /\ codec' \in Codecs /\ codec'.kind = codec.kind /\ codec'.offset = codec.offset
        /\ codec'.buf = codec.buf /\ codec'.state = "FINISHED"
    BY <1>0, <2>1, Closed2Is
  <2> QED
    BY <1>0, <2>1, <2>2, StillInv
<1> QED
  BY <1>1, <1>2, <1>3

-----------------------------------------------------------------------------
\* A unit of music is not a header.
LEMMA MusicIsNoHead ==
  ASSUME CodecTypes, NEW wanted \in Nat, LeftInv, Running, ~(codec.kind = "wav_decoder" /\ ~codec.parsed)
  PROVE  LET read == InputOf(wanted)
         IN  /\ \A i \in 1..Len(read) : read[i] = song.came + i
             /\ Cardinality(MusicIn(read)) = Len(read)
<1> DEFINE read == InputOf(wanted)
<1>0. song.came \in Nat /\ song.left \in Seq(Int)
  BY DEF CodecTypes, SongRecords
<1>1. \A i \in 1..Len(song.left) : song.left[i] = song.came + i
  BY DEF LeftInv, Running
<1>2. read \in Seq(Int) /\ Len(read) \in Nat /\ Len(read) <= Len(song.left) /\ \A i \in 1..Len(read) : read[i] = song.left[i]
  <2>1. /\ read \in Seq(Int)
        /\ Len(read) = IF wanted < Len(song.left) THEN wanted ELSE Len(song.left)
        /\ \A i \in 1..Len(read) : read[i] = song.left[i]
    BY InputIs
  <2> HIDE DEF read
  <2> QED
    BY <1>0, <2>1
<1> HIDE DEF read
<1>3. \A i \in 1..Len(read) : read[i] = song.came + i
  BY <1>0, <1>1, <1>2
<1>4. \A i \in 1..Len(read) : read[i] # Head1
  BY <1>0, <1>2, <1>3 DEF Head1
<1>5. Cardinality(MusicIn(read)) = Len(read)
  BY <1>2, <1>4, MusicCount
<1> QED
  BY <1>3, <1>5 DEF read

\* A place behind the first m of n.
LEMMA BehindFirst ==
  ASSUME NEW n \in Nat, NEW m \in Nat, NEW i \in 1..(n - m)
  PROVE  i \in Nat /\ m + i \in 1..n /\ (m >= 1 => m + i \in 2..n)
  OBVIOUS

\* What is left after a read goes on where the read ended.
LEMMA RestGoesOn ==
  ASSUME CodecTypes, NEW wanted \in Nat, LeftInv, Running, ~(codec.kind = "wav_decoder" /\ ~codec.parsed)
  PROVE  LET read == InputOf(wanted)
             rest == SubSeq(song.left, Len(read) + 1, Len(song.left))
         IN  \A i \in 1..Len(rest) : rest[i] = song.came + Len(read) + i
<1> DEFINE read == InputOf(wanted)
           rest == SubSeq(song.left, Len(read) + 1, Len(song.left))
<1>0. song.came \in Nat /\ song.left \in Seq(Int)
  BY DEF CodecTypes, SongRecords
<1>1. \A i \in 1..Len(song.left) : song.left[i] = song.came + i
  BY DEF LeftInv, Running
<1>2. /\ rest \in Seq(Int) /\ read \in Seq(Int)
      /\ Len(read) = IF wanted < Len(song.left) THEN wanted ELSE Len(song.left)
      /\ Len(rest) = Len(song.left) - Len(read)
      /\ \A i \in 1..Len(rest) : rest[i] = song.left[Len(read) + i]
  BY InputIs
<1> HIDE DEF read, rest
<1>3. ASSUME NEW i \in 1..Len(rest) PROVE rest[i] = song.came + Len(read) + i
  <2>1. Len(rest) = Len(song.left) - Len(read) /\ Len(read) \in Nat /\ Len(song.left) \in Nat
    BY <1>0, <1>2
  <2>2. i \in Nat /\ Len(read) + i \in 1..Len(song.left)
    BY <2>1, BehindFirst
  <2>3. rest[i] = song.came + (Len(read) + i)
    BY <1>1, <1>2, <2>2
  <2> QED
    BY <1>0, <2>1, <2>2, <2>3
<1> QED
  BY <1>3 DEF read, rest

\* Music that is appended to music.
LEMMA JoinedMusic ==
  ASSUME NEW a \in Seq(Int), NEW b \in Seq(Int), \A i \in 1..Len(a) : a[i] = i, \A i \in 1..Len(b) : b[i] = Len(a) + i
  PROVE  a \o b \in Seq(Int) /\ Len(a \o b) = Len(a) + Len(b) /\ \A i \in 1..Len(a \o b) : (a \o b)[i] = i
<1>1. a \o b \in Seq(Int) /\ Len(a \o b) = Len(a) + Len(b)
  OBVIOUS
<1>2. ASSUME NEW i \in 1..Len(a \o b) PROVE (a \o b)[i] = i
  <2>1. CASE i \in 1..Len(a)
    BY <2>1
  <2>2. CASE i \notin 1..Len(a)
    <3>1. i - Len(a) \in 1..Len(b)
      BY <1>1, <2>2
    <3> QED
      BY <2>2, <3>1, SMTT(30)
  <2> QED
    BY <2>1, <2>2
<1> QED
  BY <1>1, <1>2

\* The header is taken off; or it is none, and the codec fails.
LEMMA ParsesInv == CodecInv /\ Parses => CodecInv'
<1> SUFFICES ASSUME CodecInv, Parses PROVE CodecInv'
  OBVIOUS
<1>0. /\ CodecTypes /\ codec \in Codecs /\ song \in SongRecords /\ codec.kind = "wav_decoder" /\ Running /\ ~codec.parsed
      /\ song.left # <<>> /\ codec.offset = 0 /\ PointNum \in Nat \ {0}
  BY CodecBounds DEF CodecInv, CodecTypes, Parses
<1> DEFINE read == InputOf(PointNum)
           rest == SubSeq(song.left, Len(read) + 1, Len(song.left))
<1>1. /\ read \in Seq(Int) /\ rest \in Seq(Int)
      /\ Len(read) = (IF PointNum < Len(song.left) THEN PointNum ELSE Len(song.left))
      /\ \A i \in 1..Len(read) : read[i] = song.left[i]
      /\ Len(rest) = Len(song.left) - Len(read)
      /\ \A i \in 1..Len(rest) : rest[i] = song.left[Len(read) + i]
  BY <1>0, InputIs
<1>2. song.left \in Seq(Int) /\ Len(song.left) \in Nat /\ Len(song.left) >= 1
  BY <1>0 DEF SongRecords
<1>3. \/ /\ Head(read) = Head1 /\ codec' = [codec EXCEPT !.parsed = TRUE, !.pos = Len(Tail(read))]
         /\ song' = Given(read, Tail(read))
      \/ /\ codec' = Closed2("ERROR") /\ song' = [song EXCEPT !.left = <<>>]
  BY DEF Parses
<1>4. CASE codec' = Closed2("ERROR") /\ song' = [song EXCEPT !.left = <<>>]
  <2>1. /\ codec' \in Codecs /\ codec'.kind = codec.kind /\ codec'.offset = codec.offset
        /\ codec'.buf = codec.buf /\ codec'.state = "ERROR"
    BY <1>0, <1>4, Closed2Is
  <2>2. <<>> \in Seq(Int)
    OBVIOUS
  <2>3. /\ song' \in SongRecords /\ song'.came = song.came /\ song'.out = song.out
        /\ song'.spoilt = song.spoilt /\ song'.ends = song.ends
    BY <1>0, <1>4, <2>2 DEF SongRecords
  <2> QED
    BY <2>1, <2>3, StillInv
<1>5. CASE /\ Head(read) = Head1 /\ codec' = [codec EXCEPT !.parsed = TRUE, !.pos = Len(Tail(read))]
           /\ song' = Given(read, Tail(read))
  <2> DEFINE k == song.came + Cardinality(MusicIn(read))
             t == Tail(read)
  <2>1. Len(read) >= 1 /\ read # <<>>
    <3> HIDE DEF read, rest
    <3> QED
      BY <1>0, <1>1, <1>2
  <2>2. t \in Seq(Int) /\ Len(t) = Len(read) - 1 /\ Len(t) \in Nat /\ \A i \in 1..Len(t) : t[i] = read[i + 1]
    <3> HIDE DEF read, rest
    <3> QED
      BY <1>1, <2>1
  <2>3. /\ song' = [left |-> rest, came |-> k, out |-> song.out \o t, ends |-> song.ends, spoilt |-> song.spoilt,
                    turns |-> song.turns]
        /\ song' \in SongRecords
    BY <1>0, <1>5, <2>2, GivenIs
  <2>4. codec' = [codec EXCEPT !.parsed = TRUE, !.pos = Len(t)]
    BY <1>5
  <2>5. read[1] = Head1
    <3> HIDE DEF read, rest
    <3> QED
      BY <1>1, <1>5, <2>1
  <2>6. read # <<>> /\ read[1] = Head1 /\ (\A i \in 2..Len(read) : read[i] # Head1) => Cardinality(MusicIn(read)) = Len(read) - 1
    BY <1>1, MusicCount
  <2> HIDE DEF read, rest, t
  <2>7. /\ codec' \in Codecs /\ codec'.kind = codec.kind /\ codec'.parsed = TRUE /\ codec'.offset = codec.offset
        /\ codec'.pos = Len(t) /\ codec'.buf = codec.buf /\ codec'.state = codec.state
    BY <1>0, <2>2, <2>4 DEF Codecs
  <2>8. CodecTypes'
    BY <1>0, <2>3, <2>7 DEF CodecTypes
  <2>9. ASSUME ~song.spoilt, ~song.ends PROVE OutInv' /\ LeftInv' /\ PosInv'
    <3>1. OutInv /\ song.came = 0 /\ (song.left[1] = Head1 => \A i \in 2..Len(song.left) : song.left[i] = i - 1)
      BY <1>0, <2>9 DEF CodecInv, LeftInv, Running
    <3>2. song.left[1] = Head1
      BY <1>1, <2>1, <2>5
    <3>3. Len(song.out) = 0 /\ song.out = <<>>
      BY <1>0, <3>1 DEF OutInv, SongRecords
    <3>4. \A i \in 2..Len(read) : read[i] = i - 1
      BY <1>0, <1>1, <1>2, <2>1, <3>1, <3>2
    <3>5. \A i \in 2..Len(read) : read[i] # Head1
      BY <3>4 DEF Head1
    <3>6. k = Len(t)
      BY <2>1, <2>2, <2>5, <2>6, <3>1, <3>5
    <3>7. \A i \in 1..Len(t) : t[i] = i
      <4>1. ASSUME NEW i \in 1..Len(t) PROVE t[i] = i
        <5>1. i + 1 \in 2..Len(read)
          BY <1>1, <2>1, <2>2
        <5> QED
          BY <2>2, <3>4, <5>1
      <4> QED
        BY <4>1
    <3> HIDE DEF k
    <3>8. song'.out = t
      BY <2>2, <2>3, <3>3
    <3>9. song'.came = k /\ song'.left = rest
      BY <2>3
    <3>10. OutInv'
      BY <1>0, <2>2, <2>7, <3>6, <3>7, <3>8, <3>9 DEF OutInv
    <3>11. PosInv'
      BY <2>7, <3>8 DEF PosInv
    <3>12. \A i \in 1..Len(rest) : rest[i] = k + i
      <4>1. ASSUME NEW i \in 1..Len(rest) PROVE rest[i] = k + i
        <5>1. Len(rest) = Len(song.left) - Len(read) /\ Len(read) \in Nat
          BY <1>1
        <5>2. i \in Nat /\ Len(read) + i \in 2..Len(song.left)
          BY <1>2, <2>1, <5>1, BehindFirst
        <5>3. song.left[Len(read) + i] = Len(read) + i - 1
          BY <3>1, <3>2, <5>2
        <5>4. rest[i] = Len(read) + i - 1
          BY <1>1, <5>3
        <5>5. k = Len(read) - 1
          BY <2>2, <3>6
        <5> QED
          BY <5>1, <5>2, <5>4, <5>5
      <4> QED
        BY <4>1
    <3>13. LeftInv'
      BY <2>7, <3>9, <3>12 DEF LeftInv
    <3> QED
      BY <3>10, <3>11, <3>13
  <2>10. song'.spoilt = song.spoilt /\ song'.ends = song.ends
    BY <2>3
  <2> QED
    BY <2>8, <2>9, <2>10 DEF CodecInv
<1> QED
  BY <1>3, <1>4, <1>5
LEMMA Shifted == \A a, i, u \in Nat : a + (i + u) = a + u + i
  OBVIOUS
LEMMA Regrouped == \A a, b, c \in Nat : (a + b) + c = a + (b + c)
  OBVIOUS

\* What a codec that goes on from a read needs, whatever it makes of it.
LEMMA GoesOn ==
  ASSUME CodecInv, Running, ~(codec.kind = "wav_decoder" /\ ~codec.parsed), NEW wanted \in Nat, NEW out \in Seq(Int),
         song' \in SongRecords, song'.left = SubSeq(song.left, Len(InputOf(wanted)) + 1, Len(song.left)),
         song'.came = song.came + Cardinality(MusicIn(InputOf(wanted))), song'.out = song.out \o out,
         song'.spoilt = song.spoilt, song'.ends \/ ~song.ends,
         codec' \in Codecs, codec'.kind = codec.kind, codec'.parsed = codec.parsed, codec'.state = codec.state,
         codec.kind # "rsp_encoder" => codec'.offset = 0,
         ~Resamples => codec'.pos = codec.pos + Len(out),
         ~song'.spoilt /\ ~song'.ends /\ OutInv =>
           /\ codec.offset + Len(InputOf(wanted)) = Len(out) + codec'.offset
           /\ \A i \in 1..Len(out) : out[i] = Len(song.out) + i
           /\ \A i \in 1..codec'.offset : codec'.buf[i] = Len(song.out) + Len(out) + i
  PROVE  CodecInv'
<1>0. CodecTypes /\ codec \in Codecs /\ song \in SongRecords
  BY DEF CodecInv, CodecTypes
<1>1. CodecTypes'
  BY DEF CodecTypes
<1>2. ASSUME ~song'.spoilt, ~song'.ends PROVE OutInv' /\ LeftInv' /\ PosInv'
  <2> DEFINE read == InputOf(wanted)
             rest == SubSeq(song.left, Len(read) + 1, Len(song.left))
             n == Len(song.out)
             m == Len(out)
  <2>1. OutInv /\ LeftInv /\ PosInv
    BY <1>2 DEF CodecInv
  <2>2. Cardinality(MusicIn(read)) = Len(read) /\ read \in Seq(Int)
    BY <1>0, <2>1, MusicIsNoHead, InputIs
  <2>3. \A i \in 1..Len(rest) : rest[i] = song.came + Len(read) + i
    BY <1>0, <2>1, RestGoesOn
  <2> HIDE DEF read, rest
  <2>4. song'.came = song.came + Len(read) /\ song'.left = rest
    BY <2>2 DEF read, rest
  <2>5. song.out \in Seq(Int) /\ n \in Nat /\ m \in Nat /\ Len(read) \in Nat /\ song.came \in Nat
    BY <1>0, <2>2, SMTT(30) DEF SongRecords
  <2>6. codec.offset \in Nat /\ codec'.offset \in Nat /\ codec.pos \in Nat
    BY <1>0, CodecBounds DEF Codecs
  <2>7. /\ codec.offset + Len(read) = m + codec'.offset
        /\ \A i \in 1..m : out[i] = n + i
        /\ \A i \in 1..codec'.offset : codec'.buf[i] = n + m + i
    BY <1>2, <2>1 DEF read
  <2>8. \A i \in 1..n : song.out[i] = i
    BY <2>1 DEF OutInv
  <2>9. Len(song'.out) = n + m /\ \A i \in 1..Len(song'.out) : song'.out[i] = i
    BY <2>5, <2>7, <2>8, JoinedMusic, ZenonT(40)
  <2>10. song.came = n + codec.offset
    BY <2>1 DEF OutInv
  <2> HIDE DEF n, m
  <2>11. OutInv'
    <3>1. song'.came = Len(song'.out) + codec'.offset
      <4>0. song.came = n + codec.offset /\ codec.offset + Len(read) = m + codec'.offset
        BY <2>7, <2>10 DEF n, m
      <4>1. song.came + Len(read) = n + m + codec'.offset
        <5>1. (n + codec.offset) + Len(read) = n + (codec.offset + Len(read))
          BY ONLY <2>5, <2>6, Regrouped
        <5>2. (n + m) + codec'.offset = n + (m + codec'.offset)
          BY ONLY <2>5, <2>6, Regrouped
        <5> QED
          BY ONLY <4>0, <5>1, <5>2, Zenon
      <4> QED
        BY <2>4, <2>9, <4>1
    <3>2. \A i \in 1..codec'.offset : codec'.buf[i] = Len(song'.out) + i
      BY <2>7, <2>9
    <3> QED
      BY <2>9, <3>1, <3>2 DEF OutInv
  <2>12. LeftInv'
    BY <2>3, <2>4 DEF LeftInv
  <2>13. PosInv'
    <3>1. ~Resamples => codec.pos = n
      BY <2>1 DEF PosInv, Running, n
    <3>2. ~Resamples => codec'.pos = n + m
      BY <2>5, <2>6, <3>1 DEF m
    <3>3. Resamples' <=> Resamples
      BY DEF Resamples
    <3> QED
      BY <2>9, <3>2, <3>3 DEF PosInv
  <2> QED
    BY <2>11, <2>12, <2>13
<1> QED
  BY <1>1, <1>2 DEF CodecInv

LEMMA PassesInv == CodecInv /\ Passes => CodecInv'
<1> SUFFICES ASSUME CodecInv, Passes PROVE CodecInv'
  OBVIOUS
<1> DEFINE read == InputOf(PointNum)
<1>0. /\ CodecTypes /\ codec \in Codecs /\ song \in SongRecords /\ Running /\ PointNum \in Nat
      /\ ~(codec.kind = "wav_decoder" /\ ~codec.parsed) /\ codec.kind \in {"wav_encoder", "wav_decoder"} /\ codec.offset = 0
  BY CodecBounds DEF CodecInv, CodecTypes, Passes
<1>1. read \in Seq(Int) /\ \A i \in 1..Len(read) : read[i] = song.left[i]
  BY <1>0, InputIs
<1>2. codec' = [codec EXCEPT !.pos = codec.pos + Len(read)] /\ song' = Given(read, read)
  BY DEF Passes
<1>3. /\ song' = [left |-> SubSeq(song.left, Len(read) + 1, Len(song.left)),
                  came |-> song.came + Cardinality(MusicIn(read)), out |-> song.out \o read,
                  ends |-> song.ends, spoilt |-> song.spoilt, turns |-> song.turns]
      /\ song' \in SongRecords
  BY <1>0, <1>1, <1>2, GivenIs
<1>4. LeftInv => \A i \in 1..Len(read) : read[i] = song.came + i
  BY <1>0, MusicIsNoHead
<1>5. ASSUME ~song'.spoilt, ~song'.ends, OutInv PROVE \A i \in 1..Len(read) : read[i] = Len(song.out) + i
  <2>1. LeftInv /\ song.came = Len(song.out) + codec.offset
    BY <1>3, <1>5 DEF CodecInv, OutInv
  <2>2. song.came = Len(song.out)
    BY <1>0, <2>1 DEF SongRecords
  <2> QED
    BY <1>4, <2>1, <2>2
<1> HIDE DEF read
<1>6. codec.pos + Len(read) \in Nat /\ Len(read) \in Nat
  BY <1>0, <1>1 DEF Codecs
<1>7. /\ codec' \in Codecs /\ codec'.kind = codec.kind /\ codec'.parsed = codec.parsed /\ codec'.state = codec.state
      /\ codec'.offset = 0 /\ codec'.pos = codec.pos + Len(read)
  BY <1>0, <1>2, <1>6 DEF Codecs
<1>8. codec.offset + Len(read) = Len(read) + codec'.offset
  BY <1>0, <1>6, <1>7
<1>9. \A i \in 1..codec'.offset : codec'.buf[i] = Len(song.out) + Len(read) + i
  BY <1>7
<1>10. /\ song'.left = SubSeq(song.left, Len(read) + 1, Len(song.left))
       /\ song'.came = song.came + Cardinality(MusicIn(read)) /\ song'.out = song.out \o read
       /\ song'.ends = song.ends /\ song'.spoilt = song.spoilt
  BY <1>3
<1> QED
  BY <1>0, <1>1, <1>3, <1>5, <1>7, <1>8, <1>9, <1>10, GoesOn DEF read

-----------------------------------------------------------------------------
\* The buffer of a filter: what was left, what was read, and what lay behind.
LEMMA BufferOfIs ==
  ASSUME CodecTypes, NEW read \in Seq(Int), Len(read) <= PointNum - codec.offset
  PROVE  /\ BufferOf(read) \in [1..PointNum -> Int] /\ BufferOf(read) \in Seq(Int) /\ Len(BufferOf(read)) = PointNum
         /\ ~Short(read) =>
              /\ Len(read) = PointNum - codec.offset
              /\ \A i \in 1..PointNum : BufferOf(read)[i] = IF i <= codec.offset THEN codec.buf[i] ELSE read[i - codec.offset]
<1>0. /\ codec.offset \in 0..PointNum /\ PointNum \in Nat /\ codec.buf \in [1..PointNum -> Int]
      /\ Len(read) \in Nat /\ DOMAIN read = 1..Len(read)
  BY CodecBounds DEF CodecTypes, Codecs
<1>1. ~Short(read) => Len(read) = PointNum - codec.offset
  BY <1>0 DEF Short
<1>2. ASSUME NEW i \in 1..PointNum
      PROVE  /\ BufferOf(read)[i] = (IF i - codec.offset \in DOMAIN read THEN read[i - codec.offset] ELSE codec.buf[i])
             /\ BufferOf(read)[i] \in Int
  <2>1. BufferOf(read)[i] = IF i - codec.offset \in DOMAIN read THEN read[i - codec.offset] ELSE codec.buf[i]
    BY DEF BufferOf
  <2>2. codec.buf[i] \in Int /\ (i - codec.offset \in DOMAIN read => read[i - codec.offset] \in Int)
    BY <1>0
  <2> QED
    BY <1>0, <2>1, <2>2
<1>3. ASSUME ~Short(read), NEW i \in 1..PointNum PROVE i - codec.offset \in DOMAIN read <=> ~(i <= codec.offset)
  BY <1>0, <1>1, <1>3
<1>4. BufferOf(read) = [i \in 1..PointNum |-> BufferOf(read)[i]]
  BY DEF BufferOf
<1> DEFINE b == BufferOf(read)
<1> HIDE DEF b
<1>5. b \in [1..PointNum -> Int]
  BY <1>2, <1>4 DEF b
<1>6. b \in Seq(Int) /\ Len(b) = PointNum
  BY <1>0, <1>5
<1> QED
  BY <1>1, <1>2, <1>3, <1>5, <1>6 DEF b

LEMMA ConvertsInv == CodecInv /\ Converts => CodecInv'
<1> SUFFICES ASSUME CodecInv, Converts PROVE CodecInv'
  OBVIOUS
<1> DEFINE read == InputOf(PointNum)
           out == BufferOf(read)
           s == Given(read, out)
<1>0. /\ CodecTypes /\ codec \in Codecs /\ song \in SongRecords /\ Running /\ PointNum \in Nat
      /\ codec.kind = "rsp_decoder" /\ codec.offset = 0 /\ Len(song.left) \in Nat
  BY CodecBounds DEF CodecInv, CodecTypes, SongRecords, Converts
<1>1. read \in Seq(Int) /\ Len(read) = IF PointNum < Len(song.left) THEN PointNum ELSE Len(song.left)
  BY <1>0, InputIs
<1>2. codec' = [codec EXCEPT !.buf = out] /\ song' = [s EXCEPT !.ends = @ \/ Short(read)]
  BY DEF Converts
<1>3. LeftInv => \A i \in 1..Len(read) : read[i] = song.came + i
  BY <1>0, MusicIsNoHead
<1> HIDE DEF read
<1>4. Len(read) <= PointNum - codec.offset
  BY <1>0, <1>1
<1>5. /\ out \in [1..PointNum -> Int] /\ out \in Seq(Int) /\ Len(out) = PointNum
      /\ ~Short(read) => /\ Len(read) = PointNum - codec.offset
                         /\ \A i \in 1..PointNum : out[i] = IF i <= codec.offset THEN codec.buf[i] ELSE read[i - codec.offset]
  BY <1>0, <1>1, <1>4, BufferOfIs
<1> HIDE DEF out
<1>6. /\ s = [left |-> SubSeq(song.left, Len(read) + 1, Len(song.left)),
              came |-> song.came + Cardinality(MusicIn(read)), out |-> song.out \o out,
              ends |-> song.ends, spoilt |-> song.spoilt, turns |-> song.turns]
      /\ s \in SongRecords
  BY <1>0, <1>5, GivenIs DEF read
<1> HIDE DEF s
<1>7. Short(read) \in BOOLEAN /\ s.ends = song.ends /\ song.ends \in BOOLEAN
  BY <1>0, <1>6 DEF Short, SongRecords
<1>8. /\ song' \in SongRecords /\ song'.left = s.left /\ song'.came = s.came /\ song'.out = s.out
      /\ song'.spoilt = s.spoilt /\ (song'.ends <=> (song.ends \/ Short(read)))
  BY <1>2, <1>6, <1>7 DEF SongRecords
<1>9. /\ codec' \in Codecs /\ codec'.kind = codec.kind /\ codec'.parsed = codec.parsed /\ codec'.state = codec.state
      /\ codec'.offset = 0 /\ codec'.buf = out
  BY <1>0, <1>2, <1>5 DEF Codecs
<1>10. ASSUME ~song'.spoilt, ~song'.ends, OutInv
       PROVE  /\ codec.offset + Len(read) = Len(out) + codec'.offset
              /\ \A i \in 1..Len(out) : out[i] = Len(song.out) + i
  <2>1. ~Short(read) /\ LeftInv
    BY <1>6, <1>7, <1>8, <1>10 DEF CodecInv
  <2>2. Len(read) = PointNum
    BY <1>0, <1>5, <2>1
  <2>3. song.came = Len(song.out)
    BY <1>0, <1>10 DEF OutInv, SongRecords
  <2>4. ASSUME NEW i \in 1..PointNum PROVE out[i] = Len(song.out) + i
    <3>1. out[i] = read[i]
      <4>1. ~(i <= 0) /\ i - 0 = i
        BY <1>0
      <4> QED
        BY <1>0, <1>5, <2>1, <4>1
    <3> QED
      BY <1>3, <2>1, <2>2, <2>3, <3>1
  <2>5. codec.offset + Len(read) = Len(out) + codec'.offset
    BY <1>0, <1>5, <1>9, <2>2
  <2>6. \A i \in 1..Len(out) : out[i] = Len(song.out) + i
    BY <1>5, <2>4
  <2> QED
    BY <2>5, <2>6
<1>11. \A i \in 1..codec'.offset : codec'.buf[i] = Len(song.out) + Len(out) + i
  BY <1>9
<1>12. /\ song'.left = SubSeq(song.left, Len(read) + 1, Len(song.left))
       /\ song'.came = song.came + Cardinality(MusicIn(read)) /\ song'.out = song.out \o out
       /\ song'.spoilt = song.spoilt
  BY <1>6, <1>8
<1>13. song'.ends \/ ~song.ends
  BY <1>8
<1>14. Resamples /\ ~(codec.kind = "wav_decoder" /\ ~codec.parsed)
  BY <1>0 DEF Resamples
<1> QED
  BY <1>0, <1>5, <1>8, <1>9, <1>10, <1>11, <1>12, <1>13, <1>14, GoesOn DEF read

\* What the encoder leaves at the front of its buffer.
LEMMA MovedUpIs ==
  ASSUME PointNum \in Nat, NEW b \in [1..PointNum -> Int], NEW used \in 1..PointNum
  PROVE  /\ MovedUp(b, used) \in [1..PointNum -> Int]
         /\ \A i \in 1..(PointNum - used) : MovedUp(b, used)[i] = b[i + used]
<1>1. ASSUME NEW i \in 1..PointNum PROVE MovedUp(b, used)[i] \in Int
  <2>1. CASE i <= PointNum - used
    <3>1. i + used \in 1..PointNum
      BY <2>1
    <3> QED
      BY <2>1, <3>1 DEF MovedUp
  <2>2. CASE ~(i <= PointNum - used)
    BY <2>2 DEF MovedUp
  <2> QED
    BY <2>1, <2>2
<1>2. MovedUp(b, used) = [i \in 1..PointNum |-> MovedUp(b, used)[i]]
  BY DEF MovedUp
<1>3. ASSUME NEW i \in 1..(PointNum - used) PROVE MovedUp(b, used)[i] = b[i + used]
  <2>1. i \in 1..PointNum /\ i <= PointNum - used
    OBVIOUS
  <2> QED
    BY <2>1 DEF MovedUp
<1> QED
  BY <1>1, <1>2, <1>3

LEMMA ConvertsPartInv == CodecInv /\ ConvertsPart => CodecInv'
<1> SUFFICES ASSUME CodecInv, ConvertsPart PROVE CodecInv'
  OBVIOUS
<1> DEFINE wanted == PointNum - codec.offset
           read == InputOf(wanted)
           b == BufferOf(read)
<1>0. /\ CodecTypes /\ codec \in Codecs /\ song \in SongRecords /\ Running /\ PointNum \in Nat
      /\ codec.kind = "rsp_encoder" /\ codec.offset \in 0..PointNum /\ Len(song.left) \in Nat
      /\ Len(song.out) \in Nat
  BY CodecBounds DEF CodecInv, CodecTypes, SongRecords, Codecs, ConvertsPart
<1>1. wanted \in Nat
  BY <1>0
<1>2. PICK used \in 1..PointNum :
        /\ codec' = [codec EXCEPT !.buf = MovedUp(b, used), !.offset = PointNum - used]
        /\ song' = [Given(read, SubSeq(b, 1, used)) EXCEPT !.ends = @ \/ Short(read)]
  BY DEF ConvertsPart
<1> HIDE DEF wanted
<1>3. read \in Seq(Int) /\ Len(read) = IF wanted < Len(song.left) THEN wanted ELSE Len(song.left)
  BY <1>0, <1>1, InputIs
<1>4. LeftInv => \A i \in 1..Len(read) : read[i] = song.came + i
  BY <1>0, <1>1, MusicIsNoHead
<1> HIDE DEF read
<1>5. Len(read) <= PointNum - codec.offset
  BY <1>0, <1>1, <1>3 DEF wanted
<1>6. /\ b \in [1..PointNum -> Int] /\ b \in Seq(Int) /\ Len(b) = PointNum
      /\ ~Short(read) => /\ Len(read) = PointNum - codec.offset
                         /\ \A i \in 1..PointNum : b[i] = IF i <= codec.offset THEN codec.buf[i] ELSE read[i - codec.offset]
  BY <1>0, <1>3, <1>5, BufferOfIs
<1> HIDE DEF b
<1> DEFINE out == SubSeq(b, 1, used)
           s == Given(read, out)
           moved == MovedUp(b, used)
           left == PointNum - used
<1>7. out \in Seq(Int) /\ Len(out) = used /\ (\A i \in 1..used : out[i] = b[i]) /\ left \in 0..PointNum /\ used + left = PointNum
  BY <1>0, <1>6
<1>8. moved \in [1..PointNum -> Int] /\ \A i \in 1..left : moved[i] = b[i + used]
  BY <1>0, <1>6, MovedUpIs
<1>9. codec' = [codec EXCEPT !.buf = moved, !.offset = left] /\ song' = [s EXCEPT !.ends = @ \/ Short(read)]
  BY <1>2
<1> HIDE DEF out, moved, left
<1>10. /\ s = [left |-> SubSeq(song.left, Len(read) + 1, Len(song.left)),
               came |-> song.came + Cardinality(MusicIn(read)), out |-> song.out \o out,
               ends |-> song.ends, spoilt |-> song.spoilt, turns |-> song.turns]
       /\ s \in SongRecords
  BY <1>0, <1>1, <1>7, GivenIs DEF read
<1> HIDE DEF s
<1>11. Short(read) \in BOOLEAN /\ s.ends = song.ends /\ song.ends \in BOOLEAN
  BY <1>0, <1>10 DEF Short, SongRecords
<1>12. /\ song' \in SongRecords /\ song'.left = s.left /\ song'.came = s.came /\ song'.out = s.out
       /\ song'.spoilt = s.spoilt /\ (song'.ends <=> (song.ends \/ Short(read)))
  BY <1>9, <1>10, <1>11 DEF SongRecords
<1>13. /\ codec' \in Codecs /\ codec'.kind = codec.kind /\ codec'.parsed = codec.parsed /\ codec'.state = codec.state
       /\ codec'.offset = left /\ codec'.buf = moved
  BY <1>0, <1>7, <1>8, <1>9 DEF Codecs
<1>14. ASSUME ~song'.spoilt, ~song'.ends, OutInv
       PROVE  /\ codec.offset + Len(read) = Len(out) + codec'.offset
              /\ \A i \in 1..Len(out) : out[i] = Len(song.out) + i
              /\ \A i \in 1..codec'.offset : codec'.buf[i] = Len(song.out) + Len(out) + i
  <2>1. ~Short(read) /\ LeftInv
    BY <1>10, <1>11, <1>12, <1>14 DEF CodecInv
  <2>2. Len(read) = PointNum - codec.offset
    BY <1>6, <2>1
  <2>3. song.came = Len(song.out) + codec.offset /\ \A i \in 1..codec.offset : codec.buf[i] = Len(song.out) + i
    BY <1>14 DEF OutInv
  <2>4. ASSUME NEW i \in 1..PointNum PROVE b[i] = Len(song.out) + i
    <3>1. CASE i <= codec.offset
      <4>1. i \in 1..codec.offset
        BY <1>0, <3>1
      <4> QED
        BY <1>6, <2>1, <2>3, <3>1, <4>1
    <3>2. CASE ~(i <= codec.offset)
      <4>1. i - codec.offset \in 1..Len(read)
        BY <1>0, <2>2, <3>2
      <4>2. b[i] = song.came + (i - codec.offset)
        BY <1>4, <1>6, <2>1, <3>2, <4>1
      <4> QED
        BY <1>0, <2>3, <4>2
    <3> QED
      BY <3>1, <3>2
  <2>5. ASSUME NEW i \in 1..left PROVE moved[i] = Len(song.out) + Len(out) + i
    <3>1. i + used \in 1..PointNum
      BY <1>0, <1>7
    <3>2. moved[i] = Len(song.out) + (i + used)
      BY <1>8, <2>4, <3>1
    <3>3. i \in Nat /\ used \in Nat /\ Len(out) = used
      BY <1>0, <1>7
    <3>4. Len(song.out) \in Nat
      BY <1>0
    <3> QED
      BY ONLY <3>2, <3>3, <3>4, Shifted, ZenonT(20)
  <2>6. \A i \in 1..used : i \in 1..PointNum
    BY <1>0
  <2>7. codec.offset + Len(read) = Len(out) + codec'.offset
    <3>1. codec.offset + Len(read) = PointNum
      BY <1>0, <2>2
    <3> QED
      BY <1>7, <1>13, <3>1
  <2>8. \A i \in 1..Len(out) : out[i] = Len(song.out) + i
    BY <1>7, <2>4, <2>6
  <2> QED
    BY <1>13, <2>5, <2>7, <2>8
<1>15. /\ song'.left = SubSeq(song.left, Len(read) + 1, Len(song.left))
       /\ song'.came = song.came + Cardinality(MusicIn(read)) /\ song'.out = song.out \o out
       /\ song'.spoilt = song.spoilt
  BY <1>10, <1>12
<1>16. song'.ends \/ ~song.ends
  BY <1>12
<1>17. Resamples /\ ~(codec.kind = "wav_decoder" /\ ~codec.parsed)
  BY <1>0 DEF Resamples
<1> QED
  BY <1>0, <1>1, <1>7, <1>12, <1>13, <1>14, <1>15, <1>16, <1>17, GoesOn DEF read

LEMMA CodecStep == CodecInv /\ [CodecNext]_codecs => CodecInv'
<1> SUFFICES ASSUME CodecInv, [CodecNext]_codecs PROVE CodecInv'
  OBVIOUS
<1>1. CASE CodecNext
  BY <1>1, SongBeginsInv, ResumedInv, HoldsInv, ParsesInv, PassesInv, ConvertsInv, ConvertsPartInv DEF CodecNext
<1>2. CASE UNCHANGED codecs
  BY <1>2 DEF codecs, CodecInv, CodecTypes, OutInv, LeftInv, PosInv, Resamples
<1> QED
  BY <1>1, <1>2

LEMMA CodecInvOrder == CodecInv => SamplesInOrder
<1> SUFFICES ASSUME CodecInv, ~song.spoilt, ~song.ends
    PROVE  /\ song.out \o SubSeq(codec.buf, 1, codec.offset) = [i \in 1..song.came |-> i]
           /\ ~Resamples /\ codec.state \in {"RUNNING", "PAUSED"} => codec.pos = Len(song.out)
  BY DEF SamplesInOrder
<1>1. /\ codec \in Codecs /\ song \in SongRecords /\ OutInv /\ PosInv /\ PointNum \in Nat
      /\ codec.buf \in [1..PointNum -> Int] /\ codec.offset \in 0..PointNum /\ song.out \in Seq(Int)
      /\ song.came \in Nat /\ Len(song.out) \in Nat
  BY CodecBounds DEF CodecInv, CodecTypes, Codecs, SongRecords
<1> DEFINE kept == SubSeq(codec.buf, 1, codec.offset)
           all == song.out \o kept
<1>2. codec.buf \in Seq(Int) /\ Len(codec.buf) = PointNum
  BY <1>1
<1>3. kept \in Seq(Int) /\ Len(kept) = codec.offset /\ \A i \in 1..Len(kept) : kept[i] = codec.buf[i]
  BY <1>1, <1>2
<1> HIDE DEF kept
<1>4. \A i \in 1..Len(kept) : kept[i] = Len(song.out) + i
  BY <1>1, <1>3 DEF OutInv
<1>5. all \in Seq(Int) /\ Len(all) = Len(song.out) + Len(kept) /\ \A i \in 1..Len(all) : all[i] = i
  BY <1>1, <1>3, <1>4, JoinedMusic DEF OutInv
<1>6. Len(all) = song.came
  BY <1>1, <1>3, <1>5 DEF OutInv
<1> HIDE DEF all
<1>7. all = [i \in 1..song.came |-> i]
  <2>1. DOMAIN all = 1..song.came /\ all = [i \in DOMAIN all |-> all[i]]
    BY <1>1, <1>5, <1>6
  <2> QED
    BY <1>5, <1>6, <2>1
<1> QED
  BY <1>1, <1>7 DEF PosInv, all, kept
-----------------------------------------------------------------------------
(***************************************************************************)
(* The port.                                                               *)
(***************************************************************************)

Cmds == {"RESUME", "PAUSE", "STOP", "FINISH"}
AllRates == Rates \cup {Fastest, 0}
Players == [state : {"INIT", "RUNNING", "PAUSED", "STOPPED", "FINISHED"}, cmds : Seq(Cmds), rate : AllRates]
Writers ==
  [pc : {"waits", "copies", "writes", "stores", "flushes"}, unit : Nat, info : AllRates, flush : 0..DmaBufCount,
   then : {"none", "FINISH", "STOP", "PAUSED", "STOPPED", "FINISHED"}]
Ports == [dma : Seq(Nat), rate : AllRates, played : Nat, came : Nat]
Setters == [pc : {"none", "awaits", "copies", "stores", "clocks"}, rate : AllRates, paused : BOOLEAN]
Fates == [met : BOOLEAN, calls : Nat, holds : Nat]
I2sTypes == i2s \in Players /\ writer \in Writers /\ port \in Ports /\ setter \in Setters /\ fate \in Fates

\* The task writes while the stream runs. Once it flushes, what music there is in the buffers is as far before
\* their end as it has flushed.
WriterInv ==
  /\ writer.pc \in {"copies", "writes", "stores"} => Runs
  /\ writer.pc = "flushes" /\ writer.then \in {"FINISH", "STOP"} => Runs
  /\ writer.pc \in {"copies", "writes"} => writer.unit = Silent \/ writer.unit = port.came + 1
  /\ Len(port.dma) <= DmaBufCount
  /\ writer.pc = "flushes" =>
       \A i \in 1..Len(port.dma) : port.dma[i] # Silent => i + DmaBufCount <= Len(port.dma) + writer.flush
\* The music in the buffers d, when p units were heard and c have come.
MusicIs(d, p, c) ==
  /\ p <= c
  /\ \A i \in 1..Len(d) : d[i] # Silent => d[i] \in (p + 1)..c
  /\ \A k \in (p + 1)..c : \E i \in 1..Len(d) : d[i] = k
  /\ \A i, j \in 1..Len(d) : i < j /\ d[i] # Silent /\ d[j] # Silent => d[i] < d[j]
MusicInv ==
  ~fate.met => /\ MusicIs(port.dma, port.played, port.came)
               /\ ~Active => port.played = port.came
RateInv ==
  ~fate.met => /\ setter.pc # "clocks" => i2s.rate = port.rate
               /\ setter.pc = "clocks" => i2s.rate = setter.rate
               /\ writer.pc \in {"writes", "stores"} => writer.info = i2s.rate
I2sInv == I2sTypes /\ WriterInv /\ MusicInv /\ RateInv

LEMMA MusicSilent ==
  ASSUME NEW d \in Seq(Nat), NEW p \in Nat, NEW c \in Nat, MusicIs(d, p, c)
  PROVE  MusicIs(Append(d, Silent), p, c)
<1> DEFINE a == Append(d, Silent)
<1>1. Len(d) \in Nat /\ Len(a) = Len(d) + 1 /\ a[Len(d) + 1] = 0 /\ \A i \in 1..Len(d) : a[i] = d[i]
  BY DEF Silent
<1> HIDE DEF a
<1>2. \A i \in 1..Len(a) : i \in 1..Len(d) \/ i = Len(d) + 1
  BY <1>1
<1>3. \A i \in 1..Len(d) : i \in 1..Len(a)
  BY <1>1
<1>4. \A i \in 1..Len(a) : a[i] # Silent => i \in 1..Len(d) /\ a[i] = d[i]
  BY <1>1, <1>2 DEF Silent
<1>5. \A k \in (p + 1)..c : \E i \in 1..Len(a) : a[i] = k
  BY <1>1, <1>3 DEF MusicIs
<1>6. MusicIs(a, p, c)
  BY <1>4, <1>5 DEF MusicIs
<1> QED
  BY <1>6 DEF a
LEMMA MusicNext ==
  ASSUME NEW d \in Seq(Nat), NEW p \in Nat, NEW c \in Nat, MusicIs(d, p, c)
  PROVE  MusicIs(Append(d, c + 1), p, c + 1)
<1> DEFINE a == Append(d, c + 1)
<1>1. Len(d) \in Nat /\ Len(a) = Len(d) + 1 /\ a[Len(d) + 1] = c + 1 /\ \A i \in 1..Len(d) : a[i] = d[i]
  OBVIOUS
<1> HIDE DEF a
<1>2. \A i \in 1..Len(a) : i \in 1..Len(d) \/ i = Len(d) + 1
  BY <1>1
<1>3. \A i \in 1..Len(d) : i \in 1..Len(a)
  BY <1>1
<1>4. \A i \in 1..Len(a) : a[i] # Silent => a[i] \in (p + 1)..(c + 1)
  BY <1>1, <1>2 DEF MusicIs
<1>5. ASSUME NEW k \in (p + 1)..(c + 1) PROVE \E i \in 1..Len(a) : a[i] = k
  <2>1. CASE k = c + 1
    BY <1>1, <2>1
  <2>2. CASE k # c + 1
    <3>1. k \in (p + 1)..c
      BY <2>2
    <3> QED
      BY <1>1, <1>3, <3>1 DEF MusicIs
  <2> QED
    BY <2>1, <2>2
<1>6. ASSUME NEW i \in 1..Len(a), NEW j \in 1..Len(a), i < j, a[i] # Silent, a[j] # Silent
      PROVE  a[i] < a[j]
  <2>1. i \in 1..Len(d)
    BY <1>1, <1>6
  <2>2. a[i] = d[i] /\ d[i] \in (p + 1)..c
    BY <1>1, <1>6, <2>1 DEF MusicIs
  <2>3. CASE j = Len(d) + 1
    BY <1>1, <2>2, <2>3
  <2>4. CASE j \in 1..Len(d)
    BY <1>1, <1>6, <2>1, <2>4 DEF MusicIs
  <2> QED
    BY <1>2, <2>3, <2>4
<1>7. p <= c + 1
  BY DEF MusicIs
<1>8. MusicIs(a, p, c + 1)
  BY <1>4, <1>5, <1>6, <1>7 DEF MusicIs
<1> QED
  BY <1>8 DEF a
LEMMA MusicHeard ==
  ASSUME NEW d \in Seq(Nat), NEW p \in Nat, NEW c \in Nat, MusicIs(d, p, c), d # <<>>
  PROVE  MusicIs(Tail(d), IF Head(d) = Silent THEN p ELSE p + 1, c)
<1> DEFINE a == Tail(d)
           q == IF Head(d) = Silent THEN p ELSE p + 1
<1>1. Len(d) \in Nat /\ Len(d) >= 1 /\ Len(a) = Len(d) - 1 /\ \A i \in 1..Len(a) : a[i] = d[i + 1]
  OBVIOUS
<1>2. Head(d) = d[1] /\ d[1] \in Nat
  BY <1>1
<1>3. d[1] # Silent => d[1] = p + 1 /\ p + 1 <= c
  <2> SUFFICES ASSUME d[1] # Silent PROVE d[1] = p + 1 /\ p + 1 <= c
    OBVIOUS
  <2>1. 1 \in 1..Len(d)
    BY <1>1
  <2>2. d[1] \in (p + 1)..c
    BY <2>1 DEF MusicIs
  <2>a. p + 1 \in (p + 1)..c
    BY <2>2
  <2>b. \A k \in (p + 1)..c : \E i \in 1..Len(d) : d[i] = k
    BY DEF MusicIs
  <2>3. PICK i \in 1..Len(d) : d[i] = p + 1
    BY <2>a, <2>b
  <2>4. d[i] # Silent
    BY <2>3 DEF Silent
  <2>5. CASE i = 1
    BY <2>2, <2>3, <2>5
  <2>6. CASE 1 < i
    <3>1. d[1] < d[i]
      BY <2>1, <2>4, <2>6 DEF MusicIs
    <3> QED
      BY <2>2, <2>3, <3>1
  <2> QED
    BY <1>1, <2>5, <2>6
<1>4. q \in Nat /\ q <= c /\ (d[1] = Silent => q = p) /\ (d[1] # Silent => q = p + 1)
  BY <1>2, <1>3 DEF MusicIs
<1> HIDE DEF a, q
<1>5. \A i \in 1..Len(a) : i + 1 \in 1..Len(d) /\ 1 < i + 1
  BY <1>1
<1>6. ASSUME NEW i \in 1..Len(a), a[i] # Silent PROVE a[i] \in (q + 1)..c
  <2>1. a[i] = d[i + 1] /\ d[i + 1] \in (p + 1)..c
    BY <1>1, <1>5, <1>6 DEF MusicIs
  <2>2. CASE d[1] = Silent
    BY <1>4, <2>1, <2>2
  <2>3. CASE d[1] # Silent
    <3>1. 1 \in 1..Len(d) /\ i + 1 \in 1..Len(d) /\ 1 < i + 1 /\ d[i + 1] # Silent
      BY <1>1, <1>5, <1>6, <2>1
    <3>2. d[1] < d[i + 1]
      BY <2>3, <3>1 DEF MusicIs
    <3> QED
      BY <1>3, <1>4, <2>1, <2>3, <3>2
  <2> QED
    BY <2>2, <2>3
<1>7. ASSUME NEW k \in (q + 1)..c PROVE \E i \in 1..Len(a) : a[i] = k
  <2>1. k \in (p + 1)..c
    BY <1>4
  <2>2. PICK j \in 1..Len(d) : d[j] = k
    BY <2>1 DEF MusicIs
  <2>3. j # 1
    BY <1>3, <1>4, <2>2 DEF Silent
  <2>4. j - 1 \in 1..Len(a) /\ (j - 1) + 1 = j
    BY <1>1, <2>3
  <2> QED
    BY <1>1, <2>2, <2>4
<1>8. ASSUME NEW i \in 1..Len(a), NEW j \in 1..Len(a), i < j, a[i] # Silent, a[j] # Silent
      PROVE  a[i] < a[j]
  <2>1. i + 1 \in 1..Len(d) /\ j + 1 \in 1..Len(d) /\ i + 1 < j + 1
    BY <1>5, <1>8
  <2> QED
    BY <1>1, <1>8, <2>1 DEF MusicIs
<1>9. MusicIs(a, q, c)
  BY <1>4, <1>6, <1>7, <1>8 DEF MusicIs
<1> QED
  BY <1>9 DEF a, q

LEMMA I2sInitInv == I2sInit => I2sInv
<1> SUFFICES ASSUME I2sInit PROVE I2sInv
  OBVIOUS
<1>0. /\ i2s = [state |-> "INIT", cmds |-> <<>>, rate |-> Fastest]
      /\ writer = [pc |-> "waits", unit |-> Silent, info |-> 0, flush |-> 0, then |-> "none"]
      /\ port = [dma |-> <<>>, rate |-> Fastest, played |-> 0, came |-> 0]
      /\ setter = [pc |-> "none", rate |-> 0, paused |-> FALSE]
      /\ fate = [met |-> FALSE, calls |-> 0, holds |-> 0]
  BY DEF I2sInit
<1>1. Fastest \in AllRates /\ 0 \in AllRates /\ 0 \in 0..DmaBufCount /\ <<>> \in Seq(Cmds) /\ <<>> \in Seq(Nat) /\ Silent \in Nat
  BY I2sBounds DEF AllRates, Silent
<1> HIDE DEF Silent
<1>2. i2s \in Players /\ port \in Ports
  BY <1>0, <1>1 DEF Players, Ports
<1>3. writer \in Writers
  BY <1>0, <1>1 DEF Writers
<1>4. setter \in Setters /\ fate \in Fates
  BY <1>0, <1>1 DEF Setters, Fates
<1>5. Len(port.dma) = 0 /\ writer.pc = "waits" /\ port.played = 0 /\ port.came = 0
  BY <1>0
<1>6. WriterInv
  BY <1>5, I2sBounds DEF WriterInv
<1>7. MusicInv
  BY <1>5 DEF MusicInv, MusicIs
<1>8. RateInv
  BY <1>0 DEF RateInv
<1> QED
  BY <1>2, <1>3, <1>4, <1>6, <1>7, <1>8 DEF I2sInv, I2sTypes
-----------------------------------------------------------------------------
\* A command that is sent, and one that is taken.
LEMMA SendIs ==
  ASSUME i2s \in Players, NEW cmd \in Cmds
  PROVE  Send(cmd) \in Players /\ Send(cmd).state = i2s.state /\ Send(cmd).rate = i2s.rate
<1> DEFINE q == Append(i2s.cmds, cmd)
<1>1. q \in Seq(Cmds)
  BY DEF Players
<1>2. Send(cmd) = [i2s EXCEPT !.cmds = q]
  BY DEF Send
<1> HIDE DEF q
<1> QED
  BY <1>1, <1>2 DEF Players
LEMMA TookIs ==
  ASSUME i2s \in Players, i2s.cmds # <<>>, NEW s \in {"INIT", "RUNNING", "PAUSED", "STOPPED", "FINISHED"}
  PROVE  /\ [TookCmd EXCEPT !.state = s] \in Players
         /\ [TookCmd EXCEPT !.state = s].state = s /\ [TookCmd EXCEPT !.state = s].rate = i2s.rate
<1> DEFINE q == Tail(i2s.cmds)
           k == TookCmd
<1>1. q \in Seq(Cmds)
  BY DEF Players
<1>2. k = [i2s EXCEPT !.cmds = q]
  BY DEF TookCmd
<1> HIDE DEF q, k
<1>3. k \in Players /\ k.rate = i2s.rate
  BY <1>1, <1>2 DEF Players
<1>4. [k EXCEPT !.state = s] \in Players /\ [k EXCEPT !.state = s].state = s /\ [k EXCEPT !.state = s].rate = i2s.rate
  BY <1>3 DEF Players
<1> QED
  BY <1>4 DEF k
LEMMA StateOfIs == \A cmd \in Cmds \ {"RESUME"} : StateOf[cmd] \in {"PAUSED", "STOPPED", "FINISHED"}
  BY DEF StateOf, Cmds

\* A step of the task that leaves the port as it is.
LEMMA TaskStep ==
  ASSUME I2sInv, i2s' \in Players, writer' \in Writers, port' = port, setter' = setter, fate' = fate,
         i2s'.rate = i2s.rate, WriterInv', Active \/ ~Active',
         ~Active' => ~Active \/ port.played = port.came \/ fate.met,
         writer'.pc \in {"writes", "stores"} => writer'.info = i2s'.rate \/ fate.met
  PROVE  I2sInv'
<1>1. I2sTypes'
  BY DEF I2sInv, I2sTypes
<1>2. MusicInv'
  BY DEF I2sInv, MusicInv
<1>3. RateInv'
  BY DEF I2sInv, RateInv
<1> QED
  BY <1>1, <1>2, <1>3 DEF I2sInv

LEMMA InputsInv == I2sInv /\ Inputs => I2sInv'
<1> SUFFICES ASSUME I2sInv, Inputs PROVE I2sInv'
  OBVIOUS
<1>0. /\ I2sTypes /\ i2s \in Players /\ writer \in Writers /\ port \in Ports /\ WriterInv /\ Runs /\ Active
      /\ i2s' = i2s /\ port' = port /\ setter' = setter /\ fate' = fate
  BY DEF I2sInv, I2sTypes, Inputs, Active
<1>1. DmaBufCount \in Nat /\ DmaBufCount \in 0..DmaBufCount /\ Len(port.dma) \in Nat /\ port.came \in Nat
  BY <1>0, I2sBounds DEF Ports
<1>2. ASSUME NEW u \in Nat, writer' = [writer EXCEPT !.pc = "copies", !.unit = u], u = Silent \/ u = port.came + 1
      PROVE  I2sInv'
  <2>1. writer' \in Writers /\ writer'.pc = "copies" /\ writer'.unit = u
    BY <1>0, <1>2 DEF Writers
  <2>2. Active'
    BY <2>1 DEF Active
  <2>3. WriterInv'
    BY <1>0, <1>2, <2>1 DEF WriterInv, Runs
  <2> QED
    BY <1>0, <2>1, <2>2, <2>3, TaskStep
<1>3. ASSUME NEW end \in {"FINISH", "STOP"}, writer' = [writer EXCEPT !.pc = "flushes", !.flush = DmaBufCount, !.then = end]
      PROVE  I2sInv'
  <2>1. writer' \in Writers /\ writer'.pc = "flushes" /\ writer'.flush = DmaBufCount /\ writer'.then = end
    BY <1>0, <1>1, <1>3 DEF Writers
  <2>2. Active'
    BY <2>1 DEF Active
  <2>3. WriterInv'
    BY <1>0, <1>1, <2>1 DEF WriterInv, Runs
  <2> QED
    BY <1>0, <2>1, <2>2, <2>3, TaskStep
<1>4. Silent \in Nat /\ port.came + 1 \in Nat
  BY <1>1 DEF Silent
<1> QED
  BY <1>2, <1>3, <1>4 DEF Inputs

LEMMA CopiesInv == I2sInv /\ Copies => I2sInv'
<1> SUFFICES ASSUME I2sInv, Copies PROVE I2sInv'
  OBVIOUS
<1>0. /\ I2sTypes /\ i2s \in Players /\ writer \in Writers /\ WriterInv /\ writer.pc = "copies" /\ Active
      /\ i2s' = i2s /\ port' = port /\ setter' = setter /\ fate' = fate
      /\ writer' = [writer EXCEPT !.pc = "writes", !.info = i2s.rate]
  BY DEF I2sInv, I2sTypes, Copies, Active
<1>1. i2s.rate \in AllRates
  BY <1>0 DEF Players
<1>2. writer' \in Writers /\ writer'.pc = "writes" /\ writer'.info = i2s.rate /\ writer'.unit = writer.unit
  BY <1>0, <1>1 DEF Writers
<1>3. Active'
  BY <1>2 DEF Active
<1>4. WriterInv'
  BY <1>0, <1>2 DEF WriterInv, Runs
<1> QED
  BY <1>0, <1>2, <1>3, <1>4, TaskStep

LEMMA StoresInv == I2sInv /\ Stores => I2sInv'
<1> SUFFICES ASSUME I2sInv, Stores PROVE I2sInv'
  OBVIOUS
<1>0. /\ I2sTypes /\ i2s \in Players /\ writer \in Writers /\ WriterInv /\ writer.pc = "stores" /\ Active
      /\ port' = port /\ setter' = setter /\ fate' = fate
      /\ i2s' = [i2s EXCEPT !.rate = writer.info] /\ writer' = [writer EXCEPT !.pc = "waits"]
  BY DEF I2sInv, I2sTypes, Stores, Active
<1>1. writer.info \in AllRates
  BY <1>0 DEF Writers
<1>2. i2s' \in Players /\ i2s'.state = i2s.state /\ i2s'.rate = writer.info
  BY <1>0, <1>1 DEF Players
<1>3. writer' \in Writers /\ writer'.pc = "waits"
  BY <1>0 DEF Writers
<1>4. Runs /\ Runs'
  BY <1>0, <1>2 DEF WriterInv, Runs
<1>5. WriterInv'
  BY <1>0, <1>3 DEF WriterInv
<1>6. I2sTypes' /\ Active'
  BY <1>0, <1>2, <1>3, <1>4 DEF I2sTypes, Active
<1>7. MusicInv'
  BY <1>0, <1>6 DEF I2sInv, MusicInv
<1>8. RateInv'
  BY <1>0, <1>2, <1>3 DEF I2sInv, RateInv
<1> QED
  BY <1>5, <1>6, <1>7, <1>8 DEF I2sInv

\* The element tells itself, or has told, how it goes on.
LEMMA EndsSoInv == I2sInv /\ Ends => I2sInv'
<1> SUFFICES ASSUME I2sInv, Ends PROVE I2sInv'
  OBVIOUS
<1>0. /\ I2sTypes /\ i2s \in Players /\ writer \in Writers /\ WriterInv /\ writer.pc = "flushes"
      /\ writer.then \in {"FINISH", "STOP"} /\ Active
      /\ port' = port /\ setter' = setter /\ fate' = fate
      /\ i2s' = Send(writer.then) /\ writer' = [writer EXCEPT !.pc = "waits", !.then = "none"]
  BY DEF I2sInv, I2sTypes, Ends, Active
<1>1. writer.then \in Cmds
  BY <1>0 DEF Cmds
<1>2. i2s' \in Players /\ i2s'.state = i2s.state /\ i2s'.rate = i2s.rate
  BY <1>0, <1>1, SendIs
<1>3. writer' \in Writers /\ writer'.pc = "waits"
  BY <1>0 DEF Writers
<1>4. Active'
  BY <1>0, <1>2 DEF WriterInv, Runs, Active
<1>5. WriterInv'
  BY <1>0, <1>3 DEF WriterInv
<1> QED
  BY <1>0, <1>2, <1>3, <1>4, <1>5, TaskStep

LEMMA HandlesInv == I2sInv /\ Handles => I2sInv'
<1> SUFFICES ASSUME I2sInv, Handles PROVE I2sInv'
  OBVIOUS
<1> DEFINE cmd == Head(i2s.cmds)
<1>0. /\ I2sTypes /\ i2s \in Players /\ writer \in Writers /\ port \in Ports /\ WriterInv /\ writer.pc = "waits" /\ i2s.cmds # <<>>
      /\ port' = port /\ setter' = setter /\ fate' = fate
  BY DEF I2sInv, I2sTypes, Handles, Wide
<1>1. cmd \in Cmds
  BY <1>0 DEF Players
<1>2. DmaBufCount \in Nat /\ DmaBufCount \in 0..DmaBufCount /\ Len(port.dma) \in Nat
  BY <1>0, I2sBounds DEF Ports
<1>3. \/ cmd = "RESUME" /\ i2s' = [TookCmd EXCEPT !.state = "RUNNING"] /\ writer' = writer
      \/ /\ cmd # "RESUME" /\ Runs
         /\ i2s' = [TookCmd EXCEPT !.state = IF cmd = "PAUSE" THEN "PAUSED" ELSE @]
         /\ writer' = [writer EXCEPT !.pc = "flushes", !.flush = FlushLength, !.then = StateOf[cmd]]
      \/ cmd # "RESUME" /\ ~Runs /\ i2s' = [TookCmd EXCEPT !.state = StateOf[cmd]] /\ writer' = writer
  BY DEF Handles
<1> HIDE DEF cmd
<1>4. CASE cmd = "RESUME" /\ i2s' = [TookCmd EXCEPT !.state = "RUNNING"] /\ writer' = writer
  <2>1. i2s' \in Players /\ i2s'.state = "RUNNING" /\ i2s'.rate = i2s.rate
    BY <1>0, <1>4, TookIs
  <2>2. WriterInv'
    BY <1>0, <1>4 DEF WriterInv
  <2>3. I2sTypes' /\ Active'
    BY <1>0, <1>4, <2>1 DEF I2sTypes, Active, Runs
  <2>4. MusicInv' /\ RateInv'
    BY <1>0, <1>4, <2>1, <2>3 DEF I2sInv, MusicInv, RateInv
  <2> QED
    BY <2>2, <2>3, <2>4 DEF I2sInv
<1>5. CASE /\ cmd # "RESUME" /\ Runs
           /\ i2s' = [TookCmd EXCEPT !.state = IF cmd = "PAUSE" THEN "PAUSED" ELSE @]
           /\ writer' = [writer EXCEPT !.pc = "flushes", !.flush = FlushLength, !.then = StateOf[cmd]]
  <2> DEFINE s == IF cmd = "PAUSE" THEN "PAUSED" ELSE TookCmd.state
             th == StateOf[cmd]
  <2>1. th \in {"PAUSED", "STOPPED", "FINISHED"}
    BY <1>1, <1>5, StateOfIs
  <2>2. writer' = [writer EXCEPT !.pc = "flushes", !.flush = DmaBufCount, !.then = th]
    BY <1>5 DEF FlushLength
  <2>3. TookCmd.state = "RUNNING"
    <3>1. TookCmd.state = i2s.state
      BY <1>0 DEF TookCmd, Players
    <3> QED
      BY <1>5, <3>1 DEF Runs
  <2>4. s \in {"INIT", "RUNNING", "PAUSED", "STOPPED", "FINISHED"} /\ i2s' = [TookCmd EXCEPT !.state = s]
    BY <1>5, <2>3
  <2> HIDE DEF s, th
  <2>5. i2s' \in Players /\ i2s'.rate = i2s.rate
    BY <1>0, <2>4, TookIs
  <2>6. writer' \in Writers /\ writer'.pc = "flushes" /\ writer'.flush = DmaBufCount /\ writer'.then = th
    BY <1>0, <1>2, <2>1, <2>2 DEF Writers
  <2>7. WriterInv'
    BY <1>0, <1>2, <2>1, <2>6 DEF WriterInv
  <2>8. Active /\ Active'
    BY <1>5, <2>6 DEF Active
  <2> QED
    BY <1>0, <2>5, <2>6, <2>7, <2>8, TaskStep
<1>6. CASE cmd # "RESUME" /\ ~Runs /\ i2s' = [TookCmd EXCEPT !.state = StateOf[cmd]] /\ writer' = writer
  <2>1. StateOf[cmd] \in {"PAUSED", "STOPPED", "FINISHED"}
    BY <1>1, <1>6, StateOfIs
  <2>2. i2s' \in Players /\ i2s'.state = StateOf[cmd] /\ i2s'.rate = i2s.rate
    BY <1>0, <1>6, <2>1, TookIs
  <2>3. ~Active /\ ~Active'
    BY <1>0, <1>6, <2>1, <2>2 DEF Active, Runs
  <2>4. WriterInv'
    BY <1>0, <1>6 DEF WriterInv
  <2>5. writer'.pc \notin {"writes", "stores"}
    BY <1>0, <1>6
  <2> QED
    BY <1>0, <1>6, <2>2, <2>3, <2>4, <2>5, TaskStep
<1> QED
  BY <1>3, <1>4, <1>5, <1>6

\* A stream that was flushed has no music left in its buffers.
LEMMA Closed16Inv == I2sInv /\ Closed16 => I2sInv'
<1> SUFFICES ASSUME I2sInv, Closed16 PROVE I2sInv'
  OBVIOUS
<1>0. /\ I2sTypes /\ i2s \in Players /\ writer \in Writers /\ port \in Ports /\ WriterInv /\ writer.pc = "flushes" /\ writer.flush = 0
      /\ writer.then \in {"PAUSED", "STOPPED", "FINISHED"} /\ Active
      /\ port' = port /\ setter' = setter /\ fate' = fate
      /\ i2s' = [i2s EXCEPT !.state = writer.then] /\ writer' = [writer EXCEPT !.pc = "waits", !.then = "none"]
  BY DEF I2sInv, I2sTypes, Closed16, Active
<1>1. i2s' \in Players /\ i2s'.rate = i2s.rate
  BY <1>0 DEF Players
<1>2. writer' \in Writers /\ writer'.pc = "waits"
  BY <1>0 DEF Writers
<1>3. WriterInv'
  BY <1>0, <1>2 DEF WriterInv
<1>4. ASSUME ~fate.met PROVE port.played = port.came
  <2>1. Len(port.dma) \in Nat /\ Len(port.dma) <= DmaBufCount /\ DmaBufCount \in Nat /\ port.played \in Nat /\ port.came \in Nat
    BY <1>0, I2sBounds DEF Ports, WriterInv
  <2>2. \A i \in 1..Len(port.dma) : port.dma[i] = Silent
    <3>1. ASSUME NEW i \in 1..Len(port.dma), port.dma[i] # Silent PROVE FALSE
      <4>1. i + DmaBufCount <= Len(port.dma) + 0
        BY <1>0, <3>1 DEF WriterInv
      <4> QED
        BY <2>1, <4>1
    <3> QED
      BY <3>1
  <2>3. MusicIs(port.dma, port.played, port.came)
    BY <1>4 DEF I2sInv, MusicInv
  <2>4. ASSUME port.played < port.came PROVE FALSE
    <3>1. port.played + 1 \in (port.played + 1)..port.came
      BY <2>1, <2>4
    <3>2. PICK i \in 1..Len(port.dma) : port.dma[i] = port.played + 1
      BY <2>3, <3>1 DEF MusicIs
    <3> QED
      BY <2>1, <2>2, <3>2 DEF Silent
  <2> QED
    BY <2>1, <2>3, <2>4 DEF MusicIs
<1>5. I2sTypes'
  BY <1>0, <1>1, <1>2 DEF I2sTypes
<1>6. MusicInv'
  BY <1>0, <1>4 DEF I2sInv, MusicInv
<1>7. RateInv'
  BY <1>0, <1>1, <1>2 DEF I2sInv, RateInv
<1> QED
  BY <1>3, <1>5, <1>6, <1>7 DEF I2sInv

-----------------------------------------------------------------------------
\* A buffer is filled.
Fills(u, c) == [port EXCEPT !.dma = Append(port.dma, u), !.came = c]
LEMMA FillsIs ==
  ASSUME port \in Ports, NEW u \in Nat, NEW c \in Nat
  PROVE  /\ Fills(u, c) \in Ports /\ Fills(u, c).dma = Append(port.dma, u) /\ Fills(u, c).came = c
         /\ Fills(u, c).played = port.played /\ Fills(u, c).rate = port.rate
<1> DEFINE d == Append(port.dma, u)
           p == Fills(u, c)
<1>1. d \in Seq(Nat)
  BY DEF Ports
<1>2. p = [port EXCEPT !.dma = d, !.came = c]
  BY DEF Fills
<1> HIDE DEF d, p
<1>3. p \in Ports
  BY <1>1, <1>2 DEF Ports
<1>4. p.dma = d /\ p.came = c /\ p.played = port.played /\ p.rate = port.rate
  BY <1>2 DEF Ports
<1> QED
  BY <1>3, <1>4 DEF p, d

LEMMA Writes16Inv == I2sInv /\ Writes16 => I2sInv'
<1> SUFFICES ASSUME I2sInv, Writes16 PROVE I2sInv'
  OBVIOUS
<1> DEFINE u == writer.unit
           c == IF u = Silent THEN port.came ELSE port.came + 1
<1>0. /\ I2sTypes /\ i2s \in Players /\ writer \in Writers /\ port \in Ports /\ WriterInv /\ writer.pc = "writes"
      /\ Len(port.dma) < DmaBufCount
      /\ i2s' = i2s /\ setter' = setter /\ fate' = fate
      /\ port' = [port EXCEPT !.dma = Append(port.dma, u), !.came = c] /\ writer' = [writer EXCEPT !.pc = "stores"]
  BY DEF I2sInv, I2sTypes, Writes16
<1>1. u \in Nat /\ c \in Nat /\ port.came \in Nat /\ port.played \in Nat /\ DmaBufCount \in Nat
  BY <1>0, I2sBounds DEF Writers, Ports
<1>2. u = Silent \/ u = port.came + 1
  BY <1>0 DEF WriterInv
<1>b. port' = Fills(u, c)
  BY <1>0 DEF Fills
<1> HIDE DEF u, c
<1>3. /\ port' \in Ports /\ port'.dma = Append(port.dma, u) /\ port'.came = c /\ port'.played = port.played
      /\ port'.rate = port.rate /\ Len(port'.dma) = Len(port.dma) + 1 /\ Len(port.dma) \in Nat /\ port.dma \in Seq(Nat)
  <2>1. /\ port' \in Ports /\ port'.dma = Append(port.dma, u) /\ port'.came = c /\ port'.played = port.played
        /\ port'.rate = port.rate
    BY <1>0, <1>1, <1>b, FillsIs
  <2>2. port.dma \in Seq(Nat)
    BY <1>0 DEF Ports
  <2> QED
    BY <1>1, <2>1, <2>2
<1>4. writer' \in Writers /\ writer'.pc = "stores" /\ writer'.info = writer.info
  BY <1>0 DEF Writers
<1>5. WriterInv'
  BY <1>0, <1>1, <1>3, <1>4 DEF WriterInv, Runs
<1>6. I2sTypes' /\ Active'
  BY <1>0, <1>3, <1>4 DEF I2sTypes, Active
<1>7. MusicIs(port.dma, port.played, port.came) => MusicIs(port'.dma, port'.played, port'.came)
  <2>1. CASE u = Silent
    <3>1. c = port.came
      BY <2>1 DEF c
    <3> QED
      BY <1>1, <1>3, <2>1, <3>1, MusicSilent
  <2>2. CASE u # Silent
    <3>1. c = port.came + 1 /\ u = port.came + 1
      BY <1>2, <2>2 DEF c
    <3> QED
      BY <1>1, <1>3, <3>1, MusicNext
  <2> QED
    BY <2>1, <2>2
<1>8. MusicInv'
  BY <1>0, <1>6, <1>7 DEF I2sInv, MusicInv
<1>9. RateInv'
  BY <1>0, <1>3, <1>4 DEF I2sInv, RateInv
<1> QED
  BY <1>5, <1>6, <1>8, <1>9 DEF I2sInv

LEMMA FlushesInv == I2sInv /\ Flushes => I2sInv'
<1> SUFFICES ASSUME I2sInv, Flushes PROVE I2sInv'
  OBVIOUS
<1>0. /\ I2sTypes /\ i2s \in Players /\ writer \in Writers /\ port \in Ports /\ WriterInv /\ writer.pc = "flushes"
      /\ Len(port.dma) < DmaBufCount /\ writer.flush > 0
      /\ i2s' = i2s /\ setter' = setter /\ fate' = fate
      /\ port' = [port EXCEPT !.dma = Append(port.dma, Silent)] /\ writer' = [writer EXCEPT !.flush = writer.flush - 1]
  BY DEF I2sInv, I2sTypes, Flushes
<1>1. Silent \in Nat /\ port.came \in Nat /\ port.played \in Nat /\ DmaBufCount \in Nat /\ writer.flush \in 0..DmaBufCount
  BY <1>0, I2sBounds DEF Writers, Ports, Silent
<1>a. writer.flush - 1 \in 0..DmaBufCount
  BY <1>0, <1>1
<1>2. port' = Fills(Silent, port.came)
  <2>1. Append(port.dma, Silent) \in Seq(Nat)
    BY <1>0, <1>1 DEF Ports
  <2> DEFINE d == Append(port.dma, Silent)
             p == [port EXCEPT !.dma = d]
             q == [port EXCEPT !.dma = d, !.came = port.came]
  <2> HIDE DEF d
  <2>2. p \in Ports /\ p.dma = d /\ p.came = port.came /\ p.played = port.played /\ p.rate = port.rate
    BY <1>0, <2>1 DEF Ports, d
  <2>3. q \in Ports /\ q.dma = d /\ q.came = port.came /\ q.played = port.played /\ q.rate = port.rate
    BY <1>0, <1>1, <2>1 DEF Ports, d
  <2> HIDE DEF p, q
  <2>4. p = q
    BY <2>2, <2>3 DEF Ports
  <2> QED
    BY <1>0, <2>4 DEF p, q, d, Fills
<1>3. /\ port' \in Ports /\ port'.dma = Append(port.dma, Silent) /\ port'.came = port.came /\ port'.played = port.played
      /\ port'.rate = port.rate /\ Len(port'.dma) = Len(port.dma) + 1 /\ Len(port.dma) \in Nat /\ port.dma \in Seq(Nat)
      /\ \A i \in 1..Len(port.dma) : port'.dma[i] = port.dma[i]
      /\ port'.dma[Len(port.dma) + 1] = Silent
  <2>1. /\ port' \in Ports /\ port'.dma = Append(port.dma, Silent) /\ port'.came = port.came /\ port'.played = port.played
        /\ port'.rate = port.rate
    <3>1. port \in Ports /\ Silent \in Nat /\ port.came \in Nat
      BY <1>0, <1>1
    <3>2. /\ Fills(Silent, port.came) \in Ports /\ Fills(Silent, port.came).dma = Append(port.dma, Silent)
          /\ Fills(Silent, port.came).came = port.came
          /\ Fills(Silent, port.came).played = port.played /\ Fills(Silent, port.came).rate = port.rate
      BY <3>1, FillsIs
    <3> QED
      BY <1>2, <3>2
  <2>2. port.dma \in Seq(Nat)
    BY <1>0 DEF Ports
  <2> QED
    BY <1>1, <2>1, <2>2
<1>4. writer' \in Writers /\ writer'.pc = "flushes" /\ writer'.flush = writer.flush - 1 /\ writer'.then = writer.then
  BY <1>0, <1>a DEF Writers
<1>5. WriterInv'
  <2>1. ASSUME NEW i \in 1..Len(port'.dma), port'.dma[i] # Silent
        PROVE  i + DmaBufCount <= Len(port'.dma) + writer'.flush
    <3>1. i \in 1..Len(port.dma)
      BY <1>3, <2>1
    <3>2. i + DmaBufCount <= Len(port.dma) + writer.flush
      BY <1>0, <1>3, <2>1, <3>1 DEF WriterInv
    <3> QED
      BY <1>1, <1>3, <1>4, <3>1, <3>2
  <2>2. Len(port'.dma) <= DmaBufCount
    BY <1>0, <1>1, <1>3
  <2> QED
    BY <1>0, <1>4, <2>1, <2>2 DEF WriterInv, Runs
<1>6. I2sTypes' /\ Active'
  BY <1>0, <1>3, <1>4 DEF I2sTypes, Active
<1>7. MusicIs(port.dma, port.played, port.came) => MusicIs(port'.dma, port'.played, port'.came)
  BY <1>1, <1>3, MusicSilent
<1>8. MusicInv'
  BY <1>0, <1>6, <1>7 DEF I2sInv, MusicInv
<1>9. RateInv'
  BY <1>0, <1>3, <1>4 DEF I2sInv, RateInv
<1> QED
  BY <1>5, <1>6, <1>8, <1>9 DEF I2sInv
-----------------------------------------------------------------------------
\* The port plays.
LEMMA PlaysInv == I2sInv /\ Plays => I2sInv'
<1> SUFFICES ASSUME I2sInv, Plays PROVE I2sInv'
  OBVIOUS
<1> DEFINE q == IF Head(port.dma) = Silent THEN port.played ELSE port.played + 1
           d == Tail(port.dma)
<1>0. /\ I2sTypes /\ i2s \in Players /\ writer \in Writers /\ port \in Ports /\ WriterInv /\ port.dma # <<>>
      /\ i2s' = i2s /\ writer' = writer /\ setter' = setter /\ fate' = fate
      /\ port' = [port EXCEPT !.dma = d, !.played = q]
  BY DEF I2sInv, I2sTypes, Plays
<1>1. /\ port.dma \in Seq(Nat) /\ port.came \in Nat /\ port.played \in Nat /\ Len(port.dma) \in Nat /\ Len(port.dma) >= 1
      /\ DmaBufCount \in Nat /\ writer.flush \in Int
  BY <1>0, I2sBounds DEF Writers, Ports
<1>2. d \in Seq(Nat) /\ q \in Nat /\ Len(d) = Len(port.dma) - 1 /\ \A i \in 1..Len(d) : d[i] = port.dma[i + 1]
  BY <1>1
<1>a. MusicIs(port.dma, port.played, port.came) => MusicIs(d, q, port.came)
  BY <1>0, <1>1, MusicHeard
<1> HIDE DEF d, q
<1>3. port' \in Ports
  BY <1>0, <1>2 DEF Ports
<1>4. port'.dma = d /\ port'.played = q /\ port'.came = port.came /\ port'.rate = port.rate
  BY <1>0 DEF Ports
<1>5. WriterInv'
  <2>1. ASSUME writer.pc = "flushes", NEW i \in 1..Len(d), d[i] # Silent
        PROVE  i + DmaBufCount <= Len(d) + writer.flush
    <3>1. i + 1 \in 1..Len(port.dma) /\ port.dma[i + 1] # Silent
      BY <1>1, <1>2, <2>1, SMTT(30)
    <3>2. (i + 1) + DmaBufCount <= Len(port.dma) + writer.flush
      BY <1>0, <2>1, <3>1 DEF WriterInv
    <3> QED
      BY <1>1, <1>2, <3>2, SMTT(30)
  <2>2. Len(d) <= DmaBufCount
    BY <1>0, <1>1, <1>2 DEF WriterInv
  <2> QED
    BY <1>0, <1>4, <2>1, <2>2 DEF WriterInv, Runs
<1>6. MusicInv'
  <2>1. (~fate.met /\ ~Active) => q = port.came
    <3> SUFFICES ASSUME ~fate.met, ~Active PROVE q = port.came
      OBVIOUS
    <3>1. MusicIs(d, q, port.came) /\ port.played = port.came
      BY <1>a DEF I2sInv, MusicInv
    <3>2. q <= port.came
      BY <3>1 DEF MusicIs
    <3> QED
      BY <1>1, <3>1, <3>2 DEF q
  <2>2. Active' = Active
    BY <1>0 DEF Active, Runs
  <2>3. fate'.met = fate.met
    BY <1>0
  <2>4. ASSUME ~fate.met PROVE MusicIs(d, q, port.came)
    BY <1>a, <2>4 DEF I2sInv, MusicInv
  <2> QED
    BY <1>4, <2>1, <2>2, <2>3, <2>4 DEF MusicInv
<1>7. RateInv'
  BY <1>0, <1>4 DEF I2sInv, RateInv
<1>8. I2sTypes'
  BY <1>0, <1>3 DEF I2sTypes
<1> QED
  BY <1>5, <1>6, <1>7, <1>8 DEF I2sInv

-----------------------------------------------------------------------------
\* Other tasks.
LEMMA AnotherSends ==
  ASSUME I2sInv, NEW cmd \in Cmds, i2s' = Send(cmd), UNCHANGED <<writer, port, setter>>, fate' \in Fates, fate'.met = fate.met
  PROVE  I2sInv'
<1>0. I2sTypes /\ i2s \in Players /\ WriterInv
  BY DEF I2sInv, I2sTypes
<1>1. i2s' \in Players /\ i2s'.state = i2s.state /\ i2s'.rate = i2s.rate
  BY <1>0, SendIs
<1>2. I2sTypes'
  BY <1>0, <1>1 DEF I2sTypes
<1>3. WriterInv'
  BY <1>0, <1>1 DEF WriterInv, Runs
<1>4. MusicInv'
  BY <1>1 DEF I2sInv, MusicInv, Active, Runs
<1>5. RateInv'
  BY <1>1 DEF I2sInv, RateInv
<1> QED
  BY <1>2, <1>3, <1>4, <1>5 DEF I2sInv

LEMMA ResumesInv == I2sInv /\ Resumes => I2sInv'
<1> SUFFICES ASSUME I2sInv, Resumes PROVE I2sInv'
  OBVIOUS
<1>1. "RESUME" \in Cmds
  BY DEF Cmds
<1>2. i2s' = Send("RESUME") /\ UNCHANGED <<writer, port, setter>> /\ fate' = fate /\ fate \in Fates
  BY DEF Resumes, I2sInv, I2sTypes
<1> QED
  BY <1>1, <1>2, AnotherSends
LEMMA HoldsUpInv == I2sInv /\ Holds => I2sInv'
<1> SUFFICES ASSUME I2sInv, Holds PROVE I2sInv'
  OBVIOUS
<1>1. fate \in Fates /\ fate' = [fate EXCEPT !.holds = fate.holds + 1] /\ UNCHANGED <<writer, port, setter>>
  BY DEF I2sInv, I2sTypes, Holds
<1>2. fate' \in Fates /\ fate'.met = fate.met
  BY <1>1 DEF Fates
<1>3. PICK cmd \in {"PAUSE", "STOP"} : i2s' = Send(cmd)
  BY DEF Holds
<1>4. cmd \in Cmds
  BY DEF Cmds
<1> QED
  BY <1>1, <1>2, <1>3, <1>4, AnotherSends

LEMMA SetClkInv == I2sInv /\ SetClk => I2sInv'
<1> SUFFICES ASSUME I2sInv, SetClk PROVE I2sInv'
  OBVIOUS
<1> DEFINE run == Runs
<1>0. /\ I2sTypes /\ i2s \in Players /\ setter \in Setters /\ fate \in Fates /\ WriterInv /\ setter.pc = "none"
      /\ fate' = [fate EXCEPT !.calls = fate.calls + 1] /\ UNCHANGED <<writer, port>>
      /\ i2s' = IF run THEN Send("PAUSE") ELSE i2s
  BY DEF I2sInv, I2sTypes, SetClk
<1>1. PICK r \in Rates : setter' = [setter EXCEPT !.pc = IF run THEN "awaits" ELSE "copies", !.rate = r, !.paused = run]
  BY DEF SetClk
<1>2. r \in AllRates /\ run \in BOOLEAN
  BY DEF AllRates, Runs
<1>3. "PAUSE" \in Cmds
  BY DEF Cmds
<1>4. i2s' \in Players /\ i2s'.state = i2s.state /\ i2s'.rate = i2s.rate
  BY <1>0, <1>3, SendIs
<1> HIDE DEF run
<1>5. setter' \in Setters /\ setter'.pc # "clocks"
  BY <1>0, <1>1, <1>2 DEF Setters
<1>6. fate' \in Fates /\ fate'.met = fate.met
  BY <1>0 DEF Fates
<1>7. I2sTypes'
  BY <1>0, <1>4, <1>5, <1>6 DEF I2sTypes
<1>8. WriterInv'
  BY <1>0, <1>4 DEF WriterInv, Runs
<1>9. MusicInv'
  BY <1>0, <1>4, <1>6 DEF I2sInv, MusicInv, Active, Runs
<1>10. RateInv'
  BY <1>0, <1>4, <1>5, <1>6 DEF I2sInv, RateInv
<1> QED
  BY <1>7, <1>8, <1>9, <1>10 DEF I2sInv

LEMMA Paused16Inv == I2sInv /\ Paused16 => I2sInv'
<1> SUFFICES ASSUME I2sInv, Paused16 PROVE I2sInv'
  OBVIOUS
<1>0. /\ I2sTypes /\ setter \in Setters /\ setter.pc = "awaits" /\ setter' = [setter EXCEPT !.pc = "copies"]
      /\ i2s' = i2s /\ writer' = writer /\ port' = port /\ fate' = fate
  BY DEF I2sInv, I2sTypes, Paused16
<1>1. setter' \in Setters /\ setter'.pc = "copies"
  BY <1>0 DEF Setters
<1>2. I2sTypes' /\ WriterInv' /\ MusicInv'
  BY <1>0, <1>1 DEF I2sInv, I2sTypes, WriterInv, MusicInv, Active, Runs
<1>3. RateInv'
  BY <1>0, <1>1 DEF I2sInv, RateInv
<1> QED
  BY <1>2, <1>3 DEF I2sInv

\* What a step of the setter says of the task: either it is in the way, or the buffers hold no music.
LEMMA SetsIs ==
  ASSUME fate \in Fates, NEW next, Sets(next)
  PROVE  setter' = next /\ fate' \in Fates /\ (~fate'.met => ~fate.met /\ ~Active)
<1> DEFINE met == fate.met \/ Active
<1>1. met \in BOOLEAN
  OBVIOUS
<1>2. fate' = [fate EXCEPT !.met = met] /\ setter' = next
  BY DEF Sets
<1>3. (~met) => (~fate.met /\ ~Active)
  OBVIOUS
<1> HIDE DEF met
<1>4. fate' \in Fates /\ fate'.met = met
  BY <1>1, <1>2 DEF Fates
<1> QED
  BY <1>2, <1>3, <1>4

LEMMA SetCopiesInv == I2sInv /\ SetCopies => I2sInv'
<1> SUFFICES ASSUME I2sInv, SetCopies PROVE I2sInv'
  OBVIOUS
<1> DEFINE next == [setter EXCEPT !.pc = "stores"]
<1>0. /\ I2sTypes /\ setter \in Setters /\ fate \in Fates /\ setter.pc = "copies" /\ Sets(next)
      /\ i2s' = i2s /\ writer' = writer /\ port' = port
  BY DEF I2sInv, I2sTypes, SetCopies
<1>1. next \in Setters /\ next.pc = "stores"
  BY <1>0 DEF Setters
<1> HIDE DEF next
<1>2. setter' = next /\ fate' \in Fates /\ (~fate'.met => ~fate.met /\ ~Active)
  BY <1>0, SetsIs
<1>3. I2sTypes' /\ WriterInv' /\ MusicInv'
  BY <1>0, <1>1, <1>2 DEF I2sInv, I2sTypes, WriterInv, MusicInv, Active, Runs
<1>4. RateInv'
  BY <1>0, <1>1, <1>2 DEF I2sInv, RateInv
<1> QED
  BY <1>3, <1>4 DEF I2sInv

LEMMA SetStoresInv == I2sInv /\ SetStores => I2sInv'
<1> SUFFICES ASSUME I2sInv, SetStores PROVE I2sInv'
  OBVIOUS
<1> DEFINE next == [setter EXCEPT !.pc = "clocks"]
<1>0. /\ I2sTypes /\ i2s \in Players /\ setter \in Setters /\ fate \in Fates /\ setter.pc = "stores" /\ Sets(next)
      /\ i2s' = [i2s EXCEPT !.rate = setter.rate] /\ writer' = writer /\ port' = port
  BY DEF I2sInv, I2sTypes, SetStores
<1>1. next \in Setters /\ next.pc = "clocks" /\ next.rate = setter.rate /\ setter.rate \in AllRates
  BY <1>0 DEF Setters
<1> HIDE DEF next
<1>2. setter' = next /\ fate' \in Fates /\ (~fate'.met => ~fate.met /\ ~Active)
  BY <1>0, SetsIs
<1>3. i2s' \in Players /\ i2s'.state = i2s.state /\ i2s'.rate = setter.rate
  BY <1>0, <1>1 DEF Players
<1>4. I2sTypes' /\ WriterInv' /\ MusicInv'
  BY <1>0, <1>1, <1>2, <1>3 DEF I2sInv, I2sTypes, WriterInv, MusicInv, Active, Runs
<1>5. RateInv'
  <2>1. ~fate'.met => writer.pc = "waits"
    BY <1>2 DEF Active
  <2> QED
    BY <1>0, <1>1, <1>2, <1>3, <2>1 DEF RateInv
<1> QED
  BY <1>4, <1>5 DEF I2sInv

LEMMA SetClocksInv == I2sInv /\ SetClocks => I2sInv'
<1> SUFFICES ASSUME I2sInv, SetClocks PROVE I2sInv'
  OBVIOUS
<1> DEFINE next == [setter EXCEPT !.pc = "none"]
           d == <<>>
           empty == [port EXCEPT !.rate = setter.rate, !.dma = d]
<1>0. /\ I2sTypes /\ i2s \in Players /\ setter \in Setters /\ fate \in Fates /\ port \in Ports /\ WriterInv
      /\ setter.pc = "clocks" /\ Sets(next) /\ port' = empty /\ writer' = writer
      /\ i2s' = IF setter.paused /\ i2s.state \notin {"RUNNING", "FINISHED"} THEN Send("RESUME") ELSE i2s
  BY DEF I2sInv, I2sTypes, SetClocks
<1>1. next \in Setters /\ next.pc = "none" /\ setter.rate \in AllRates
  BY <1>0 DEF Setters
<1> HIDE DEF next
<1>2. setter' = next /\ fate' \in Fates /\ (~fate'.met => ~fate.met /\ ~Active)
  BY <1>0, SetsIs
<1>3. "RESUME" \in Cmds
  BY DEF Cmds
<1>4. i2s' \in Players /\ i2s'.state = i2s.state /\ i2s'.rate = i2s.rate
  BY <1>0, <1>3, SendIs
<1>a. d \in Seq(Nat) /\ Len(d) = 0
  OBVIOUS
<1> HIDE DEF d
<1>b. empty \in Ports
  BY <1>0, <1>1, <1>a DEF Ports
<1>c. empty.dma = d /\ empty.rate = setter.rate /\ empty.played = port.played /\ empty.came = port.came
  BY <1>0 DEF Ports
<1> HIDE DEF empty
<1>5. port' \in Ports /\ Len(port'.dma) = 0 /\ port'.rate = setter.rate /\ port'.played = port.played /\ port'.came = port.came
      /\ port.played \in Nat /\ port.came \in Nat /\ DmaBufCount \in Nat
  BY <1>0, <1>a, <1>b, <1>c, I2sBounds DEF Ports
<1>6. I2sTypes'
  BY <1>0, <1>1, <1>2, <1>4, <1>5 DEF I2sTypes
<1>7. WriterInv'
  BY <1>0, <1>4, <1>5 DEF WriterInv, Runs
<1>8. MusicInv'
  <2>1. ASSUME ~fate'.met PROVE port.played = port.came
    BY <1>2, <2>1 DEF I2sInv, MusicInv
  <2>2. ASSUME port.played = port.came PROVE MusicIs(port'.dma, port'.played, port'.came)
    BY <1>5, <2>2 DEF MusicIs
  <2> QED
    BY <1>5, <2>1, <2>2 DEF MusicInv
<1>9. RateInv'
  <2>1. ~fate'.met => writer.pc = "waits" /\ i2s.rate = setter.rate
    BY <1>0, <1>2 DEF Active, I2sInv, RateInv
  <2> QED
    BY <1>0, <1>1, <1>2, <1>4, <1>5, <2>1 DEF RateInv
<1> QED
  BY <1>6, <1>7, <1>8, <1>9 DEF I2sInv

LEMMA I2sStep == I2sInv /\ [I2sNext]_i2ss => I2sInv'
<1>1. ASSUME I2sInv, UNCHANGED i2ss PROVE I2sInv'
  BY <1>1 DEF I2sInv, I2sTypes, WriterInv, MusicInv, RateInv, Active, Runs, i2ss
<1> QED
  BY <1>1, InputsInv, CopiesInv, Writes16Inv, StoresInv, FlushesInv, EndsSoInv, HandlesInv, Closed16Inv, PlaysInv, ResumesInv,
     HoldsUpInv, SetClkInv, Paused16Inv, SetCopiesInv, SetStoresInv, SetClocksInv DEF I2sNext, I2sTask

LEMMA I2sInvPlayed == I2sInv => BuffersPlayed
<1> SUFFICES ASSUME I2sInv, ~fate.met PROVE BuffersPlayed
  BY DEF BuffersPlayed
<1> DEFINE music == {i \in DOMAIN port.dma : port.dma[i] # Silent}
<1>1. MusicIs(port.dma, port.played, port.came) /\ (~Active => port.played = port.came)
  BY DEF I2sInv, MusicInv
<1>2. DOMAIN port.dma = 1..Len(port.dma) /\ port.played \in Nat /\ port.came \in Nat
  BY DEF I2sInv, I2sTypes, Ports
<1>3. {port.dma[i] : i \in music} = (port.played + 1)..port.came
  <2>1. ASSUME NEW i \in music PROVE port.dma[i] \in (port.played + 1)..port.came
    BY <1>1, <1>2 DEF MusicIs
  <2>2. ASSUME NEW k \in (port.played + 1)..port.came PROVE \E i \in music : port.dma[i] = k
    <3>1. PICK i \in 1..Len(port.dma) : port.dma[i] = k
      BY <1>1 DEF MusicIs
    <3>2. i \in music
      BY <1>2, <3>1 DEF Silent
    <3> QED
      BY <3>1, <3>2
  <2> HIDE DEF music
  <2> QED
    BY <2>1, <2>2
<1>4. \A i, j \in music : i < j => port.dma[i] < port.dma[j]
  BY <1>1, <1>2 DEF MusicIs
<1>5. setter.pc \in {"none", "awaits"} => i2s.rate = port.rate
  BY DEF I2sInv, RateInv
<1> QED
  BY <1>1, <1>3, <1>4, <1>5 DEF BuffersPlayed
-----------------------------------------------------------------------------
(***************************************************************************)
(* The samples of a buffer.                                                *)
(***************************************************************************)

\* Where the fix moves a sample, and what a buffer on its way to the port is made of.
Other(i) == IF i % 2 = 0 THEN i + 1 ELSE i - 1
Place(bits, channels, i) ==
  IF channels = 1 /\ bits \in {16, 32} /\ (bits = 16 \/ i % 4 < 2) THEN Other(i) ELSE i
Driven(bits, dac, s) == IF dac /\ bits \in {16, 32} THEN DacScale(s) ELSE s
Pcms(n) ==
  [bits : Widths, channels : {1, 2}, dac : BOOLEAN, given : [0..(n - 1) -> Levels], todo : {"writes", "reads", "done"},
   buf : [0..n -> Int]]
PcmOf(n) ==
  n % 2 = 0 =>
    /\ pcm.buf[n] = Behind
    /\ pcm.todo # "reads" => \A i \in 0..(n - 1) : pcm.buf[i] = pcm.given[i]
    /\ pcm.todo = "reads" =>
         \A i \in 0..(n - 1) : pcm.buf[i] = Driven(pcm.bits, pcm.dac, pcm.given[Place(pcm.bits, pcm.channels, i)])
PcmInv == \E n \in Nat \ {0} : pcm \in Pcms(n) /\ PcmOf(n)

LEMMA LevelsIs == ASSUME NEW l \in Levels PROVE l \in -128..127 /\ l \in Int
<1>1. l \in -128..127
  BY SampleBounds
<1> QED
  BY <1>1
LEMMA ScaleGrows == ASSUME NEW x \in -128..127, NEW y \in -128..127, x <= y PROVE DacScale(x) <= DacScale(y)
<1>1. (x + 128) % 256 = x + 128
  OBVIOUS
<1>2. (y + 128) % 256 = y + 128
  OBVIOUS
<1> QED
  BY <1>1, <1>2 DEF DacScale
LEMMA PlaceIs ==
  ASSUME NEW n \in Nat, n % 2 = 0, NEW i \in 0..(n - 1), NEW b, NEW c
  PROVE  Place(b, c, i) \in 0..(n - 1) /\ Place(b, c, Place(b, c, i)) = i
<1>1. Other(i) \in 0..(n - 1) /\ Other(Other(i)) = i /\ (Other(i) % 4 < 2 <=> i % 4 < 2)
  BY DEF Other
<1> QED
  BY <1>1 DEF Place
LEMMA SamplesIs == ASSUME NEW n \in Nat \ {0}, pcm \in Pcms(n) PROVE Samples = n /\ DOMAIN pcm.given = 0..(n - 1)
<1>1. DOMAIN pcm.given = 0..(n - 1)
  BY DEF Pcms
<1>2. Cardinality(0..(n - 1)) = n
  <2>1. 0 \in Int /\ n - 1 \in Int
    OBVIOUS
  <2>2. Cardinality(0..(n - 1)) = IF 0 > n - 1 THEN 0 ELSE (n - 1) - 0 + 1
    BY <2>1, FS_Interval
  <2> QED
    BY <2>2
<1> QED
  BY <1>1, <1>2 DEF Samples

\* The fix fetches each sample from its other place, and leaves what is behind the buffer.
LEMMA MonoFixIs ==
  ASSUME NEW n \in Nat \ {0}, pcm \in Pcms(n), Converted, pcm.channels = 1
  PROVE  /\ MonoFix \in [0..n -> Int]
         /\ n % 2 = 0 => /\ MonoFix[n] = pcm.buf[n]
                         /\ \A i \in 0..(n - 1) : MonoFix[i] = pcm.buf[Place(pcm.bits, pcm.channels, i)]
<1> DEFINE st == Stride
           sw == Swaps
           b == pcm.buf
<1>1. b \in [0..n -> Int] /\ DOMAIN b = 0..n
  BY DEF Pcms
<1>2. (pcm.bits = 16 /\ st = 2) \/ (pcm.bits = 32 /\ st = 4)
  BY DEF Converted, Stride
<1>3. sw = {i \in 0..(n - 1) : i % st = 0}
  BY SamplesIs DEF Swaps
<1> HIDE DEF st, sw
<1>4. MonoFix = [i \in 0..n |-> IF i \in sw THEN b[i + 1] ELSE IF i - 1 \in sw THEN b[i - 1] ELSE b[i]]
  BY <1>1 DEF MonoFix, sw
<1> HIDE DEF b
<1>5. \A i \in 0..n : (i \in sw => i + 1 \in 0..n) /\ (i - 1 \in sw => i - 1 \in 0..n)
  BY <1>3
<1>6. MonoFix \in [0..n -> Int]
  BY <1>1, <1>4, <1>5
<1>7. ASSUME n % 2 = 0 PROVE MonoFix[n] = b[n]
  <2>1. n \notin sw /\ n - 1 \notin sw /\ n \in 0..n
    BY <1>2, <1>3, <1>7
  <2> QED
    BY <1>4, <2>1
<1>8. ASSUME n % 2 = 0, NEW i \in 0..(n - 1) PROVE MonoFix[i] = b[Place(pcm.bits, pcm.channels, i)]
  <2>1. i \in 0..n /\ MonoFix[i] = IF i \in sw THEN b[i + 1] ELSE IF i - 1 \in sw THEN b[i - 1] ELSE b[i]
    BY <1>4
  <2>2. CASE pcm.bits = 16 /\ st = 2
    <3>1. (i \in sw <=> i % 2 = 0) /\ (i % 2 # 0 => i - 1 \in sw)
      BY <1>3, <2>2
    <3>2. Place(pcm.bits, pcm.channels, i) = IF i % 2 = 0 THEN i + 1 ELSE i - 1
      BY <2>2 DEF Place, Other
    <3> QED
      BY <2>1, <3>1, <3>2
  <2>3. CASE pcm.bits = 32 /\ st = 4
    <3>1. (i \in sw <=> i % 4 = 0) /\ (i - 1 \in sw <=> i % 4 = 1)
      BY <1>3, <2>3
    <3>2. Place(pcm.bits, pcm.channels, i) = IF i % 4 = 0 THEN i + 1 ELSE IF i % 4 = 1 THEN i - 1 ELSE i
      BY <2>3 DEF Place, Other
    <3> QED
      BY <2>1, <3>1, <3>2
  <2> QED
    BY <1>2, <2>2, <2>3
<1> QED
  BY <1>6, <1>7, <1>8 DEF b

LEMMA PcmInitInv == PcmInit => PcmInv
<1> SUFFICES ASSUME PcmInit PROVE PcmInv
  OBVIOUS
<1>1. PICK bits \in Widths, channels \in {1, 2}, dac \in BOOLEAN, n \in 1..MaxSamples : \E s \in [0..(n - 1) -> Levels] :
        pcm = [bits |-> bits, channels |-> channels, dac |-> dac, given |-> s, todo |-> "writes",
               buf |-> [i \in 0..n |-> IF i = n THEN Behind ELSE s[i]]]
  BY DEF PcmInit
<1>2. PICK s \in [0..(n - 1) -> Levels] :
        pcm = [bits |-> bits, channels |-> channels, dac |-> dac, given |-> s, todo |-> "writes",
               buf |-> [i \in 0..n |-> IF i = n THEN Behind ELSE s[i]]]
  BY <1>1
<1> DEFINE b == [i \in 0..n |-> IF i = n THEN Behind ELSE s[i]]
<1>3. n \in Nat \ {0}
  BY SampleBounds
<1>4. b \in [0..n -> Int] /\ b[n] = Behind /\ \A i \in 0..(n - 1) : b[i] = s[i]
  <2>1. \A i \in 0..(n - 1) : s[i] \in Int
    <3>1. ASSUME NEW i \in 0..(n - 1) PROVE s[i] \in Int
      <4>1. s[i] \in Levels
        BY <1>2
      <4> QED
        BY <4>1, LevelsIs
    <3> QED
      BY <3>1
  <2>2. \A i \in 0..n : i = n \/ i \in 0..(n - 1)
    BY <1>3
  <2>3. n \in 0..n /\ \A i \in 0..(n - 1) : i \in 0..n /\ i # n
    BY <1>3
  <2>4. Behind \in Int
    BY DEF Behind
  <2> QED
    BY <2>1, <2>2, <2>3, <2>4
<1> HIDE DEF b
<1>5. pcm = [bits |-> bits, channels |-> channels, dac |-> dac, given |-> s, todo |-> "writes", buf |-> b]
  BY <1>2 DEF b
<1>6. pcm \in Pcms(n)
  BY <1>4, <1>5 DEF Pcms
<1>7. PcmOf(n)
  BY <1>4, <1>5 DEF PcmOf
<1> QED
  BY <1>3, <1>6, <1>7 DEF PcmInv

LEMMA PcmWritesInv == PcmInv /\ PcmWrites => PcmInv'
<1> SUFFICES ASSUME PcmInv, PcmWrites PROVE PcmInv'
  OBVIOUS
<1>1. PICK n \in Nat \ {0} : pcm \in Pcms(n) /\ PcmOf(n)
  BY DEF PcmInv
<1> DEFINE mono == pcm.channels = 1 /\ Converted
           fixed == IF mono THEN MonoFix ELSE pcm.buf
           at(i) == Place(pcm.bits, pcm.channels, i)
           dr(s) == Driven(pcm.bits, pcm.dac, s)
           drives == pcm.dac /\ Converted
           b == [i \in 0..n |-> IF drives /\ i \in 0..(n - 1) THEN DacScale(fixed[i]) ELSE fixed[i]]
<1>2. pcm.buf \in [0..n -> Int] /\ pcm.given \in [0..(n - 1) -> Levels] /\ pcm.todo = "writes"
  BY <1>1 DEF Pcms, PcmWrites
<1>3. fixed \in [0..n -> Int]
  BY <1>1, <1>2, MonoFixIs
<1>4. ASSUME n % 2 = 0
      PROVE  fixed[n] = Behind /\ \A i \in 0..(n - 1) : fixed[i] = pcm.given[at(i)]
  <2>1. pcm.buf[n] = Behind /\ \A i \in 0..(n - 1) : pcm.buf[i] = pcm.given[i]
    BY <1>1, <1>2, <1>4 DEF PcmOf
  <2>2. \A i \in 0..(n - 1) : at(i) \in 0..(n - 1)
    BY <1>4, PlaceIs
  <2>3. CASE mono
    <3>1. fixed = MonoFix
      BY <2>3
    <3>2. MonoFix[n] = pcm.buf[n] /\ \A i \in 0..(n - 1) : MonoFix[i] = pcm.buf[at(i)]
      BY <1>1, <1>4, <2>3, MonoFixIs
    <3> QED
      BY <2>1, <2>2, <3>1, <3>2
  <2>4. CASE ~mono
    <3>1. fixed = pcm.buf /\ \A i \in 0..(n - 1) : at(i) = i
      BY <2>4 DEF Place, Converted
    <3> QED
      BY <2>1, <3>1
  <2> QED
    BY <2>3, <2>4
<1>5. pcm' = [pcm EXCEPT !.todo = "reads", !.buf = b]
  <2>1. DOMAIN fixed = 0..n /\ Samples = n
    BY <1>1, <1>3, SamplesIs
  <2> QED
    BY <2>1 DEF PcmWrites
<1>6. drives \in BOOLEAN /\ (drives <=> (pcm.dac /\ pcm.bits \in {16, 32}))
  BY <1>1 DEF Pcms, Converted
<1> HIDE DEF fixed, drives
<1>7. b \in [0..n -> Int]
  BY <1>3 DEF DacScale
<1>8. b[n] = fixed[n] /\ \A i \in 0..(n - 1) : b[i] = IF drives THEN DacScale(fixed[i]) ELSE fixed[i]
  OBVIOUS
<1> HIDE DEF b
<1>9. /\ pcm' \in Pcms(n)
      /\ pcm'.buf = b /\ pcm'.todo = "reads" /\ pcm'.bits = pcm.bits /\ pcm'.channels = pcm.channels
      /\ pcm'.dac = pcm.dac /\ pcm'.given = pcm.given
  BY <1>1, <1>5, <1>7 DEF Pcms
<1>10. ASSUME n % 2 = 0 PROVE b[n] = Behind /\ \A i \in 0..(n - 1) : b[i] = dr(pcm.given[at(i)])
  BY <1>4, <1>6, <1>8, <1>10 DEF Driven
<1>11. PcmOf(n)'
  BY <1>9, <1>10 DEF PcmOf
<1> QED
  BY <1>9, <1>11 DEF PcmInv

LEMMA PcmReadsInv == PcmInv /\ PcmReads => PcmInv'
<1> SUFFICES ASSUME PcmInv, PcmReads PROVE PcmInv'
  OBVIOUS
<1>1. PICK n \in Nat \ {0} : pcm \in Pcms(n) /\ PcmOf(n)
  BY DEF PcmInv
<1> DEFINE mono == pcm.channels = 1 /\ Converted
           fixed == IF mono THEN MonoFix ELSE pcm.buf
           at(i) == Place(pcm.bits, pcm.channels, i)
<1>2. pcm.buf \in [0..n -> Int] /\ pcm.todo = "reads" /\ ~pcm.dac
  BY <1>1 DEF Pcms, PcmReads
<1>3. fixed \in [0..n -> Int]
  BY <1>1, <1>2, MonoFixIs
<1>4. ASSUME n % 2 = 0 PROVE fixed[n] = Behind /\ \A i \in 0..(n - 1) : fixed[i] = pcm.given[i]
  <2>1. pcm.buf[n] = Behind /\ \A i \in 0..(n - 1) : pcm.buf[i] = pcm.given[at(i)]
    BY <1>1, <1>2, <1>4 DEF PcmOf, Driven
  <2>2. \A i \in 0..(n - 1) : at(i) \in 0..(n - 1) /\ at(at(i)) = i
    BY <1>4, PlaceIs
  <2>3. CASE mono
    <3>1. fixed = MonoFix
      BY <2>3
    <3>2. MonoFix[n] = pcm.buf[n] /\ \A i \in 0..(n - 1) : MonoFix[i] = pcm.buf[at(i)]
      BY <1>1, <1>4, <2>3, MonoFixIs
    <3> QED
      BY <2>1, <2>2, <3>1, <3>2
  <2>4. CASE ~mono
    <3>1. fixed = pcm.buf /\ \A i \in 0..(n - 1) : at(i) = i
      BY <2>4 DEF Place, Converted
    <3> QED
      BY <2>1, <3>1
  <2> QED
    BY <2>3, <2>4
<1>5. pcm' = [pcm EXCEPT !.todo = "done", !.buf = fixed]
  BY DEF PcmReads
<1> HIDE DEF fixed
<1>6. /\ pcm' \in Pcms(n) /\ pcm'.buf = fixed /\ pcm'.todo = "done" /\ pcm'.given = pcm.given
  BY <1>1, <1>3, <1>5 DEF Pcms
<1>7. PcmOf(n)'
  BY <1>4, <1>6 DEF PcmOf
<1> QED
  BY <1>6, <1>7 DEF PcmInv

LEMMA PcmStep == PcmInv /\ [PcmNext]_pcm => PcmInv'
<1>1. ASSUME PcmInv, UNCHANGED pcm PROVE PcmInv'
  BY <1>1 DEF PcmInv, Pcms, PcmOf
<1> QED
  BY <1>1, PcmWritesInv, PcmReadsInv DEF PcmNext

LEMMA PcmInvPairs == PcmInv => PairsKept
<1> SUFFICES ASSUME PcmInv PROVE PairsKept
  OBVIOUS
<1>1. PICK n \in Nat \ {0} : pcm \in Pcms(n) /\ PcmOf(n)
  BY DEF PcmInv
<1> DEFINE at(i) == Place(pcm.bits, pcm.channels, i)
           other(i) == IF i % 2 = 0 THEN i + 1 ELSE i - 1
           place(i) == IF pcm.channels = 1 /\ Converted /\ (pcm.bits = 16 \/ i % 4 < 2) THEN other(i) ELSE i
<1>2. Samples = n /\ DOMAIN pcm.given = 0..(n - 1) /\ pcm.given \in [0..(n - 1) -> Levels]
  BY <1>1, SamplesIs DEF Pcms
<1>3. \A i : place(i) = at(i)
  BY DEF Place, Other, Converted
<1> HIDE DEF at, place
<1> SUFFICES ASSUME n % 2 = 0
             PROVE  /\ pcm.buf[n] = Behind
                    /\ pcm.todo = "done" => \A i \in 0..(n - 1) : pcm.buf[i] = pcm.given[i]
                    /\ pcm.todo = "reads" =>
                         IF pcm.dac /\ Converted
                         THEN \A i, j \in 0..(n - 1) : pcm.given[i] <= pcm.given[j] => pcm.buf[place(i)] <= pcm.buf[place(j)]
                         ELSE \A i \in 0..(n - 1) : pcm.buf[place(i)] = pcm.given[i]
  BY <1>2 DEF PairsKept, place
<1>4. pcm.buf[n] = Behind /\ (pcm.todo = "done" => \A i \in 0..(n - 1) : pcm.buf[i] = pcm.given[i])
  BY <1>1 DEF PcmOf
<1>5. ASSUME pcm.todo = "reads", NEW i \in 0..(n - 1)
      PROVE  pcm.buf[place(i)] = Driven(pcm.bits, pcm.dac, pcm.given[i])
  <2>1. at(i) \in 0..(n - 1) /\ at(at(i)) = i
    BY PlaceIs DEF at
  <2>2. pcm.buf[at(i)] = Driven(pcm.bits, pcm.dac, pcm.given[at(at(i))])
    BY <1>1, <1>5, <2>1 DEF PcmOf, at
  <2> QED
    BY <1>3, <2>1, <2>2
<1>6. ASSUME pcm.todo = "reads", ~(pcm.dac /\ Converted), NEW i \in 0..(n - 1) PROVE pcm.buf[place(i)] = pcm.given[i]
  BY <1>5, <1>6 DEF Driven, Converted
<1>7. ASSUME pcm.todo = "reads", pcm.dac /\ Converted, NEW i \in 0..(n - 1), NEW j \in 0..(n - 1), pcm.given[i] <= pcm.given[j]
      PROVE  pcm.buf[place(i)] <= pcm.buf[place(j)]
  <2>1. pcm.buf[place(i)] = DacScale(pcm.given[i]) /\ pcm.buf[place(j)] = DacScale(pcm.given[j])
    BY <1>5, <1>7 DEF Driven, Converted
  <2> DEFINE x == pcm.given[i]
             y == pcm.given[j]
  <2>2. x \in -128..127 /\ y \in -128..127 /\ x <= y
    BY <1>2, <1>7, LevelsIs
  <2> HIDE DEF x, y
  <2>4. DacScale(x) <= DacScale(y)
    BY <2>2, ScaleGrows
  <2> QED
    BY <2>1, <2>4 DEF x, y
<1> QED
  BY <1>4, <1>6, <1>7
-----------------------------------------------------------------------------
(* The playlist of a stream.                                               *)

Tracks == [uri : Urls, played : BOOLEAN]
Distinct(list) == \A i, j \in DOMAIN list : list[i].uri = list[j].uri => i = j

\* A list of tracks with the number of tracks counted.
ListKept(lt) == lt.list \in Seq(Tracks) /\ lt.total \in Int /\ Distinct(lt.list)

\* What is left after the first tracks were taken out.
LEMMA PurgedKept == ASSUME NEW lt, ListKept(lt) PROVE ListKept(Purged(lt))
<1> DEFINE over == IF lt.total > MaxTrack THEN lt.total - MaxTrack ELSE 0
           n == IF over < Len(lt.list) THEN over ELSE Len(lt.list)
           rest == SubSeq(lt.list, n + 1, Len(lt.list))
<1>1. lt.list \in Seq(Tracks) /\ lt.total \in Int /\ Len(lt.list) \in Nat /\ MaxTrack \in Int
  BY TrackAssumption DEF ListKept
<1>2. n \in 0..Len(lt.list)
  BY <1>1
<1>3. Purged(lt) = [list |-> rest, total |-> lt.total - n]
  BY DEF Purged
<1> HIDE DEF n
<1>4. rest \in Seq(Tracks) /\ Len(rest) = Len(lt.list) - n /\ \A i \in 1..(Len(lt.list) - n) : rest[i] = lt.list[n + i]
  BY <1>1, <1>2
<1>5. Distinct(rest)
  <2>1. DOMAIN rest = 1..(Len(lt.list) - n) /\ DOMAIN lt.list = 1..Len(lt.list) /\ Distinct(lt.list)
    BY <1>1, <1>4 DEF ListKept
  <2> HIDE DEF rest
  <2> SUFFICES ASSUME NEW i \in DOMAIN rest, NEW j \in DOMAIN rest, rest[i].uri = rest[j].uri PROVE i = j
    BY DEF Distinct
  <2>2. n + i \in DOMAIN lt.list /\ n + j \in DOMAIN lt.list /\ lt.list[n + i].uri = lt.list[n + j].uri
    <3>1. i \in 1..(Len(lt.list) - n) /\ j \in 1..(Len(lt.list) - n)
      BY <2>1
    <3>2. n + i \in 1..Len(lt.list) /\ n + j \in 1..Len(lt.list)
      BY <1>1, <1>2, <3>1
    <3> QED BY <1>4, <2>1, <3>1, <3>2
  <2>3. n + i = n + j
    BY <2>1, <2>2 DEF Distinct
  <2> QED BY <1>2, <2>1, <2>3
<1> QED
  BY <1>1, <1>2, <1>3, <1>4, <1>5 DEF ListKept

\* A track that is not yet in the list comes behind the others.
LEMMA InsertKept == ASSUME NEW lt, ListKept(lt), NEW u \in Urls PROVE ListKept(Insert(lt, u))
<1> DEFINE p == Purged(lt)
           x == [uri |-> u, played |-> FALSE]
<1>1. ListKept(p)
  BY PurgedKept
<1> HIDE DEF p
<1>2. CASE \E i \in DOMAIN p.list : p.list[i].uri = u
  BY <1>1, <1>2 DEF Insert, p
<1>3. CASE ~\E i \in DOMAIN p.list : p.list[i].uri = u
  <2>1. Insert(lt, u) = [list |-> Append(p.list, x), total |-> p.total + 1]
    BY <1>3 DEF Insert, p
  <2>2. x \in Tracks /\ x.uri = u
    BY DEF Tracks
  <2>3. p.list \in Seq(Tracks) /\ p.total \in Int
    BY <1>1 DEF ListKept
  <2> HIDE DEF x
  <2>4. /\ Append(p.list, x) \in Seq(Tracks) /\ Len(Append(p.list, x)) = Len(p.list) + 1
        /\ \A i \in 1..Len(p.list) : Append(p.list, x)[i] = p.list[i]
        /\ Append(p.list, x)[Len(p.list) + 1] = x
    BY <2>2, <2>3
  <2>5. Distinct(Append(p.list, x))
    <3> SUFFICES ASSUME NEW i \in DOMAIN Append(p.list, x), NEW j \in DOMAIN Append(p.list, x),
                        Append(p.list, x)[i].uri = Append(p.list, x)[j].uri
                 PROVE  i = j
      BY DEF Distinct
    <3>1. i \in 1..(Len(p.list) + 1) /\ j \in 1..(Len(p.list) + 1) /\ Len(p.list) \in Nat /\ DOMAIN p.list = 1..Len(p.list)
      BY <2>3, <2>4
    <3>2. CASE i \in 1..Len(p.list) /\ j \in 1..Len(p.list)
      BY <1>1, <2>4, <3>1, <3>2 DEF Distinct, ListKept
    <3>3. CASE i = Len(p.list) + 1 \/ j = Len(p.list) + 1
      BY <1>3, <2>2, <2>4, <3>1, <3>3
    <3> QED
      BY <3>1, <3>2, <3>3
  <2> QED
    BY <2>1, <2>3, <2>4, <2>5 DEF ListKept
<1> QED
  BY <1>2, <1>3

\* Reading a playlist is a function of the number of lines that were read.
Reading(n, base, lines, lt) ==
  lt = [k \in 0..n |-> IF k = 0 THEN base ELSE Insert(lt[k - 1], lines[k])]
LEMMA ReadingExists ==
  ASSUME NEW n \in Nat, NEW base, NEW lines
  PROVE  \E lt : Reading(n, base, lines, lt)
<1> DEFINE P(m) == \E lt : lt = [k \in 0..m |-> IF k = 0 THEN base ELSE Insert(lt[k - 1], lines[k])]
           T == {m \in Nat : P(m)}
<1>1. 0 \in T
  <2> DEFINE lt == [k \in 0..0 |-> base]
             Next1(k) == IF k = 0 THEN base ELSE Insert(lt[k - 1], lines[k])
  <2>1. \A k \in 0..0 : Next1(k) = base
    OBVIOUS
  <2>2. lt = [k \in 0..0 |-> Next1(k)]
    <3> HIDE DEF Next1
    <3> QED BY <2>1
  <2>3. P(0)
    <3> HIDE DEF lt
    <3> QED BY <2>2
  <2> QED
    BY <2>3
<1>2. ASSUME NEW m \in Nat, m \in T PROVE m + 1 \in T
  <2>1. PICK lt : lt = [k \in 0..m |-> IF k = 0 THEN base ELSE Insert(lt[k - 1], lines[k])]
    BY <1>2
  <2> DEFINE F(k) == IF k = 0 THEN base ELSE Insert(lt[k - 1], lines[k])
             more == [k \in 0..(m + 1) |-> F(k)]
             G(k) == IF k = 0 THEN base ELSE Insert(more[k - 1], lines[k])
  <2>2. lt = [k \in 0..m |-> F(k)]
    BY <2>1
  <2>3. \A k \in 0..(m + 1) : G(k) = F(k)
    <3> HIDE DEF F
    <3>1. \A k \in 0..m : more[k] = lt[k]
      BY <2>2
    <3>2. ASSUME NEW k \in 0..(m + 1), k # 0 PROVE more[k - 1] = lt[k - 1]
      <4>1. k - 1 \in 0..m
        BY <3>2
      <4> QED BY <3>1, <4>1
    <3> HIDE DEF more
    <3> QED BY <3>2 DEF F
  <2>4. more = [k \in 0..(m + 1) |-> G(k)]
    <3> HIDE DEF F, G
    <3> QED BY <2>3
  <2>5. P(m + 1)
    <3> HIDE DEF more
    <3> QED BY <2>4
  <2> HIDE DEF P
  <2> QED
    BY <2>5
<1> HIDE DEF T
<1>3. n \in T
  BY <1>1, <1>2, Induction
<1> QED
  BY <1>3 DEF T, Reading

LEMMA ReadingKept ==
  ASSUME NEW base, ListKept(base), NEW lines \in Seq(Urls), NEW n \in 0..Len(lines)
  PROVE  ListKept((CHOOSE f : Reading(n, base, lines, f))[n])
<1> DEFINE lt == CHOOSE f : Reading(n, base, lines, f)
           F(k) == IF k = 0 THEN base ELSE Insert(lt[k - 1], lines[k])
           Unkept == {k \in 0..n : ~ListKept(lt[k])}
<1>1. n \in Nat
  OBVIOUS
<1>2. lt = [k \in 0..n |-> IF k = 0 THEN base ELSE Insert(lt[k - 1], lines[k])]
  <2>1. \E f : Reading(n, base, lines, f)
    BY <1>1, ReadingExists
  <2>2. Reading(n, base, lines, lt)
    BY <2>1, Zenon
  <2> QED BY <2>2 DEF Reading
<1> HIDE DEF lt
<1>3. \A k \in 0..n : lt[k] = F(k)
  <2>1. lt = [k \in 0..n |-> F(k)]
    BY <1>2
  <2> HIDE DEF F
  <2> QED BY <2>1
<1>4. ASSUME Unkept # {} PROVE FALSE
  <2>1. Unkept \in SUBSET Nat
    OBVIOUS
  <2>2. PICK m \in Unkept : \A k \in Unkept : m <= k
    BY <1>4, <2>1, LeastNumber
  <2>3. m \in 0..n /\ ~ListKept(lt[m])
    BY <2>2
  <2>4. m # 0
    BY <1>3, <2>3
  <2>5. m - 1 \in 0..n /\ m - 1 \notin Unkept
    BY <2>2, <2>3, <2>4
  <2>6. ListKept(lt[m - 1]) /\ lines[m] \in Urls
    BY <2>3, <2>4, <2>5
  <2>7. ListKept(lt[m])
    BY <1>3, <2>3, <2>4, <2>6, InsertKept
  <2> QED
    BY <2>3, <2>7
<1>5. ListKept(lt[n])
  BY <1>1, <1>4
<1> QED
  BY <1>5 DEF lt

\* So the list stays one while a playlist is read into it.
LEMMA ResolvedKept ==
  ASSUME ListKept(stream), NEW lines \in Seq(Urls), NEW n \in 0..Len(lines)
  PROVE  ListKept(Resolved(lines, n))
<1>1. PICK base : base = [list |-> stream.list, total |-> stream.total]
  OBVIOUS
<1>2. ListKept(base)
  BY <1>1 DEF ListKept
<1>3. Resolved(lines, n) = (CHOOSE f : Reading(n, base, lines, f))[n]
  BY <1>1 DEF Resolved, Reading
<1> QED
  BY <1>2, <1>3, ReadingKept
-----------------------------------------------------------------------------
(* What a stream remembers of its tracks.                                  *)

Stuck == {"spins", "jams", "faults"}
Pcs == {"idle", "begins", "sets", "opens", "fetches", "runs", "reads", "failed", "closes"} \cup Stuck
AStream(s) ==
  s \in [pc : Pcs, type : {"reader", "writer"}, parses : BOOLEAN, uri : Urls, opened : BOOLEAN, made : BOOLEAN,
         resolved : BOOLEAN, list : Seq(Tracks), total : Int, pos : {s.pos}, track : Urls \cup {"none"},
         paused : BOOLEAN, out : {s.out}, from : {s.from}, opens : {s.opens}, restarts : {s.restarts},
         pauses : {s.pauses}, version : Nat, played : Seq(Urls), dropped : {s.dropped}, replay : Urls \cup {"none"}]

\* Between the choice of a track and its end the track is the first one not played, or else the uri.
OnTrack ==
  stream.pc \in {"sets", "opens", "fetches", "runs", "reads"} =>
    IF stream.resolved THEN Unplayed # {} /\ stream.track = stream.list[NextOne].uri ELSE stream.track = stream.uri

\* Before something starts and no list is there, nothing but a playlist was played.
NothingYet ==
  stream.pc \in {"begins", "sets", "opens", "fetches"} /\ ~stream.resolved /\ stream.played # <<>> => IsPlaylist(stream.uri)

\* What was played is a playlist's text, was taken off the list, is marked, or is being played now.
Remembered ==
  stream.pc \notin {"failed", "closes"} =>
    \A k \in DOMAIN stream.played :
      LET u == stream.played[k]
      IN \/ IsPlaylist(u) \/ u \in stream.dropped
         \/ \E i \in DOMAIN stream.list : stream.list[i].uri = u /\ stream.list[i].played
         \/ stream.pc \in {"runs", "reads"} /\ stream.track = u

Versioned == IsPlaylist(stream.uri) => stream.version \in 1..Len(Lists[stream.uri])

StreamInv ==
  /\ AStream(stream) /\ ListKept(stream) /\ Versioned
  /\ stream.resolved => IsPlaylist(stream.uri)
  /\ stream.pc = "idle" => stream.played = <<>>
  /\ OnTrack /\ NothingYet /\ Remembered /\ PlaysOnce

\* The first track that was not played, when there is one.
LEMMA NextOneIs ==
  ASSUME stream.list \in Seq(Tracks), Unplayed # {}
  PROVE  NextOne \in DOMAIN stream.list /\ ~stream.list[NextOne].played
<1>1. Unplayed \in SUBSET Nat
  BY DEF Unplayed
<1>2. \E i \in Unplayed : \A j \in Unplayed : i <= j
  BY <1>1, LeastNumber
<1>3. NextOne \in Unplayed
  BY <1>2 DEF NextOne
<1> QED
  BY <1>3 DEF Unplayed

\* What Unplayed and NextOne are depends on the list only.
LEMMA SameList ==
  ASSUME stream'.list = stream.list
  PROVE  Unplayed' = Unplayed /\ NextOne' = NextOne
  BY DEF Unplayed, NextOne

LEMMA StreamInitInv == StreamInit => StreamInv
<1> SUFFICES ASSUME StreamInit PROVE StreamInv
  OBVIOUS
<1>1. /\ stream.pc = "idle" /\ stream.uri \in FirstUrls /\ stream.resolved = FALSE /\ stream.list = <<>> /\ stream.total = 0
      /\ stream.version = 1 /\ stream.played = <<>> /\ stream.replay = "none" /\ stream.track = "none"
      /\ stream.type \in {"reader", "writer"} /\ stream.parses \in BOOLEAN /\ stream.opened = FALSE /\ stream.made = FALSE
      /\ stream.paused = FALSE
  BY DEF StreamInit
<1>2. stream = [pc |-> stream.pc, type |-> stream.type, parses |-> stream.parses, uri |-> stream.uri, opened |-> stream.opened,
                made |-> stream.made, resolved |-> stream.resolved, list |-> stream.list, total |-> stream.total,
                pos |-> stream.pos, track |-> stream.track, paused |-> stream.paused, out |-> stream.out, from |-> stream.from,
                opens |-> stream.opens, restarts |-> stream.restarts, pauses |-> stream.pauses, version |-> stream.version,
                played |-> stream.played, dropped |-> stream.dropped, replay |-> stream.replay]
  BY DEF StreamInit
<1>3. AStream(stream)
  <2>1. stream.uri \in Urls /\ stream.list \in Seq(Tracks) /\ stream.played \in Seq(Urls) /\ stream.pc \in Pcs
    BY <1>1, ListsAssumption DEF Pcs
  <2>2. /\ stream.total \in Int /\ stream.version \in Nat 
        /\ stream.track \in Urls \cup {"none"} /\ stream.replay \in Urls \cup {"none"}
    BY <1>1
  <2>3. /\ stream.parses \in BOOLEAN /\ stream.opened \in BOOLEAN /\ stream.made \in BOOLEAN
        /\ stream.resolved \in BOOLEAN /\ stream.paused \in BOOLEAN
    BY <1>1
  <2> QED BY <1>1, <1>2, <2>1, <2>2, <2>3 DEF AStream
<1>4. Versioned
  BY <1>1, ListsAssumption DEF Versioned, IsPlaylist
<1>5. ListKept(stream)
  BY <1>1 DEF ListKept, Distinct
<1> QED
  BY <1>1, <1>3, <1>4, <1>5 DEF StreamInv, OnTrack, NothingYet, Remembered, PlaysOnce

\* A step that leaves the list, the track and what was played alone and starts nothing.
LEMMA GoesOnInv ==
  ASSUME StreamInv, AStream(stream'),
         stream'.list = stream.list, stream'.total = stream.total, stream'.played = stream.played,
         stream'.dropped = stream.dropped, stream'.replay = stream.replay, stream'.resolved = stream.resolved,
         stream'.uri = stream.uri, stream'.track = stream.track, stream'.version = stream.version,
         stream'.pc # "idle",
         \/ stream'.pc \in {"failed", "closes"}
         \/ stream'.pc \in Stuck /\ stream.pc \in {"begins", "fetches"}
         \/ stream'.pc \in {"sets", "opens", "fetches"} /\ stream.pc \in {"sets", "opens", "fetches"}
         \/ stream'.pc \in {"runs", "reads"} /\ stream.pc \in {"sets", "opens", "fetches", "runs", "reads"}
  PROVE  StreamInv'
<1>1. Unplayed' = Unplayed /\ NextOne' = NextOne
  BY SameList
<1>2. ListKept(stream)' /\ Versioned' /\ PlaysOnce'
  BY DEF StreamInv, ListKept, Versioned, PlaysOnce, IsPlaylist
<1>3. OnTrack'
  BY <1>1 DEF StreamInv, OnTrack, Stuck
<1>4. NothingYet'
  BY DEF StreamInv, NothingYet, IsPlaylist, Stuck
<1>5. Remembered'
  BY DEF StreamInv, Remembered, IsPlaylist, Stuck
<1> QED
  BY <1>2, <1>3, <1>4, <1>5 DEF StreamInv, IsPlaylist

LEMMA MovesInv ==
  /\ StreamInv
  /\ SetsUrl \/ Opened \/ Redirected \/ StreamReads \/ StreamRead \/ TrackEnds \/ StreamWrites \/ Halts \/ ClosesWriter
       \/ Jams \/ LacksPlaylist
  => StreamInv'
<1> SUFFICES ASSUME StreamInv,
                    SetsUrl \/ Opened \/ Redirected \/ StreamReads \/ StreamRead \/ TrackEnds \/ StreamWrites \/ Halts
                      \/ ClosesWriter \/ Jams \/ LacksPlaylist
             PROVE  StreamInv'
  OBVIOUS
<1>0. AStream(stream)
  BY DEF StreamInv
<1>1. CASE SetsUrl
  <2>1. stream.pc = "sets" /\ stream' = [stream EXCEPT !.pc = "opens", !.made = TRUE, !.from = stream.pos, !.out = <<>>]
    BY <1>1 DEF SetsUrl
  <2>2. AStream(stream')
    BY <1>0, <2>1, ZenonT(40) DEF AStream, Pcs
  <2> QED BY <1>0, <2>1, <2>2, GoesOnInv DEF AStream
<1>2. CASE Opened
  <2>1. stream.pc = "opens"
    BY <1>2 DEF Opened
  <2>2. \/ stream' = [stream EXCEPT !.pc = "failed"]
        \/ stream' = [stream EXCEPT !.pc = "runs", !.opened = TRUE]
        \/ stream' = [stream EXCEPT !.pc = "fetches"]
    BY <1>2 DEF Opened, Goes
  <2>3. AStream(stream')
    <3>1. CASE stream' = [stream EXCEPT !.pc = "failed"]
      BY <1>0, <3>1 DEF AStream, Pcs
    <3>2. CASE stream' = [stream EXCEPT !.pc = "runs", !.opened = TRUE]
      BY <1>0, <3>2, ZenonT(40) DEF AStream, Pcs
    <3>3. CASE stream' = [stream EXCEPT !.pc = "fetches"]
      BY <1>0, <3>3 DEF AStream, Pcs
    <3> QED BY <2>2, <3>1, <3>2, <3>3
  <2>4. /\ stream'.list = stream.list /\ stream'.total = stream.total /\ stream'.played = stream.played
        /\ stream'.dropped = stream.dropped /\ stream'.replay = stream.replay /\ stream'.resolved = stream.resolved
        /\ stream'.uri = stream.uri /\ stream'.track = stream.track /\ stream'.version = stream.version
        /\ stream'.pc \in {"failed", "runs", "fetches"}
    <3>1. CASE stream' = [stream EXCEPT !.pc = "failed"]
      BY <1>0, <3>1 DEF AStream
    <3>2. CASE stream' = [stream EXCEPT !.pc = "runs", !.opened = TRUE]
      BY <1>0, <3>2 DEF AStream
    <3>3. CASE stream' = [stream EXCEPT !.pc = "fetches"]
      BY <1>0, <3>3 DEF AStream
    <3> QED BY <2>2, <3>1, <3>2, <3>3
  <2> QED BY <2>1, <2>3, <2>4, GoesOnInv
<1>3. CASE Redirected
  <2>1. stream.pc = "fetches" /\ stream' = [stream EXCEPT !.pc = "opens"]
    BY <1>3 DEF Redirected, Goes
  <2>2. AStream(stream')
    BY <1>0, <2>1 DEF AStream, Pcs
  <2> QED BY <1>0, <2>1, <2>2, GoesOnInv DEF AStream
<1>4. CASE StreamReads
  <2>1. stream.pc = "runs" /\ stream' = [stream EXCEPT !.pc = "reads"]
    BY <1>4 DEF StreamReads, Goes
  <2>2. AStream(stream')
    BY <1>0, <2>1 DEF AStream, Pcs
  <2> QED BY <1>0, <2>1, <2>2, GoesOnInv DEF AStream
<1>5. CASE StreamRead
  <2>1. stream.pc = "reads" /\ stream' = [stream EXCEPT !.pc = "runs", !.pos = @ + call.ret, !.out = @ \o call.out]
    BY <1>5 DEF StreamRead
  <2>2. AStream(stream')
    BY <1>0, <2>1, ZenonT(40) DEF AStream, Pcs
  <2> QED BY <1>0, <2>1, <2>2, GoesOnInv DEF AStream
<1>6. CASE TrackEnds
  <2>1. stream' = [stream EXCEPT !.pc = "failed"]
    BY <1>6 DEF TrackEnds, Goes
  <2>2. AStream(stream')
    BY <1>0, <2>1 DEF AStream, Pcs
  <2> QED BY <1>0, <2>1, <2>2, GoesOnInv DEF AStream
<1>7. CASE StreamWrites
  <2>1. stream.pc = "runs" /\ stream' = [stream EXCEPT !.pos = 1]
    BY <1>7 DEF StreamWrites
  <2>2. AStream(stream')
    BY <1>0, <2>1 DEF AStream, Pcs
  <2> QED BY <1>0, <2>1, <2>2, GoesOnInv DEF AStream
<1>8. CASE Halts
  <2>1. PICK paused \in BOOLEAN :
          stream' = [stream EXCEPT !.pc = "failed", !.paused = paused, !.pauses = IF paused THEN @ + 1 ELSE @]
    BY <1>8 DEF Halts
  <2>2. AStream(stream')
    <3>1. PICK n : n = IF paused THEN stream.pauses + 1 ELSE stream.pauses
      OBVIOUS
    <3>2. PICK t : t = [stream EXCEPT !.pc = "failed", !.paused = paused]
      OBVIOUS
    <3>3. AStream(t)
      BY <1>0, <3>2, ZenonT(40) DEF AStream, Pcs
    <3>4. stream' = [t EXCEPT !.pauses = n]
      BY <1>0, <2>1, <3>1, <3>2 DEF AStream
    <3> QED BY <3>3, <3>4 DEF AStream
  <2>3. /\ stream'.list = stream.list /\ stream'.total = stream.total /\ stream'.played = stream.played
        /\ stream'.dropped = stream.dropped /\ stream'.replay = stream.replay /\ stream'.resolved = stream.resolved
        /\ stream'.uri = stream.uri /\ stream'.track = stream.track /\ stream'.version = stream.version
        /\ stream'.pc = "failed"
    BY <1>0, <2>1 DEF AStream
  <2> QED BY <2>2, <2>3, GoesOnInv
<1>9. CASE ClosesWriter
  <2>1. stream' = [stream EXCEPT !.pc = "closes", !.opened = FALSE]
    BY <1>9 DEF ClosesWriter
  <2>2. AStream(stream')
    BY <1>0, <2>1, ZenonT(40) DEF AStream, Pcs
  <2> QED BY <1>0, <2>1, <2>2, GoesOnInv DEF AStream
<1>10. CASE Jams \/ LacksPlaylist
  <2>1. stream.pc = "fetches" /\ (stream' = [stream EXCEPT !.pc = "jams"] \/ stream' = [stream EXCEPT !.pc = "faults"])
    BY <1>10 DEF Jams, LacksPlaylist, Answered, Goes
  <2>2. AStream(stream')
    BY <1>0, <2>1, SMTT(30) DEF AStream, Pcs, Stuck
  <2> QED BY <1>0, <2>1, <2>2, GoesOnInv DEF AStream, Stuck
<1> QED
  BY <1>1, <1>2, <1>3, <1>4, <1>5, <1>6, <1>7, <1>8, <1>9, <1>10

LEMMA OpensInv == StreamInv /\ Opens => StreamInv'
<1> SUFFICES ASSUME StreamInv, Opens PROVE StreamInv'
  OBVIOUS
<1>1. stream.pc = "idle" /\ stream' = [stream EXCEPT !.pc = "begins", !.opens = @ + 1, !.paused = FALSE]
  BY DEF Opens
<1>2. AStream(stream) /\ stream.played = <<>>
  BY <1>1 DEF StreamInv
<1>3. /\ stream'.pc = "begins" /\ stream'.list = stream.list /\ stream'.total = stream.total /\ stream'.played = <<>>
      /\ stream'.replay = stream.replay /\ stream'.dropped = stream.dropped /\ stream'.resolved = stream.resolved
      /\ stream'.uri = stream.uri /\ stream'.version = stream.version
  BY <1>1, <1>2 DEF AStream
<1>4. AStream(stream')
  BY <1>1, <1>2, ZenonT(40) DEF AStream, Pcs
<1>5. ListKept(stream)' /\ Versioned' /\ PlaysOnce' /\ OnTrack'
  BY <1>3 DEF StreamInv, ListKept, Versioned, PlaysOnce, IsPlaylist, OnTrack
<1>6. NothingYet' /\ Remembered'
  BY <1>3 DEF NothingYet, Remembered
<1> QED
  BY <1>3, <1>4, <1>5, <1>6 DEF StreamInv, IsPlaylist

LEMMA PicksInv == StreamInv /\ (PicksTrack \/ PicksUri) => StreamInv'
<1> SUFFICES ASSUME StreamInv, PicksTrack \/ PicksUri PROVE StreamInv'
  OBVIOUS
<1>1. /\ stream.pc = "begins"
      /\ \/ stream.resolved /\ Unplayed # {} /\ stream' = [stream EXCEPT !.pc = "sets", !.track = stream.list[NextOne].uri]
         \/ ~stream.resolved /\ stream' = [stream EXCEPT !.pc = "sets", !.track = stream.uri]
  BY DEF PicksTrack, PicksUri
<1>2. AStream(stream) /\ stream.list \in Seq(Tracks)
  BY DEF StreamInv, ListKept
<1>3. /\ stream'.pc = "sets" /\ stream'.list = stream.list /\ stream'.total = stream.total /\ stream'.played = stream.played
      /\ stream'.replay = stream.replay /\ stream'.dropped = stream.dropped /\ stream'.resolved = stream.resolved
      /\ stream'.uri = stream.uri /\ stream'.version = stream.version
  BY <1>1, <1>2, ZenonT(40) DEF AStream
<1>4. IF stream.resolved THEN Unplayed # {} /\ stream'.track = stream.list[NextOne].uri ELSE stream'.track = stream.uri
  BY <1>1, <1>2 DEF AStream
<1>5. stream'.track \in Urls
  <2>1. stream.resolved => stream.list[NextOne] \in Tracks
    BY <1>2, <1>4, NextOneIs
  <2>2. stream.uri \in Urls
    BY <1>2 DEF AStream
  <2> QED BY <1>4, <2>1, <2>2 DEF Tracks
<1>6. AStream(stream')
  <2>1. PICK t : t = stream'.track
    OBVIOUS
  <2>2. stream' = [stream EXCEPT !.pc = "sets", !.track = t]
    BY <1>1, <1>2, <2>1 DEF AStream
  <2> QED BY <1>2, <1>5, <2>1, <2>2, ZenonT(40) DEF AStream, Pcs
<1>7. ListKept(stream)' /\ Versioned' /\ PlaysOnce'
  BY <1>3 DEF StreamInv, ListKept, Versioned, PlaysOnce, IsPlaylist
<1>8. OnTrack'
  BY <1>3, <1>4, SameList DEF OnTrack
<1>9. NothingYet' /\ Remembered'
  BY <1>1, <1>3 DEF StreamInv, NothingYet, Remembered, IsPlaylist
<1> QED
  BY <1>3, <1>6, <1>7, <1>8, <1>9 DEF StreamInv, IsPlaylist

LEMMA FinishesPlaylistInv == StreamInv /\ FinishesPlaylist => StreamInv'
<1> SUFFICES ASSUME StreamInv, FinishesPlaylist PROVE StreamInv'
  OBVIOUS
<1>1. AStream(stream) /\ IsPlaylist(stream.uri) /\ Versioned
  BY DEF StreamInv, FinishesPlaylist
<1>2. CASE stream' \in {Goes("failed"), Goes("spins")}
  <2>1. AStream(stream')
    BY <1>1, <1>2 DEF AStream, Pcs, Stuck, Goes
  <2>2. stream.pc = "begins"
    BY DEF FinishesPlaylist
  <2> QED BY <1>1, <1>2, <2>1, <2>2, GoesOnInv DEF AStream, Stuck, Goes
<1>3. CASE stream' \notin {Goes("failed"), Goes("spins")}
  <2>1. PICK v \in {stream.version, stream.version + 1} :
          /\ v <= Len(Lists[stream.uri])
          /\ stream' = [stream EXCEPT !.resolved = FALSE, !.restarts = @ + 1, !.version = v]
    BY <1>3 DEF FinishesPlaylist
  <2>2. stream.pc = "begins"
    BY DEF FinishesPlaylist
  <2>3. stream.version \in Nat /\ v \in Nat /\ stream.version \in 1..Len(Lists[stream.uri])
    BY <1>1, <2>1 DEF AStream, Versioned
  <2>4. /\ stream'.pc = "begins" /\ stream'.list = stream.list /\ stream'.total = stream.total /\ stream'.played = stream.played
        /\ stream'.replay = stream.replay /\ stream'.dropped = stream.dropped /\ ~stream'.resolved
        /\ stream'.uri = stream.uri /\ stream'.version = v /\ stream'.track = stream.track
    BY <1>1, <2>1, <2>2 DEF AStream
  <2>5. AStream(stream')
    BY <1>1, <2>1, <2>3, ZenonT(40) DEF AStream, Pcs
  <2>6. Versioned'
    BY <1>1, <2>1, <2>3, <2>4 DEF Versioned, IsPlaylist
  <2>7. ListKept(stream)' /\ PlaysOnce' /\ OnTrack' /\ NothingYet' /\ Remembered'
    BY <1>1, <2>2, <2>4 DEF StreamInv, ListKept, PlaysOnce, IsPlaylist, OnTrack, NothingYet, Remembered
  <2> QED
    BY <2>4, <2>5, <2>6, <2>7 DEF StreamInv, IsPlaylist
<1> QED
  BY <1>2, <1>3

LEMMA RefusedInv == StreamInv /\ Refused => StreamInv'
<1> SUFFICES ASSUME StreamInv, Refused PROVE StreamInv'
  OBVIOUS
<1>1. stream' = [stream EXCEPT !.pc = "failed", !.list = <<>>, !.resolved = FALSE] /\ AStream(stream)
  BY DEF StreamInv, Refused
<1>2. /\ stream'.pc = "failed" /\ stream'.list = <<>> /\ stream'.total = stream.total /\ stream'.played = stream.played
      /\ stream'.replay = stream.replay /\ stream'.dropped = stream.dropped /\ ~stream'.resolved
      /\ stream'.uri = stream.uri /\ stream'.version = stream.version
  BY <1>1 DEF AStream
<1>3. AStream(stream')
  <2>0. <<>> \in Seq(Tracks)
    OBVIOUS
  <2>1. PICK none : none = <<>>
    OBVIOUS
  <2>2. stream' = [stream EXCEPT !.pc = "failed", !.list = none, !.resolved = FALSE]
    BY <1>1, <2>1
  <2>3. none \in Seq(Tracks)
    BY <2>0, <2>1
  <2> QED BY <1>1, <2>2, <2>3, ZenonT(40) DEF AStream, Pcs
<1>4. ListKept(stream)' /\ Versioned' /\ PlaysOnce'
  BY <1>2 DEF StreamInv, ListKept, Distinct, Versioned, PlaysOnce, IsPlaylist
<1> QED
  BY <1>2, <1>3, <1>4 DEF StreamInv, OnTrack, NothingYet, Remembered

LEMMA ClosesInv == StreamInv /\ Closes => StreamInv'
<1> SUFFICES ASSUME StreamInv, Closes PROVE StreamInv'
  OBVIOUS
<1>1. /\ AStream(stream)
      /\ stream' = [stream EXCEPT !.pc = "idle", !.opened = FALSE, !.made = FALSE, !.list = <<>>, !.resolved = FALSE,
                              !.pos = IF stream.paused THEN @ ELSE 0,
                              !.played = <<>>, !.dropped = {}, !.replay = "none"]
  BY DEF StreamInv, Closes
<1>2. /\ stream'.pc = "idle" /\ stream'.list = <<>> /\ stream'.total = stream.total /\ stream'.played = <<>>
      /\ stream'.replay = "none" /\ ~stream'.resolved /\ stream'.uri = stream.uri /\ stream'.version = stream.version
  BY <1>1 DEF AStream
<1>3. AStream(stream')
  <2>0. <<>> \in Seq(Tracks) /\ <<>> \in Seq(Urls)
    OBVIOUS
  <2>1. PICK none, pos : none = <<>> /\ pos = IF stream.paused THEN stream.pos ELSE 0
    OBVIOUS
  <2>2. stream' = [stream EXCEPT !.pc = "idle", !.opened = FALSE, !.made = FALSE, !.list = none, !.resolved = FALSE,
                              !.pos = pos, !.played = none, !.dropped = {}, !.replay = "none"]
    BY <1>1, <2>1
  <2>3. none \in Seq(Tracks) /\ none \in Seq(Urls)
    BY <2>0, <2>1
  <2>4. PICK s : s = [stream EXCEPT !.pc = "idle", !.opened = FALSE, !.made = FALSE, !.list = none, !.resolved = FALSE]
    OBVIOUS
  <2>5. stream' = [s EXCEPT !.pos = pos, !.played = none, !.dropped = {}, !.replay = "none"]
    BY <1>1, <2>2, <2>4 DEF AStream
  <2>6. AStream(s)
    <3>1. PICK t : t = [stream EXCEPT !.pc = "idle", !.opened = FALSE, !.made = FALSE]
      OBVIOUS
    <3>2. s = [t EXCEPT !.list = none, !.resolved = FALSE]
      BY <1>1, <2>4, <3>1 DEF AStream
    <3>3. AStream(t)
      <4>1. "idle" \in Pcs
        BY DEF Pcs
      <4> QED BY <1>1, <3>1, <4>1, ZenonT(40) DEF AStream
    <3> QED BY <2>3, <3>2, <3>3, ZenonT(40) DEF AStream
  <2> QED BY <2>3, <2>5, <2>6, ZenonT(40) DEF AStream, Pcs
<1>4. ListKept(stream)' /\ Versioned'
  BY <1>2 DEF StreamInv, ListKept, Distinct, Versioned, IsPlaylist
<1> QED
  BY <1>2, <1>3, <1>4 DEF StreamInv, OnTrack, NothingYet, Remembered, PlaysOnce

\* Only what was played before, and is not the next of the list, is played again.
LEMMA StartsInv == StreamInv /\ Starts => StreamInv'
<1> SUFFICES ASSUME StreamInv, Starts PROVE StreamInv'
  OBVIOUS
<1> DEFINE again == \E i \in DOMAIN stream.played : stream.played[i] = stream.track
<1>1. /\ AStream(stream) /\ stream.pc = "fetches" /\ stream.list \in Seq(Tracks) /\ Distinct(stream.list)
      /\ stream' = [stream EXCEPT !.pc = "runs", !.opened = TRUE, !.played = Append(@, stream.track),
                                  !.replay = IF again THEN stream.track ELSE "none"]
  BY DEF StreamInv, Starts, Answered, ListKept
<1>2. IF stream.resolved THEN Unplayed # {} /\ stream.track = stream.list[NextOne].uri ELSE stream.track = stream.uri
  BY <1>1 DEF StreamInv, OnTrack
<1>3. stream.resolved => NextOne \in DOMAIN stream.list /\ ~stream.list[NextOne].played
  BY <1>1, <1>2, NextOneIs
<1>4. stream.track \in Urls
  <2>1. stream.resolved => stream.list[NextOne] \in Tracks
    BY <1>1, <1>3
  <2>2. stream.uri \in Urls
    BY <1>1 DEF AStream
  <2> QED BY <1>2, <2>1, <2>2 DEF Tracks
<1> HIDE DEF again
<1>5. stream.played \in Seq(Urls) /\ Append(stream.played, stream.track) \in Seq(Urls)
  BY <1>1, <1>4 DEF AStream
<1>6. AStream(stream')
  <2>1. PICK p, r : p = Append(stream.played, stream.track) /\ r = IF again THEN stream.track ELSE "none"
    OBVIOUS
  <2>2. p \in Seq(Urls) /\ r \in Urls \cup {"none"}
    BY <1>4, <1>5, <2>1
  <2>3. stream' = [stream EXCEPT !.pc = "runs", !.opened = TRUE, !.played = p, !.replay = r]
    BY <1>1, <2>1
  <2> QED BY <1>1, <2>2, <2>3, ZenonT(40) DEF AStream, Pcs
<1>7. /\ stream'.pc = "runs" /\ stream'.list = stream.list /\ stream'.total = stream.total /\ stream'.track = stream.track
      /\ stream'.played = Append(stream.played, stream.track) /\ stream'.replay = (IF again THEN stream.track ELSE "none")
      /\ stream'.dropped = stream.dropped /\ stream'.resolved = stream.resolved
      /\ stream'.uri = stream.uri /\ stream'.version = stream.version
  BY <1>1 DEF AStream
<1>8. ListKept(stream)' /\ Versioned' /\ NothingYet'
  BY <1>7 DEF StreamInv, ListKept, Versioned, IsPlaylist, NothingYet
<1>9. OnTrack'
  BY <1>2, <1>7, SameList DEF OnTrack
<1>10. Remembered'
  <2> SUFFICES ASSUME NEW k \in DOMAIN stream'.played
               PROVE  LET u == stream'.played[k]
                      IN \/ IsPlaylist(u) \/ u \in stream.dropped
                         \/ \E i \in DOMAIN stream.list : stream.list[i].uri = u /\ stream.list[i].played
                         \/ stream.track = u
    BY <1>7 DEF Remembered, IsPlaylist
  <2>1. CASE k \in DOMAIN stream.played
    <3>1. stream'.played[k] = stream.played[k]
      BY <1>5, <1>7, <2>1
    <3> QED BY <1>1, <2>1, <3>1 DEF StreamInv, Remembered
  <2>2. CASE k \notin DOMAIN stream.played
    <3>1. stream'.played[k] = stream.track
      BY <1>5, <1>7, <2>2
    <3> QED BY <3>1
  <2> QED BY <2>1, <2>2
<1>11. PlaysOnce'
  <2> SUFFICES ASSUME again, ~IsPlaylist(stream.track) PROVE stream.track \in stream.dropped
    BY <1>7 DEF PlaysOnce, IsPlaylist
  <2>1. PICK k \in DOMAIN stream.played : stream.played[k] = stream.track
    BY DEF again
  <2>2. CASE ~stream.resolved
    <3>1. stream.played # <<>>
      BY <2>1
    <3> QED BY <1>1, <1>2, <2>2, <3>1 DEF StreamInv, NothingYet
  <2>3. CASE stream.resolved
    <3>1. \/ stream.track \in stream.dropped
          \/ \E i \in DOMAIN stream.list : stream.list[i].uri = stream.track /\ stream.list[i].played
      BY <1>1, <2>1 DEF StreamInv, Remembered
    <3>2. ASSUME NEW i \in DOMAIN stream.list, stream.list[i].uri = stream.track, stream.list[i].played PROVE FALSE
      <4>1. i = NextOne
        BY <1>1, <1>2, <1>3, <2>3, <3>2 DEF Distinct
      <4> QED BY <1>3, <2>3, <3>2, <4>1
    <3> QED BY <3>1, <3>2
  <2> QED BY <2>2, <2>3
<1> QED
  BY <1>6, <1>7, <1>8, <1>9, <1>10, <1>11 DEF StreamInv, IsPlaylist

\* A playlist that is read takes from the list only what goes to those dropped.
LEMMA ResolvesInv == StreamInv /\ Resolves => StreamInv'
<1> SUFFICES ASSUME StreamInv, Resolves PROVE StreamInv'
  OBVIOUS
<1>1. /\ AStream(stream) /\ stream.pc = "fetches" /\ ~stream.resolved /\ IsPlaylist(stream.track) /\ ListKept(stream)
      /\ OnTrack /\ Versioned /\ Remembered /\ PlaysOnce
  BY DEF StreamInv, Resolves, Answered, Resolvable, Unresolved
<1>2. stream.track = stream.uri
  BY <1>1 DEF OnTrack
<1>3. Listed(stream.track) \in Seq(Urls)
  <2>1. Lists[stream.uri] \in Seq(Seq(Urls)) /\ stream.version \in 1..Len(Lists[stream.uri])
    BY <1>1, <1>2, ListsAssumption DEF Versioned, IsPlaylist
  <2> QED BY <1>2, <2>1 DEF Listed
<1>4. PICK n \in 0..Len(Listed(stream.track)) :
        LET lt == Resolved(Listed(stream.track), n)
        IN stream' = [stream EXCEPT !.pc = "begins", !.resolved = TRUE, !.list = lt.list, !.total = lt.total,
                                    !.dropped = @ \cup {x.uri : x \in Range(stream.list) \ Range(lt.list)}]
  BY DEF Resolves, Takes
<1>15. PICK lt : lt = Resolved(Listed(stream.track), n)
  OBVIOUS
<1>5. ListKept(lt)
  BY <1>1, <1>3, <1>15, ResolvedKept
<1>6. PICK list, total, dropped :
        list = lt.list /\ total = lt.total /\ dropped = stream.dropped \cup {x.uri : x \in Range(stream.list) \ Range(lt.list)}
  OBVIOUS
<1>7. stream' = [stream EXCEPT !.pc = "begins", !.resolved = TRUE, !.list = list, !.total = total, !.dropped = dropped]
  BY <1>4, <1>6, <1>15
<1>8. list \in Seq(Tracks) /\ total \in Int /\ Distinct(list)
  BY <1>5, <1>6 DEF ListKept
<1>9. AStream(stream')
  <2>1. PICK t : t = [stream EXCEPT !.pc = "begins", !.resolved = TRUE, !.list = list]
    OBVIOUS
  <2>2. AStream(t)
    BY <1>1, <1>8, <2>1, ZenonT(40) DEF AStream, Pcs
  <2>3. stream' = [t EXCEPT !.total = total, !.dropped = dropped]
    BY <1>1, <1>7, <2>1 DEF AStream
  <2> QED BY <1>8, <2>2, <2>3 DEF AStream
<1>10. /\ stream'.pc = "begins" /\ stream'.list = list /\ stream'.total = total /\ stream'.dropped = dropped /\ stream'.resolved
       /\ stream'.played = stream.played /\ stream'.replay = stream.replay /\ stream'.uri = stream.uri
       /\ stream'.version = stream.version
  BY <1>1, <1>7 DEF AStream
<1>11. ListKept(stream)' /\ Versioned' /\ OnTrack' /\ NothingYet'
  BY <1>1, <1>8, <1>10 DEF ListKept, Versioned, IsPlaylist, OnTrack, NothingYet
<1>12. PlaysOnce'
  BY <1>1, <1>6, <1>10 DEF PlaysOnce, IsPlaylist
<1>13. ASSUME NEW i \in DOMAIN stream.list, stream.list[i].played
       PROVE  \/ stream.list[i].uri \in dropped
              \/ \E j \in DOMAIN list : list[j].uri = stream.list[i].uri /\ list[j].played
  <2>1. stream.list[i] \in Range(stream.list)
    BY DEF Range
  <2>2. CASE stream.list[i] \in Range(list)
    BY <1>13, <2>2 DEF Range
  <2>3. CASE stream.list[i] \notin Range(list)
    BY <1>6, <2>1, <2>3
  <2> QED BY <2>2, <2>3
<1>14. Remembered'
  <2> SUFFICES ASSUME NEW k \in DOMAIN stream.played
               PROVE  LET u == stream.played[k]
                      IN \/ IsPlaylist(u) \/ u \in dropped
                         \/ \E j \in DOMAIN list : list[j].uri = u /\ list[j].played
    BY <1>10 DEF Remembered, IsPlaylist
  <2>1. \/ IsPlaylist(stream.played[k]) \/ stream.played[k] \in stream.dropped
        \/ \E i \in DOMAIN stream.list : stream.list[i].uri = stream.played[k] /\ stream.list[i].played
    BY <1>1 DEF Remembered
  <2> QED BY <1>6, <1>13, <2>1
<1> QED
  BY <1>1, <1>2, <1>9, <1>10, <1>11, <1>12, <1>14 DEF StreamInv, IsPlaylist

\* What is taken out of a list leaves the rest as it was.
LEMMA RemovedAt ==
  ASSUME NEW S, NEW list \in Seq(S), NEW n \in 1..Len(list)
  PROVE  /\ RemoveAt(list, n) \in Seq(S) /\ Len(RemoveAt(list, n)) = Len(list) - 1
         /\ \A i \in 1..(Len(list) - 1) : RemoveAt(list, n)[i] = IF i < n THEN list[i] ELSE list[i + 1]
<1> DEFINE a == SubSeq(list, 1, n - 1)
           b == SubSeq(list, n + 1, Len(list))
<1>1. a \in Seq(S) /\ Len(a) = n - 1 /\ \A i \in 1..(n - 1) : a[i] = list[i]
  OBVIOUS
<1>2. b \in Seq(S) /\ Len(b) = Len(list) - n /\ \A i \in 1..(Len(list) - n) : b[i] = list[n + i]
  OBVIOUS
<1> HIDE DEF a, b
<1>3. PICK r : r = a \o b
  OBVIOUS
<1>4. /\ r \in Seq(S) /\ Len(r) = Len(a) + Len(b)
      /\ \A k \in 1..(Len(a) + Len(b)) : r[k] = IF k <= Len(a) THEN a[k] ELSE b[k - Len(a)]
  BY <1>1, <1>2, <1>3, ConcatProperties
<1>5. ASSUME NEW i \in 1..(Len(list) - 1) PROVE r[i] = IF i < n THEN list[i] ELSE list[i + 1]
  <2>1. CASE i < n
    <3>1. i \in 1..(n - 1) /\ i <= Len(a) /\ i \in 1..(Len(a) + Len(b))
      BY <1>1, <1>2, <2>1
    <3> QED BY <1>1, <1>4, <2>1, <3>1
  <2>2. CASE i >= n
    <3>1. /\ i - (n - 1) \in 1..(Len(list) - n) /\ n + (i - (n - 1)) = i + 1
          /\ i \in 1..(Len(a) + Len(b)) /\ ~(i <= Len(a)) /\ i - Len(a) = i - (n - 1)
      BY <1>1, <1>2, <2>2
    <3>2. r[i] = b[i - (n - 1)]
      BY <1>4, <3>1
    <3>3. b[i - (n - 1)] = list[i + 1]
      BY <1>2, <3>1
    <3> QED BY <2>2, <3>2, <3>3
  <2> QED BY <2>1, <2>2
<1>6. RemoveAt(list, n) = r
  BY <1>3 DEF RemoveAt, a, b
<1>7. Len(r) = Len(list) - 1
  BY <1>1, <1>2, <1>4
<1> QED
  BY <1>4, <1>5, <1>6, <1>7

\* A track that ends is marked, or forgotten.
LEMMA NextTrackInv == StreamInv /\ NextTrack => StreamInv'
<1> SUFFICES ASSUME StreamInv, NextTrack PROVE StreamInv'
  OBVIOUS
<1> DEFINE forgets == stream.total > KeepTrack
<1>1. /\ AStream(stream) /\ stream.pc = "reads" /\ stream.resolved /\ Unplayed # {} /\ ListKept(stream)
      /\ OnTrack /\ Versioned /\ Remembered /\ PlaysOnce
  BY DEF StreamInv, NextTrack
<1>2. PICK n : n = NextOne
  OBVIOUS
<1>3. stream.list \in Seq(Tracks) /\ Distinct(stream.list) /\ stream.total \in Int
  BY <1>1 DEF ListKept
<1>4. n \in 1..Len(stream.list) /\ stream.track = stream.list[n].uri /\ stream.list[n] \in Tracks
  BY <1>1, <1>2, <1>3, NextOneIs DEF OnTrack
<1>5. PICK list, total, dropped :
        /\ list = IF forgets THEN RemoveAt(stream.list, n) ELSE [stream.list EXCEPT ![n].played = TRUE]
        /\ total = IF forgets THEN stream.total - 1 ELSE stream.total
        /\ dropped = IF forgets THEN stream.dropped \cup {stream.list[n].uri} ELSE stream.dropped
  OBVIOUS
<1>6. stream' = [stream EXCEPT !.pc = "begins", !.list = list, !.pos = 0, !.opened = FALSE, !.total = total, !.dropped = dropped]
  BY <1>2, <1>5 DEF NextTrack
<1>7. /\ list \in Seq(Tracks) /\ Distinct(list)
      /\ stream.list[n].uri \in dropped \/ (\E j \in DOMAIN list : list[j].uri = stream.list[n].uri /\ list[j].played)
      /\ \A i \in DOMAIN stream.list : i # n => \E j \in DOMAIN list : list[j] = stream.list[i]
  <2>1. CASE forgets
    <3>1. /\ list \in Seq(Tracks) /\ Len(list) = Len(stream.list) - 1
          /\ \A i \in 1..(Len(stream.list) - 1) : list[i] = IF i < n THEN stream.list[i] ELSE stream.list[i + 1]
      BY <1>3, <1>4, <1>5, <2>1, RemovedAt
    <3>2. Len(stream.list) \in Nat /\ DOMAIN stream.list = 1..Len(stream.list) /\ DOMAIN list = 1..(Len(stream.list) - 1)
      BY <1>3, <3>1
    <3>3. ASSUME NEW i \in DOMAIN list, NEW j \in DOMAIN list, list[i].uri = list[j].uri PROVE i = j
      <4> DEFINE I == IF i < n THEN i ELSE i + 1
                 J == IF j < n THEN j ELSE j + 1
      <4>1. I \in DOMAIN stream.list /\ J \in DOMAIN stream.list
        BY <1>4, <3>2
      <4>2. list[i] = stream.list[I] /\ list[j] = stream.list[J]
        BY <3>1, <3>2
      <4>3. I = J
        BY <1>3, <3>3, <4>1, <4>2 DEF Distinct
      <4> QED BY <1>4, <3>2, <4>3
    <3>4. ASSUME NEW i \in DOMAIN stream.list, i # n PROVE \E j \in DOMAIN list : list[j] = stream.list[i]
      <4>1. CASE i < n
        <5>1. i \in 1..(Len(stream.list) - 1)
          BY <1>4, <3>2, <4>1
        <5> QED BY <3>1, <3>2, <4>1, <5>1
      <4>2. CASE i > n
        <5>1. i - 1 \in 1..(Len(stream.list) - 1) /\ ~(i - 1 < n) /\ i - 1 + 1 = i
          BY <1>4, <3>2, <4>2
        <5>2. list[i - 1] = stream.list[i]
          BY <3>1, <5>1
        <5> QED BY <3>2, <5>1, <5>2
      <4> QED BY <1>4, <3>2, <3>4, <4>1, <4>2
    <3>5. Distinct(list)
      BY <3>3 DEF Distinct
    <3> QED BY <1>5, <2>1, <3>1, <3>4, <3>5
  <2>2. CASE ~forgets
    <3>1. PICK x : x = [stream.list[n] EXCEPT !.played = TRUE]
      OBVIOUS
    <3>2. list = [stream.list EXCEPT ![n] = x]
      BY <1>3, <1>4, <1>5, <2>2, <3>1
    <3>3. x \in Tracks /\ x.uri = stream.list[n].uri /\ x.played
      BY <1>4, <3>1 DEF Tracks
    <3>4. list \in Seq(Tracks) /\ DOMAIN list = DOMAIN stream.list /\ list[n] = x /\ n \in DOMAIN list
      BY <1>3, <1>4, <3>2, <3>3
    <3>5. \A i \in DOMAIN stream.list : i # n => list[i] = stream.list[i]
      BY <1>3, <1>4, <3>2
    <3>6. Distinct(list)
      BY <1>3, <1>4, <3>3, <3>4, <3>5 DEF Distinct
    <3> QED BY <3>3, <3>4, <3>5, <3>6
  <2> QED BY <2>1, <2>2
<1>8. total \in Int
  BY <1>3, <1>5
<1>9. AStream(stream')
  <2>1. PICK s : s = [stream EXCEPT !.pc = "begins", !.list = list, !.opened = FALSE]
    OBVIOUS
  <2>0. list \in Seq(Tracks)
    BY <1>7
  <2>2. AStream(s)
    <3>1. PICK t : t = [stream EXCEPT !.pc = "begins", !.opened = FALSE]
      OBVIOUS
    <3>2. AStream(t)
      BY <1>1, <3>1, ZenonT(40) DEF AStream, Pcs
    <3>3. s = [t EXCEPT !.list = list]
      BY <1>1, <2>1, <3>1 DEF AStream
    <3> QED BY <2>0, <3>2, <3>3 DEF AStream
  <2>3. stream' = [s EXCEPT !.pos = 0, !.total = total, !.dropped = dropped]
    BY <1>1, <1>6, <2>1 DEF AStream
  <2> QED BY <1>8, <2>2, <2>3 DEF AStream
<1>10. /\ stream'.pc = "begins" /\ stream'.list = list /\ stream'.total = total /\ stream'.dropped = dropped /\ stream'.resolved
       /\ stream'.played = stream.played /\ stream'.replay = stream.replay /\ stream'.uri = stream.uri
       /\ stream'.version = stream.version
  BY <1>1, <1>6 DEF AStream
<1>11. ListKept(stream)' /\ Versioned' /\ OnTrack' /\ NothingYet'
  <2>1. ListKept(stream)'
    <3>1. list \in Seq(Tracks) /\ Distinct(list)
      BY <1>7
    <3> QED BY <3>1, <1>8, <1>10 DEF ListKept
  <2>2. Versioned'
    BY <1>1, <1>10 DEF Versioned, IsPlaylist
  <2> QED BY <1>10, <2>1, <2>2 DEF OnTrack, NothingYet
<1>12. stream.dropped \subseteq dropped
  BY <1>5
<1>13. PlaysOnce'
  BY <1>1, <1>10, <1>12 DEF PlaysOnce, IsPlaylist
<1>14. Remembered'
  <2> SUFFICES ASSUME NEW k \in DOMAIN stream.played
               PROVE  LET u == stream.played[k]
                      IN \/ IsPlaylist(u) \/ u \in dropped
                         \/ \E j \in DOMAIN list : list[j].uri = u /\ list[j].played
    BY <1>10 DEF Remembered, IsPlaylist
  <2>1. \/ IsPlaylist(stream.played[k]) \/ stream.played[k] \in stream.dropped
        \/ stream.played[k] = stream.list[n].uri
        \/ \E i \in DOMAIN stream.list : stream.list[i].uri = stream.played[k] /\ stream.list[i].played
    BY <1>1, <1>4 DEF Remembered
  <2>2. ASSUME NEW i \in DOMAIN stream.list, stream.list[i].uri = stream.played[k], stream.list[i].played, i # n
        PROVE  \E j \in DOMAIN list : list[j].uri = stream.played[k] /\ list[j].played
    BY <1>7, <2>2
  <2> QED BY <1>7, <1>12, <2>1, <2>2
<1> QED
  BY <1>1, <1>9, <1>10, <1>11, <1>13, <1>14 DEF StreamInv, IsPlaylist

LEMMA StreamStep == StreamInv /\ [StreamNext]_stream => StreamInv'
<1> SUFFICES ASSUME StreamInv, [StreamNext]_stream PROVE StreamInv'
  OBVIOUS
<1>1. CASE UNCHANGED stream
  <2>1. Unplayed' = Unplayed /\ NextOne' = NextOne
    BY <1>1, SameList
  <2>2. OnTrack'
    BY <1>1, <2>1 DEF StreamInv, OnTrack
  <2> QED BY <1>1, <2>2 DEF StreamInv, AStream, ListKept, Versioned, IsPlaylist, NothingYet, Remembered, PlaysOnce
<1>2. CASE StreamNext
  BY <1>1, <1>2, MovesInv, OpensInv, PicksInv, FinishesPlaylistInv, RefusedInv, ClosesInv, StartsInv, ResolvesInv, NextTrackInv
     DEF StreamNext, StreamSteps
<1> QED
  BY <1>1, <1>2

LEMMA StreamInvOnce == StreamInv => PlaysOnce
  BY DEF StreamInv
-----------------------------------------------------------------------------
(* The putting together of a pipeline.                                     *)

ItemSet == [el : Elements, linked : BOOLEAN]
NoneLinked(items) == \A i \in DOMAIN items : ~items[i].linked
LinkedEls(items) == {x.el : x \in {y \in Range(items) : y.linked}}

LineSet == [items : Seq(ItemSet), rbs : Seq(Nat), linked : BOOLEAN, listener : BOOLEAN]
ListenSet == [els : SUBSET Elements, twice : BOOLEAN]
WishSet == [chain : Seq(Elements), clean : BOOLEAN, strays : SUBSET Elements, lost : SUBSET Nat, calls : Nat]
Bounded(S) == \E b \in Nat : \A r \in S : r <= b

LinkTyped ==
  /\ line \in LineSet /\ ends \in [Elements -> [in : Nat, out : Nat, tag : BOOLEAN]]
  /\ listens \in ListenSet /\ rings \in SUBSET Nat /\ Bounded(rings) /\ wish \in WishSet
\* A pipeline that is linked has a chain, each element of it joined to the next by a ring of their own.
ChainJoined ==
  /\ IsInjective(wish.chain)
  /\ line.linked =>
       /\ wish.chain # <<>>
       /\ \A i \in 1..(Len(wish.chain) - 1) :
            ends[wish.chain[i]].out = ends[wish.chain[i + 1]].in /\ ends[wish.chain[i]].out \in rings
       /\ \A i, j \in 1..(Len(wish.chain) - 1) : ends[wish.chain[i]].out = ends[wish.chain[j]].out => i = j
\* Without a call that failed half-way, the chain is all that is linked, and nothing is when there is none.
OnlyChain ==
  wish.clean => IF line.linked THEN LinkedEls(line.items) = Range(wish.chain) ELSE line.rbs = <<>> /\ NoneLinked(line.items)
\* Each ring is the pipeline's, once, or lost.
RingsOwned == IsInjective(line.rbs) /\ rings = Range(line.rbs) \cup wish.lost /\ wish.lost \cap Range(line.rbs) = {}
\* What the listener listens to is registered, or was.
Heard == listens.els \subseteq Els(line.items) \cup wish.strays /\ (~line.listener => listens.els \subseteq wish.strays)
LinkInv == LinkTyped /\ ChainJoined /\ OnlyChain /\ RingsOwned /\ Heard

LEMMA LinkInvKept == LinkInv => LinkKept
<1> SUFFICES ASSUME LinkInv PROVE LinkKept
  OBVIOUS
<1> DEFINE outs == [i \in 1..(Len(wish.chain) - 1) |-> ends[wish.chain[i]].out]
<1>1. line.linked => IsInjective(outs)
  BY DEF LinkInv, ChainJoined, IsInjective
<1>2. line.linked /\ wish.clean => {x.el : x \in {y \in Range(line.items) : y.linked}} = Range(wish.chain)
  BY DEF LinkInv, OnlyChain, LinkedEls
<1> HIDE DEF outs
<1> QED
  BY <1>1, <1>2 DEF LinkInv, ChainJoined, RingsOwned, Heard, LinkKept, outs

-----------------------------------------------------------------------------
\* The top of a set of rings is in it, or is 0.
LEMMA TopIs ==
  ASSUME NEW S \in SUBSET Nat, Bounded(S)
  PROVE  Max(S \cup {0}) \in Nat /\ \A r \in S : r <= Max(S \cup {0})
<1> DEFINE T == {b \in Nat : \A r \in S : r <= b}
<1>1. T \in SUBSET Nat /\ T # {}
  BY DEF Bounded
<1>2. PICK m \in T : \A b \in T : m <= b
  BY <1>1, LeastNumber
<1>3. m \in S \cup {0}
  <2> SUFFICES ASSUME m \notin S, m # 0 PROVE FALSE
    OBVIOUS
  <2>1. m - 1 \in Nat /\ \A r \in S : r <= m - 1
    <3>1. m - 1 \in Nat
      BY <1>2
    <3>2. ASSUME NEW r \in S PROVE r <= m - 1
      <4>1. r \in Nat /\ r <= m /\ r # m
        BY <1>2
      <4> QED BY <1>2, <4>1
    <3> QED BY <3>1, <3>2
  <2>2. m - 1 \in T
    BY <2>1
  <2> QED BY <1>2, <2>1, <2>2
<1>4. \A y \in S \cup {0} : m >= y
  BY <1>2
<1> HIDE DEF T
<1>5. Max(S \cup {0}) \in S \cup {0} /\ \A y \in S \cup {0} : Max(S \cup {0}) >= y
  BY <1>3, <1>4 DEF Max
<1>6. PICK t : t = Max(S \cup {0})
  OBVIOUS
<1>7. t \in Nat /\ \A r \in S : r \in Nat /\ t >= r
  <2>1. t \in S \cup {0} /\ \A y \in S \cup {0} : t >= y
    BY <1>5, <1>6
  <2> QED BY <2>1
<1>8. \A r \in S : r <= t
  BY <1>7
<1> QED
  BY <1>6, <1>7, <1>8

LEMMA FirstIs ==
  ASSUME NEW items \in Seq(ItemSet), NEW e
  PROVE  /\ FirstOf(items, e) \in 0..Len(items)
         /\ FirstOf(items, e) # 0 => items[FirstOf(items, e)].el = e
         /\ FirstOf(items, e) = 0 <=> e \notin Els(items)
<1> DEFINE I == {i \in 1..Len(items) : items[i].el = e}
<1>1. FirstOf(items, e) = IF I # {} THEN Min(I) ELSE 0
  BY DEF FirstOf, SelectInSeq
<1>2. I \in SUBSET Nat
  OBVIOUS
<1>3. I # {} => Min(I) \in I
  <2> SUFFICES ASSUME I # {} PROVE Min(I) \in I
    OBVIOUS
  <2>1. \E m \in I : \A y \in I : m <= y
    BY <1>2, LeastNumber
  <2> HIDE DEF I
  <2> QED BY <2>1 DEF Min
<1>4. I = {} <=> e \notin Els(items)
  BY DEF Els, Range
<1> QED
  BY <1>1, <1>3, <1>4

\* The place of an element in a chain.
LEMMA PlacedAt ==
  ASSUME NEW chain \in Seq(Elements), IsInjective(chain), NEW k \in 1..Len(chain)
  PROVE  SelectInSeq(chain, LAMBDA x : x = chain[k]) = k
<1> DEFINE e == chain[k]
           I == {i \in 1..Len(chain) : chain[i] = e}
<1>1. SelectInSeq(chain, LAMBDA x : x = chain[k]) = IF I # {} THEN Min(I) ELSE 0
  BY DEF SelectInSeq
<1>2. I = {k}
  BY DEF IsInjective
<1>3. Min({k}) = k
  BY DEF Min
<1> QED
  BY <1>1, <1>2, <1>3

Appended(r, a, x) == r = Append(a, x)
LEMMA AppendedIs ==
  ASSUME NEW S, NEW a \in Seq(S), NEW x \in S, NEW r, Appended(r, a, x)
  PROVE  /\ r \in Seq(S) /\ Range(r) = Range(a) \cup {x}
         /\ Len(r) = Len(a) + 1 /\ \A i \in 1..(Len(a) + 1) : r[i] = IF i <= Len(a) THEN a[i] ELSE x
<1>1. r = Append(a, x)
  BY DEF Appended
<1>2. r \in Seq(S) /\ Len(r) = Len(a) + 1 /\ \A i \in 1..Len(r) : r[i] = IF i <= Len(a) THEN a[i] ELSE x
  BY <1>1
<1>3. Range(r) = Range(a) \cup {x}
  <2>1. DOMAIN r = 1..(Len(a) + 1) /\ DOMAIN a = 1..Len(a)
    BY <1>2
  <2>2. Range(r) \subseteq Range(a) \cup {x}
    BY <1>2, <2>1 DEF Range
  <2>3. ASSUME NEW i \in 1..Len(a) PROVE a[i] \in Range(r)
    <3>1. i \in DOMAIN r /\ r[i] = a[i]
      BY <1>2, <2>1
    <3> QED BY <3>1 DEF Range
  <2>4. x \in Range(r)
    <3>1. Len(a) + 1 \in DOMAIN r /\ r[Len(a) + 1] = x
      BY <1>2, <2>1
    <3> QED BY <3>1 DEF Range
  <2> QED
    BY <2>1, <2>2, <2>3, <2>4 DEF Range
<1> QED
  BY <1>2, <1>3

LEMMA BothIs ==
  ASSUME NEW S, NEW a \in Seq(S), NEW b \in Seq(S)
  PROVE  /\ a \o b \in Seq(S) /\ Range(a \o b) = Range(a) \cup Range(b) /\ Len(a \o b) = Len(a) + Len(b)
         /\ \A i \in 1..(Len(a) + Len(b)) : (a \o b)[i] = IF i <= Len(a) THEN a[i] ELSE b[i - Len(a)]
<1>1. PICK r : r = a \o b
  OBVIOUS
<1>2. /\ r \in Seq(S) /\ Len(r) = Len(a) + Len(b)
      /\ \A k \in 1..(Len(a) + Len(b)) : r[k] = IF k <= Len(a) THEN a[k] ELSE b[k - Len(a)]
  BY <1>1, ConcatProperties
<1>3. Range(r) = Range(a) \cup Range(b)
  <2>1. DOMAIN r = 1..(Len(a) + Len(b)) /\ DOMAIN a = 1..Len(a) /\ DOMAIN b = 1..Len(b)
    BY <1>2
  <2>2. ASSUME NEW k \in DOMAIN r PROVE r[k] \in Range(a) \cup Range(b)
    <3>1. CASE k <= Len(a)
      BY <1>2, <2>1, <3>1 DEF Range
    <3>2. CASE ~(k <= Len(a))
      <4>1. k - Len(a) \in DOMAIN b /\ r[k] = b[k - Len(a)]
        BY <1>2, <2>1, <3>2
      <4> QED BY <4>1 DEF Range
    <3> QED BY <3>1, <3>2
  <2>3. ASSUME NEW i \in DOMAIN a PROVE a[i] \in Range(r)
    <3>1. i \in DOMAIN r /\ r[i] = a[i]
      BY <1>2, <2>1
    <3> QED BY <3>1 DEF Range
  <2>4. ASSUME NEW i \in DOMAIN b PROVE b[i] \in Range(r)
    <3>1. Len(a) + i \in DOMAIN r /\ r[Len(a) + i] = b[i]
      BY <1>2, <2>1
    <3> QED BY <3>1 DEF Range
  <2> QED
    BY <2>2, <2>3, <2>4 DEF Range
<1> QED
  BY <1>1, <1>2, <1>3

LEMMA ItemsIs ==
  ASSUME NEW chain \in Seq(Elements), NEW on \in BOOLEAN
  PROVE  /\ Items(chain, on) \in Seq(ItemSet) /\ Len(Items(chain, on)) = Len(chain)
         /\ \A i \in 1..Len(chain) : Items(chain, on)[i] = [el |-> chain[i], linked |-> on]
<1> DEFINE it(i) == [el |-> chain[i], linked |-> on]
<1>1. \A i \in DOMAIN chain : it(i) \in ItemSet /\ Item(on)[chain[i]] = it(i)
  BY DEF ItemSet, Item
<1>2. Items(chain, on) = [i \in 1..Len(chain) |-> Item(on)[chain[i]]]
  BY DEF Items
<1>3. Items(chain, on) = [i \in 1..Len(chain) |-> it(i)]
  BY <1>1, <1>2
<1> HIDE DEF it
<1>4. \A i \in 1..Len(chain) : it(i) \in ItemSet
  BY <1>1
<1>5. Items(chain, on) \in Seq(ItemSet) /\ Len(Items(chain, on)) = Len(chain)
  BY <1>3, <1>4
<1> QED
  BY <1>3, <1>5 DEF it

-----------------------------------------------------------------------------
\* An element that is taken out once leaves the other items.
LEMMA DroppedIs ==
  ASSUME LinkTyped, NEW e \in Elements
  PROVE  /\ Dropped(e) \in Seq(ItemSet) /\ Range(Dropped(e)) \subseteq Range(line.items)
         /\ Els(line.items) \subseteq Els(Dropped(e)) \cup {e}
<1> DEFINE n == FirstOf(line.items, e)
           d == RemoveAt(line.items, n)
<1>1. line.items \in Seq(ItemSet)
  BY DEF LinkTyped, LineSet
<1>2. n \in 0..Len(line.items) /\ (n # 0 => line.items[n].el = e)
  BY <1>1, FirstIs
<1>3. Dropped(e) = IF n = 0 THEN line.items ELSE d
  BY DEF Dropped
<1> HIDE DEF n
<1>4. CASE n = 0
  BY <1>1, <1>3, <1>4
<1>5. CASE n # 0
  <2>1. n \in 1..Len(line.items)
    BY <1>2, <1>5
  <2>2. /\ d \in Seq(ItemSet) /\ Len(d) = Len(line.items) - 1
        /\ \A i \in 1..(Len(line.items) - 1) : d[i] = IF i < n THEN line.items[i] ELSE line.items[i + 1]
    BY <1>1, <2>1, RemovedAt
  <2> HIDE DEF d
  <2>3. DOMAIN d = 1..(Len(line.items) - 1) /\ DOMAIN line.items = 1..Len(line.items)
    BY <1>1, <2>2
  <2>4. Range(d) \subseteq Range(line.items)
    <3>1. ASSUME NEW i \in DOMAIN d PROVE d[i] \in Range(line.items)
      <4>1. i \in DOMAIN line.items /\ i + 1 \in DOMAIN line.items
        BY <1>1, <2>3, <3>1
      <4> QED BY <2>2, <2>3, <4>1 DEF Range
    <3> QED BY <3>1 DEF Range
  <2>5. ASSUME NEW i \in DOMAIN line.items, i # n PROVE line.items[i] \in Range(d)
    <3>1. CASE i < n
      <4>1. i \in DOMAIN d /\ d[i] = line.items[i]
        BY <1>1, <2>1, <2>2, <2>3, <3>1
      <4> QED BY <4>1 DEF Range
    <3>2. CASE i > n
      <4>1. i - 1 \in DOMAIN d /\ d[i - 1] = line.items[i - 1 + 1] /\ i - 1 + 1 = i
        BY <1>1, <2>1, <2>2, <2>3, <3>2
      <4> QED BY <4>1 DEF Range
    <3> QED
      BY <2>1, <2>3, <2>5, <3>1, <3>2
  <2>6. ASSUME NEW i \in DOMAIN line.items PROVE line.items[i].el \in Els(d) \cup {e}
    BY <1>2, <2>1, <2>5, <2>6 DEF Els
  <2>7. Els(line.items) \subseteq Els(d) \cup {e}
    BY <2>6 DEF Els, Range
  <2> QED
    BY <1>3, <1>5, <2>2, <2>4, <2>7
<1> QED
  BY <1>4, <1>5

\* Taking out every item of some elements is a function of the number of items that were looked at.
Keeping(n, items, els, kept) ==
  kept = [k \in 0..n |-> IF k = 0 THEN <<>> ELSE IF items[k].el \in els THEN kept[k - 1] ELSE Append(kept[k - 1], items[k])]
LEMMA KeepingExists ==
  ASSUME NEW n \in Nat, NEW items, NEW els
  PROVE  \E kept : Keeping(n, items, els, kept)
<1> DEFINE PutOn(s, k) == IF items[k].el \in els THEN s ELSE Append(s, items[k])
           P(m) == \E kept : kept = [k \in 0..m |-> IF k = 0 THEN <<>> ELSE PutOn(kept[k - 1], k)]
           T == {m \in Nat : P(m)}
<1> HIDE DEF PutOn
<1>1. 0 \in T
  <2> DEFINE kept == [k \in 0..0 |-> <<>>]
             Next1(k) == IF k = 0 THEN <<>> ELSE PutOn(kept[k - 1], k)
  <2>1. \A k \in 0..0 : Next1(k) = <<>>
    OBVIOUS
  <2>2. kept = [k \in 0..0 |-> Next1(k)]
    <3> HIDE DEF Next1
    <3> QED BY <2>1
  <2>3. P(0)
    <3> HIDE DEF kept
    <3> QED BY <2>2
  <2> QED
    BY <2>3
<1>2. ASSUME NEW m \in Nat, m \in T PROVE m + 1 \in T
  <2>1. PICK kept : kept = [k \in 0..m |-> IF k = 0 THEN <<>> ELSE PutOn(kept[k - 1], k)]
    BY <1>2
  <2> DEFINE F(k) == IF k = 0 THEN <<>> ELSE PutOn(kept[k - 1], k)
             more == [k \in 0..(m + 1) |-> F(k)]
             G(k) == IF k = 0 THEN <<>> ELSE PutOn(more[k - 1], k)
  <2>2. kept = [k \in 0..m |-> F(k)]
    BY <2>1
  <2>3. \A k \in 0..(m + 1) : G(k) = F(k)
    <3> HIDE DEF F
    <3>1. \A k \in 0..m : more[k] = kept[k]
      BY <2>2
    <3>2. ASSUME NEW k \in 0..(m + 1), k # 0 PROVE more[k - 1] = kept[k - 1]
      <4>1. k - 1 \in 0..m
        BY <3>2
      <4> QED BY <3>1, <4>1
    <3> HIDE DEF more
    <3> QED BY <3>2 DEF F
  <2>4. more = [k \in 0..(m + 1) |-> G(k)]
    <3> HIDE DEF F, G
    <3> QED BY <2>3
  <2>5. P(m + 1)
    <3> HIDE DEF more
    <3> QED BY <2>4
  <2> HIDE DEF P
  <2> QED
    BY <2>5
<1> HIDE DEF T
<1>3. n \in T
  BY <1>1, <1>2, Induction
<1> QED
  BY <1>3 DEF T, Keeping, PutOn

LEMMA WithoutIs ==
  ASSUME NEW items \in Seq(ItemSet), NEW els
  PROVE  /\ Without(items, els) \in Seq(ItemSet) /\ Range(Without(items, els)) \subseteq Range(items)
         /\ Els(items) \subseteq Els(Without(items, els)) \cup els
<1> DEFINE n == Len(items)
           kept == CHOOSE f : Keeping(n, items, els, f)
           PutOn(s, k) == IF items[k].el \in els THEN s ELSE Append(s, items[k])
           F(k) == IF k = 0 THEN <<>> ELSE PutOn(kept[k - 1], k)
           StaysOf(k) == {x \in Range(items) : x.el \notin els /\ \E i \in 1..k : x = items[i]}
           Good(k) == kept[k] \in Seq(ItemSet) /\ Range(kept[k]) = StaysOf(k)
           Bad == {k \in 0..n : ~Good(k)}
<1>1. n \in Nat /\ DOMAIN items = 1..n
  OBVIOUS
<1>2. kept = [k \in 0..n |-> IF k = 0 THEN <<>> ELSE IF items[k].el \in els THEN kept[k - 1] ELSE Append(kept[k - 1], items[k])]
  <2>1. \E f : Keeping(n, items, els, f)
    BY <1>1, KeepingExists
  <2>2. Keeping(n, items, els, kept)
    BY <2>1, Zenon
  <2> QED BY <2>2 DEF Keeping
<1>3. Without(items, els) = kept[n]
  BY DEF Without, Keeping
<1> HIDE DEF kept
<1>4. \A k \in 0..n : kept[k] = F(k)
  <2>1. kept = [k \in 0..n |-> F(k)]
    BY <1>2
  <2> HIDE DEF F
  <2> QED BY <2>1
<1>5. Good(0)
  <2>1. kept[0] = <<>>
    BY <1>1, <1>4
  <2>2. <<>> \in Seq(ItemSet) /\ Range(<<>>) = {}
    BY DEF Range
  <2> QED
    BY <2>1, <2>2
<1>6. ASSUME NEW k \in 1..n, Good(k - 1) PROVE Good(k)
  <2>1. kept[k] = PutOn(kept[k - 1], k) /\ items[k] \in ItemSet /\ items[k] \in Range(items)
    BY <1>1, <1>4 DEF Range
  <2>2. CASE items[k].el \in els
    <3>1. StaysOf(k) = StaysOf(k - 1)
      BY <2>2
    <3> HIDE DEF StaysOf
    <3> QED BY <1>6, <2>1, <2>2, <3>1
  <2>3. CASE items[k].el \notin els
    <3>1. StaysOf(k) = StaysOf(k - 1) \cup {items[k]}
      BY <2>1, <2>3
    <3>2. kept[k] = Append(kept[k - 1], items[k])
      BY <2>1, <2>3
    <3> HIDE DEF StaysOf
    <3>3. kept[k] \in Seq(ItemSet) /\ Range(kept[k]) = Range(kept[k - 1]) \cup {items[k]}
      <4>1. Appended(kept[k], kept[k - 1], items[k])
        BY <3>2 DEF Appended
      <4> QED BY <1>6, <2>1, <4>1, AppendedIs
    <3> QED BY <1>6, <3>1, <3>3
  <2> QED
    BY <2>2, <2>3
<1> HIDE DEF Good
<1>7. ASSUME Bad # {} PROVE FALSE
  <2>1. Bad \in SUBSET Nat
    BY <1>1
  <2>2. PICK m \in Bad : \A k \in Bad : m <= k
    BY <1>7, <2>1, LeastNumber
  <2>3. m \in 1..n
    BY <1>1, <1>5, <2>2
  <2>4. m - 1 \in 0..n /\ m - 1 \notin Bad
    BY <1>1, <2>2, <2>3
  <2>5. Good(m)
    BY <1>6, <2>3, <2>4
  <2> QED
    BY <2>2, <2>5
<1>8. kept[n] \in Seq(ItemSet) /\ Range(kept[n]) = StaysOf(n)
  <2>1. n \in 0..n /\ n \notin Bad
    BY <1>1, <1>7
  <2>2. Good(n)
    BY <2>1
  <2> QED BY <2>2 DEF Good
<1>9. StaysOf(n) = {x \in Range(items) : x.el \notin els}
  BY <1>1 DEF Range
<1> HIDE DEF StaysOf, kept
<1>10. ASSUME NEW x \in Range(items) PROVE x.el \in Els(kept[n]) \cup els
  <2>1. CASE x.el \in els
    BY <2>1
  <2>2. CASE x.el \notin els
    BY <1>8, <1>9, <2>2 DEF Els
  <2> QED BY <2>1, <2>2
<1> QED
  BY <1>3, <1>8, <1>9, <1>10 DEF Els

-----------------------------------------------------------------------------
\* What removing the listener leaves of its list.
LEMMA SilencedIs ==
  ASSUME LinkInv
  PROVE  /\ Silenced \in ListenSet /\ Silenced.els \subseteq listens.els /\ StillHeard \in BOOLEAN
         /\ ~StillHeard => Silenced.els \subseteq wish.strays
<1>1. line \in LineSet /\ listens \in ListenSet /\ Heard
  BY DEF LinkInv, LinkTyped
<1>2. CASE line.listener /\ ~listens.twice
  <2>1. Silenced = [listens EXCEPT !.els = @ \ Els(line.items)]
    BY <1>2 DEF Silenced
  <2>2. Silenced \in ListenSet /\ Silenced.els = listens.els \ Els(line.items)
    BY <1>1, <2>1 DEF ListenSet
  <2> QED
    BY <1>1, <2>2 DEF Heard, StillHeard, LineSet, ListenSet
<1>3. CASE ~(line.listener /\ ~listens.twice)
  <2>1. Silenced = listens
    BY <1>3 DEF Silenced
  <2> QED
    BY <1>1, <1>3, <2>1 DEF Heard, StillHeard, LineSet, ListenSet
<1> QED
  BY <1>2, <1>3

\* A pipeline that is unlinked: its items are those it had, its rings are what a failed call left of them.
LEMMA UnlinkedIs ==
  ASSUME LinkInv
  PROVE  /\ Unlinked \in LineSet /\ ~Unlinked.linked
         /\ Len(Unlinked.items) = Len(line.items) /\ \A i \in 1..Len(line.items) : Unlinked.items[i].el = line.items[i].el
         /\ Els(Unlinked.items) = Els(line.items)
         /\ IsInjective(Unlinked.rbs) /\ UnlinkedRings = Range(Unlinked.rbs) \cup wish.lost
         /\ wish.lost \cap Range(Unlinked.rbs) = {}
         /\ UnlinkedRings \in SUBSET Nat /\ Bounded(UnlinkedRings)
         /\ Cleaned => Unlinked.rbs = <<>> /\ NoneLinked(Unlinked.items)
         /\ UnlinkedListens \in ListenSet /\ UnlinkedListens.els \subseteq listens.els
         /\ ~Unlinked.listener => UnlinkedListens.els \subseteq wish.strays
<1>1. /\ line \in LineSet /\ listens \in ListenSet /\ rings \in SUBSET Nat /\ Bounded(rings) /\ wish \in WishSet
      /\ Heard /\ RingsOwned /\ OnlyChain
  BY DEF LinkInv, LinkTyped
<1>2. /\ Silenced \in ListenSet /\ Silenced.els \subseteq listens.els /\ StillHeard \in BOOLEAN
      /\ ~StillHeard => Silenced.els \subseteq wish.strays
  BY SilencedIs
<1>3. UnlinkedRings \in SUBSET Nat /\ Bounded(UnlinkedRings)
  BY <1>1 DEF UnlinkedRings, Bounded
<1>4. CASE line.linked
  <2> DEFINE its == [i \in DOMAIN line.items |-> [line.items[i] EXCEPT !.linked = FALSE]]
  <2>1. Unlinked = [line EXCEPT !.items = its, !.rbs = <<>>, !.linked = FALSE, !.listener = StillHeard]
    BY <1>4 DEF Unlinked, UnlinkedLine
  <2>2. line.items \in Seq(ItemSet) /\ DOMAIN line.items = 1..Len(line.items)
    BY <1>1 DEF LineSet
  <2>3. ASSUME NEW i \in 1..Len(line.items)
        PROVE  /\ [line.items[i] EXCEPT !.linked = FALSE] \in ItemSet
               /\ [line.items[i] EXCEPT !.linked = FALSE].el = line.items[i].el
               /\ ~[line.items[i] EXCEPT !.linked = FALSE].linked
    <3>1. line.items[i] \in ItemSet
      BY <2>2
    <3> QED BY <3>1 DEF ItemSet
  <2>4. /\ its \in Seq(ItemSet) /\ Len(its) = Len(line.items) /\ DOMAIN its = 1..Len(line.items)
        /\ \A i \in 1..Len(line.items) : its[i].el = line.items[i].el /\ ~its[i].linked
    <3> DEFINE it(i) == [line.items[i] EXCEPT !.linked = FALSE]
    <3>1. \A i \in 1..Len(line.items) : it(i) \in ItemSet /\ it(i).el = line.items[i].el /\ ~it(i).linked
      BY <2>3
    <3>2. its = [i \in 1..Len(line.items) |-> it(i)] /\ Len(line.items) \in Nat
      BY <2>2
    <3> HIDE DEF it, its
    <3> QED BY <3>1, <3>2
  <2> HIDE DEF its
  <2>5. PICK t : t = its
    OBVIOUS
  <2>6. PICK h \in BOOLEAN : h = StillHeard
    BY <1>2
  <2>7. Unlinked = [line EXCEPT !.items = t, !.rbs = <<>>, !.linked = FALSE, !.listener = h]
    BY <2>1, <2>5, <2>6
  <2>8. Unlinked.items = t /\ Unlinked.rbs = <<>> /\ Unlinked.linked = FALSE /\ Unlinked.listener = h
    BY <1>1, <2>7 DEF LineSet
  <2>9. Unlinked \in LineSet
    <3>1. <<>> \in Seq(Nat) /\ t \in Seq(ItemSet)
      BY <2>4, <2>5
    <3> QED BY <1>1, <2>7, <3>1 DEF LineSet
  <2>10. Els(t) = Els(line.items)
    BY <2>2, <2>4, <2>5 DEF Els, Range
  <2>11. UnlinkedRings = wish.lost
    BY <1>1, <1>4 DEF UnlinkedRings, RingsOwned
  <2>12. IsInjective(<<>>) /\ Range(<<>>) = {}
    BY DEF IsInjective, Range
  <2>13. UnlinkedListens = Silenced
    BY <1>4 DEF UnlinkedListens
  <2>14. NoneLinked(t)
    BY <2>4, <2>5 DEF NoneLinked
  <2> QED
    BY <1>2, <1>3, <2>4, <2>5, <2>6, <2>8, <2>9, <2>10, <2>11, <2>12, <2>13, <2>14
<1>5. CASE ~line.linked
  <2>1. Unlinked = line /\ UnlinkedListens = listens /\ UnlinkedRings = rings
    BY <1>5 DEF Unlinked, UnlinkedListens, UnlinkedRings
  <2>2. Cleaned => line.rbs = <<>> /\ NoneLinked(line.items)
    BY <1>1, <1>5 DEF Cleaned, OnlyChain
  <2> QED
    BY <1>1, <1>3, <1>5, <2>1, <2>2 DEF RingsOwned, Heard
<1> QED
  BY <1>4, <1>5

-----------------------------------------------------------------------------
LEMMA WishIs ==
  ASSUME wish \in WishSet, NEW clean \in BOOLEAN, NEW strays \in SUBSET Elements, Wish(clean, strays)
  PROVE  /\ wish' \in WishSet /\ wish'.chain = wish.chain /\ wish'.lost = wish.lost
         /\ wish'.clean = (wish.clean /\ clean) /\ wish'.strays = wish.strays \cup strays
<1>1. wish' = [wish EXCEPT !.calls = wish.calls + 1, !.clean = wish.clean /\ clean, !.strays = wish.strays \cup strays]
  BY DEF Wish
<1>2. PICK c \in BOOLEAN : c = (wish.clean /\ clean)
  BY DEF WishSet
<1>3. wish' = [wish EXCEPT !.calls = wish.calls + 1, !.clean = c, !.strays = wish.strays \cup strays]
  BY <1>1, <1>2
<1>4. /\ wish'.chain = wish.chain /\ wish'.lost = wish.lost /\ wish'.clean = c /\ wish'.strays = wish.strays \cup strays
  BY <1>3 DEF WishSet
<1>5. wish' \in WishSet
  <2>1. wish.calls \in Nat /\ wish.strays \in SUBSET Elements
    BY DEF WishSet
  <2>2. PICK k \in Nat : k = wish.calls + 1
    BY <2>1
  <2>3. PICK t \in SUBSET Elements : t = wish.strays \cup strays
    BY <2>1
  <2>4. wish' = [wish EXCEPT !.calls = k, !.clean = c, !.strays = t]
    BY <1>3, <2>2, <2>3
  <2> QED BY <2>4 DEF WishSet
<1> QED
  BY <1>2, <1>4, <1>5

\* A call that neither links nor unlinks leaves the chain and its rings.
LEMMA SameChain ==
  ASSUME LinkInv, line' \in LineSet, line'.rbs = line.rbs, line'.linked = line.linked,
         ends' \in [Elements -> [in : Nat, out : Nat, tag : BOOLEAN]],
         \A e \in Elements : ends'[e].in = ends[e].in /\ ends'[e].out = ends[e].out,
         listens' \in ListenSet, rings' = rings,
         wish' \in WishSet, wish'.chain = wish.chain, wish'.lost = wish.lost,
         wish'.clean => /\ wish.clean
                        /\ line.linked => LinkedEls(line'.items) = LinkedEls(line.items)
                        /\ ~line.linked /\ NoneLinked(line.items) => NoneLinked(line'.items),
         Heard'
  PROVE  LinkInv'
<1>1. LinkTyped /\ ChainJoined /\ OnlyChain /\ RingsOwned
  BY DEF LinkInv
<1>2. LinkTyped'
  BY <1>1 DEF LinkTyped, Bounded
<1>3. ChainJoined'
  <2>1. wish.chain \in Seq(Elements)
    BY <1>1 DEF LinkTyped, WishSet
  <2>2. \A i \in 1..Len(wish.chain) : wish.chain[i] \in Elements
    BY <2>1
  <2>3. \A i \in 1..(Len(wish.chain) - 1) :
          /\ ends'[wish.chain[i]].out = ends[wish.chain[i]].out
          /\ ends'[wish.chain[i + 1]].in = ends[wish.chain[i + 1]].in
    <3>1. ASSUME NEW i \in 1..(Len(wish.chain) - 1) PROVE wish.chain[i] \in Elements /\ wish.chain[i + 1] \in Elements
      <4>1. i \in 1..Len(wish.chain) /\ i + 1 \in 1..Len(wish.chain)
        BY <2>1
      <4> QED BY <2>2, <4>1
    <3> QED BY <3>1
  <2>4. IsInjective(wish'.chain)
    BY <1>1 DEF ChainJoined
  <2>5. ASSUME line'.linked
        PROVE  /\ wish'.chain # <<>>
               /\ \A i \in 1..(Len(wish'.chain) - 1) :
                    ends'[wish'.chain[i]].out = ends'[wish'.chain[i + 1]].in /\ ends'[wish'.chain[i]].out \in rings'
               /\ \A i, j \in 1..(Len(wish'.chain) - 1) :
                    ends'[wish'.chain[i]].out = ends'[wish'.chain[j]].out => i = j
    <3>1. /\ wish.chain # <<>>
          /\ \A i \in 1..(Len(wish.chain) - 1) :
               ends[wish.chain[i]].out = ends[wish.chain[i + 1]].in /\ ends[wish.chain[i]].out \in rings
          /\ \A i, j \in 1..(Len(wish.chain) - 1) : ends[wish.chain[i]].out = ends[wish.chain[j]].out => i = j
      BY <1>1, <2>5 DEF ChainJoined
    <3> QED BY <2>3, <3>1
  <2> QED
    BY <2>4, <2>5 DEF ChainJoined
<1>4. OnlyChain'
  BY <1>1 DEF OnlyChain
<1>5. RingsOwned'
  BY <1>1 DEF RingsOwned
<1> QED
  BY <1>2, <1>3, <1>4, <1>5 DEF LinkInv

LEMMA NoneLinkedIs == ASSUME NEW items \in Seq(ItemSet) PROVE NoneLinked(items) <=> \A x \in Range(items) : ~x.linked
  BY DEF NoneLinked, Range

LEMMA RegisterInv == ASSUME NEW e \in Elements PROVE LinkInv /\ Register(e) => LinkInv'
<1> SUFFICES ASSUME LinkInv, Register(e) PROVE LinkInv'
  OBVIOUS
<1>1. /\ LinkTyped /\ Heard /\ line \in LineSet /\ ends \in [Elements -> [in : Nat, out : Nat, tag : BOOLEAN]]
      /\ listens \in ListenSet /\ wish \in WishSet
  BY DEF LinkInv, LinkTyped
<1>2. /\ Dropped(e) \in Seq(ItemSet) /\ Range(Dropped(e)) \subseteq Range(line.items)
      /\ Els(line.items) \subseteq Els(Dropped(e)) \cup {e}
  BY <1>1, DroppedIs
<1>3. PICK x \in ItemSet : x = Item(FALSE)[e] /\ x.el = e /\ ~x.linked
  <2>1. PICK x : x = [el |-> e, linked |-> FALSE]
    OBVIOUS
  <2>2. x \in ItemSet /\ x.el = e /\ ~x.linked
    BY <2>1 DEF ItemSet
  <2>3. x = Item(FALSE)[e]
    BY <2>1 DEF Item
  <2> QED BY <2>2, <2>3
<1>4. PICK t : t = Append(Dropped(e), x)
  OBVIOUS
<1>5. t \in Seq(ItemSet) /\ Range(t) = Range(Dropped(e)) \cup {x}
  <2>1. Appended(t, Dropped(e), x)
    BY <1>4 DEF Appended
  <2> QED BY <1>2, <2>1, AppendedIs
<1>6. line' = [line EXCEPT !.items = t]
  BY <1>3, <1>4 DEF Register
<1>7. line' \in LineSet /\ line'.items = t /\ line'.rbs = line.rbs /\ line'.linked = line.linked /\ line'.listener = line.listener
  BY <1>1, <1>5, <1>6 DEF LineSet
<1>8. /\ ends' \in [Elements -> [in : Nat, out : Nat, tag : BOOLEAN]]
      /\ \A d \in Elements : ends'[d].in = ends[d].in /\ ends'[d].out = ends[d].out
  BY <1>1 DEF Register
<1>9. /\ wish' \in WishSet /\ wish'.chain = wish.chain /\ wish'.lost = wish.lost
      /\ wish'.clean = (wish.clean /\ ~line.linked) /\ wish'.strays = wish.strays
  <2>1. PICK c \in BOOLEAN, s \in SUBSET Elements : c = ~line.linked /\ s = {}
    OBVIOUS
  <2>2. Wish(c, s)
    BY <2>1 DEF Register
  <2> QED BY <1>1, <2>1, <2>2, WishIs
<1>10. NoneLinked(line.items) => NoneLinked(t)
  <2>1. line.items \in Seq(ItemSet)
    BY <1>1 DEF LineSet
  <2> QED BY <1>2, <1>3, <1>5, <2>1, NoneLinkedIs
<1>11. listens' = listens /\ rings' = rings
  BY DEF Register
<1>12. Heard'
  <2>1. Els(line.items) \subseteq Els(t)
    BY <1>2, <1>3, <1>5 DEF Els
  <2> QED BY <1>1, <1>7, <1>9, <1>11, <2>1 DEF Heard
<1> QED
  BY <1>1, <1>7, <1>8, <1>9, <1>10, <1>11, <1>12, SameChain

LEMMA UnregisterInv == ASSUME NEW e \in Elements PROVE LinkInv /\ Unregister(e) => LinkInv'
<1> SUFFICES ASSUME LinkInv, Unregister(e) PROVE LinkInv'
  OBVIOUS
<1>1. /\ LinkTyped /\ Heard /\ line \in LineSet /\ ends \in [Elements -> [in : Nat, out : Nat, tag : BOOLEAN]]
      /\ listens \in ListenSet /\ wish \in WishSet
  BY DEF LinkInv, LinkTyped
<1>2. PICK t : t = Dropped(e)
  OBVIOUS
<1>3. t \in Seq(ItemSet) /\ Range(t) \subseteq Range(line.items) /\ Els(line.items) \subseteq Els(t) \cup {e}
  BY <1>1, <1>2, DroppedIs
<1>4. line' = [line EXCEPT !.items = t]
  BY <1>2 DEF Unregister
<1>5. line' \in LineSet /\ line'.items = t /\ line'.rbs = line.rbs /\ line'.linked = line.linked /\ line'.listener = line.listener
  BY <1>1, <1>3, <1>4 DEF LineSet
<1>6. /\ ends' \in [Elements -> [in : Nat, out : Nat, tag : BOOLEAN]]
      /\ \A d \in Elements : ends'[d].in = ends[d].in /\ ends'[d].out = ends[d].out
  BY <1>1 DEF Unregister
<1>7. /\ wish' \in WishSet /\ wish'.chain = wish.chain /\ wish'.lost = wish.lost
      /\ wish'.clean = (wish.clean /\ ~line.linked) /\ wish'.strays = wish.strays \cup ({e} \cap listens.els)
  <2>1. PICK c \in BOOLEAN, s \in SUBSET Elements : c = ~line.linked /\ s = {e} \cap listens.els
    OBVIOUS
  <2>2. Wish(c, s)
    BY <2>1 DEF Unregister
  <2> QED BY <1>1, <2>1, <2>2, WishIs
<1>8. NoneLinked(line.items) => NoneLinked(t)
  <2>1. line.items \in Seq(ItemSet)
    BY <1>1 DEF LineSet
  <2> QED BY <1>3, <2>1, NoneLinkedIs
<1>9. listens' = listens /\ rings' = rings
  BY DEF Unregister
<1>10. Heard'
  BY <1>1, <1>3, <1>5, <1>7, <1>9 DEF Heard
<1> QED
  BY <1>1, <1>5, <1>6, <1>7, <1>8, <1>9, <1>10, SameChain

LEMMA RegisterMoreInv == ASSUME NEW chain \in Chains PROVE LinkInv /\ RegisterMore(chain) => LinkInv'
<1> SUFFICES ASSUME LinkInv, RegisterMore(chain) PROVE LinkInv'
  OBVIOUS
<1>1. /\ LinkTyped /\ Heard /\ line \in LineSet /\ ends \in [Elements -> [in : Nat, out : Nat, tag : BOOLEAN]]
      /\ listens \in ListenSet /\ wish \in WishSet /\ chain \in Seq(Elements)
  BY ChainsAssumption DEF LinkInv, LinkTyped
<1>2. PICK b : b = Items(chain, TRUE)
  OBVIOUS
<1>3. b \in Seq(ItemSet) /\ line.items \in Seq(ItemSet)
  BY <1>1, <1>2, ItemsIs DEF LineSet
<1>4. PICK t : t = line.items \o b
  OBVIOUS
<1>5. t \in Seq(ItemSet) /\ Range(t) = Range(line.items) \cup Range(b)
  BY <1>3, <1>4, BothIs
<1>6. line' = [line EXCEPT !.items = t]
  BY <1>2, <1>4 DEF RegisterMore
<1>7. line' \in LineSet /\ line'.items = t /\ line'.rbs = line.rbs /\ line'.linked = line.linked /\ line'.listener = line.listener
  BY <1>1, <1>5, <1>6 DEF LineSet
<1>8. /\ wish' \in WishSet /\ wish'.chain = wish.chain /\ wish'.lost = wish.lost /\ ~wish'.clean /\ wish'.strays = wish.strays
  <2>1. FALSE \in BOOLEAN /\ {} \in SUBSET Elements /\ Wish(FALSE, {})
    BY DEF RegisterMore
  <2> QED BY <1>1, <2>1, WishIs
<1>9. listens' = listens /\ rings' = rings /\ ends' = ends
  BY DEF RegisterMore
<1>10. Heard'
  <2>1. Els(line.items) \subseteq Els(t)
    BY <1>5 DEF Els
  <2> QED BY <1>1, <1>7, <1>8, <1>9, <2>1 DEF Heard
<1> QED
  BY <1>1, <1>7, <1>8, <1>9, <1>10, SameChain

LEMMA UnregisterMoreInv == ASSUME NEW chain \in Chains PROVE LinkInv /\ UnregisterMore(chain) => LinkInv'
<1> SUFFICES ASSUME LinkInv, UnregisterMore(chain) PROVE LinkInv'
  OBVIOUS
<1>1. /\ LinkTyped /\ Heard /\ line \in LineSet /\ ends \in [Elements -> [in : Nat, out : Nat, tag : BOOLEAN]]
      /\ listens \in ListenSet /\ wish \in WishSet /\ line.items \in Seq(ItemSet)
  BY DEF LinkInv, LinkTyped, LineSet
<1>2. PICK t : t = Without(line.items, Range(chain))
  OBVIOUS
<1>3. t \in Seq(ItemSet) /\ Range(t) \subseteq Range(line.items) /\ Els(line.items) \subseteq Els(t) \cup Range(chain)
  BY <1>1, <1>2, WithoutIs
<1>4. line' = [line EXCEPT !.items = t]
  BY <1>2 DEF UnregisterMore
<1>5. line' \in LineSet /\ line'.items = t /\ line'.rbs = line.rbs /\ line'.linked = line.linked /\ line'.listener = line.listener
  BY <1>1, <1>3, <1>4 DEF LineSet
<1>6. /\ wish' \in WishSet /\ wish'.chain = wish.chain /\ wish'.lost = wish.lost
      /\ wish'.clean = (wish.clean /\ ~line.linked) /\ wish'.strays = wish.strays \cup (Range(chain) \cap listens.els)
  <2>1. Range(chain) \cap listens.els \in SUBSET Elements
    BY <1>1 DEF ListenSet
  <2>2. PICK c \in BOOLEAN, s \in SUBSET Elements : c = ~line.linked /\ s = Range(chain) \cap listens.els
    BY <2>1
  <2>3. Wish(c, s)
    BY <2>2 DEF UnregisterMore
  <2> QED BY <1>1, <2>2, <2>3, WishIs
<1>7. NoneLinked(line.items) => NoneLinked(t)
  BY <1>1, <1>3, NoneLinkedIs
<1>8. listens' = listens /\ rings' = rings /\ ends' = ends
  BY DEF UnregisterMore
<1>9. Heard'
  BY <1>1, <1>3, <1>5, <1>6, <1>8 DEF Heard
<1> QED
  BY <1>1, <1>5, <1>6, <1>7, <1>8, <1>9, SameChain

LEMMA RemoveListenerInv == LinkInv /\ RemoveListener => LinkInv'
<1> SUFFICES ASSUME LinkInv, RemoveListener PROVE LinkInv'
  OBVIOUS
<1>1. /\ LinkTyped /\ Heard /\ line \in LineSet /\ ends \in [Elements -> [in : Nat, out : Nat, tag : BOOLEAN]]
      /\ wish \in WishSet
  BY DEF LinkInv, LinkTyped
<1>2. /\ Silenced \in ListenSet /\ Silenced.els \subseteq listens.els /\ StillHeard \in BOOLEAN
      /\ ~StillHeard => Silenced.els \subseteq wish.strays
  BY SilencedIs
<1>3. line' = [line EXCEPT !.listener = StillHeard] /\ listens' = Silenced /\ rings' = rings /\ ends' = ends
  BY DEF RemoveListener
<1>4. /\ line' \in LineSet /\ line'.items = line.items /\ line'.rbs = line.rbs /\ line'.linked = line.linked
      /\ line'.listener = StillHeard
  BY <1>1, <1>2, <1>3 DEF LineSet
<1>5. /\ wish' \in WishSet /\ wish'.chain = wish.chain /\ wish'.lost = wish.lost
      /\ wish'.clean = wish.clean /\ wish'.strays = wish.strays
  <2>1. TRUE \in BOOLEAN /\ {} \in SUBSET Elements /\ Wish(TRUE, {})
    BY DEF RemoveListener
  <2>2. wish'.clean = (wish.clean /\ TRUE) /\ wish.clean \in BOOLEAN
    BY <1>1, <2>1, WishIs DEF WishSet
  <2> QED BY <1>1, <2>1, <2>2, WishIs
<1>6. Heard'
  BY <1>1, <1>2, <1>3, <1>4, <1>5 DEF Heard
<1> QED
  BY <1>1, <1>2, <1>3, <1>4, <1>5, <1>6, SameChain

LEMMA SetListenerInv == LinkInv /\ SetListener => LinkInv'
<1> SUFFICES ASSUME LinkInv, SetListener PROVE LinkInv'
  OBVIOUS
<1> DEFINE el(i) == line.items[i].el
           again == {i \in DOMAIN line.items : el(i) \in Silenced.els \/ \E j \in 1..(i - 1) : el(j) = el(i)}
           added == {el(i) : i \in {j \in DOMAIN line.items : \A k \in again : j <= k}}
           done == ~Silenced.twice /\ again = {}
<1>1. /\ LinkTyped /\ Heard /\ line \in LineSet /\ ends \in [Elements -> [in : Nat, out : Nat, tag : BOOLEAN]]
      /\ wish \in WishSet /\ listens \in ListenSet /\ line.items \in Seq(ItemSet)
  BY DEF LinkInv, LinkTyped, LineSet
<1>2. /\ Silenced \in ListenSet /\ Silenced.els \subseteq listens.els /\ StillHeard \in BOOLEAN
      /\ ~StillHeard => Silenced.els \subseteq wish.strays
  BY SilencedIs
<1>3. Els(line.items) \subseteq Elements /\ added \subseteq Els(line.items)
  <2>1. \A i \in DOMAIN line.items : line.items[i] \in ItemSet
    BY <1>1
  <2> QED BY <2>1 DEF Els, Range, ItemSet
<1>4. /\ listens' = IF Silenced.twice THEN listens ELSE [els |-> Silenced.els \cup added, twice |-> ~done]
      /\ line' = [line EXCEPT !.listener = done \/ StillHeard]
      /\ Wish(TRUE, IF done THEN {} ELSE Els(line.items))
      /\ ends' = ends /\ rings' = rings
  BY DEF SetListener
<1> HIDE DEF added, again
<1>5. PICK d \in BOOLEAN : d = done
  OBVIOUS
<1>6. PICK h \in BOOLEAN : h = (d \/ StillHeard)
  BY <1>2
<1>7. line' = [line EXCEPT !.listener = h]
  BY <1>4, <1>5, <1>6
<1>8. line' \in LineSet /\ line'.items = line.items /\ line'.rbs = line.rbs /\ line'.linked = line.linked /\ line'.listener = h
  BY <1>1, <1>7 DEF LineSet
<1>9. PICK s \in SUBSET Elements : s = IF done THEN {} ELSE Els(line.items)
  BY <1>3
<1>10. /\ wish' \in WishSet /\ wish'.chain = wish.chain /\ wish'.lost = wish.lost
       /\ wish'.clean = wish.clean /\ wish'.strays = wish.strays \cup s
  <2>1. TRUE \in BOOLEAN /\ Wish(TRUE, s)
    BY <1>4, <1>9
  <2>2. wish'.clean = (wish.clean /\ TRUE) /\ wish.clean \in BOOLEAN
    BY <1>1, <2>1, WishIs DEF WishSet
  <2> QED BY <1>1, <2>1, <2>2, WishIs
<1>11. CASE Silenced.twice
  <2>1. listens' = listens /\ ~done
    BY <1>4, <1>11
  <2>2. Silenced = listens /\ s = Els(line.items)
    BY <1>9, <1>11, <2>1 DEF Silenced, ListenSet
  <2>3. Heard'
    BY <1>1, <1>2, <1>5, <1>6, <1>8, <1>10, <2>1, <2>2 DEF Heard
  <2> QED BY <1>1, <1>4, <1>8, <1>10, <2>1, <2>3, SameChain
<1>12. CASE ~Silenced.twice
  <2>1. listens' = [els |-> Silenced.els \cup added, twice |-> ~done]
    BY <1>4, <1>12
  <2>2. listens' \in ListenSet /\ listens'.els = Silenced.els \cup added
    <3>1. PICK b \in BOOLEAN, t \in SUBSET Elements : b = ~done /\ t = Silenced.els \cup added
      BY <1>2, <1>3 DEF ListenSet
    <3>2. listens' = [els |-> t, twice |-> b]
      BY <2>1, <3>1
    <3> QED BY <3>1, <3>2 DEF ListenSet
  <2>3. Heard'
    <3>1. listens'.els \subseteq Els(line'.items) \cup wish'.strays
      BY <1>1, <1>2, <1>3, <1>8, <1>10, <2>2 DEF Heard
    <3>2. ASSUME ~line'.listener PROVE listens'.els \subseteq wish'.strays
      <4>1. ~d /\ ~StillHeard
        BY <1>6, <1>8, <3>2
      <4>2. s = Els(line.items)
        BY <1>5, <1>9, <4>1
      <4> QED BY <1>2, <1>3, <1>10, <2>2, <4>1, <4>2
    <3> QED BY <3>1, <3>2 DEF Heard
  <2> QED BY <1>1, <1>4, <1>8, <1>10, <2>2, <2>3, SameChain
<1> QED
  BY <1>11, <1>12

-----------------------------------------------------------------------------
\* What a link does to the history.
LEMMA WishOf ==
  ASSUME wish \in WishSet, NEW chain \in Seq(Elements), NEW clean \in BOOLEAN,
         wish' = [wish EXCEPT !.calls = @ + 1, !.chain = chain, !.clean = clean]
  PROVE  /\ wish' \in WishSet /\ wish'.chain = chain /\ wish'.lost = wish.lost
         /\ wish'.clean = clean /\ wish'.strays = wish.strays
<1>1. wish.calls \in Nat
  BY DEF WishSet
<1>2. PICK k \in Nat : k = wish.calls + 1
  BY <1>1
<1>3. wish' = [wish EXCEPT !.calls = k, !.chain = chain, !.clean = clean]
  BY <1>2
<1>4. wish' \in WishSet
  BY <1>3 DEF WishSet
<1> QED
  BY <1>3, <1>4 DEF WishSet

LEMMA CleanedIs == ASSUME wish \in WishSet, line \in LineSet PROVE Cleaned \in BOOLEAN
  BY DEF Cleaned, WishSet, LineSet

LEMMA UnlinkInv == LinkInv /\ Unlink => LinkInv'
<1> SUFFICES ASSUME LinkInv, Unlink PROVE LinkInv'
  OBVIOUS
<1>1. /\ LinkTyped /\ Heard /\ line \in LineSet /\ ends \in [Elements -> [in : Nat, out : Nat, tag : BOOLEAN]]
      /\ wish \in WishSet /\ ChainJoined
  BY DEF LinkInv, LinkTyped
<1>2. /\ line' = Unlinked /\ listens' = UnlinkedListens /\ rings' = UnlinkedRings /\ ends' = ends
      /\ wish' = [wish EXCEPT !.calls = @ + 1, !.clean = Cleaned]
  BY DEF Unlink
<1>3. /\ wish' \in WishSet /\ wish'.chain = wish.chain /\ wish'.lost = wish.lost
      /\ wish'.clean = Cleaned /\ wish'.strays = wish.strays
  <2>1. PICK c \in BOOLEAN : c = Cleaned
    BY <1>1, CleanedIs
  <2>2. wish.chain \in Seq(Elements)
    BY <1>1 DEF WishSet
  <2>3. wish' = [wish EXCEPT !.calls = @ + 1, !.chain = wish.chain, !.clean = c]
    BY <1>1, <1>2, <2>1 DEF WishSet
  <2> QED BY <1>1, <2>1, <2>2, <2>3, WishOf
<1>4. LinkTyped'
  BY <1>1, <1>2, <1>3, UnlinkedIs DEF LinkTyped, Bounded
<1>5. ChainJoined'
  BY <1>1, <1>2, <1>3, UnlinkedIs DEF ChainJoined
<1>6. OnlyChain'
  BY <1>2, <1>3, UnlinkedIs DEF OnlyChain
<1>7. RingsOwned'
  BY <1>2, <1>3, UnlinkedIs DEF RingsOwned
<1>8. Heard'
  BY <1>1, <1>2, <1>3, UnlinkedIs DEF Heard
<1> QED
  BY <1>4, <1>5, <1>6, <1>7, <1>8 DEF LinkInv

LEMMA DeinitInv == LinkInv /\ Deinit => LinkInv'
<1> SUFFICES ASSUME LinkInv, Deinit PROVE LinkInv'
  OBVIOUS
<1>1. /\ LinkTyped /\ Heard /\ line \in LineSet /\ ends \in [Elements -> [in : Nat, out : Nat, tag : BOOLEAN]]
      /\ wish \in WishSet /\ ChainJoined /\ listens \in ListenSet
  BY DEF LinkInv, LinkTyped
<1>2. /\ UnlinkedListens \in ListenSet /\ UnlinkedRings \in SUBSET Nat /\ Bounded(UnlinkedRings)
      /\ UnlinkedRings = Range(Unlinked.rbs) \cup wish.lost /\ (Cleaned => Unlinked.rbs = <<>>)
  BY UnlinkedIs
<1>3. PICK s \in SUBSET Elements : s = wish.strays \cup UnlinkedListens.els
  BY <1>1, <1>2 DEF WishSet, ListenSet
<1>4. PICK g \in SUBSET Nat : g = IF Cleaned THEN wish.lost ELSE wish.lost \cup UnlinkedRings
  <2>1. wish.lost \in SUBSET Nat
    BY <1>1 DEF WishSet
  <2> QED BY <1>2, <2>1
<1>5. PICK k \in Nat : k = wish.calls + 1
  <2>1. wish.calls \in Nat
    BY <1>1 DEF WishSet
  <2> QED BY <2>1
<1>6. wish' = [wish EXCEPT !.calls = k, !.clean = TRUE, !.strays = s, !.lost = g]
  BY <1>3, <1>4, <1>5 DEF Deinit
<1>7. wish'.chain = wish.chain /\ wish'.clean /\ wish'.strays = s /\ wish'.lost = g
  BY <1>1, <1>6 DEF WishSet
<1>8. wish' \in WishSet
  BY <1>1, <1>6 DEF WishSet
<1>9. line' = NewLine /\ listens' = UnlinkedListens /\ rings' = UnlinkedRings /\ ends' = ends
  BY DEF Deinit
<1>10. line' \in LineSet /\ line'.items = <<>> /\ line'.rbs = <<>> /\ ~line'.linked /\ ~line'.listener
  <2>1. <<>> \in Seq(ItemSet) /\ <<>> \in Seq(Nat)
    OBVIOUS
  <2> QED BY <1>9, <2>1 DEF NewLine, LineSet
<1>11. g = UnlinkedRings
  <2>1. Range(<<>>) = {}
    BY DEF Range
  <2> QED BY <1>2, <1>4, <2>1
<1>12. LinkTyped'
  BY <1>1, <1>2, <1>8, <1>9, <1>10 DEF LinkTyped, Bounded
<1>13. ChainJoined'
  BY <1>1, <1>7, <1>10 DEF ChainJoined
<1>14. OnlyChain'
  BY <1>10 DEF OnlyChain, NoneLinked
<1>15. RingsOwned'
  BY <1>7, <1>9, <1>10, <1>11 DEF RingsOwned, IsInjective, Range
<1>16. Heard'
  BY <1>3, <1>7, <1>9 DEF Heard
<1> QED
  BY <1>12, <1>13, <1>14, <1>15, <1>16 DEF LinkInv

\* The rings of a call are new, and one behind the other.
LEMMA NewRingsIs ==
  ASSUME LinkInv, NEW made \in Nat
  PROVE  \E top \in Nat :
           /\ \A i : NewRing(UnlinkedRings, i) = top + i
           /\ \A r \in UnlinkedRings : r <= top
           /\ NewRings(made) \in Seq(Nat) /\ Len(NewRings(made)) = made
           /\ \A i \in 1..made : NewRings(made)[i] = top + i
<1>1. UnlinkedRings \in SUBSET Nat /\ Bounded(UnlinkedRings)
  BY UnlinkedIs
<1>2. PICK top \in Nat : top = Max(UnlinkedRings \cup {0}) /\ \A r \in UnlinkedRings : r <= top
  BY <1>1, TopIs
<1>3. \A i : NewRing(UnlinkedRings, i) = top + i
  BY <1>2 DEF NewRing
<1>4. NewRings(made) = [i \in 1..made |-> top + i]
  BY <1>3 DEF NewRings
<1>5. NewRings(made) \in Seq(Nat) /\ Len(NewRings(made)) = made
  BY <1>4
<1> QED
  BY <1>2, <1>3, <1>4, <1>5

\* The ends of the elements of a chain.
LEMMA JoinedIs ==
  ASSUME LinkInv, NEW chain \in Chains, NEW reached \in 0..Len(chain), NEW made \in 0..Len(chain),
         NEW top \in Nat, \A i : NewRing(UnlinkedRings, i) = top + i
  PROVE  /\ Joined(chain, reached, made) \in [Elements -> [in : Nat, out : Nat, tag : BOOLEAN]]
         /\ \A k \in 1..Len(chain) :
              /\ k \in 2..reached => Joined(chain, reached, made)[chain[k]].in = top + (k - 1)
              /\ k \in 1..made => Joined(chain, reached, made)[chain[k]].out = top + k
<1>1. ends \in [Elements -> [in : Nat, out : Nat, tag : BOOLEAN]] /\ chain \in Seq(Elements) /\ IsInjective(chain)
  BY ChainsAssumption DEF LinkInv, LinkTyped
<1> DEFINE at(e) == SelectInSeq(chain, LAMBDA x : x = e)
           end(e) == [ends[e] EXCEPT !.in = IF at(e) \in 2..reached THEN NewRing(UnlinkedRings, at(e) - 1) ELSE @,
                                     !.out = IF at(e) \in 1..made THEN NewRing(UnlinkedRings, at(e)) ELSE @]
<1>2. Joined(chain, reached, made) = [e \in Elements |-> end(e)]
  BY DEF Joined, Joins
<1>3. \A k \in 1..Len(chain) : at(chain[k]) = k
  BY <1>1, PlacedAt
<1> HIDE DEF at
<1>4. ASSUME NEW e \in Elements
      PROVE  /\ end(e) \in [in : Nat, out : Nat, tag : BOOLEAN]
             /\ at(e) \in 2..reached => end(e).in = top + (at(e) - 1)
             /\ at(e) \in 1..made => end(e).out = top + at(e)
  <2>1. ends[e] \in [in : Nat, out : Nat, tag : BOOLEAN]
    BY <1>1
  <2>2. PICK a \in Nat : a = IF at(e) \in 2..reached THEN NewRing(UnlinkedRings, at(e) - 1) ELSE ends[e].in
    <3>1. at(e) \in 2..reached => top + (at(e) - 1) \in Nat
      OBVIOUS
    <3> QED BY <2>1, <3>1
  <2>3. PICK b \in Nat : b = IF at(e) \in 1..made THEN NewRing(UnlinkedRings, at(e)) ELSE ends[e].out
    <3>1. at(e) \in 1..made => top + at(e) \in Nat
      OBVIOUS
    <3> QED BY <2>1, <3>1
  <2>4. end(e) = [ends[e] EXCEPT !.in = a, !.out = b]
    BY <2>2, <2>3
  <2>5. end(e) \in [in : Nat, out : Nat, tag : BOOLEAN] /\ end(e).in = a /\ end(e).out = b
    BY <2>1, <2>4
  <2> QED
    BY <2>2, <2>3, <2>5
<1> HIDE DEF end
<1>5. Joined(chain, reached, made) \in [Elements -> [in : Nat, out : Nat, tag : BOOLEAN]]
  BY <1>2, <1>4
<1>6. ASSUME NEW k \in 1..Len(chain)
      PROVE  /\ k \in 2..reached => Joined(chain, reached, made)[chain[k]].in = top + (k - 1)
             /\ k \in 1..made => Joined(chain, reached, made)[chain[k]].out = top + k
  <2>1. chain[k] \in Elements /\ at(chain[k]) = k
    BY <1>1, <1>3
  <2>2. Joined(chain, reached, made)[chain[k]] = end(chain[k])
    BY <1>2, <2>1
  <2> QED
    BY <1>4, <2>1, <2>2
<1> QED
  BY <1>5, <1>6

\* A call that links what it gets to, by the rings it gets, to the last element of its chain or not so far.
LEMMA LinksToInv ==
  ASSUME LinkInv, NEW chain \in Chains, NEW items \in Seq(ItemSet), Els(line.items) \subseteq Els(items),
         NEW reached \in 0..Len(chain), NEW made \in 0..Len(chain),
         reached = Len(chain) => made = Len(chain) - 1, reached = 0 => made = 0,
         reached = 0 /\ NoneLinked(Unlinked.items) => NoneLinked(items),
         reached = Len(chain) /\ NoneLinked(Unlinked.items) => LinkedEls(items) = Range(chain),
         LinksTo(chain, items, reached, made)
  PROVE  LinkInv'
<1> DEFINE n == Len(chain)
<1>1. /\ LinkTyped /\ Heard /\ line \in LineSet /\ wish \in WishSet /\ ChainJoined
      /\ chain \in Seq(Elements) /\ chain # <<>> /\ IsInjective(chain) /\ n \in Nat /\ n > 0
  BY ChainsAssumption DEF LinkInv, LinkTyped
<1>2. PICK u \in LineSet : u = Unlinked
  BY UnlinkedIs
<1>3. /\ ~u.linked /\ IsInjective(u.rbs) /\ UnlinkedRings = Range(u.rbs) \cup wish.lost /\ wish.lost \cap Range(u.rbs) = {}
      /\ UnlinkedRings \in SUBSET Nat /\ (Cleaned => u.rbs = <<>> /\ NoneLinked(u.items))
      /\ UnlinkedListens \in ListenSet /\ UnlinkedListens.els \subseteq listens.els
      /\ ~u.listener => UnlinkedListens.els \subseteq wish.strays
  BY <1>2, UnlinkedIs
<1>4. PICK top \in Nat :
        /\ \A i : NewRing(UnlinkedRings, i) = top + i
        /\ \A r \in UnlinkedRings : r <= top
        /\ NewRings(made) \in Seq(Nat) /\ Len(NewRings(made)) = made
        /\ \A i \in 1..made : NewRings(made)[i] = top + i
  <2>1. made \in Nat
    OBVIOUS
  <2> QED BY <2>1, NewRingsIs
<1>5. PICK new \in Seq(Nat) : new = NewRings(made)
  BY <1>4
<1>6. Len(new) = made /\ DOMAIN new = 1..made /\ \A i \in 1..made : new[i] = top + i
  BY <1>4, <1>5
<1>7. PICK rbs : rbs = u.rbs \o new
  OBVIOUS
<1>8. /\ rbs \in Seq(Nat) /\ Range(rbs) = Range(u.rbs) \cup Range(new) /\ Len(rbs) = Len(u.rbs) + Len(new)
      /\ \A i \in 1..(Len(u.rbs) + Len(new)) : rbs[i] = IF i <= Len(u.rbs) THEN u.rbs[i] ELSE new[i - Len(u.rbs)]
  <2>1. u.rbs \in Seq(Nat)
    BY DEF LineSet
  <2> QED BY <1>7, <2>1, BothIs
<1>9. PICK done \in BOOLEAN : done = (reached = n)
  OBVIOUS
<1>10. line' = [u EXCEPT !.items = items, !.rbs = rbs, !.linked = done]
  BY <1>2, <1>5, <1>7, <1>9 DEF LinksTo
<1>11. /\ line' \in LineSet /\ line'.items = items /\ line'.rbs = rbs /\ line'.linked = done /\ line'.listener = u.listener
  <2>1. line' \in LineSet
    BY <1>8, <1>10 DEF LineSet
  <2> QED BY <1>10, <2>1 DEF LineSet
<1>12. listens' = UnlinkedListens /\ rings' = UnlinkedRings \cup Range(new) /\ ends' = Joined(chain, reached, made)
  BY <1>5 DEF LinksTo
<1>13. /\ wish' \in WishSet /\ wish'.chain = (IF done THEN chain ELSE <<>>) /\ wish'.lost = wish.lost
       /\ wish'.clean = (Cleaned /\ (done \/ reached = 0)) /\ wish'.strays = wish.strays
  <2>1. Cleaned \in BOOLEAN
    BY <1>1, CleanedIs
  <2>2. PICK c \in BOOLEAN : c = (Cleaned /\ (done \/ reached = 0))
    BY <2>1
  <2>3. PICK w \in Seq(Elements) : w = IF done THEN chain ELSE <<>>
    <3>1. <<>> \in Seq(Elements)
      OBVIOUS
    <3> QED BY <1>1, <3>1
  <2>4. wish' = [wish EXCEPT !.calls = @ + 1, !.chain = w, !.clean = c]
    BY <1>9, <2>2, <2>3 DEF LinksTo
  <2> QED BY <1>1, <2>2, <2>3, <2>4, WishOf
<1>14. /\ ends' \in [Elements -> [in : Nat, out : Nat, tag : BOOLEAN]]
       /\ \A k \in 1..n : /\ k \in 2..reached => ends'[chain[k]].in = top + (k - 1)
                          /\ k \in 1..made => ends'[chain[k]].out = top + k
  BY <1>4, <1>12, JoinedIs, ZenonT(40)
<1>15. /\ Range(new) \in SUBSET Nat /\ \A i \in 1..made : top + i \in Range(new)
       /\ \A r \in Range(new) : r > top /\ r <= top + made
  <2>1. \A r \in Range(new) : \E i \in 1..made : r = top + i
    BY <1>6 DEF Range
  <2>2. \A i \in 1..made : top + i \in Range(new)
    BY <1>6 DEF Range
  <2> QED BY <2>1, <2>2
<1> HIDE DEF n
<1>16. LinkTyped'
  <2>1. rings' \in SUBSET Nat
    BY <1>3, <1>12, <1>15
  <2>2. \A r \in rings' : r <= top + made
    <3>1. ASSUME NEW r \in UnlinkedRings PROVE r <= top + made
      <4>1. r \in Nat /\ r <= top /\ made \in Nat
        BY <1>3, <1>4
      <4> QED BY <4>1
    <3> QED BY <1>12, <1>15, <3>1
  <2>3. Bounded(rings)'
    <3>1. top + made \in Nat
      OBVIOUS
    <3> QED BY <2>2, <3>1 DEF Bounded
  <2> QED
    BY <1>3, <1>11, <1>12, <1>13, <1>14, <2>1, <2>3 DEF LinkTyped
<1>17. ChainJoined'
  <2>1. IsInjective(wish'.chain)
    BY <1>1, <1>13 DEF IsInjective
  <2>2. ASSUME done
        PROVE  /\ wish'.chain = chain /\ made = n - 1 /\ reached = n
               /\ \A i \in 1..(n - 1) :
                    /\ ends'[chain[i]].out = top + i /\ ends'[chain[i + 1]].in = top + i
                    /\ ends'[chain[i]].out \in rings'
    <3>1. wish'.chain = chain /\ made = n - 1 /\ reached = n
      BY <1>9, <1>13, <2>2 DEF n
    <3>2. ASSUME NEW i \in 1..(n - 1)
          PROVE  /\ ends'[chain[i]].out = top + i /\ ends'[chain[i + 1]].in = top + i
                 /\ ends'[chain[i]].out \in rings'
      <4>1. i \in 1..n /\ i \in 1..made /\ i + 1 \in 1..n /\ i + 1 \in 2..reached /\ (i + 1) - 1 = i
        BY <1>1, <3>1
      <4>2. ends'[chain[i]].out = top + i
        BY <1>14, <4>1
      <4>3. ends'[chain[i + 1]].in = top + ((i + 1) - 1)
        BY <1>14, <4>1
      <4> QED
        BY <1>12, <1>15, <4>1, <4>2, <4>3
    <3> QED
      BY <3>1, <3>2
  <2>3. ASSUME done PROVE \A i, j \in 1..(n - 1) : ends'[chain[i]].out = ends'[chain[j]].out => i = j
    <3>1. ASSUME NEW i \in 1..(n - 1), NEW j \in 1..(n - 1), ends'[chain[i]].out = ends'[chain[j]].out PROVE i = j
      <4>1. top + i = top + j /\ i \in Nat /\ j \in Nat
        BY <2>2, <2>3, <3>1
      <4> QED BY <4>1
    <3> QED BY <3>1
  <2>4. ASSUME done
        PROVE  /\ chain # <<>>
               /\ \A i \in 1..(Len(chain) - 1) :
                    ends'[chain[i]].out = ends'[chain[i + 1]].in /\ ends'[chain[i]].out \in rings'
               /\ \A i, j \in 1..(Len(chain) - 1) : ends'[chain[i]].out = ends'[chain[j]].out => i = j
    <3>1. \A i \in 1..(n - 1) : ends'[chain[i]].out = ends'[chain[i + 1]].in /\ ends'[chain[i]].out \in rings'
      BY <2>2, <2>4
    <3> QED BY <1>1, <2>3, <2>4, <3>1 DEF n
  <2>5. CASE done
    <3>1. wish'.chain = chain
      BY <2>2, <2>5
    <3>2. /\ chain # <<>>
          /\ \A i \in 1..(Len(chain) - 1) :
               ends'[chain[i]].out = ends'[chain[i + 1]].in /\ ends'[chain[i]].out \in rings'
          /\ \A i, j \in 1..(Len(chain) - 1) : ends'[chain[i]].out = ends'[chain[j]].out => i = j
      BY <2>4, <2>5
    <3> QED BY <2>1, <3>1, <3>2, Zenon DEF ChainJoined
  <2>6. CASE ~done
    BY <1>11, <2>1, <2>6 DEF ChainJoined
  <2> QED
    BY <2>5, <2>6
<1>18. OnlyChain'
  <2>1. ASSUME wish'.clean PROVE IF line'.linked THEN LinkedEls(items) = Range(wish'.chain) ELSE rbs = <<>> /\ NoneLinked(items)
    <3>1. Cleaned /\ (done \/ reached = 0) /\ u.rbs = <<>> /\ NoneLinked(Unlinked.items)
      BY <1>2, <1>3, <1>13, <2>1
    <3>2. CASE done
      BY <1>9, <1>11, <1>13, <3>1, <3>2 DEF n
    <3>3. CASE ~done
      <4>1. reached = 0 /\ made = 0
        BY <3>1, <3>3
      <4>2. Len(rbs) = 0
        BY <1>6, <1>8, <3>1, <4>1
      <4> QED BY <1>8, <1>11, <3>1, <3>3, <4>1, <4>2
    <3> QED BY <3>2, <3>3
  <2> QED BY <1>11, <2>1 DEF OnlyChain
<1>19. RingsOwned'
  <2>1. IsInjective(rbs)
    <3>1. u.rbs \in Seq(Nat) /\ Len(u.rbs) \in Nat /\ DOMAIN u.rbs = 1..Len(u.rbs)
      BY DEF LineSet
    <3>2. DOMAIN rbs = 1..(Len(u.rbs) + made)
      BY <1>6, <1>8
    <3>3. ASSUME NEW i \in DOMAIN rbs
          PROVE  \/ i \in DOMAIN u.rbs /\ rbs[i] = u.rbs[i] /\ rbs[i] \in Nat /\ rbs[i] <= top
                 \/ i > Len(u.rbs) /\ rbs[i] = top + (i - Len(u.rbs))
      <4>1. CASE i <= Len(u.rbs)
        <5>1. i \in 1..(Len(u.rbs) + Len(new)) /\ i \in DOMAIN u.rbs
          BY <1>6, <3>1, <3>2, <4>1
        <5>3. rbs[i] = u.rbs[i]
          BY <1>8, <4>1, <5>1
        <5>2. u.rbs[i] \in UnlinkedRings
          BY <1>3, <5>1 DEF Range
        <5> QED BY <1>3, <1>4, <5>1, <5>2, <5>3
      <4>2. CASE i > Len(u.rbs)
        <5>1. i \in 1..(Len(u.rbs) + made) /\ i - Len(u.rbs) \in 1..made /\ ~(i <= Len(u.rbs))
          BY <3>1, <3>2, <4>2
        <5>2. rbs[i] = new[i - Len(u.rbs)]
          BY <1>6, <1>8, <5>1
        <5> QED BY <1>6, <4>2, <5>1, <5>2
      <4> QED BY <3>1, <3>2, <4>1, <4>2
    <3>4. ASSUME NEW i \in DOMAIN rbs, NEW j \in DOMAIN rbs, rbs[i] = rbs[j] PROVE i = j
      <4>1. i \in Nat /\ j \in Nat
        BY <3>1, <3>2
      <4>2. CASE i \in DOMAIN u.rbs /\ j \in DOMAIN u.rbs
        <5>1. i <= Len(u.rbs) /\ j <= Len(u.rbs)
          BY <3>1, <4>2
        <5>2. rbs[i] = u.rbs[i] /\ rbs[j] = u.rbs[j]
          BY <3>3, <5>1, <4>1, <3>1
        <5>3. u.rbs[i] = u.rbs[j]
          BY <3>4, <5>2
        <5> QED BY <1>3, <4>2, <5>3 DEF IsInjective
      <4>3. CASE i > Len(u.rbs) /\ j > Len(u.rbs)
        <5>1. rbs[i] = top + (i - Len(u.rbs)) /\ rbs[j] = top + (j - Len(u.rbs))
          BY <3>1, <3>3, <4>1, <4>3
        <5>2. PICK l \in Nat : l = Len(u.rbs)
          BY <3>1
        <5>3. top + (i - l) = top + (j - l)
          BY <3>4, <5>1, <5>2
        <5> QED BY <4>1, <5>3
      <4>4. CASE i \in DOMAIN u.rbs /\ j > Len(u.rbs)
        <5>1. rbs[i] <= top /\ rbs[i] \in Nat /\ rbs[j] = top + (j - Len(u.rbs))
          BY <3>1, <3>3, <4>1, <4>4
        <5> QED BY <3>1, <3>4, <4>1, <4>4, <5>1
      <4>5. CASE i > Len(u.rbs) /\ j \in DOMAIN u.rbs
        <5>1. rbs[j] <= top /\ rbs[j] \in Nat /\ rbs[i] = top + (i - Len(u.rbs))
          BY <3>1, <3>3, <4>1, <4>5
        <5> QED BY <3>1, <3>4, <4>1, <4>5, <5>1
      <4> QED BY <3>3, <4>2, <4>3, <4>4, <4>5
    <3> QED BY <3>4 DEF IsInjective
  <2>2. wish.lost \cap Range(rbs) = {}
    <3>1. ASSUME NEW r \in wish.lost PROVE r \notin Range(new)
      <4>1. r \in Nat /\ r <= top
        BY <1>3, <1>4
      <4> QED BY <1>15, <4>1
    <3> QED BY <1>3, <1>8, <3>1
  <2> QED
    BY <1>3, <1>8, <1>11, <1>12, <1>13, <2>1, <2>2 DEF RingsOwned
<1>20. Heard'
  BY <1>1, <1>3, <1>11, <1>12, <1>13 DEF Heard
<1> QED
  BY <1>16, <1>17, <1>18, <1>19, <1>20 DEF LinkInv

\* How far a call may get.
LEMMA ReachedIs ==
  ASSUME NEW chain \in Chains, NEW r \in Reaches(chain) \cup {Stops(j) : j \in DOMAIN chain}
  PROVE  /\ r.reached \in 0..Len(chain) /\ r.made \in 0..Len(chain)
         /\ r.reached = Len(chain) => r.made = Len(chain) - 1
         /\ r.reached = 0 => r.made = 0
<1>1. chain \in Seq(Elements) /\ chain # <<>> /\ Len(chain) \in Nat /\ Len(chain) > 0 /\ DOMAIN chain = 1..Len(chain)
  BY ChainsAssumption
<1>2. \/ r.reached = Len(chain) /\ r.made = Len(chain) - 1
      \/ \E j \in 1..(Len(chain) - 1) : r.reached = j /\ r.made = j - 1
      \/ \E j \in 1..Len(chain) : r.reached = j - 1 /\ r.made = j - 1
  BY <1>1 DEF Reaches, Stops
<1> QED
  BY <1>1, <1>2

-----------------------------------------------------------------------------
\* What is linked of the items once a call has got to some elements of its chain.
LEMMA LinkedIs ==
  ASSUME LinkInv, NEW chain \in Seq(Elements), NEW reached \in 0..Len(chain)
  PROVE  /\ Linked(chain, reached) \in Seq(ItemSet) /\ Els(Linked(chain, reached)) = Els(line.items)
         /\ reached = 0 /\ NoneLinked(Unlinked.items) => NoneLinked(Linked(chain, reached))
         /\ reached = Len(chain) /\ NoneLinked(Unlinked.items) /\ (\A k \in DOMAIN chain : FirstOf(line.items, chain[k]) # 0)
              => LinkedEls(Linked(chain, reached)) = Range(chain)
<1>1. line.items \in Seq(ItemSet)
  BY DEF LinkInv, LinkTyped, LineSet
<1>2. PICK its \in Seq(ItemSet) : its = Unlinked.items
  BY UnlinkedIs DEF LineSet
<1>3. /\ Len(its) = Len(line.items) /\ DOMAIN its = 1..Len(line.items)
      /\ \A i \in 1..Len(line.items) : its[i].el = line.items[i].el
  BY <1>2, UnlinkedIs
<1>4. PICK sub \in Seq(Elements) :
        /\ sub = SubSeq(chain, 1, reached) /\ Len(sub) = reached /\ \A k \in 1..reached : sub[k] = chain[k]
  <2>1. PICK s : s = SubSeq(chain, 1, reached)
    OBVIOUS
  <2>2. s \in Seq(Elements) /\ Len(s) = reached /\ \A k \in 1..reached : s[k] = chain[k]
    BY <2>1
  <2> QED BY <2>1, <2>2
<1> DEFINE on(i) == its[i].linked \/ (i = FirstOf(line.items, its[i].el) /\ Contains(sub, its[i].el))
           it(i) == [its[i] EXCEPT !.linked = on(i)]
<1>5. Linked(chain, reached) = [i \in DOMAIN its |-> it(i)]
  BY <1>2, <1>4 DEF Linked
<1>6. ASSUME NEW i \in 1..Len(line.items)
      PROVE  it(i) \in ItemSet /\ it(i).el = line.items[i].el /\ it(i).linked = on(i)
  <2>1. its[i] \in ItemSet
    BY <1>3
  <2>2. PICK b \in BOOLEAN : b = on(i)
    BY <2>1 DEF ItemSet
  <2>3. it(i) = [its[i] EXCEPT !.linked = b]
    BY <2>2
  <2>4. it(i) \in ItemSet /\ it(i).el = its[i].el /\ it(i).linked = b
    BY <2>1, <2>3 DEF ItemSet
  <2> QED BY <1>3, <2>2, <2>4
<1> HIDE DEF it
<1>7. PICK l : l = Linked(chain, reached)
  OBVIOUS
<1>8. l = [i \in 1..Len(line.items) |-> it(i)] /\ Len(line.items) \in Nat
  BY <1>1, <1>3, <1>5, <1>7
<1>9. /\ l \in Seq(ItemSet) /\ Len(l) = Len(line.items) /\ DOMAIN l = 1..Len(line.items)
      /\ \A i \in 1..Len(line.items) : l[i] = it(i)
  BY <1>6, <1>8
<1>10. Els(l) = Els(line.items)
  <2>1. \A i \in 1..Len(line.items) : l[i].el = line.items[i].el
    BY <1>6, <1>9
  <2>2. DOMAIN line.items = 1..Len(line.items)
    BY <1>1
  <2> DEFINE S == 1..Len(line.items)
             m == line.items
  <2>3. DOMAIN l = S /\ DOMAIN m = S /\ \A i \in S : l[i].el = m[i].el
    BY <1>9, <2>1, <2>2
  <2>4. Els(l) = {x.el : x \in {l[i] : i \in S}} /\ Els(m) = {x.el : x \in {m[i] : i \in S}}
    BY <2>3 DEF Els, Range
  <2> HIDE DEF S, m
  <2>5. {x.el : x \in {l[i] : i \in S}} = {x.el : x \in {m[i] : i \in S}}
    BY ONLY <2>3
  <2> QED BY <2>4, <2>5 DEF m
<1>11. \A i \in 1..Len(line.items) : l[i].linked = on(i)
  BY <1>6, <1>9
<1>12. ASSUME reached = 0, NoneLinked(its) PROVE NoneLinked(l)
  <2>1. \A e : ~Contains(sub, e)
    BY <1>4, <1>12 DEF Contains
  <2> QED BY <1>3, <1>9, <1>11, <1>12, <2>1 DEF NoneLinked
<1>13. ASSUME reached = Len(chain), NoneLinked(its), \A k \in DOMAIN chain : FirstOf(line.items, chain[k]) # 0
       PROVE  LinkedEls(l) = Range(chain)
  <2>1. \A e : Contains(sub, e) <=> e \in Range(chain)
    <3>1. DOMAIN chain = 1..Len(chain)
      OBVIOUS
    <3> QED BY <1>4, <1>13, <3>1 DEF Contains, Range
  <2>2. ASSUME NEW e \in LinkedEls(l) PROVE e \in Range(chain)
    <3>1. PICK i \in 1..Len(line.items) : l[i].linked /\ l[i].el = e
      BY <1>9, <2>2 DEF LinkedEls, Range
    <3>2. ~its[i].linked /\ its[i].el = e
      BY <1>3, <1>6, <1>9, <1>13, <3>1 DEF NoneLinked
    <3>3. Contains(sub, its[i].el)
      BY <1>11, <3>1, <3>2
    <3> QED BY <2>1, <3>2, <3>3
  <2>3. ASSUME NEW k \in DOMAIN chain PROVE chain[k] \in LinkedEls(l)
    <3>1. PICK i : i = FirstOf(line.items, chain[k])
      OBVIOUS
    <3>2. i \in 1..Len(line.items) /\ line.items[i].el = chain[k]
      <4>1. i \in 0..Len(line.items) /\ i # 0 /\ (i # 0 => line.items[i].el = chain[k])
        BY <1>1, <1>13, <3>1, FirstIs
      <4> QED BY <4>1
    <3>3. its[i].el = chain[k] /\ l[i].el = chain[k]
      BY <1>3, <1>6, <1>9, <3>2
    <3>4. Contains(sub, chain[k])
      BY <2>1 DEF Range
    <3>5. l[i].linked
      BY <1>11, <3>1, <3>2, <3>3, <3>4
    <3>6. l[i] \in Range(l)
      BY <1>9, <3>2 DEF Range
    <3> QED BY <3>3, <3>5, <3>6 DEF LinkedEls
  <2> QED BY <2>2, <2>3 DEF Range
<1> QED
  BY <1>2, <1>7, <1>9, <1>10, <1>12, <1>13

LEMMA LinkCallInv == ASSUME NEW chain \in Chains PROVE LinkInv /\ Link(chain) => LinkInv'
<1> SUFFICES ASSUME LinkInv, Link(chain) PROVE LinkInv'
  OBVIOUS
<1> DEFINE unknown == SelectInSeq(chain, LAMBDA e : ~Known(e))
           U == {i \in 1..Len(chain) : ~Known(chain[i])}
<1>1. chain \in Seq(Elements) /\ DOMAIN chain = 1..Len(chain)
  BY ChainsAssumption
<1>2. unknown = IF U # {} THEN Min(U) ELSE 0
  BY DEF SelectInSeq
<1>3. U # {} => Min(U) \in U
  <2> SUFFICES ASSUME U # {} PROVE Min(U) \in U
    OBVIOUS
  <2>1. U \in SUBSET Nat
    OBVIOUS
  <2>2. \E m \in U : \A y \in U : m <= y
    BY <2>1, LeastNumber
  <2> HIDE DEF U
  <2> QED BY <2>2 DEF Min
<1>4. PICK r \in IF unknown = 0 THEN Reaches(chain) ELSE {Stops(unknown)} :
        LinksTo(chain, Linked(chain, r.reached), r.reached, r.made)
  BY DEF Link
<1>5. unknown = 0 \/ unknown \in DOMAIN chain
  BY <1>1, <1>2, <1>3
<1>6. unknown = 0 => \A k \in DOMAIN chain : FirstOf(line.items, chain[k]) # 0
  <2>1. unknown = 0 => U = {}
    BY <1>2, <1>3
  <2> QED BY <1>1, <2>1 DEF Known
<1> HIDE DEF unknown, U
<1>7. r \in Reaches(chain) \cup {Stops(j) : j \in DOMAIN chain}
  BY <1>4, <1>5
<1>8. /\ r.reached \in 0..Len(chain) /\ r.made \in 0..Len(chain)
      /\ r.reached = Len(chain) => r.made = Len(chain) - 1
      /\ r.reached = 0 => r.made = 0
  BY <1>7, ReachedIs
<1>9. r.reached = Len(chain) => unknown = 0
  <2> SUFFICES ASSUME unknown # 0 PROVE r.reached # Len(chain)
    OBVIOUS
  <2>1. r = Stops(unknown) /\ unknown \in 1..Len(chain)
    BY <1>1, <1>4, <1>5
  <2>2. r.reached = unknown - 1
    BY <2>1 DEF Stops
  <2> QED BY <2>1, <2>2
<1>10. /\ Linked(chain, r.reached) \in Seq(ItemSet) /\ Els(Linked(chain, r.reached)) = Els(line.items)
       /\ r.reached = 0 /\ NoneLinked(Unlinked.items) => NoneLinked(Linked(chain, r.reached))
       /\ r.reached = Len(chain) /\ NoneLinked(Unlinked.items) => LinkedEls(Linked(chain, r.reached)) = Range(chain)
  BY <1>1, <1>6, <1>8, <1>9, LinkedIs
<1> QED
  BY <1>4, <1>8, <1>10, LinksToInv

LEMMA LinkMoreInv == ASSUME NEW chain \in Chains PROVE LinkInv /\ LinkMore(chain) => LinkInv'
<1> SUFFICES ASSUME LinkInv, LinkMore(chain) PROVE LinkInv'
  OBVIOUS
<1>1. chain \in Seq(Elements) /\ DOMAIN chain = 1..Len(chain)
  BY ChainsAssumption
<1>2. PICK r \in Reaches(chain) \cup {Stops(j) : j \in DOMAIN chain} :
        LinksTo(chain, Unlinked.items \o Items(SubSeq(chain, 1, r.reached), TRUE), r.reached, r.made)
  BY DEF LinkMore
<1>3. /\ r.reached \in 0..Len(chain) /\ r.made \in 0..Len(chain)
      /\ r.reached = Len(chain) => r.made = Len(chain) - 1
      /\ r.reached = 0 => r.made = 0
  BY <1>2, ReachedIs
<1>4. PICK sub : sub = SubSeq(chain, 1, r.reached)
  OBVIOUS
<1>5. sub \in Seq(Elements) /\ Len(sub) = r.reached /\ \A k \in 1..r.reached : sub[k] = chain[k]
  BY <1>1, <1>3, <1>4
<1>6. PICK b : b = Items(sub, TRUE)
  OBVIOUS
<1>7. b \in Seq(ItemSet) /\ Len(b) = r.reached /\ \A i \in 1..r.reached : b[i] = [el |-> chain[i], linked |-> TRUE]
  BY <1>5, <1>6, ItemsIs
<1>8. PICK a \in Seq(ItemSet) : a = Unlinked.items /\ Els(a) = Els(line.items)
  BY UnlinkedIs DEF LineSet
<1>9. PICK t : t = a \o b
  OBVIOUS
<1>10. t \in Seq(ItemSet) /\ Range(t) = Range(a) \cup Range(b)
  BY <1>7, <1>8, <1>9, BothIs
<1>11. Els(line.items) \subseteq Els(t)
  BY <1>8, <1>10 DEF Els
<1>12. Range(b) = {[el |-> chain[i], linked |-> TRUE] : i \in 1..r.reached}
  <2>1. DOMAIN b = 1..r.reached
    BY <1>3, <1>7
  <2> QED BY <1>7, <2>1 DEF Range
<1>13. r.reached = 0 /\ NoneLinked(a) => NoneLinked(t)
  <2>1. r.reached = 0 => Range(b) = {}
    BY <1>12
  <2> QED BY <1>8, <1>10, <2>1, NoneLinkedIs
<1>14. r.reached = Len(chain) /\ NoneLinked(a) => LinkedEls(t) = Range(chain)
  <2> SUFFICES ASSUME r.reached = Len(chain), NoneLinked(a) PROVE LinkedEls(t) = Range(chain)
    OBVIOUS
  <2>1. \A x \in Range(a) : ~x.linked
    BY <1>8, NoneLinkedIs
  <2>2. \A x \in Range(b) : x.linked /\ x.el \in Range(chain)
    BY <1>1, <1>12 DEF Range
  <2>3. ASSUME NEW k \in DOMAIN chain PROVE \E x \in Range(b) : x.el = chain[k]
    <3>1. [el |-> chain[k], linked |-> TRUE] \in Range(b)
      BY <1>1, <1>12
    <3> QED BY <3>1
  <2>4. LinkedEls(t) = {x.el : x \in Range(b)}
    BY <1>10, <2>1, <2>2 DEF LinkedEls
  <2> QED BY <2>2, <2>3, <2>4 DEF Range
<1>15. LinksTo(chain, t, r.reached, r.made)
  BY <1>2, <1>4, <1>6, <1>8, <1>9
<1> QED
  BY <1>3, <1>8, <1>10, <1>11, <1>13, <1>14, <1>15, LinksToInv

\* A chain is begun, or gets an element more.
LEMMA LinkInsertInv == ASSUME NEW e \in Elements, NEW next \in Elements PROVE LinkInv /\ LinkInsert(e, next) => LinkInv'
<1> SUFFICES ASSUME LinkInv, LinkInsert(e, next) PROVE LinkInv'
  OBVIOUS
<1>1. /\ LinkTyped /\ ChainJoined /\ OnlyChain /\ RingsOwned /\ Heard
      /\ line \in LineSet /\ ends \in [Elements -> [in : Nat, out : Nat, tag : BOOLEAN]]
      /\ wish \in WishSet /\ rings \in SUBSET Nat /\ Bounded(rings)
      /\ line.items \in Seq(ItemSet) /\ line.rbs \in Seq(Nat) /\ wish.chain \in Seq(Elements) /\ IsInjective(wish.chain)
  BY DEF LinkInv, LinkTyped, LineSet, WishSet, ChainJoined
<1> DEFINE first == ~line.linked
           m == Len(wish.chain)
<1>2. PICK ring \in Nat : ring = NewRing(rings, 1) /\ \A r \in rings : r < ring
  <2>1. PICK top \in Nat : top = Max(rings \cup {0}) /\ \A r \in rings : r <= top
    BY <1>1, TopIs
  <2>2. NewRing(rings, 1) = top + 1 /\ top + 1 \in Nat
    BY <2>1 DEF NewRing
  <2>3. ASSUME NEW r \in rings PROVE r < top + 1
    <3>1. r \in Nat /\ r <= top
      BY <1>1, <2>1
    <3> QED BY <3>1
  <2> QED BY <2>2, <2>3
<1>3. /\ e # next /\ (line.linked => e = Last(wish.chain) /\ ~Contains(wish.chain, next))
      /\ line' = [line EXCEPT !.items = @ \o Items(IF first THEN <<e, next>> ELSE <<next>>, TRUE),
                              !.rbs = Append(@, ring), !.linked = TRUE]
      /\ ends' = [ends EXCEPT ![e].out = ring, ![next].in = ring]
      /\ rings' = rings \cup {ring} /\ listens' = listens
      /\ wish' = [wish EXCEPT !.calls = @ + 1, !.chain = IF first THEN <<e, next>> ELSE Append(@, next)]
  BY <1>2 DEF LinkInsert
<1>4. PICK more \in Seq(Elements) : more = IF first THEN <<e, next>> ELSE <<next>>
  <2>1. <<e, next>> \in Seq(Elements) /\ <<next>> \in Seq(Elements)
    OBVIOUS
  <2> QED BY <2>1
<1>5. PICK b : b = Items(more, TRUE)
  OBVIOUS
<1>6. b \in Seq(ItemSet) /\ Len(b) = Len(more) /\ \A i \in 1..Len(more) : b[i] = [el |-> more[i], linked |-> TRUE]
  BY <1>5, ItemsIs
<1>7. PICK t : t = line.items \o b
  OBVIOUS
<1>8. t \in Seq(ItemSet) /\ Range(t) = Range(line.items) \cup Range(b)
  BY <1>1, <1>6, <1>7, BothIs
<1>9. PICK rbs : rbs = Append(line.rbs, ring)
  OBVIOUS
<1>10. /\ rbs \in Seq(Nat) /\ Range(rbs) = Range(line.rbs) \cup {ring} /\ Len(rbs) = Len(line.rbs) + 1
       /\ \A i \in 1..(Len(line.rbs) + 1) : rbs[i] = IF i <= Len(line.rbs) THEN line.rbs[i] ELSE ring
  <2>1. Appended(rbs, line.rbs, ring)
    BY <1>9 DEF Appended
  <2>2. PICK N : N = Nat
    OBVIOUS
  <2>3. line.rbs \in Seq(N) /\ ring \in N
    BY <1>1, <2>2
  <2>4. /\ rbs \in Seq(N) /\ Range(rbs) = Range(line.rbs) \cup {ring} /\ Len(rbs) = Len(line.rbs) + 1
        /\ \A i \in 1..(Len(line.rbs) + 1) : rbs[i] = IF i <= Len(line.rbs) THEN line.rbs[i] ELSE ring
    BY <2>1, <2>3, AppendedIs
  <2> QED BY <2>2, <2>4
<1>11. line' = [line EXCEPT !.items = t, !.rbs = rbs, !.linked = TRUE]
  BY <1>3, <1>4, <1>5, <1>7, <1>9
<1>12. line' \in LineSet
  BY <1>1, <1>8, <1>10, <1>11 DEF LineSet
<1>13. line'.items = t /\ line'.rbs = rbs /\ line'.linked /\ line'.listener = line.listener
  BY <1>1, <1>11 DEF LineSet
<1>14. PICK w \in Seq(Elements) : w = IF first THEN <<e, next>> ELSE Append(wish.chain, next)
  <2>1. <<e, next>> \in Seq(Elements) /\ Append(wish.chain, next) \in Seq(Elements)
    BY <1>1
  <2> QED BY <2>1
<1>15. /\ wish' \in WishSet /\ wish'.chain = w /\ wish'.lost = wish.lost
       /\ wish'.clean = wish.clean /\ wish'.strays = wish.strays
  <2>1. wish.clean \in BOOLEAN
    BY <1>1 DEF WishSet
  <2>2. wish' = [wish EXCEPT !.calls = @ + 1, !.chain = w, !.clean = wish.clean]
    BY <1>1, <1>3, <1>14 DEF WishSet
  <2> QED BY <1>1, <2>1, <2>2, WishOf
<1>16. /\ ends' \in [Elements -> [in : Nat, out : Nat, tag : BOOLEAN]]
       /\ ends'[e].out = ring /\ ends'[next].in = ring
       /\ \A d \in Elements \ {e} : ends'[d].out = ends[d].out
       /\ \A d \in Elements \ {next} : ends'[d].in = ends[d].in
  <2>1. ends' = [d \in Elements |-> IF d = e THEN [ends[d] EXCEPT !.out = ring]
                                    ELSE IF d = next THEN [ends[d] EXCEPT !.in = ring] ELSE ends[d]]
    BY <1>1, <1>3
  <2>2. \A d \in Elements : ends[d] \in [in : Nat, out : Nat, tag : BOOLEAN]
    BY <1>1
  <2>3. ends' \in [Elements -> [in : Nat, out : Nat, tag : BOOLEAN]]
    BY <2>1, <2>2
  <2> QED BY <1>3, <2>1, <2>2, <2>3, ZenonT(40)
\* The chain: as it was, and e and next at its end.
<1>17. /\ IsInjective(w) /\ w # <<>> /\ Len(w) \in Nat /\ Len(w) >= 2
       /\ w[Len(w) - 1] = e /\ w[Len(w)] = next
       /\ line.linked => \A i \in 1..(Len(w) - 2) : i \in 1..(m - 1) /\ w[i] = wish.chain[i] /\ w[i + 1] = wish.chain[i + 1]
       /\ ~line.linked => Len(w) = 2
       /\ line.linked => Range(w) = Range(wish.chain) \cup {next}
  <2>1. CASE ~line.linked
    <3>1. w = <<e, next>>
      BY <1>14, <2>1
    <3>2. Len(w) = 2 /\ w[1] = e /\ w[2] = next /\ DOMAIN w = {1, 2}
      BY <3>1
    <3>3. IsInjective(w)
      BY <1>3, <3>2 DEF IsInjective
    <3> QED BY <2>1, <3>2, <3>3, SMTT(30)
  <2>2. CASE line.linked
    <3>1. wish.chain # <<>> /\ m \in Nat /\ m > 0 /\ e = wish.chain[m] /\ ~Contains(wish.chain, next) /\ DOMAIN wish.chain = 1..m
      <4>1. wish.chain # <<>> /\ wish.chain \in Seq(Elements)
        BY <1>1, <2>2 DEF ChainJoined
      <4>2. m \in Nat /\ m > 0 /\ DOMAIN wish.chain = 1..m
        BY <4>1
      <4>3. e = wish.chain[m] /\ ~Contains(wish.chain, next)
        BY <1>3, <2>2, <4>1 DEF Last
      <4> QED BY <4>1, <4>2, <4>3
    <3>0. w = Append(wish.chain, next)
      BY <1>14, <2>2
    <3>2. /\ w = Append(wish.chain, next) /\ Range(w) = Range(wish.chain) \cup {next} /\ Len(w) = m + 1
          /\ \A i \in 1..(m + 1) : w[i] = IF i <= m THEN wish.chain[i] ELSE next
      <4>1. PICK c : c = wish.chain
        OBVIOUS
      <4>2. PICK S : S = Elements
        OBVIOUS
      <4>3. c \in Seq(S) /\ next \in S /\ Appended(w, c, next)
        BY <1>1, <3>0, <4>1, <4>2 DEF Appended
      <4>4. /\ Range(w) = Range(c) \cup {next} /\ Len(w) = Len(c) + 1
            /\ \A i \in 1..(Len(c) + 1) : w[i] = IF i <= Len(c) THEN c[i] ELSE next
        BY <4>3, AppendedIs
      <4> QED BY <3>0, <4>1, <4>4
    <3>3. \A i \in 1..m : w[i] = wish.chain[i] /\ w[i] # next
      BY <3>1, <3>2 DEF Contains
    <3>4. w[m + 1] = next /\ w[m] = e /\ DOMAIN w = 1..(m + 1)
      BY <3>1, <3>2
    <3>5. IsInjective(w)
      <4>1. ASSUME NEW i \in 1..(m + 1), NEW j \in 1..(m + 1), w[i] = w[j] PROVE i = j
        <5>1. CASE i \in 1..m /\ j \in 1..m
          BY <1>1, <3>1, <3>3, <4>1, <5>1 DEF IsInjective
        <5>2. CASE ~(i \in 1..m /\ j \in 1..m)
          BY <3>1, <3>3, <3>4, <4>1, <5>2
        <5> QED BY <5>1, <5>2
      <4> QED BY <3>4, <4>1 DEF IsInjective
    <3>6. \A i \in 1..(Len(w) - 2) : i \in 1..(m - 1) /\ w[i] = wish.chain[i] /\ w[i + 1] = wish.chain[i + 1]
      <4>1. ASSUME NEW i \in 1..(Len(w) - 2)
            PROVE  i \in 1..(m - 1) /\ w[i] = wish.chain[i] /\ w[i + 1] = wish.chain[i + 1]
        <5>1. i \in 1..(m - 1) /\ i \in 1..m /\ i + 1 \in 1..m
          BY <3>1, <3>2
        <5> QED BY <3>3, <5>1
      <4> QED BY <4>1
    <3>7. Len(w) \in Nat /\ Len(w) >= 2 /\ Len(w) - 1 = m
      BY <3>1, <3>2
    <3> QED BY <2>2, <3>2, <3>4, <3>5, <3>6, <3>7
  <2> QED BY <2>1, <2>2
<1> DEFINE n == Len(w)
<1> HIDE DEF m
<1>18. LinkTyped'
  <2>1. rings' \in SUBSET Nat
    BY <1>1, <1>2, <1>3
  <2>2. Bounded(rings)'
    <3>1. \A r \in rings' : r <= ring
      <4>1. ASSUME NEW r \in rings PROVE r <= ring
        BY <1>1, <1>2
      <4> QED BY <1>2, <1>3, <4>1
    <3> QED BY <3>1 DEF Bounded
  <2> QED
    BY <1>1, <1>3, <1>12, <1>15, <1>16, <2>1, <2>2 DEF LinkTyped
<1>19. ChainJoined'
  <2>1. \A i \in 1..n : w[i] \in Elements
    BY <1>17
  <2>2. ASSUME NEW i \in 1..(n - 1)
        PROVE  \/ i = n - 1 /\ ends'[w[i]].out = ring /\ ends'[w[i + 1]].in = ring
               \/ /\ i \in 1..(n - 2) /\ line.linked
                  /\ ends'[w[i]].out = ends[w[i]].out /\ ends'[w[i + 1]].in = ends[w[i + 1]].in
                  /\ ends[w[i]].out = ends[w[i + 1]].in /\ ends[w[i]].out \in rings
    <3>1. CASE i = n - 1
      <4>1. i + 1 = n
        BY <1>17, <3>1
      <4> QED BY <1>16, <1>17, <3>1, <4>1
    <3>2. CASE i # n - 1
      <4>1. i \in 1..(n - 2) /\ line.linked /\ i \in DOMAIN w /\ i + 1 \in DOMAIN w /\ i + 1 # n /\ n \in DOMAIN w /\ n - 1 \in DOMAIN w
        BY <1>17, <3>2
      <4>2. w[i] # e /\ w[i + 1] # next
        BY <1>17, <3>2, <4>1 DEF IsInjective
      <4>3. w[i] \in Elements \ {e} /\ w[i + 1] \in Elements \ {next}
        BY <2>1, <4>1, <4>2
      <4>4. ends[w[i]].out = ends[w[i + 1]].in /\ ends[w[i]].out \in rings
        <5>1. i \in 1..(m - 1) /\ w[i] = wish.chain[i] /\ w[i + 1] = wish.chain[i + 1]
          BY <1>17, <4>1
        <5> QED BY <1>1, <4>1, <5>1 DEF ChainJoined, m
      <4> QED BY <1>16, <4>1, <4>3, <4>4
    <3> QED BY <3>1, <3>2
  <2>3. ASSUME NEW i \in 1..(n - 1) PROVE ends'[w[i]].out = ends'[w[i + 1]].in /\ ends'[w[i]].out \in rings'
    <3>1. CASE ends'[w[i]].out = ring /\ ends'[w[i + 1]].in = ring
      BY <1>3, <3>1
    <3>2. CASE /\ ends'[w[i]].out = ends[w[i]].out /\ ends'[w[i + 1]].in = ends[w[i + 1]].in
               /\ ends[w[i]].out = ends[w[i + 1]].in /\ ends[w[i]].out \in rings
      BY <1>3, <3>2
    <3> QED BY <2>2, <3>1, <3>2
  <2>4. ASSUME NEW i \in 1..(n - 1), NEW j \in 1..(n - 1), ends'[w[i]].out = ends'[w[j]].out PROVE i = j
    <3>1. ring \notin rings
      BY <1>1, <1>2
    <3>2. (i = n - 1 <=> ends'[w[i]].out = ring) /\ (j = n - 1 <=> ends'[w[j]].out = ring)
      <4>1. \/ i = n - 1 /\ ends'[w[i]].out = ring
            \/ i \in 1..(n - 2) /\ ends'[w[i]].out = ends[w[i]].out /\ ends[w[i]].out \in rings
        BY <2>2
      <4>2. \/ j = n - 1 /\ ends'[w[j]].out = ring
            \/ j \in 1..(n - 2) /\ ends'[w[j]].out = ends[w[j]].out /\ ends[w[j]].out \in rings
        BY <2>2
      <4>3. n \in Nat
        BY <1>17
      <4> HIDE DEF n
      <4>4. (i \in 1..(n - 2) => i # n - 1) /\ (j \in 1..(n - 2) => j # n - 1)
        BY <4>3
      <4> QED BY <3>1, <4>1, <4>2, <4>4
    <3>3. CASE i # n - 1 /\ j # n - 1
      <4>1. i \in 1..(n - 2) /\ j \in 1..(n - 2) /\ line.linked /\ ends[w[i]].out = ends[w[j]].out
        BY <2>2, <2>4, <3>3
      <4>2. i \in 1..(m - 1) /\ w[i] = wish.chain[i] /\ j \in 1..(m - 1) /\ w[j] = wish.chain[j]
        BY <1>17, <4>1
      <4> QED BY <1>1, <4>1, <4>2 DEF ChainJoined, m
    <3> QED BY <2>4, <3>2, <3>3
  <2> HIDE DEF n
  <2> QED
    BY <1>13, <1>15, <1>17, <2>3, <2>4 DEF ChainJoined, n
<1>20. OnlyChain'
  <2> SUFFICES ASSUME wish.clean PROVE LinkedEls(t) = Range(w)
    BY <1>13, <1>15 DEF OnlyChain
  <2>1. LinkedEls(t) = LinkedEls(line.items) \cup LinkedEls(b)
    BY <1>8 DEF LinkedEls
  <2>2. LinkedEls(b) = Range(more)
    <3>1. DOMAIN b = 1..Len(more) /\ DOMAIN more = 1..Len(more)
      BY <1>6
    <3> QED BY <1>6, <3>1 DEF LinkedEls, Range
  <2>3. CASE ~line.linked
    <3>1. more = w
      BY <1>4, <1>14, <2>3
    <3>2. LinkedEls(line.items) = {}
      BY <1>1, <2>3 DEF OnlyChain, NoneLinked, LinkedEls, Range
    <3> QED BY <2>1, <2>2, <3>1, <3>2
  <2>4. CASE line.linked
    <3>1. more = <<next>>
      BY <1>4, <2>4
    <3>2. Range(more) = {next}
      BY <3>1 DEF Range
    <3> QED BY <1>1, <1>17, <2>1, <2>2, <2>4, <3>2 DEF OnlyChain
  <2> QED BY <2>3, <2>4
<1>21. RingsOwned'
  <2>1. ring \notin rings
    BY <1>1, <1>2
  <2>2. ring \notin Range(line.rbs) /\ ring \notin wish.lost
    BY <1>1, <2>1 DEF RingsOwned
  <2>3. IsInjective(rbs)
    <3>1. DOMAIN rbs = 1..(Len(line.rbs) + 1) /\ DOMAIN line.rbs = 1..Len(line.rbs) /\ Len(line.rbs) \in Nat
      BY <1>1, <1>10, SMTT(30)
    <3>2. \A i \in DOMAIN line.rbs : rbs[i] = line.rbs[i] /\ rbs[i] # ring
      BY <1>10, <2>2, <3>1 DEF Range
    <3>3. rbs[Len(line.rbs) + 1] = ring
      BY <1>10, <3>1
    <3>4. ASSUME NEW i \in DOMAIN rbs, NEW j \in DOMAIN rbs, rbs[i] = rbs[j] PROVE i = j
      <4>1. CASE i \in DOMAIN line.rbs /\ j \in DOMAIN line.rbs
        BY <1>1, <3>2, <3>4, <4>1 DEF RingsOwned, IsInjective
      <4>2. CASE ~(i \in DOMAIN line.rbs /\ j \in DOMAIN line.rbs)
        BY <3>1, <3>2, <3>3, <3>4, <4>2
      <4> QED BY <4>1, <4>2
    <3> QED BY <3>4 DEF IsInjective
  <2> QED
    BY <1>1, <1>3, <1>10, <1>13, <1>15, <2>2, <2>3 DEF RingsOwned
<1>22. Heard'
  <2>1. Els(line.items) \subseteq Els(t)
    BY <1>8 DEF Els
  <2> QED
    BY <1>1, <1>3, <1>13, <1>15, <2>1 DEF Heard
<1> QED
  BY <1>18, <1>19, <1>20, <1>21, <1>22 DEF LinkInv

LEMMA LinkStep == LinkInv /\ [LinkNext]_links => LinkInv'
<1>1. ASSUME LinkInv, UNCHANGED links PROVE LinkInv'
  BY <1>1 DEF links, LinkInv, LinkTyped, ChainJoined, OnlyChain, RingsOwned, Heard, Bounded
<1>2. ASSUME LinkInv, NEW e \in Elements, Register(e) \/ Unregister(e) PROVE LinkInv'
  BY <1>2, RegisterInv, UnregisterInv
<1>3. ASSUME LinkInv, NEW c \in Chains, RegisterMore(c) \/ UnregisterMore(c) \/ Link(c) \/ LinkMore(c) PROVE LinkInv'
  BY <1>3, RegisterMoreInv, UnregisterMoreInv, LinkCallInv, LinkMoreInv
<1>4. ASSUME LinkInv, NEW e \in Elements, NEW next \in Elements, LinkInsert(e, next) PROVE LinkInv'
  BY <1>4, LinkInsertInv
<1> QED
  BY <1>1, <1>2, <1>3, <1>4, SetListenerInv, RemoveListenerInv, UnlinkInv, DeinitInv DEF LinkNext

LEMMA LinkInitInv == LinkInit => LinkInv
<1> SUFFICES ASSUME LinkInit PROVE LinkInv
  OBVIOUS
<1>1. PICK els \in {<<>>, SetToSeq(Elements)} :
        /\ line = [NewLine EXCEPT !.items = Items(els, FALSE)]
        /\ ends = [e \in Elements |-> [in |-> 0, out |-> 0, tag |-> els # <<>>]]
  BY DEF LinkInit
<1>2. SetToSeq(Elements) \in Seq(Elements)
  <2> DEFINE n == Cardinality(Elements)
  <2>1. n \in Nat
    BY ElementsAssumption, FS_CardinalityType
  <2>2. \E f : ExistsBijection(1..n, Elements)
    BY ElementsAssumption, FS_CardinalityType
  <2>3. PICK f \in [1..n -> Elements] : \A a, b \in 1..n : f[a] = f[b] => a = b
    BY <2>2 DEF ExistsBijection, Bijection, Injection, IsInjective
  <2>4. \E g \in [1..n -> Elements] : IsInjective(g)
    BY <2>3 DEF IsInjective
  <2>5. SetToSeq(Elements) \in [1..n -> Elements]
    BY <2>4 DEF SetToSeq
  <2> HIDE DEF n
  <2> QED BY <2>1, <2>5
<1>3. els \in Seq(Elements)
  <2>1. <<>> \in Seq(Elements)
    OBVIOUS
  <2> QED BY <1>1, <1>2, <2>1
<1>4. PICK its : its = Items(els, FALSE)
  OBVIOUS
<1>5. its \in Seq(ItemSet) /\ Len(its) = Len(els) /\ \A i \in 1..Len(els) : its[i] = [el |-> els[i], linked |-> FALSE]
  BY <1>3, <1>4, ItemsIs
<1>6. line = [items |-> its, rbs |-> <<>>, linked |-> FALSE, listener |-> FALSE]
  BY <1>1, <1>4 DEF NewLine
<1>7. line \in LineSet
  <2>1. <<>> \in Seq(Nat)
    OBVIOUS
  <2> QED BY <1>5, <1>6, <2>1 DEF LineSet
<1>8. PICK tag \in BOOLEAN : tag = (els # <<>>)
  OBVIOUS
<1>9. ends \in [Elements -> [in : Nat, out : Nat, tag : BOOLEAN]]
  <2>1. ends = [e \in Elements |-> [in |-> 0, out |-> 0, tag |-> tag]]
    BY <1>1, <1>8
  <2> QED BY <2>1
<1>10. listens = [els |-> {}, twice |-> FALSE] /\ rings = {}
  BY DEF LinkInit
<1>11. wish = [chain |-> <<>>, clean |-> TRUE, strays |-> {}, lost |-> {}, calls |-> 0]
  BY DEF LinkInit
<1>12. wish \in WishSet /\ listens \in ListenSet
  <2>1. <<>> \in Seq(Elements)
    OBVIOUS
  <2> QED BY <1>10, <1>11, <2>1 DEF WishSet, ListenSet
<1>13. Bounded(rings)
  <2>1. 0 \in Nat /\ \A r \in rings : r <= 0
    BY <1>10
  <2> QED BY <2>1 DEF Bounded
<1>14. LinkTyped
  BY <1>7, <1>9, <1>10, <1>12, <1>13 DEF LinkTyped
<1>15. ChainJoined
  BY <1>6, <1>11 DEF ChainJoined, IsInjective
<1>16. OnlyChain
  <2>1. DOMAIN its = 1..Len(els)
    BY <1>5
  <2> QED BY <1>5, <1>6, <2>1 DEF OnlyChain, NoneLinked
<1>17. RingsOwned
  BY <1>6, <1>10, <1>11 DEF RingsOwned, IsInjective, Range
<1>18. Heard
  BY <1>10 DEF Heard
<1> QED
  BY <1>14, <1>15, <1>16, <1>17, <1>18 DEF LinkInv
-----------------------------------------------------------------------------
(***************************************************************************)
(* The parts together: a step of Streams is a step of one of them, and     *)
(* leaves the others alone.                                                *)
(***************************************************************************)

LEMMA PartsBegin == Init => TransportInv /\ FileInv /\ CodecInv /\ I2sInv /\ PcmInv /\ StreamInv /\ LinkInv
<1>1. Init => TransportInit /\ FileInit /\ CodecInit /\ I2sInit /\ PcmInit /\ StreamInit /\ LinkInit
  BY DEF Init
<1> QED
  BY <1>1, TransportInitInv, FileInitInv, CodecInitInv, I2sInitInv, PcmInitInv, StreamInitInv, LinkInitInv
LEMMA PartsStep ==
  [Next]_vars => /\ [TransportNext]_trans /\ [FileNext]_files /\ [CodecNext]_codecs /\ [I2sNext]_i2ss /\ [PcmNext]_pcm
                 /\ [StreamNext]_stream /\ [LinkNext]_links
<1> SUFFICES ASSUME [Next]_vars
             PROVE  /\ [TransportNext]_trans /\ [FileNext]_files /\ [CodecNext]_codecs /\ [I2sNext]_i2ss /\ [PcmNext]_pcm
                    /\ [StreamNext]_stream /\ [LinkNext]_links
  OBVIOUS
<1>1. CASE UNCHANGED vars
  BY <1>1 DEF vars, https
<1>2. CASE Next
  <2>1. \/ StreamNext /\ HttpOnly
        \/ HttpOnly /\ UNCHANGED stream
        \/ TransportNext /\ UNCHANGED <<stream, files, i2ss, codecs, links, pcm>>
        \/ FileNext /\ UNCHANGED <<stream, trans, i2ss, codecs, links, pcm>>
        \/ I2sNext /\ UNCHANGED <<stream, trans, files, codecs, links, pcm>>
        \/ CodecNext /\ UNCHANGED <<stream, trans, files, i2ss, links, pcm>>
        \/ PcmNext /\ UNCHANGED <<stream, trans, files, i2ss, codecs, links>>
        \/ LinkNext /\ UNCHANGED <<stream, trans, files, i2ss, codecs, pcm>>
    BY <1>2 DEF Next, https
  <2> QED
    BY <2>1 DEF HttpOnly
<1> QED
  BY <1>1, <1>2

\* However calls fail, hosts change and clients come and go, a client holds the one socket it talks through, closes
\* none of another task, and no read gives up on what has come (transport_tcp.c, transport_ssl.c, esp_http_client.c).
THEOREM TransportAlwaysKept == Spec => []TransportKept
<1>1. Init => TransportInv
  BY PartsBegin
<1>2. TransportInv /\ [Next]_vars => TransportInv'
  BY PartsStep, TransportStep
<1> QED
  BY <1>1, <1>2, TransportInvKept, PTL DEF Spec

\* However often it is paused, a file is played from its first unit to its last, and a recording that was closed is
\* what was recorded, under the header of its format (fatfs_stream.c).
THEOREM FileAlwaysKept == Spec => []FileKept
<1>1. Init => FileInv
  BY PartsBegin
<1>2. FileInv /\ [Next]_vars => FileInv'
  BY PartsStep, FileStep
<1> QED
  BY <1>1, <1>2, FileInvKept, PTL DEF Spec

\* Music passes a codec, the buffers of the port and the conversion of a buffer whole and in its order (wav_decoder.c,
\* wav_encoder.c, filter_resample.c, i2s_stream.c).
THEOREM AlwaysPlayedOut == Spec => []PlayedOut
<1> DEFINE Inv == CodecInv /\ I2sInv /\ PcmInv
<1>1. Init => Inv
  BY PartsBegin
<1>2. Inv /\ [Next]_vars => Inv'
  BY PartsStep, CodecStep, I2sStep, PcmStep
<1>3. Inv => PlayedOut
  BY CodecInvOrder, I2sInvPlayed, PcmInvPairs DEF PlayedOut
<1> QED
  BY <1>1, <1>2, <1>3, PTL DEF Spec

\* However often a playlist is fetched again and goes on, no track is played twice, but for one that was dropped from
\* the list and came again (http_stream.c).
THEOREM PlaysOnlyOnce == Spec => []PlaysOnce
<1>1. Init => StreamInv
  BY PartsBegin
<1>2. StreamInv /\ [Next]_vars => StreamInv'
  BY PartsStep, StreamStep
<1> QED
  BY <1>1, <1>2, StreamInvOnce, PTL DEF Spec

\* However a pipeline is put together and taken apart, its elements are joined two and two by rings of their own, no
\* ring is lost or freed twice, and no queue is left with a listener (audio_pipeline.c).
THEOREM LinkAlwaysKept == Spec => []LinkKept
<1>1. Init => LinkInv
  BY PartsBegin
<1>2. LinkInv /\ [Next]_vars => LinkInv'
  BY PartsStep, LinkStep
<1> QED
  BY <1>1, <1>2, LinkInvKept, PTL DEF Spec
=============================================================================
