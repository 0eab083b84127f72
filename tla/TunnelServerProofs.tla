-------------------------- MODULE TunnelServerProofs --------------------------
(***************************************************************************)
(* Proofs about TunnelServer and SessionTunnel, for any relays, any number *)
(* of connections and any length of answer.  Connections do not interact   *)
(* except through a crash, so the invariant is a predicate on one          *)
(* connection: every step turns a sound connection into a sound one.  The  *)
(* client in front of the relays is shown to be one of their clients.      *)
(***************************************************************************)
EXTENDS SessionTunnel, TLAPS

\* Events a socket may still emit: a live one its error and its close.
Left(socket) == IF socket \in Live \cup {"failing"} THEN 2
                ELSE IF socket = "closing" THEN 1 ELSE 0

Shut(socket) == IF socket = "closed" THEN 1 ELSE 0

Counted(k) == /\ k.flushed <= k.piped
              /\ k.piped <= k.produced
              /\ k.produced <= MaxChunks

\* closeBoth was called for events that were emitted, and destroyed both.
Closing(k) ==
  /\ k.closes > 0 => k.client \notin Live /\ k.target \notin Live
  /\ k.closes + Left(k.client) + Left(k.target) <= 4
  /\ k.closes >= Shut(k.client) + Shut(k.target)

\* Without a failure a socket goes away only when the answer was read.
Clean(k) ==
  /\ k.target = "open" \/ k.fin => k.opened
  /\ ~k.aborted =>
       /\ k.client # "failing" /\ k.target # "failing"
       /\ k.client \in {"closing", "closed"} => k.target \in {"ended", "closing", "closed"}
       /\ k.target \in {"ended", "closing", "closed"} =>
            k.opened /\ k.fin /\ k.piped = k.produced

\* A connection without a tunnel has no target.
Apart(k) == /\ k.stage \in {"idle", "refused"} => k.target = "none"
            /\ k.stage = "idle" =>
                 k.client = "none" /\ k.closes = 0 /\ ~k.opened /\ ~k.fin /\ ~k.aborted
            /\ k.stage = "tunnel" => k.client # "none" /\ k.target # "none"
            /\ k.stage = "refused" =>
                 k.client \in {"open", "closed"} /\ ~k.opened

Admission(k) == k.target # "none" => k.inTime /\ k.at = Issuer

Sound(k) == /\ Counted(k)
            /\ k.stage = "tunnel" => Closing(k) /\ Clean(k)
            /\ Apart(k)
            /\ Admission(k)

Inv == TypeOK /\ \A c \in Conns : Sound(conn[c])
-----------------------------------------------------------------------------
(* Steps of one connection.                                                *)

LEMMA SetStep ==
  ASSUME Inv, NEW c \in Conns, NEW k \in Conn, Sound(k), Set(c, k)
  PROVE  Inv'
<1>1. /\ conn' \in [Conns -> Conn]
      /\ \A d \in Conns : Sound(conn'[d])
  BY DEF Inv, TypeOK, Set
<1>2. \A d \in Conns : /\ conn'[d].flushed <= conn'[d].piped
                       /\ conn'[d].piped <= conn'[d].produced
                       /\ conn'[d].produced <= MaxChunks
  BY <1>1 DEF Sound, Counted
<1>3. current' \in Relays
  BY DEF Inv, TypeOK, Set
<1>4. expired' \in BOOLEAN
  BY Zenon DEF Inv, TypeOK, Set
<1>5. TypeOK'
  BY <1>1, <1>2, <1>3, <1>4 DEF TypeOK
<1>6. \A d \in Conns : Sound(conn[d])'
  BY <1>1 DEF Sound, Counted, Closing, Clean, Apart, Admission
<1> QED BY <1>5, <1>6 DEF Inv

LEMMA InitSound == Init => Inv
<1> SUFFICES ASSUME Init PROVE Inv
  OBVIOUS
<1>1. \A c \in Conns : conn[c] \in Conn
  BY IssuerAssumption DEF Init, Conn, Sockets, Live
<1>2. \A c \in Conns : Sound(conn[c])
  BY MaxChunksAssumption DEF Init, Sound, Counted, Apart, Admission
<1>3. conn \in [Conns -> Conn]
  BY <1>1 DEF Init
<1>4. current \in Relays /\ expired \in BOOLEAN
  BY IssuerAssumption DEF Init
<1> QED BY <1>2, <1>3, <1>4 DEF Inv, TypeOK, Sound, Counted

LEMMA ConnectStep ==
  ASSUME Inv, NEW c \in Conns, NEW r \in Relays, NEW target, NEW header,
         Connect(c, r, target, header)
  PROVE  Inv'
<1>1. /\ conn[c] \in Conn /\ conn[c].stage = "idle" /\ Sound(conn[c])
  BY DEF Inv, TypeOK, Connect
<1>2. CASE Admitted(r, target, header)
  <2> DEFINE k == [conn[c] EXCEPT !.stage = "tunnel", !.at = r, !.client = "open",
                                  !.target = "dialing", !.inTime = ~expired]
  <2>1. ~expired /\ r = Issuer
    BY <1>2 DEF Admitted, Verified
  <2>2. /\ k.stage = "tunnel" /\ k.at = r /\ k.client = "open" /\ k.target = "dialing"
        /\ k.inTime = ~expired
        /\ k.closes = conn[c].closes /\ k.opened = conn[c].opened /\ k.fin = conn[c].fin
        /\ k.produced = conn[c].produced /\ k.piped = conn[c].piped
        /\ k.flushed = conn[c].flushed /\ k.aborted = conn[c].aborted
    BY <1>1 DEF Conn
  <2>3. k \in Conn
    BY <1>1 DEF Conn, Sockets, Live
  <2>4. Set(c, k)
    BY <1>2 DEF Connect
  <2> HIDE DEF k
  <2>5. k.closes = 0 /\ ~k.opened /\ ~k.fin /\ ~k.aborted
    BY <1>1, <2>2 DEF Sound, Apart
  <2>6. Counted(k) /\ Closing(k)
    BY <1>1, <2>2, <2>5 DEF Sound, Counted, Closing, Left, Shut, Live
  <2>7. Clean(k) /\ Apart(k)
    BY <2>2, <2>5 DEF Clean, Apart
  <2>8. Admission(k)
    BY <2>1, <2>2 DEF Admission
  <2>9. Sound(k)
    BY <2>6, <2>7, <2>8 DEF Sound
  <2> QED BY <2>3, <2>4, <2>9, SetStep
<1>3. CASE ~Admitted(r, target, header)
  <2> DEFINE k == [conn[c] EXCEPT !.stage = "refused", !.at = r, !.client = "open"]
  <2>1. /\ k.stage = "refused" /\ k.client = "open" /\ k.target = conn[c].target
        /\ k.opened = conn[c].opened
        /\ k.produced = conn[c].produced /\ k.piped = conn[c].piped
        /\ k.flushed = conn[c].flushed
    BY <1>1 DEF Conn
  <2>2. k \in Conn
    BY <1>1 DEF Conn, Sockets, Live
  <2>3. Set(c, k)
    BY <1>3 DEF Connect
  <2> HIDE DEF k
  <2>4. Sound(k)
    BY <1>1, <2>1 DEF Sound, Counted, Apart, Admission
  <2> QED BY <2>2, <2>3, <2>4, SetStep
<1> QED BY <1>2, <1>3

\* Whoever emits an event: closeBoth counts it and destroys both sockets.
LEMMA EventStep ==
  ASSUME Inv, NEW c \in Conns, conn[c].stage = "tunnel",
         NEW client \in Sockets, NEW target \in Sockets,
         \/ /\ target = conn[c].target
            /\ \/ conn[c].client = "failing" /\ client = "closing"
               \/ conn[c].client = "closing" /\ client = "closed"
         \/ /\ client = conn[c].client
            /\ \/ conn[c].target = "failing" /\ target = "closing"
               \/ conn[c].target = "closing" /\ target = "closed",
         Set(c, CloseBoth([conn[c] EXCEPT !.client = client, !.target = target]))
  PROVE  Inv'
<1> DEFINE j == [conn[c] EXCEPT !.client = client, !.target = target]
           k == CloseBoth(j)
<1>1. /\ conn[c] \in Conn /\ Sound(conn[c])
      /\ Destroyed(client) \in Sockets /\ Destroyed(target) \in Sockets
  BY DEF Inv, TypeOK, Destroyed, Sockets, Live
<1>2. /\ j \in Conn /\ j.client = client /\ j.target = target
      /\ j.closes = conn[c].closes
      /\ j.stage = conn[c].stage /\ j.at = conn[c].at
      /\ j.opened = conn[c].opened /\ j.fin = conn[c].fin /\ j.aborted = conn[c].aborted
      /\ j.inTime = conn[c].inTime
      /\ j.produced = conn[c].produced /\ j.piped = conn[c].piped
      /\ j.flushed = conn[c].flushed
  BY <1>1 DEF Conn
<1>3. Set(c, k)
  OBVIOUS
<1> HIDE DEF j
<1>4. /\ k.client = Destroyed(client) /\ k.target = Destroyed(target)
      /\ k.closes = conn[c].closes + 1
      /\ k.stage = conn[c].stage /\ k.at = conn[c].at
      /\ k.opened = conn[c].opened /\ k.fin = conn[c].fin /\ k.aborted = conn[c].aborted
      /\ k.inTime = conn[c].inTime
      /\ k.produced = conn[c].produced /\ k.piped = conn[c].piped
      /\ k.flushed = conn[c].flushed
  BY <1>2 DEF Conn, CloseBoth
<1>5. k \in Conn
  <2>1. j.closes + 1 \in Nat /\ Destroyed(j.client) \in Sockets /\ Destroyed(j.target) \in Sockets
    BY <1>1, <1>2 DEF Conn
  <2> QED BY <1>2, <2>1 DEF Conn, CloseBoth
<1> HIDE DEF k
<1>6. Counted(k) /\ Admission(k)
  <2>1. conn[c].target # "none"
    BY <1>1 DEF Sound, Apart
  <2>2. Counted(k)
    BY <1>1, <1>4 DEF Sound, Counted
  <2>3. Admission(k)
    BY <1>1, <1>4, <2>1 DEF Sound, Admission
  <2> QED BY <2>2, <2>3
<1>7. Closing(k)
  BY <1>1, <1>4 DEF Sound, Closing, Conn, Left, Shut, Destroyed, Live, Sockets
<1>8. Clean(k)
  BY <1>1, <1>4 DEF Sound, Clean, Destroyed, Live
<1>9. Apart(k)
  BY <1>1, <1>4 DEF Sound, Apart, Destroyed
<1> QED BY <1>3, <1>5, <1>6, <1>7, <1>8, <1>9, SetStep DEF Sound

\* The events are emitted in any order between the two sockets.
LEMMA EventsStep ==
  ASSUME Inv, NEW c \in Conns,
         ClientError(c) \/ ClientClose(c) \/ TargetError(c) \/ TargetClose(c)
  PROVE  Inv'
<1>1. conn[c] \in Conn
  BY DEF Inv, TypeOK
<1>2. conn[c].client \in Sockets /\ conn[c].target \in Sockets
  BY <1>1 DEF Conn
<1>3. "closing" \in Sockets /\ "closed" \in Sockets
  BY DEF Sockets
<1>4. CASE ClientError(c)
  <2>1. [conn[c] EXCEPT !.client = "closing"] =
          [conn[c] EXCEPT !.client = "closing", !.target = conn[c].target]
    BY <1>1 DEF Conn
  <2>2. /\ conn[c].client = "failing" /\ conn[c].stage = "tunnel"
        /\ Set(c, CloseBoth([conn[c] EXCEPT !.client = "closing"]))
    BY <1>4 DEF ClientError
  <2> QED BY <1>2, <1>3, <2>1, <2>2, EventStep
<1>5. CASE ClientClose(c)
  <2>1. [conn[c] EXCEPT !.client = "closed"] =
          [conn[c] EXCEPT !.client = "closed", !.target = conn[c].target]
    BY <1>1 DEF Conn
  <2>2. /\ conn[c].client = "closing" /\ conn[c].stage = "tunnel"
        /\ Set(c, CloseBoth([conn[c] EXCEPT !.client = "closed"]))
    BY <1>5 DEF ClientClose
  <2> QED BY <1>2, <1>3, <2>1, <2>2, EventStep
<1>6. CASE TargetError(c)
  <2>1. [conn[c] EXCEPT !.target = "closing"] =
          [conn[c] EXCEPT !.client = conn[c].client, !.target = "closing"]
    BY <1>1 DEF Conn
  <2>2. /\ conn[c].target = "failing" /\ conn[c].stage = "tunnel"
        /\ Set(c, CloseBoth([conn[c] EXCEPT !.target = "closing"]))
    BY <1>6 DEF TargetError
  <2> QED BY <1>2, <1>3, <2>1, <2>2, EventStep
<1>7. CASE TargetClose(c)
  <2>1. [conn[c] EXCEPT !.target = "closed"] =
          [conn[c] EXCEPT !.client = conn[c].client, !.target = "closed"]
    BY <1>1 DEF Conn
  <2>2. /\ conn[c].target = "closing" /\ conn[c].stage = "tunnel"
        /\ Set(c, CloseBoth([conn[c] EXCEPT !.target = "closed"]))
    BY <1>7 DEF TargetClose
  <2> QED BY <1>2, <1>3, <2>1, <2>2, EventStep
<1> QED BY <1>4, <1>5, <1>6, <1>7

\* The target answers the dial.
LEMMA DialedStep ==
  ASSUME Inv, NEW c \in Conns, Dialed(c)
  PROVE  Inv'
<1> DEFINE k == [conn[c] EXCEPT !.target = "open", !.opened = TRUE]
<1>1. conn[c] \in Conn /\ Sound(conn[c]) /\ conn[c].target = "dialing"
  BY DEF Inv, TypeOK, Dialed
<1>2. /\ k.target = "open" /\ k.opened
      /\ k.stage = conn[c].stage /\ k.at = conn[c].at
      /\ k.client = conn[c].client /\ k.closes = conn[c].closes
      /\ k.produced = conn[c].produced /\ k.piped = conn[c].piped
      /\ k.flushed = conn[c].flushed /\ k.fin = conn[c].fin
      /\ k.aborted = conn[c].aborted /\ k.inTime = conn[c].inTime
  BY <1>1 DEF Conn
<1>3. k \in Conn
  BY <1>1 DEF Conn, Sockets, Live
<1>4. Set(c, k)
  BY DEF Dialed
<1> HIDE DEF k
<1>5. Counted(k) /\ Admission(k)
  <2>1. Counted(k)
    BY <1>1, <1>2 DEF Sound, Counted, Conn
  <2>2. Admission(k)
    BY <1>1, <1>2 DEF Sound, Apart, Admission, Live
  <2> QED BY <2>1, <2>2
<1>6. Apart(k)
  BY <1>1, <1>2 DEF Sound, Apart, Live
<1>7. k.stage = "tunnel" => Closing(k)
  BY <1>1, <1>2 DEF Sound, Apart, Closing, Left, Shut, Live, Conn
<1>8. k.stage = "tunnel" => Clean(k)
  BY <1>1, <1>2 DEF Sound, Apart, Clean, Live
<1> QED BY <1>3, <1>4, <1>5, <1>6, <1>7, <1>8, SetStep DEF Sound

\* A chunk arrives.
LEMMA TargetSendsStep ==
  ASSUME Inv, NEW c \in Conns, TargetSends(c)
  PROVE  Inv'
<1> DEFINE k == [conn[c] EXCEPT !.produced = @ + 1]
<1>1. conn[c] \in Conn /\ Sound(conn[c]) /\ conn[c].target = "open" /\ conn[c].produced < MaxChunks
  BY DEF Inv, TypeOK, TargetSends
<1>2. /\ k.produced = conn[c].produced + 1 /\ k.stage = conn[c].stage
      /\ k.at = conn[c].at /\ k.client = conn[c].client
      /\ k.target = conn[c].target /\ k.opened = conn[c].opened
      /\ k.closes = conn[c].closes /\ k.piped = conn[c].piped
      /\ k.flushed = conn[c].flushed /\ k.fin = conn[c].fin
      /\ k.aborted = conn[c].aborted /\ k.inTime = conn[c].inTime
  BY <1>1 DEF Conn
<1>3. k \in Conn
  BY <1>1 DEF Conn, Sockets, Live
<1>4. Set(c, k)
  BY DEF TargetSends
<1> HIDE DEF k
<1>5. Counted(k) /\ Admission(k)
  <2>1. Counted(k)
    BY <1>1, <1>2, MaxChunksAssumption DEF Sound, Counted, Conn
  <2>2. Admission(k)
    BY <1>1, <1>2 DEF Sound, Apart, Admission, Live
  <2> QED BY <2>1, <2>2
<1>6. Apart(k)
  BY <1>1, <1>2 DEF Sound, Apart, Live
<1>7. k.stage = "tunnel" => Closing(k)
  BY <1>1, <1>2 DEF Sound, Apart, Closing, Left, Shut, Live, Conn
<1>8. k.stage = "tunnel" => Clean(k)
  BY <1>1, <1>2 DEF Sound, Apart, Clean, Live
<1> QED BY <1>3, <1>4, <1>5, <1>6, <1>7, <1>8, SetStep DEF Sound

\* It was the last one.
LEMMA TargetFinsStep ==
  ASSUME Inv, NEW c \in Conns, TargetFins(c)
  PROVE  Inv'
<1> DEFINE k == [conn[c] EXCEPT !.fin = TRUE]
<1>1. conn[c] \in Conn /\ Sound(conn[c]) /\ conn[c].target = "open"
  BY DEF Inv, TypeOK, TargetFins
<1>2. /\ k.fin /\ k.stage = conn[c].stage
      /\ k.at = conn[c].at /\ k.client = conn[c].client
      /\ k.target = conn[c].target /\ k.opened = conn[c].opened
      /\ k.closes = conn[c].closes /\ k.produced = conn[c].produced
      /\ k.piped = conn[c].piped /\ k.flushed = conn[c].flushed
      /\ k.aborted = conn[c].aborted /\ k.inTime = conn[c].inTime
  BY <1>1 DEF Conn
<1>3. k \in Conn
  BY <1>1 DEF Conn, Sockets, Live
<1>4. Set(c, k)
  BY DEF TargetFins
<1> HIDE DEF k
<1>5. Counted(k) /\ Admission(k)
  <2>1. Counted(k)
    BY <1>1, <1>2 DEF Sound, Counted, Conn
  <2>2. Admission(k)
    BY <1>1, <1>2 DEF Sound, Apart, Admission, Live
  <2> QED BY <2>1, <2>2
<1>6. Apart(k)
  BY <1>1, <1>2 DEF Sound, Apart, Live
<1>7. k.stage = "tunnel" => Closing(k)
  BY <1>1, <1>2 DEF Sound, Apart, Closing, Left, Shut, Live, Conn
<1>8. k.stage = "tunnel" => Clean(k)
  BY <1>1, <1>2 DEF Sound, Apart, Clean, Live
<1> QED BY <1>3, <1>4, <1>5, <1>6, <1>7, <1>8, SetStep DEF Sound

\* A chunk is written to the client.
LEMMA PipeStep ==
  ASSUME Inv, NEW c \in Conns, Pipe(c)
  PROVE  Inv'
<1> DEFINE k == [conn[c] EXCEPT !.piped = @ + 1]
<1>1. conn[c] \in Conn /\ Sound(conn[c]) /\ conn[c].target = "open" /\ conn[c].piped < conn[c].produced
  BY DEF Inv, TypeOK, Pipe
<1>2. /\ k.piped = conn[c].piped + 1 /\ k.stage = conn[c].stage
      /\ k.at = conn[c].at /\ k.client = conn[c].client
      /\ k.target = conn[c].target /\ k.opened = conn[c].opened
      /\ k.closes = conn[c].closes /\ k.produced = conn[c].produced
      /\ k.flushed = conn[c].flushed /\ k.fin = conn[c].fin
      /\ k.aborted = conn[c].aborted /\ k.inTime = conn[c].inTime
  BY <1>1 DEF Conn
<1>3. k \in Conn
  BY <1>1 DEF Conn, Sockets, Live
<1>4. Set(c, k)
  BY DEF Pipe
<1> HIDE DEF k
<1>5. Counted(k) /\ Admission(k)
  <2>1. Counted(k)
    BY <1>1, <1>2 DEF Sound, Counted, Conn
  <2>2. Admission(k)
    BY <1>1, <1>2 DEF Sound, Apart, Admission, Live
  <2> QED BY <2>1, <2>2
<1>6. Apart(k)
  BY <1>1, <1>2 DEF Sound, Apart, Live
<1>7. k.stage = "tunnel" => Closing(k)
  BY <1>1, <1>2 DEF Sound, Apart, Closing, Left, Shut, Live, Conn
<1>8. k.stage = "tunnel" => Clean(k)
  BY <1>1, <1>2 DEF Sound, Apart, Clean, Live
<1> QED BY <1>3, <1>4, <1>5, <1>6, <1>7, <1>8, SetStep DEF Sound

\* A chunk is sent.
LEMMA FlushStep ==
  ASSUME Inv, NEW c \in Conns, Flush(c)
  PROVE  Inv'
<1> DEFINE k == [conn[c] EXCEPT !.flushed = @ + 1]
<1>1. conn[c] \in Conn /\ Sound(conn[c]) /\ conn[c].client \in Live /\ conn[c].flushed < conn[c].piped
  BY DEF Inv, TypeOK, Flush
<1>2. /\ k.flushed = conn[c].flushed + 1 /\ k.stage = conn[c].stage
      /\ k.at = conn[c].at /\ k.client = conn[c].client
      /\ k.target = conn[c].target /\ k.opened = conn[c].opened
      /\ k.closes = conn[c].closes /\ k.produced = conn[c].produced
      /\ k.piped = conn[c].piped /\ k.fin = conn[c].fin
      /\ k.aborted = conn[c].aborted /\ k.inTime = conn[c].inTime
  BY <1>1 DEF Conn
<1>3. k \in Conn
  BY <1>1 DEF Conn, Sockets, Live
<1>4. Set(c, k)
  BY DEF Flush
<1> HIDE DEF k
<1>5. Counted(k) /\ Admission(k)
  <2>1. Counted(k)
    BY <1>1, <1>2 DEF Sound, Counted, Conn
  <2>2. Admission(k)
    BY <1>1, <1>2 DEF Sound, Apart, Admission, Live
  <2> QED BY <2>1, <2>2
<1>6. Apart(k)
  BY <1>1, <1>2 DEF Sound, Apart, Live
<1>7. k.stage = "tunnel" => Closing(k)
  BY <1>1, <1>2 DEF Sound, Apart, Closing, Left, Shut, Live, Conn
<1>8. k.stage = "tunnel" => Clean(k)
  BY <1>1, <1>2 DEF Sound, Apart, Clean, Live
<1> QED BY <1>3, <1>4, <1>5, <1>6, <1>7, <1>8, SetStep DEF Sound

\* The answer is read to its end.
LEMMA TargetEndsStep ==
  ASSUME Inv, NEW c \in Conns, TargetEnds(c)
  PROVE  Inv'
<1> DEFINE k == [conn[c] EXCEPT !.target = "ended"]
<1>1. conn[c] \in Conn /\ Sound(conn[c]) /\ conn[c].target = "open" /\ conn[c].fin /\ conn[c].piped = conn[c].produced
  BY DEF Inv, TypeOK, TargetEnds
<1>2. /\ k.target = "ended" /\ k.stage = conn[c].stage
      /\ k.at = conn[c].at /\ k.client = conn[c].client
      /\ k.opened = conn[c].opened /\ k.closes = conn[c].closes
      /\ k.produced = conn[c].produced /\ k.piped = conn[c].piped
      /\ k.flushed = conn[c].flushed /\ k.fin = conn[c].fin
      /\ k.aborted = conn[c].aborted /\ k.inTime = conn[c].inTime
  BY <1>1 DEF Conn
<1>3. k \in Conn
  BY <1>1 DEF Conn, Sockets, Live
<1>4. Set(c, k)
  BY DEF TargetEnds
<1> HIDE DEF k
<1>5. Counted(k) /\ Admission(k)
  <2>1. Counted(k)
    BY <1>1, <1>2 DEF Sound, Counted, Conn
  <2>2. Admission(k)
    BY <1>1, <1>2 DEF Sound, Apart, Admission, Live
  <2> QED BY <2>1, <2>2
<1>6. Apart(k)
  BY <1>1, <1>2 DEF Sound, Apart, Live
<1>7. k.stage = "tunnel" => Closing(k)
  BY <1>1, <1>2 DEF Sound, Apart, Closing, Left, Shut, Live, Conn
<1>8. k.stage = "tunnel" => Clean(k)
  BY <1>1, <1>2 DEF Sound, Apart, Clean, Live
<1> QED BY <1>3, <1>4, <1>5, <1>6, <1>7, <1>8, SetStep DEF Sound

\* The ended target goes away.
LEMMA TargetFinishesStep ==
  ASSUME Inv, NEW c \in Conns, TargetFinishes(c)
  PROVE  Inv'
<1> DEFINE k == [conn[c] EXCEPT !.target = "closing"]
<1>1. conn[c] \in Conn /\ Sound(conn[c]) /\ conn[c].target = "ended"
  BY DEF Inv, TypeOK, TargetFinishes
<1>2. /\ k.target = "closing" /\ k.stage = conn[c].stage
      /\ k.at = conn[c].at /\ k.client = conn[c].client
      /\ k.opened = conn[c].opened /\ k.closes = conn[c].closes
      /\ k.produced = conn[c].produced /\ k.piped = conn[c].piped
      /\ k.flushed = conn[c].flushed /\ k.fin = conn[c].fin
      /\ k.aborted = conn[c].aborted /\ k.inTime = conn[c].inTime
  BY <1>1 DEF Conn
<1>3. k \in Conn
  BY <1>1 DEF Conn, Sockets, Live
<1>4. Set(c, k)
  BY DEF TargetFinishes
<1> HIDE DEF k
<1>5. Counted(k) /\ Admission(k)
  <2>1. Counted(k)
    BY <1>1, <1>2 DEF Sound, Counted, Conn
  <2>2. Admission(k)
    BY <1>1, <1>2 DEF Sound, Apart, Admission, Live
  <2> QED BY <2>1, <2>2
<1>6. Apart(k)
  BY <1>1, <1>2 DEF Sound, Apart, Live
<1>7. k.stage = "tunnel" => Closing(k)
  BY <1>1, <1>2 DEF Sound, Apart, Closing, Left, Shut, Live, Conn
<1>8. k.stage = "tunnel" => Clean(k)
  BY <1>1, <1>2 DEF Sound, Apart, Clean, Live
<1> QED BY <1>3, <1>4, <1>5, <1>6, <1>7, <1>8, SetStep DEF Sound

\* The client has nothing more to say.
LEMMA ClientEndsStep ==
  ASSUME Inv, NEW c \in Conns, ClientEnds(c)
  PROVE  Inv'
<1> DEFINE k == [conn[c] EXCEPT !.client = "ended"]
<1>1. conn[c] \in Conn /\ Sound(conn[c]) /\ conn[c].client = "open" /\ conn[c].opened
  BY DEF Inv, TypeOK, ClientEnds
<1>2. /\ k.client = "ended" /\ k.stage = conn[c].stage
      /\ k.at = conn[c].at /\ k.target = conn[c].target
      /\ k.opened = conn[c].opened /\ k.closes = conn[c].closes
      /\ k.produced = conn[c].produced /\ k.piped = conn[c].piped
      /\ k.flushed = conn[c].flushed /\ k.fin = conn[c].fin
      /\ k.aborted = conn[c].aborted /\ k.inTime = conn[c].inTime
  BY <1>1 DEF Conn
<1>3. k \in Conn
  BY <1>1 DEF Conn, Sockets, Live
<1>4. Set(c, k)
  BY DEF ClientEnds
<1> HIDE DEF k
<1>5. Counted(k) /\ Admission(k)
  <2>1. Counted(k)
    BY <1>1, <1>2 DEF Sound, Counted, Conn
  <2>2. Admission(k)
    BY <1>1, <1>2 DEF Sound, Apart, Admission, Live
  <2> QED BY <2>1, <2>2
<1>6. Apart(k)
  BY <1>1, <1>2 DEF Sound, Apart, Live
<1>7. k.stage = "tunnel" => Closing(k)
  BY <1>1, <1>2 DEF Sound, Apart, Closing, Left, Shut, Live, Conn
<1>8. k.stage = "tunnel" => Clean(k)
  BY <1>1, <1>2 DEF Sound, Apart, Clean, Live
<1> QED BY <1>3, <1>4, <1>5, <1>6, <1>7, <1>8, SetStep DEF Sound

\* The ended client goes away.
LEMMA ClientFinishesStep ==
  ASSUME Inv, NEW c \in Conns, ClientFinishes(c)
  PROVE  Inv'
<1> DEFINE k == [conn[c] EXCEPT !.client = "closing"]
<1>1. conn[c] \in Conn /\ Sound(conn[c]) /\ conn[c].client = "ended" /\ conn[c].target \in {"ended", "closing"}
  BY DEF Inv, TypeOK, ClientFinishes
<1>2. /\ k.client = "closing" /\ k.stage = conn[c].stage
      /\ k.at = conn[c].at /\ k.target = conn[c].target
      /\ k.opened = conn[c].opened /\ k.closes = conn[c].closes
      /\ k.produced = conn[c].produced /\ k.piped = conn[c].piped
      /\ k.flushed = conn[c].flushed /\ k.fin = conn[c].fin
      /\ k.aborted = conn[c].aborted /\ k.inTime = conn[c].inTime
  BY <1>1 DEF Conn
<1>3. k \in Conn
  BY <1>1 DEF Conn, Sockets, Live
<1>4. Set(c, k)
  BY DEF ClientFinishes
<1> HIDE DEF k
<1>5. Counted(k) /\ Admission(k)
  <2>1. Counted(k)
    BY <1>1, <1>2 DEF Sound, Counted, Conn
  <2>2. Admission(k)
    BY <1>1, <1>2 DEF Sound, Apart, Admission, Live
  <2> QED BY <2>1, <2>2
<1>6. Apart(k)
  BY <1>1, <1>2 DEF Sound, Apart, Live
<1>7. k.stage = "tunnel" => Closing(k)
  BY <1>1, <1>2 DEF Sound, Apart, Closing, Left, Shut, Live, Conn
<1>8. k.stage = "tunnel" => Clean(k)
  BY <1>1, <1>2 DEF Sound, Apart, Clean, Live
<1> QED BY <1>3, <1>4, <1>5, <1>6, <1>7, <1>8, SetStep DEF Sound

\* The target is reset or unreachable.
LEMMA TargetFailsStep ==
  ASSUME Inv, NEW c \in Conns, TargetFails(c)
  PROVE  Inv'
<1> DEFINE k == [conn[c] EXCEPT !.target = "failing", !.aborted = TRUE]
<1>1. conn[c] \in Conn /\ Sound(conn[c]) /\ conn[c].target \in Live
  BY DEF Inv, TypeOK, TargetFails
<1>2. /\ k.target = "failing" /\ k.aborted
      /\ k.stage = conn[c].stage /\ k.at = conn[c].at
      /\ k.client = conn[c].client /\ k.opened = conn[c].opened
      /\ k.closes = conn[c].closes /\ k.produced = conn[c].produced
      /\ k.piped = conn[c].piped /\ k.flushed = conn[c].flushed
      /\ k.fin = conn[c].fin /\ k.inTime = conn[c].inTime
  BY <1>1 DEF Conn
<1>3. k \in Conn
  BY <1>1 DEF Conn, Sockets, Live
<1>4. Set(c, k)
  BY DEF TargetFails
<1> HIDE DEF k
<1>5. Counted(k) /\ Admission(k)
  <2>1. Counted(k)
    BY <1>1, <1>2 DEF Sound, Counted, Conn
  <2>2. Admission(k)
    BY <1>1, <1>2 DEF Sound, Apart, Admission, Live
  <2> QED BY <2>1, <2>2
<1>6. Apart(k)
  BY <1>1, <1>2 DEF Sound, Apart, Live
<1>7. k.stage = "tunnel" => Closing(k)
  BY <1>1, <1>2 DEF Sound, Apart, Closing, Left, Shut, Live, Conn
<1>8. k.stage = "tunnel" => Clean(k)
  BY <1>1, <1>2 DEF Sound, Apart, Clean, Live
<1> QED BY <1>3, <1>4, <1>5, <1>6, <1>7, <1>8, SetStep DEF Sound

\* A refused client leaves.
LEMMA RefusedClosesStep ==
  ASSUME Inv, NEW c \in Conns, RefusedCloses(c)
  PROVE  Inv'
<1> DEFINE k == [conn[c] EXCEPT !.client = "closed"]
<1>1. conn[c] \in Conn /\ Sound(conn[c]) /\ conn[c].stage = "refused"
  BY DEF Inv, TypeOK, RefusedCloses
<1>2. /\ k.client = "closed" /\ k.stage = conn[c].stage
      /\ k.at = conn[c].at /\ k.target = conn[c].target
      /\ k.opened = conn[c].opened /\ k.closes = conn[c].closes
      /\ k.produced = conn[c].produced /\ k.piped = conn[c].piped
      /\ k.flushed = conn[c].flushed /\ k.fin = conn[c].fin
      /\ k.aborted = conn[c].aborted /\ k.inTime = conn[c].inTime
  BY <1>1 DEF Conn
<1>3. k \in Conn
  BY <1>1 DEF Conn, Sockets, Live
<1>4. Set(c, k)
  BY DEF RefusedCloses
<1> HIDE DEF k
<1>5. Counted(k) /\ Admission(k)
  <2>1. Counted(k)
    BY <1>1, <1>2 DEF Sound, Counted, Conn
  <2>2. Admission(k)
    BY <1>1, <1>2 DEF Sound, Apart, Admission, Live
  <2> QED BY <2>1, <2>2
<1>6. Apart(k)
  BY <1>1, <1>2 DEF Sound, Apart, Live
<1>7. k.stage = "tunnel" => Closing(k)
  BY <1>1, <1>2 DEF Sound, Apart, Closing, Left, Shut, Live, Conn
<1>8. k.stage = "tunnel" => Clean(k)
  BY <1>1, <1>2 DEF Sound, Apart, Clean, Live
<1> QED BY <1>3, <1>4, <1>5, <1>6, <1>7, <1>8, SetStep DEF Sound

\* The process of a relay ends, and its connections with it.
LEMMA CrashStep ==
  ASSUME Inv, NEW r, conn' = CrashedAt(r), UNCHANGED <<current, expired>>
  PROVE  Inv'
<1>1. ASSUME NEW d \in Conns
      PROVE  conn'[d] \in Conn /\ Sound(conn'[d])
  <2> DEFINE k == [conn[d] EXCEPT !.stage = "crashed"]
  <2>1. conn[d] \in Conn /\ Sound(conn[d])
    BY DEF Inv, TypeOK
  <2>2. /\ k \in Conn /\ k.stage = "crashed" /\ k.at = conn[d].at
        /\ k.target = conn[d].target /\ k.inTime = conn[d].inTime
        /\ k.produced = conn[d].produced /\ k.piped = conn[d].piped
        /\ k.flushed = conn[d].flushed
    BY <2>1 DEF Conn
  <2>3. conn'[d] \in {k, conn[d]}
    BY DEF CrashedAt
  <2> HIDE DEF k
  <2>4. Counted(k) /\ Apart(k)
    BY <2>1, <2>2 DEF Sound, Counted, Apart
  <2>5. Admission(k)
    BY <2>1, <2>2 DEF Sound, Admission
  <2> QED BY <2>1, <2>2, <2>3, <2>4, <2>5 DEF Sound
<1>2. conn' \in [Conns -> Conn]
  BY <1>1 DEF CrashedAt
<1>3. current' \in Relays
  BY DEF Inv, TypeOK
<1>4. expired' \in BOOLEAN
  BY Zenon DEF Inv, TypeOK
<1>5. TypeOK'
  BY <1>1, <1>2, <1>3, <1>4 DEF TypeOK, Sound, Counted
<1> QED BY <1>1, <1>5 DEF Inv, Sound, Counted, Closing, Clean, Apart, Admission

\* The client is reset: its tunnel fails, or the process ends.
LEMMA ClientFailsStep ==
  ASSUME Inv, NEW c \in Conns, ClientFails(c)
  PROVE  Inv'
<1>1. CASE conn[c].stage = "refused"
  BY <1>1, CrashStep DEF ClientFails
<1>2. CASE conn[c].stage # "refused"
  <2> DEFINE k == [conn[c] EXCEPT !.client = "failing", !.aborted = TRUE]
  <2>1. /\ conn[c] \in Conn /\ Sound(conn[c]) /\ conn[c].client \in Live
        /\ conn[c].stage # "refused"
    BY <1>2 DEF Inv, TypeOK, ClientFails
  <2>2. /\ k.client = "failing" /\ k.aborted /\ k.stage = conn[c].stage /\ k.at = conn[c].at
        /\ k.target = conn[c].target /\ k.opened = conn[c].opened
        /\ k.closes = conn[c].closes /\ k.produced = conn[c].produced
        /\ k.piped = conn[c].piped /\ k.flushed = conn[c].flushed
        /\ k.fin = conn[c].fin /\ k.inTime = conn[c].inTime
    BY <2>1 DEF Conn
  <2>3. k \in Conn
    BY <2>1 DEF Conn, Sockets, Live
  <2>4. conn' = [conn EXCEPT ![c] = k]
    BY <1>2 DEF ClientFails, Inv, TypeOK
  <2>5. Set(c, k)
    BY <2>4, Zenon DEF Set, ClientFails
  <2> HIDE DEF k
  <2>6. Counted(k) /\ Admission(k)
    <3>1. Counted(k)
      BY <2>1, <2>2 DEF Sound, Counted
    <3>2. Admission(k)
      BY <2>1, <2>2 DEF Sound, Admission
    <3> QED BY <3>1, <3>2
  <2>7. Apart(k)
    BY <2>1, <2>2 DEF Sound, Apart, Live
  <2>8. k.stage = "tunnel" => Closing(k)
    BY <2>1, <2>2 DEF Sound, Apart, Closing, Left, Shut, Live, Conn
  <2>9. k.stage = "tunnel" => Clean(k)
    BY <2>1, <2>2 DEF Sound, Clean, Live
  <2> QED BY <2>3, <2>5, <2>6, <2>7, <2>8, <2>9, SetStep DEF Sound
<1> QED BY <1>1, <1>2

\* The session goes on without the relays.
LEMMA SessionStep ==
  ASSUME Inv, current' \in Relays, expired' \in BOOLEAN, UNCHANGED conn
  PROVE  Inv'
<1>1. TypeOK'
  BY DEF Inv, TypeOK
<1>2. \A c \in Conns : Sound(conn[c])'
  BY DEF Inv, Sound, Counted, Closing, Clean, Apart, Admission
<1> QED BY <1>1, <1>2 DEF Inv
-----------------------------------------------------------------------------
(* No step leaves the invariant.                                           *)
LEMMA Step == Inv /\ [Next]_vars => Inv'
<1> SUFFICES ASSUME Inv, [Next]_vars PROVE Inv'
  OBVIOUS
<1>1. CASE (\E r \in Relays : Failover(r)) \/ Expire \/ UNCHANGED vars
  <2>1. current' \in Relays
    BY <1>1 DEF Failover, Expire, vars, Inv, TypeOK
  <2>2. expired' \in BOOLEAN
    BY <1>1, Zenon DEF Failover, Expire, vars, Inv, TypeOK
  <2>3. UNCHANGED conn
    BY <1>1 DEF Failover, Expire, vars
  <2> QED BY <2>1, <2>2, <2>3, SessionStep
<1>2. CASE \E c \in Conns, r \in Relays, target \in {"host:port", "malformed"},
              header \in {"missing", "forged", "token"} : Connect(c, r, target, header)
  BY <1>2, ConnectStep
<1>3. ASSUME NEW c \in Conns, Loop(c) PROVE Inv'
  BY <1>3, EventsStep, PipeStep, FlushStep, TargetEndsStep, TargetFinishesStep,
     ClientFinishesStep DEF Loop
<1>4. ASSUME NEW c \in Conns, Peers(c) PROVE Inv'
  BY <1>4, DialedStep, TargetSendsStep, TargetFinsStep, ClientEndsStep, TargetFailsStep,
     ClientFailsStep, RefusedClosesStep DEF Peers
<1>5. ASSUME NEW r \in Relays, StrangerFails(r) PROVE Inv'
  BY <1>5, CrashStep DEF StrangerFails
<1> QED BY <1>1, <1>2, <1>3, <1>4, <1>5 DEF Next

LEMMA Invariance == Spec => []Inv
<1>1. Init => Inv
  BY InitSound
<1>2. Inv /\ [Next]_vars => Inv'
  BY Step
<1> QED BY <1>1, <1>2, PTL DEF Spec

(* Types hold, and a tunnel never forwards a chunk it did not receive.      *)
THEOREM TypeCorrect == Spec => []TypeOK
<1>1. Inv => TypeOK
  BY DEF Inv
<1> QED BY <1>1, Invariance, PTL

(* closeBoth answers at most one error and one close of each socket, and    *)
(* what closes without a failure has read the whole answer.  It holds for   *)
(* any length of answer because a socket can close by itself only after the *)
(* target's end was read (Clean), and counts because every event uses up    *)
(* one of those a socket has left (Closing).                                *)
THEOREM OpensThenClosesHolds == Spec => []OpensThenCloses
<1>1. Inv => OpensThenCloses
  <2> SUFFICES ASSUME Inv, NEW c \in Conns, conn[c].stage = "tunnel"
               PROVE  /\ conn[c].closes > 0 => conn[c].client \notin Live /\ conn[c].target \notin Live
                      /\ conn[c].closes + Due(conn[c].client) + Due(conn[c].target) <= 4
                      /\ conn[c].client = "closed" /\ conn[c].target = "closed" => conn[c].closes >= 2
                      /\ ~conn[c].aborted /\ conn[c].closes > 0 =>
                           conn[c].opened /\ conn[c].fin /\ conn[c].piped = conn[c].produced
    BY DEF OpensThenCloses
  <2>1. /\ conn[c] \in Conn /\ Closing(conn[c]) /\ Clean(conn[c])
        /\ conn[c].client # "none" /\ conn[c].target # "none"
    BY DEF Inv, TypeOK, Sound, Apart
  <2>2. /\ Due(conn[c].client) \in Nat /\ Due(conn[c].client) <= Left(conn[c].client)
        /\ Due(conn[c].target) \in Nat /\ Due(conn[c].target) <= Left(conn[c].target)
    BY <2>1 DEF Due, Left, Live, Conn, Sockets
  <2>3. /\ Left(conn[c].client) \in Nat /\ Left(conn[c].target) \in Nat
        /\ conn[c].closes \in Nat
    BY <2>1 DEF Left, Conn
  <2>4. conn[c].closes + Due(conn[c].client) + Due(conn[c].target) <= 4
    BY <2>1, <2>2, <2>3 DEF Closing
  <2>5. conn[c].client = "closed" /\ conn[c].target = "closed" => conn[c].closes >= 2
    BY <2>1, <2>3 DEF Closing, Shut
  <2>6. conn[c].closes > 0 => conn[c].client \notin Live /\ conn[c].target \notin Live
    BY <2>1 DEF Closing
  <2>7. ~conn[c].aborted /\ conn[c].closes > 0 =>
          conn[c].target \in {"ended", "closing", "closed"}
    BY <2>1, <2>6 DEF Clean, Live, Conn, Sockets
  <2>8. ~conn[c].aborted /\ conn[c].closes > 0 =>
          conn[c].opened /\ conn[c].fin /\ conn[c].piped = conn[c].produced
    BY <2>1, <2>7 DEF Clean
  <2> QED BY <2>4, <2>5, <2>6, <2>8
<1> QED BY <1>1, Invariance, PTL

(* Tunnels run on the relay the token names only, however often the session *)
(* fails over: the other relays refuse it, on the new one as on any other.  *)
THEOREM AdmittedByTokenHolds == Spec => []AdmittedByToken
<1>1. Inv => AdmittedByToken
  BY DEF Inv, Sound, Admission, AdmittedByToken
<1> QED BY <1>1, Invariance, PTL
-----------------------------------------------------------------------------
(* The client's bridge in front of the relays.                             *)

\* What a step of the client does to the relays.
LEMMA BridgeSteps ==
  ASSUME NEW c \in Conns,
         \/ Accept(c) \/ BrowserEnds(c) \/ RelayUnreachable(c) \/ Released(c) \/ Callback(c)
  PROVE  UNCHANGED vars
BY DEF Accept, BrowserEnds, RelayUnreachable, Released, Callback, ReadRequest, AnswerIs200,
       AnswerIsOther, Refused, Answered, PumpUp, PumpDown, PumpEnds, Becomes

ServerOK == server.host \in Relays /\ server.token \in {"forged", "token"}

LEMMA ServerStaysOK == ServerOK /\ [TunnelNext]_allvars => ServerOK'
<1> SUFFICES ASSUME ServerOK, [TunnelNext]_allvars PROVE ServerOK'
  OBVIOUS
<1>1. CASE UNCHANGED server
  BY <1>1 DEF ServerOK
<1>2. ASSUME NEW r \in Relays, NEW token \in {"forged", "token"}, ServerStarts(r, token)
      PROVE  ServerOK'
  BY <1>2 DEF ServerStarts, ServerOK
<1>3. CASE ServerDropped \/ AppQuits
  <2>1. server' = [server EXCEPT !.state = "dropped"]
    BY <1>3 DEF ServerDropped, AppQuits
  <2>2. server'.host = server.host /\ server'.token = server.token
    BY <2>1
  <2> QED BY <2>2 DEF ServerOK
<1>4. ASSUME NEW c \in Conns,
             \/ Accept(c) \/ BrowserEnds(c) \/ RelayUnreachable(c) \/ Released(c)
             \/ \E target \in {"host:port", "malformed"} : Reaches(c, target)
             \/ Callback(c)
      PROVE  UNCHANGED server
  BY <1>4 DEF Accept, BrowserEnds, RelayUnreachable, Released, Callback, ReadRequest, Reaches,
       AnswerIs200, AnswerIsOther, Refused, Answered, PumpUp, PumpDown, PumpEnds, Becomes,
       SetBridge
<1> QED BY <1>1, <1>2, <1>3, <1>4 DEF TunnelNext, allvars

\* A step of the composition is a step of the relays, or none.
LEMMA StepMaps == ServerOK /\ [TunnelNext]_allvars => [Next]_vars
<1> SUFFICES ASSUME ServerOK, [TunnelNext]_allvars PROVE [Next]_vars
  OBVIOUS
<1>1. CASE RelayStep
  BY <1>1 DEF RelayStep, Next, Peers
<1>2. CASE (\E r \in Relays, token \in {"forged", "token"} : ServerStarts(r, token))
           \/ ServerDropped \/ AppQuits \/ UNCHANGED allvars
  BY <1>2 DEF ServerStarts, ServerDropped, AppQuits, allvars
<1>3. ASSUME NEW c \in Conns,
             \/ Accept(c) \/ BrowserEnds(c) \/ RelayUnreachable(c) \/ Released(c) \/ Callback(c)
      PROVE  UNCHANGED vars
  BY <1>3, BridgeSteps
<1>4. ASSUME NEW c \in Conns, NEW target \in {"host:port", "malformed"}, Reaches(c, target)
      PROVE  Next
  BY <1>4 DEF Reaches, ServerOK, Next
<1> QED BY <1>1, <1>2, <1>3, <1>4 DEF TunnelNext

(* Whatever the bridge of the client does, disconnects and quits included, *)
(* the relays see a history of TunnelServer: what is proved of the server  *)
(* holds of it with this client.                                           *)
THEOREM ClientIsAClient == TunnelSpec => Spec
<1>1. TunnelInit => Init /\ ServerOK
  BY IssuerAssumption DEF TunnelInit, ServerOK
<1> QED BY <1>1, ServerStaysOK, StepMaps, PTL DEF TunnelSpec, Spec

(* Also behind the client's bridge a tunnel opens before it closes.        *)
THEOREM ClosesThroughClient == TunnelSpec => []OpensThenCloses
BY ClientIsAClient, OpensThenClosesHolds, PTL

(* Whatever link the application follows, its token opens tunnels only on  *)
(* the relay the token names.                                              *)
THEOREM AdmittedThroughClient == TunnelSpec => []AdmittedByToken
BY ClientIsAClient, AdmittedByTokenHolds, PTL

\* Only a dropped server leaves a pump that is not asked for again.
Quiet(b) ==
  /\ b.after > 0 => /\ b.after = 1 /\ "down" \notin b.pumps
                    /\ b.stage \in {"piping", "closed"} /\ server.state = "dropped"
  /\ b.stage # "idle" => server.state \in {"running", "dropped"}
  /\ b.stage # "piping" => b.pumps = {}

BridgeInv == BridgeOK /\ \A c \in Conns : Quiet(bridge[c])

LEMMA SetBridgeStep ==
  ASSUME BridgeInv, NEW c \in Conns, NEW b \in Bridge, Quiet(b), SetBridge(c, b)
  PROVE  BridgeInv'
<1>1. /\ bridge' \in [Conns -> Bridge] /\ UNCHANGED server
      /\ \A d \in Conns : Quiet(bridge'[d])
  BY DEF BridgeInv, BridgeOK, SetBridge
<1>2. \A d \in Conns : Quiet(bridge[d])'
  BY <1>1 DEF Quiet
<1> QED BY <1>1, <1>2 DEF BridgeInv, BridgeOK

\* A callback that pumps nothing, or takes the first chunks with the 200.
LEMMA BecomesStep ==
  ASSUME BridgeInv, NEW c \in Conns, NEW stage, NEW down \in Nat,
         bridge[c].stage \in {"idle", "reading", "dialing", "waiting", "refusing", "answering",
                             "dropped", "piping"},
         stage \in {"reading", "dialing", "waiting", "answering", "refusing", "piping",
                   "dropped", "closed"},
         bridge[c].stage = "idle" => server.state = "running",
         bridge[c].stage = "piping" => stage = "closed" /\ bridge[c].pumps = {},
         SetBridge(c, [bridge[c] EXCEPT !.stage = stage, !.down = down])
  PROVE  BridgeInv'
<1> DEFINE b == [bridge[c] EXCEPT !.stage = stage, !.down = down]
<1>1. bridge[c] \in Bridge /\ Quiet(bridge[c])
  BY DEF BridgeInv, BridgeOK
<1>2. /\ b.stage = stage /\ b.pumps = bridge[c].pumps /\ b.after = bridge[c].after
      /\ b \in Bridge
  BY <1>1 DEF Bridge
<1>3. SetBridge(c, b)
  OBVIOUS
<1> HIDE DEF b
<1>4. bridge[c].after \in Nat
  BY <1>1 DEF Bridge
<1>5. Quiet(b)
  BY <1>1, <1>2, <1>4 DEF Quiet
<1> QED BY <1>2, <1>3, <1>5, SetBridgeStep

\* As BecomesStep, with the chunks left alone.
LEMMA StageStep ==
  ASSUME BridgeInv, NEW c \in Conns, NEW stage,
         bridge[c].stage \in {"idle", "reading", "dialing", "waiting", "refusing", "answering",
                             "dropped", "piping"},
         stage \in {"reading", "dialing", "waiting", "answering", "refusing", "piping",
                   "dropped", "closed"},
         bridge[c].stage = "idle" => server.state = "running",
         bridge[c].stage = "piping" => stage = "closed" /\ bridge[c].pumps = {},
         SetBridge(c, [bridge[c] EXCEPT !.stage = stage])
  PROVE  BridgeInv'
<1>1. bridge[c] \in Bridge
  BY DEF BridgeInv, BridgeOK
<1>2. bridge[c].down \in Nat
      /\ [bridge[c] EXCEPT !.stage = stage]
           = [bridge[c] EXCEPT !.stage = stage, !.down = bridge[c].down]
  BY <1>1 DEF Bridge
<1> QED BY <1>2, BecomesStep

LEMMA BrowserEndsStep ==
  ASSUME BridgeInv, NEW c \in Conns, BrowserEnds(c)
  PROVE  BridgeInv'
<1> DEFINE b == [bridge[c] EXCEPT !.browser = "ended"]
<1>1. bridge[c] \in Bridge /\ Quiet(bridge[c])
  BY DEF BridgeInv, BridgeOK
<1>2. /\ b.stage = bridge[c].stage /\ b.pumps = bridge[c].pumps
      /\ b.after = bridge[c].after /\ b \in Bridge
  BY <1>1 DEF Bridge
<1>3. SetBridge(c, b)
  BY DEF BrowserEnds
<1> HIDE DEF b
<1>4. Quiet(b)
  BY <1>1, <1>2 DEF Quiet
<1> QED BY <1>2, <1>3, <1>4, SetBridgeStep

\* The pumps are started once.
LEMMA AnsweredStep ==
  ASSUME BridgeInv, NEW c \in Conns, Answered(c)
  PROVE  BridgeInv'
<1> DEFINE b == [bridge[c] EXCEPT !.stage = "piping", !.pumps = {"up", "down"}]
<1>1. bridge[c] \in Bridge /\ Quiet(bridge[c]) /\ bridge[c].stage = "answering"
  BY DEF BridgeInv, BridgeOK, Answered
<1>2. /\ b.stage = "piping" /\ b.after = bridge[c].after /\ b \in Bridge
  BY <1>1 DEF Bridge
<1>3. SetBridge(c, b)
  BY DEF Answered
<1> HIDE DEF b
<1>4. Quiet(b)
  BY <1>1, <1>2 DEF Quiet
<1> QED BY <1>2, <1>3, <1>4, SetBridgeStep

\* A pump that took a chunk without a server is not asked for again.
LEMMA PumpStep ==
  ASSUME BridgeInv, NEW c \in Conns, PumpUp(c) \/ PumpDown(c)
  PROVE  BridgeInv'
<1> DEFINE u == [bridge[c] EXCEPT !.pumps = Rearmed(c, "up")]
           d == [bridge[c] EXCEPT !.down = @ + 1, !.pumps = Rearmed(c, "down"),
                                  !.after = IF Running THEN @ ELSE @ + 1]
<1>1. /\ bridge[c] \in Bridge /\ Quiet(bridge[c])
      /\ bridge[c].pumps \subseteq {"up", "down"}
      /\ bridge[c].down \in Nat /\ bridge[c].after \in Nat
  BY DEF BridgeInv, BridgeOK, Bridge
<1>2. bridge[c].stage = "piping"
  BY <1>1 DEF Quiet, PumpUp, PumpDown
<1>3. CASE PumpUp(c)
  <2>1. /\ u.stage = "piping" /\ u.after = bridge[c].after /\ u.pumps \subseteq bridge[c].pumps
        /\ u \in Bridge
    BY <1>1, <1>2 DEF Bridge, Rearmed
  <2>2. SetBridge(c, u)
    BY <1>3 DEF PumpUp
  <2> HIDE DEF u
  <2>3. Quiet(u)
    BY <1>1, <1>2, <2>1 DEF Quiet
  <2> QED BY <2>1, <2>2, <2>3, SetBridgeStep
<1>4. CASE PumpDown(c)
  <2>1. "down" \in bridge[c].pumps /\ bridge[c].after = 0
    BY <1>1, <1>4 DEF Quiet, PumpDown
  <2>2. /\ d.stage = "piping" /\ d.pumps = Rearmed(c, "down") /\ d \in Bridge
        /\ d.after = IF Running THEN 0 ELSE 1
    <3> DEFINE n == IF Running THEN bridge[c].after ELSE bridge[c].after + 1
               p == Rearmed(c, "down")
    <3>1. n \in Nat /\ n = IF Running THEN 0 ELSE 1
      BY <1>1, <2>1
    <3>2. p \in SUBSET {"up", "down"}
      BY <1>1 DEF Rearmed
    <3> HIDE DEF n, p
    <3>3. /\ d.stage = bridge[c].stage /\ d.pumps = p /\ d.after = n /\ d \in Bridge
      <4>1. d = [bridge[c] EXCEPT !.down = bridge[c].down + 1, !.pumps = p, !.after = n]
        BY Zenon DEF n, p
      <4> HIDE DEF d
      <4>2. bridge[c].down + 1 \in Nat
        BY <1>1
      <4>3. d \in Bridge
        BY <1>1, <3>1, <3>2, <4>1, <4>2 DEF Bridge
      <4>4. d.stage = bridge[c].stage /\ d.pumps = p /\ d.after = n
        BY <1>1, <4>1 DEF Bridge
      <4> QED BY <4>3, <4>4
    <3> QED BY <1>2, <3>1, <3>3 DEF p
  <2>3. SetBridge(c, d)
    BY <1>4 DEF PumpDown
  <2> HIDE DEF d
  <2>4. Quiet(d)
    BY <1>1, <1>2, <2>1, <2>2 DEF Quiet, Running, Rearmed
  <2> QED BY <2>2, <2>3, <2>4, SetBridgeStep
<1> QED BY <1>3, <1>4

LEMMA PumpEndsStep ==
  ASSUME BridgeInv, NEW c \in Conns, NEW pump \in {"up", "down"}, PumpEnds(c, pump)
  PROVE  BridgeInv'
<1> DEFINE b == [bridge[c] EXCEPT !.stage = "closed", !.pumps = {}]
<1>1. bridge[c] \in Bridge /\ Quiet(bridge[c])
  BY DEF BridgeInv, BridgeOK
<1>2. /\ b.stage = "closed" /\ b.pumps = {} /\ b.after = bridge[c].after /\ b \in Bridge
  BY <1>1 DEF Bridge
<1>3. SetBridge(c, b)
  BY DEF PumpEnds
<1>4. bridge[c].stage = "piping"
  BY <1>1 DEF Quiet, PumpEnds
<1> HIDE DEF b
<1>5. Quiet(b)
  BY <1>1, <1>2, <1>4 DEF Quiet
<1> QED BY <1>2, <1>3, <1>5, SetBridgeStep

\* Connect, disconnect and quit.
LEMMA ServerStep ==
  ASSUME BridgeInv,
         \/ \E r \in Relays, token \in {"forged", "token"} : ServerStarts(r, token)
         \/ ServerDropped \/ AppQuits
  PROVE  BridgeInv'
<1>1. BridgeOK /\ \A c \in Conns : bridge[c] \in Bridge /\ Quiet(bridge[c])
  BY DEF BridgeInv, BridgeOK
<1>2. ASSUME NEW r \in Relays, NEW token \in {"forged", "token"}, ServerStarts(r, token)
      PROVE  BridgeInv'
  <2>1. /\ server' = [state |-> "running", host |-> r, token |-> token]
        /\ UNCHANGED bridge /\ server.state = "none"
    BY <1>2 DEF ServerStarts
  <2>2. server'.state = "running" /\ BridgeOK'
    BY <1>1, <2>1 DEF BridgeOK
  <2>3. \A c \in Conns : Quiet(bridge[c])'
    BY <1>1, <2>1, <2>2 DEF Quiet
  <2> QED BY <2>2, <2>3 DEF BridgeInv
<1>3. CASE ServerDropped \/ AppQuits
  <2>1. server' = [server EXCEPT !.state = "dropped"]
    BY <1>3 DEF ServerDropped, AppQuits
  <2>2. /\ server'.state = "dropped"
        /\ server' \in [state : {"none", "running", "dropped"}, host : Relays,
                        token : {"forged", "token"}]
    BY <1>1, <2>1 DEF BridgeOK
  <2>3. CASE ServerDropped
    <3>1. UNCHANGED bridge
      BY <2>3 DEF ServerDropped
    <3>2. \A c \in Conns : Quiet(bridge[c])'
      BY <1>1, <2>2, <3>1 DEF Quiet
    <3> QED BY <1>1, <2>2, <3>1, <3>2 DEF BridgeInv, BridgeOK
  <2>4. CASE AppQuits
    <3>1. ASSUME NEW c \in Conns
          PROVE  bridge'[c] \in Bridge /\ Quiet(bridge[c])'
      <4> DEFINE b == [bridge[c] EXCEPT !.stage = "closed", !.pumps = {}]
      <4>1. /\ bridge[c] \in Bridge /\ Quiet(bridge[c]) /\ bridge[c].after \in Nat
        BY <1>1 DEF Bridge
      <4>2. /\ b.stage = "closed" /\ b.pumps = {} /\ b.after = bridge[c].after /\ b \in Bridge
        BY <4>1 DEF Bridge
      <4>3. bridge'[c] = IF bridge[c].stage = "idle" THEN bridge[c] ELSE b
        BY <2>4 DEF AppQuits
      <4> HIDE DEF b
      <4> QED BY <2>2, <4>1, <4>2, <4>3 DEF Quiet
    <3>2. bridge' \in [Conns -> Bridge]
      BY <2>4, <3>1 DEF AppQuits
    <3> QED BY <2>2, <3>1, <3>2 DEF BridgeInv, BridgeOK
  <2> QED BY <1>3, <2>3, <2>4
<1> QED BY <1>2, <1>3

LEMMA BridgeInvInductive == BridgeInv /\ [TunnelNext]_allvars => BridgeInv'
<1> SUFFICES ASSUME BridgeInv, [TunnelNext]_allvars PROVE BridgeInv'
  OBVIOUS
<1>1. CASE (RelayStep /\ UNCHANGED <<server, bridge>>) \/ UNCHANGED allvars
  BY <1>1 DEF BridgeInv, BridgeOK, Quiet, allvars
<1>2. ASSUME NEW c \in Conns, Accept(c) \/ RelayUnreachable(c) \/ Released(c)
      PROVE  BridgeInv'
  BY <1>2, StageStep DEF Accept, RelayUnreachable, Released, Becomes, Running, BridgeInv, Quiet
<1>3. ASSUME NEW c \in Conns, NEW target, Reaches(c, target) PROVE BridgeInv'
  BY <1>3, StageStep DEF Reaches
<1>4. ASSUME NEW c \in Conns, NEW request, ReadRequest(c, request) PROVE BridgeInv'
  <2> DEFINE stage == IF ~Running THEN "dropped"
                      ELSE IF request = "CONNECT" THEN "dialing" ELSE "closed"
  <2>1. bridge[c].stage = "reading" /\ SetBridge(c, [bridge[c] EXCEPT !.stage = stage])
    BY <1>4 DEF ReadRequest, Becomes
  <2>2. stage \in {"dropped", "dialing", "closed"}
    OBVIOUS
  <2> HIDE DEF stage
  <2> QED BY <2>1, <2>2, StageStep
<1>5. ASSUME NEW c \in Conns, NEW chunks \in 0..MaxChunks, AnswerIs200(c, chunks)
      PROVE  BridgeInv'
  <2>0. bridge[c].stage = "waiting" /\ chunks \in Nat
    BY <1>5, MaxChunksAssumption DEF AnswerIs200
  <2>1. CASE Running
    <3>1. SetBridge(c, [bridge[c] EXCEPT !.stage = "answering", !.down = chunks])
      BY <1>5, <2>1, Zenon DEF AnswerIs200
    <3> QED BY <2>0, <3>1, BecomesStep
  <2>2. CASE ~Running
    <3>1. SetBridge(c, [bridge[c] EXCEPT !.stage = "dropped"])
      BY <1>5, <2>2, Zenon DEF AnswerIs200
    <3> QED BY <2>0, <3>1, StageStep
  <2> QED BY <2>1, <2>2
<1>6. ASSUME NEW c \in Conns, AnswerIsOther(c) \/ Refused(c) PROVE BridgeInv'
  BY <1>6, StageStep DEF AnswerIsOther, Refused, Becomes
<1>7. ASSUME NEW c \in Conns, Callback(c) PROVE BridgeInv'
  BY <1>4, <1>5, <1>6, <1>7, AnsweredStep, PumpStep, PumpEndsStep DEF Callback
<1> QED BY <1>1, <1>2, <1>3, <1>7, BrowserEndsStep, ServerStep DEF TunnelNext

(* However connections, disconnects and quits interleave, a pump takes at   *)
(* most one chunk after the server was dropped: by then no other callback   *)
(* can start one (Quiet ties the count to a pump that is not armed).        *)
THEOREM DroppedStaysQuiet == TunnelSpec => []DroppedIsQuiet
<1>1. TunnelInit => BridgeInv
  <2> SUFFICES ASSUME TunnelInit PROVE BridgeInv
    OBVIOUS
  <2>1. \A c \in Conns : bridge[c] \in Bridge /\ Quiet(bridge[c])
    BY DEF TunnelInit, Bridge, Quiet
  <2> QED BY <2>1, IssuerAssumption DEF TunnelInit, BridgeInv, BridgeOK
<1>2. BridgeInv => DroppedIsQuiet
  <2> SUFFICES ASSUME BridgeInv, NEW c \in Conns PROVE bridge[c].after <= 1
    BY DEF DroppedIsQuiet
  <2>1. bridge[c].after \in Nat /\ Quiet(bridge[c])
    BY DEF BridgeInv, BridgeOK, Bridge
  <2> QED BY <2>1 DEF Quiet
<1> QED BY <1>1, <1>2, BridgeInvInductive, PTL DEF TunnelSpec
=============================================================================
